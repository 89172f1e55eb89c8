-------------------------------- MODULE Verify --------------------------------
(***************************************************************************)
(* What githive verify says of the commits of a ref (verifyapp, core/sign, *)
(* the reads of materialize/users.go).  A commit is an event with the key  *)
(* that signed it; Append takes the event's actor and the committer from   *)
(* one identity, whose time git keeps in whole seconds.                    *)
(***************************************************************************)
EXTENDS Users, FiniteSetsExt

NoKey == 0        \* an unsigned commit
NoPin == 0        \* githive.trust.root is not set

\* the IDs of a second, and the time a commit of that moment has (formatGitTime)
Second == 3
GitTime(i) == i - (i % Second)

\* materialize.IsAdmin: of the registry as it is now
IsAdmin(s, email) ==
    \E u \in Range(Users(s)) : email \in u.emails /\ "admin" \in u.roles

\* materialize.AllowedSigners and the file BuildAllowedSigners makes of them:
\* revoked keys stay in.
AllowedSigners(s) ==
    UNION {UNION {[email : u.emails, pub : {k.pub}, revoked_at : {k.revoked_at}] :
                    k \in Range(u.keys)} :
             u \in Range(Users(s))}

\* git verify-commit: the principal is that of the first line with the key, and
\* the lines are sorted by email.
Principals(entries, c) == {e.email : e \in {e \in entries : e.pub = c.key}}

\* hasUnrevokedOrTimelyKey: some key of the email, not the one that signed
FaultyTimely(entries, email, time) ==
    \E e \in entries : e.email = email /\ e.revoked_at = Never
Timely(entries, email, time) ==
    \E e \in entries : /\ e.email = email
                       /\ e.revoked_at = Never \/ time < e.revoked_at

\* sign.VerifyCommit
ValidSignature(s, c) ==
    LET entries == AllowedSigners(s) IN
    /\ Principals(entries, c) # {}
    /\ Min(Principals(entries, c)) = c.actor
    /\ Timely(entries, c.actor, GitTime(c.id))

\* verifyapp.VerifyRef: the issues of the commits of a chain, under the state of
\* the registry, which is read after them.
VerifyRef(commits, s, isRegistry, pin) ==
    {<<c.id, "invalid_or_missing_signature">> :
        c \in {c \in Range(commits) : ~ValidSignature(s, c)}}
    \cup
    {<<c.id, "registry_change_without_admin">> :
        c \in {c \in Range(commits) : isRegistry /\ ~IsAdmin(s, c.actor)}}
    \cup
    {<<c.id, "trust_root_mismatch">> :
        c \in {c \in Range(commits) : /\ isRegistry /\ c = commits[1]
                                      /\ pin \notin {NoPin, c.id}}}

=============================================================================
