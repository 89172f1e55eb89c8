-------------------------------- MODULE Users --------------------------------
(***************************************************************************)
(* The reducers of the users registry (materialize/users.go) and what      *)
(* verify and whoami read out of it.  Of a user's fields only the emails   *)
(* and the roles are kept; kind, status and display are overwritten alike. *)
(***************************************************************************)
EXTENDS Materialize

\* The scratch keys decodeUsersScratch knows.
ScratchKeys == {"policy"}

NoPolicy == "none"
Policy(s) == Given(s.scratch, "policy", NoPolicy)

\* ensureUsersCollections
Ensure(s) == [s EXCEPT !.coll = Over(@, [users |-> <<>>, groups |-> <<>>])]

Users(s) == Given(s.coll, "users", <<>>)
Groups(s) == Given(s.coll, "groups", <<>>)

NewUser == [emails |-> {}, roles |-> {}, keys |-> <<>>]

\* users[name] := user, and the keys of a user who is there
SetUser(s, name, user) ==
    [Ensure(s) EXCEPT !.coll = Put(@, "users", Put(@.users, name, user))]
SetKeys(s, name, keys) == SetUser(s, name, Put(Users(s)[name], "keys", keys))

\* keys are managed only via key_add and key_revoke
UserSet(s, e) ==
    LET old == Given(Users(s), e.data.username, NewUser) IN
    SetUser(s, e.data.username,
            Over(Fields(e.data.fields, {"emails", "roles"}), old))

\* A key is added once; for a user never set the event is ignored.
NewKey(e) == [pub |-> e.data.pub, added_at |-> e.id, revoked_at |-> Never]
FaultyKeyAdd(s, e) ==
    IF e.data.username \notin DOMAIN Users(s) THEN Ensure(s)
    ELSE SetKeys(s, e.data.username,
           Append(SelectSeq(Users(s)[e.data.username].keys,
                            LAMBDA k : k.pub # e.data.pub),
                  NewKey(e)))
KeyAdd(s, e) ==
    IF e.data.username \notin DOMAIN Users(s) THEN Ensure(s)
    ELSE LET keys == Users(s)[e.data.username].keys IN
         SetKeys(s, e.data.username,
           IF \E k \in Range(keys) : k.pub = e.data.pub THEN keys
           ELSE Append(keys, NewKey(e)))

\* A revocation is recorded once.
FaultyRevoked(k, e) ==
    IF k.pub = e.data.pub THEN [k EXCEPT !.revoked_at = e.id] ELSE k
Revoked(k, e) ==
    IF k.pub = e.data.pub /\ k.revoked_at = Never
    THEN [k EXCEPT !.revoked_at = e.id] ELSE k
KeyRevoke(s, e) ==
    IF e.data.username \notin DOMAIN Users(s) THEN Ensure(s)
    ELSE LET keys == Users(s)[e.data.username].keys IN
         SetKeys(s, e.data.username,
                 [n \in DOMAIN keys |-> Revoked(keys[n], e)])

GroupSet(s, e) ==
    [Ensure(s) EXCEPT !.coll =
        Put(@, "groups", Put(@.groups, e.data.name, e.data.members))]

GroupRemove(s, e) ==
    [Ensure(s) EXCEPT !.coll =
        Put(@, "groups", [g \in DOMAIN @.groups \ {e.data.name} |-> @.groups[g]])]

PolicySet(s, e) ==
    [Ensure(s) EXCEPT !.scratch = Put(@, "policy", e.data.rules)]

Kinds == {"users.user_set", "users.key_add", "users.key_revoke",
          "users.group_set", "users.group_remove", "users.policy_set"}

\* UsersRegistry
Apply(s, e) ==
    CASE e.kind = "users.user_set"     -> UserSet(s, e)
      [] e.kind = "users.key_add"      -> KeyAdd(s, e)
      [] e.kind = "users.key_revoke"   -> KeyRevoke(s, e)
      [] e.kind = "users.group_set"    -> GroupSet(s, e)
      [] e.kind = "users.group_remove" -> GroupRemove(s, e)
      [] e.kind = "users.policy_set"   -> PolicySet(s, e)
      [] OTHER                         -> s

-----------------------------------------------------------------------------

\* materialize.ActiveKeysForEmail
ActiveKeysForEmail(s, email) ==
    {k.pub : k \in {k \in UNION {Range(u.keys) : u \in
                        {u \in Range(Users(s)) : email \in u.emails}} :
                    k.revoked_at = Never}}

=============================================================================
