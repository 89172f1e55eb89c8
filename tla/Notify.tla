------------------------------- MODULE Notify --------------------------------
(***************************************************************************)
(* The notify reducers (materialize/notify.go) and the unread list         *)
(* (notifyapp/read.go).  The stream has no create event.                   *)
(***************************************************************************)
EXTENDS Materialize

\* The scratch keys decodeNotifyScratch knows.
ScratchKeys == {"acks"}

\* ensureNotifyMeta
Ensure(s) ==
    [meta |-> IF Created(s) THEN s.meta ELSE [seeded |-> TRUE],
     coll |-> Over(s.coll, [posts |-> <<>>]),
     scratch |-> s.scratch]

\* notifyAcks: for each post the sorted list of the actors that acked it
Acks(s) == Given(s.scratch, "acks", <<>>)
AcksOf(s, post) == Given(Acks(s), post, <<>>)

Post(s, e) ==
    LET post == [actor |-> e.actor, targets |-> e.data.targets] IN
    [Ensure(s) EXCEPT !.coll = Put(@, "posts", Put(@.posts, e.id, post))]

\* An ack may come before its post, or without it.
FaultyAck(s, e) ==
    LET t == Ensure(s)
        list == AcksOf(t, e.data.ack_of) IN
    IF e.data.ack_of \notin DOMAIN t.coll.posts THEN t
    ELSE [t EXCEPT !.scratch = Put(@, "acks",
            Put(Acks(t), e.data.ack_of, Ordered(Range(list) \cup {e.actor})))]
Ack(s, e) ==
    LET t == Ensure(s)
        list == AcksOf(t, e.data.ack_of) IN
    IF e.actor \in Range(list) THEN t
    ELSE [t EXCEPT !.scratch = Put(@, "acks",
            Put(Acks(t), e.data.ack_of, Ordered(Range(list) \cup {e.actor})))]

Kinds == {"notify.post", "notify.ack"}

\* NotifyRegistry
Apply(s, e) ==
    CASE e.kind = "notify.post" -> Post(s, e)
      [] e.kind = "notify.ack"  -> Ack(s, e)
      [] OTHER                  -> s

-----------------------------------------------------------------------------

\* A target is a pair: <<"user", actor>>, <<"group", name>> or Everyone.
Everyone == <<"all", 0>>

\* addressedTo: a group target reaches nobody (ListFilter).
AddressedTo(post, actor) == post.targets \cap {Everyone, <<"user", actor>>} # {}

\* Service.List with UnreadOnly
Unread(s, actor) ==
    LET posts == Given(s.coll, "posts", <<>>) IN
    {p \in DOMAIN posts : /\ AddressedTo(posts[p], actor)
                          /\ actor \notin Range(AcksOf(s, p))}

=============================================================================
