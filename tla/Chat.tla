-------------------------------- MODULE Chat ---------------------------------
(* The chat reducers (materialize/chat.go).                                *)
EXTENDS Materialize

\* The scratch keys decodeChatScratch knows.
ScratchKeys == {"participants"}

\* addChatParticipant
AddParticipant(s, actor) ==
    LET ps == Given(s.scratch, "participants", {}) \cup {actor} IN
    [meta |-> Put(s.meta, "participants", ps),
     coll |-> s.coll,
     scratch |-> Put(s.scratch, "participants", ps)]

PutMessage(s, e) ==
    LET messages == PutItem(s.coll.messages, e) IN
    [meta |-> Put(s.meta, "message_count", Cardinality(DOMAIN messages)),
     coll |-> Put(s.coll, "messages", messages),
     scratch |-> s.scratch]

\* A create with a body is the thread's first message.
Create(s, e) ==
    IF Created(s) THEN s
    ELSE LET t == AddParticipant(
                    [meta |-> [title |-> e.data.title, status |-> "open",
                               created_by |-> e.actor, created_at |-> e.id,
                               updated_at |-> e.id, message_count |-> 0,
                               participants |-> {}],
                     coll |-> [messages |-> <<>>],
                     scratch |-> s.scratch], e.actor)
         IN  IF e.data.body THEN PutMessage(t, e) ELSE t

Post(s, e) ==
    [AddParticipant(PutMessage(s, e), e.actor)
        EXCEPT !.meta = Put(@, "updated_at", e.id)]

\* A status that is neither open nor archived is left out of the update.
EditMeta(s, e) ==
    LET valid == Given(e.data, "status", "") \in {"open", "archived"}
        names == IF valid THEN {"title", "status"} ELSE {"title"} IN
    [s EXCEPT !.meta = Put(Over(Fields(e.data, names), @), "updated_at", e.id)]

Kinds == {"chat.create", "chat.post", "chat.edit_meta"}

\* ChatRegistry
Apply(s, e) ==
    IF e.kind = "chat.create" THEN Create(s, e)
    ELSE IF ~Created(s) THEN s
    ELSE CASE e.kind = "chat.post"      -> Post(s, e)
           [] e.kind = "chat.edit_meta" -> EditMeta(s, e)
           [] OTHER                     -> s

=============================================================================
