-------------------------------- MODULE Task ---------------------------------
(***************************************************************************)
(* The task reducers (materialize/task.go).  Of the scalar fields that an  *)
(* edit overwrites (title, body, due, priority) the title stands for all.  *)
(***************************************************************************)
EXTENDS Materialize

Statuses == {"todo", "doing", "review", "done", "blocked", "cancelled"}

AllowedTransitions ==
    {<<"todo", "doing">>, <<"doing", "review">>, <<"review", "done">>,
     <<"doing", "blocked">>, <<"blocked", "doing">>}

TerminalStatuses == {"done", "cancelled"}

ValidTransition(from, to) ==
    /\ to \in Statuses
    /\ CASE to = "cancelled" -> from \notin TerminalStatuses
         [] to = "todo"      -> from # "todo"
         [] OTHER            -> <<from, to>> \in AllowedTransitions

\* The scratch keys decodeTaskScratch knows.
FaultyScratchKeys == {"links"}
ScratchKeys == {"links", "status_history"}

Links(s) == Given(s.scratch, "links", <<>>)
StatusHistory(s) == Given(s.scratch, "status_history", <<>>)

\* appendTaskStatusHistory
AppendHistory(s, e, to) ==
    LET h == Append(StatusHistory(s), [to |-> to, by |-> e.actor, ts |-> e.id])
    IN  [meta |-> Put(s.meta, "status_history", h),
         coll |-> s.coll,
         scratch |-> Put(s.scratch, "status_history", h)]

PutNote(s, e) ==
    [s EXCEPT !.coll =
        Put(@, "notes", Put(@.notes, e.id, [author |-> e.actor]))]

-----------------------------------------------------------------------------

Create(s, e) ==
    IF Created(s) THEN s
    ELSE AppendHistory(
           [meta |-> [title |-> e.data.title, status |-> "todo",
                      owner |-> Given(e.data, "owner", e.actor),
                      created_by |-> e.actor, created_at |-> e.id,
                      updated_at |-> e.id, links |-> <<>>],
            coll |-> [notes |-> <<>>],
            scratch |-> s.scratch], e, "todo")

Edit(s, e) ==
    [s EXCEPT !.meta = Put(Over(Fields(e.data, {"title"}), @), "updated_at", e.id)]

\* The note of a transition is kept only if the transition is.
Status(s, e) ==
    IF ~ValidTransition(s.meta.status, e.data.to) THEN s
    ELSE LET t == AppendHistory(
                    [s EXCEPT !.meta =
                       Over([status |-> e.data.to, updated_at |-> e.id], @)],
                    e, e.data.to)
         IN  IF e.data.note THEN PutNote(t, e) ELSE t

Reassign(s, e) ==
    [s EXCEPT !.meta = Over([owner |-> e.data.owner, updated_at |-> e.id], @)]

Note(s, e) == [PutNote(s, e) EXCEPT !.meta = Put(@, "updated_at", e.id)]

Link(s, e) ==
    LET links == LinkEvent(Links(s), e.data) IN
    [meta |-> Over([links |-> links, updated_at |-> e.id], s.meta),
     coll |-> s.coll,
     scratch |-> Put(s.scratch, "links", links)]

Kinds == {"task.create", "task.edit", "task.status", "task.reassign",
          "task.note", "task.link"}

\* TaskRegistry
Apply(s, e) ==
    IF e.kind = "task.create" THEN Create(s, e)
    ELSE IF ~Created(s) THEN s
    ELSE CASE e.kind = "task.edit"     -> Edit(s, e)
           [] e.kind = "task.status"   -> Status(s, e)
           [] e.kind = "task.reassign" -> Reassign(s, e)
           [] e.kind = "task.note"     -> Note(s, e)
           [] e.kind = "task.link"     -> Link(s, e)
           [] OTHER                    -> s

=============================================================================
