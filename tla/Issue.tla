-------------------------------- MODULE Issue --------------------------------
(***************************************************************************)
(* The issue reducers (materialize/issue.go).  Bodies and the relation of  *)
(* a link are left out: no reducer looks at them.                          *)
(***************************************************************************)
EXTENDS Materialize

Statuses == {"open", "in_progress", "resolved", "closed", "archived"}

AllowedTransitions ==
    {<<"open", "in_progress">>, <<"in_progress", "resolved">>,
     <<"resolved", "closed">>, <<"closed", "archived">>}

FaultyValidTransition(from, to) == to \in Statuses
ValidTransition(from, to) ==
    /\ to \in Statuses
    /\ \/ to \in {"open", "closed"} /\ from # "archived"
       \/ <<from, to>> \in AllowedTransitions

\* The scratch keys decodeIssueScratch knows.
ScratchKeys == {"labels", "assignees", "links"}

Labels(s) == Given(s.scratch, "labels", {})
Assignees(s) == Given(s.scratch, "assignees", {})
Links(s) == Given(s.scratch, "links", <<>>)

\* meta[field] := v and updated_at := the event's time
Set(s, e, field, v) ==
    [s EXCEPT !.meta = Put(Put(@, field, v), "updated_at", e.id)]

\* The same for a value that lives in scratch and is shown in meta.
SetBoth(s, e, field, v) ==
    [meta |-> Set(s, e, field, v).meta,
     coll |-> s.coll,
     scratch |-> Put(s.scratch, field, v)]

-----------------------------------------------------------------------------

Create(s, e) ==
    IF Created(s) THEN s
    ELSE LET labels == Given(e.data, "labels", {})
             assignees == Given(e.data, "assignees", {}) IN
         [meta |-> [title |-> e.data.title, status |-> "open",
                    labels |-> labels, assignees |-> assignees,
                    created_by |-> e.actor, created_at |-> e.id,
                    updated_at |-> e.id, closed_at |-> Never,
                    comment_count |-> 0, links |-> <<>>],
          coll |-> [comments |-> <<>>],
          scratch |-> [labels |-> labels, assignees |-> assignees]]

Edit(s, e) ==
    [s EXCEPT !.meta = Put(Over(Fields(e.data, {"title"}), @), "updated_at", e.id)]

ClosedAt(s, e) ==
    CASE e.data.to = "closed" -> e.id
      [] e.data.to = "open"   -> Never
      [] OTHER                -> s.meta.closed_at

Status(s, e) ==
    IF ~ValidTransition(s.meta.status, e.data.to) THEN s
    ELSE [s EXCEPT !.meta =
            Over([status |-> e.data.to, updated_at |-> e.id,
                  closed_at |-> ClosedAt(s, e)], @)]

Comment(s, e) ==
    LET comments == PutItem(s.coll.comments, e) IN
    [meta |-> Set(s, e, "comment_count", Cardinality(DOMAIN comments)).meta,
     coll |-> Put(s.coll, "comments", comments),
     scratch |-> s.scratch]

Label(s, e) == SetBoth(s, e, "labels", AddRemove(Labels(s), e.data))

FaultyAssign(s, e) == SetBoth(s, e, "assignees", AddRemove(Labels(s), e.data))
Assign(s, e) == SetBoth(s, e, "assignees", AddRemove(Assignees(s), e.data))

Link(s, e) == SetBoth(s, e, "links", LinkEvent(Links(s), e.data))

Kinds == {"issue.create", "issue.edit", "issue.status", "issue.comment",
          "issue.label", "issue.assign", "issue.link"}

\* IssueRegistry: every reducer but create ignores an issue not created yet.
Apply(s, e) ==
    IF e.kind = "issue.create" THEN Create(s, e)
    ELSE IF ~Created(s) THEN s
    ELSE CASE e.kind = "issue.edit"    -> Edit(s, e)
           [] e.kind = "issue.status"  -> Status(s, e)
           [] e.kind = "issue.comment" -> Comment(s, e)
           [] e.kind = "issue.label"   -> Label(s, e)
           [] e.kind = "issue.assign"  -> Assign(s, e)
           [] e.kind = "issue.link"    -> Link(s, e)
           [] OTHER                    -> s

=============================================================================
