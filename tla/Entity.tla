-------------------------------- MODULE Entity --------------------------------
(***************************************************************************)
(* One entity, whatever its feature, in the clones that edit it and on the *)
(* remote that they sync through: the commands of issueapp, taskapp,       *)
(* chatapp, notifyapp and usersapp, the reducers their events run, and the *)
(* checkpoints that fsck --compact leaves on the chain.                    *)
(*                                                                         *)
(* A command is one atomic Append here and a sync one atomic exchange:     *)
(* EntityChain and RefSync take them apart.  What is left is what a merge  *)
(* does to the things a user was shown: an event that arrives late sorts   *)
(* before events that are folded already.                                  *)
(***************************************************************************)
EXTENDS Materialize, FiniteSetsExt

Issue == INSTANCE Issue
Task == INSTANCE Task
Chat == INSTANCE Chat
Notify == INSTANCE Notify
Users == INSTANCE Users

CONSTANTS
    Clone,      \* the clones, each with its own user; numbers, in the order
                \* of their users' emails
    Slow,       \* clones whose clock may be behind
    Menus       \* bounds, one of which a behavior keeps to: the kinds of its
                \* events, and their number ids

ASSUME EntityAssumption ==
    /\ Clone \subseteq Nat \ {0} /\ Slow \subseteq Clone
    /\ \A m \in Menus :
         /\ m.ids \in Nat
         /\ \E K \in {Issue!Kinds, Task!Kinds, Chat!Kinds, Notify!Kinds,
                     Users!Kinds} :
              m.kinds \subseteq K \cup {"checkpoint", "legacy"}

Remote == 0

VARIABLES
    menu,   \* the bounds of this behavior
    tip     \* tip[r]: the chain and the tree at the tip of the ref in r

vars == <<menu, tip>>

\* base is the ID of the checkpoint FindCheckpointStart finds, if any.
NoTip == [events |-> {}, tree |-> NewState, base |-> Never]

Init ==
    /\ menu \in Menus
    /\ tip = [r \in Clone \cup {Remote} |-> NoTip]

-----------------------------------------------------------------------------
(* Reading a chain. *)

\* The registry of the entity's feature.
Apply(s, e) ==
    CASE e.kind \in Issue!Kinds  -> Issue!Apply(s, e)
      [] e.kind \in Task!Kinds   -> Task!Apply(s, e)
      [] e.kind \in Chat!Kinds   -> Chat!Apply(s, e)
      [] e.kind \in Notify!Kinds -> Notify!Apply(s, e)
      [] e.kind \in Users!Kinds  -> Users!Apply(s, e)

ScratchKeys ==
    CASE menu.kinds \cap Issue!Kinds # {}  -> Issue!ScratchKeys
      [] menu.kinds \cap Task!Kinds # {}   -> Task!ScratchKeys
      [] menu.kinds \cap Chat!Kinds # {}   -> Chat!ScratchKeys
      [] menu.kinds \cap Notify!Kinds # {} -> Notify!ScratchKeys
      [] menu.kinds \cap Users!Kinds # {}  -> Users!ScratchKeys

FullFold(events) == FoldFrom(Apply, NewState, events)

\* Writer.checkpointBase, for a checkpoint and the events after it.
CheckpointBase(ck, after) ==
    /\ \A e \in after : e.id > ck.data.max_event_id
    /\ Restorable(ck.data.state, ScratchKeys)

\* Writer.foldInputs and the fold of it with the new event.
FoldInputs(t, new) ==
    LET cks == {e \in t.events : e.id = t.base} IN
    IF cks = {} THEN FullFold(t.events \cup {new})
    ELSE LET ck == CHOOSE e \in cks : TRUE
             after == {e \in t.events \ {ck} : e.id \notin ck.data.behind}
                         \cup {new} IN
         IF CheckpointBase(ck, after)
         THEN FoldFrom(Apply, StateFromMap(ck.data.state), after)
         ELSE FullFold(t.events \cup {new})

-----------------------------------------------------------------------------
(* Entitychain.Append, and the commands on top of it. *)

UsedIds == {e.id : e \in UNION {tip[r].events : r \in DOMAIN tip}}

\* idgen: a clock that is behind draws an ID behind those of the others.
NewIds(c) ==
    {i \in 1 .. menu.ids \ UsedIds : c \in Slow \/ \A j \in UsedIds : i > j}

Mutate(c, kind, data) ==
    /\ kind \in menu.kinds
    /\ \E i \in NewIds(c) :
         LET e == [id |-> i, kind |-> kind, actor |-> c, data |-> data] IN
         tip' = [tip EXCEPT ![c] =
                   [events |-> @.events \cup {e},
                    tree |-> FoldInputs(@, e),
                    base |-> @.base]]
    /\ UNCHANGED menu

\* A create draws a fresh entity ID.
Fresh == \A r \in DOMAIN tip : tip[r].events = {}

\* NotFoundErr: the fold has no create event.
Exists(c) == Created(tip[c].tree)

IssueNew(c) ==
    /\ Fresh
    /\ \E assignees \in {{}, {1}} :
         Mutate(c, "issue.create", [title |-> 0, assignees |-> assignees])

IssueEdit(c) == Exists(c) /\ Mutate(c, "issue.edit", [title |-> c])

IssueStatus(c) ==
    /\ Exists(c)
    /\ \E to \in Issue!Statuses : Mutate(c, "issue.status", [to |-> to])

\* What a reader of the tip can refer to.
Shown(c, name) == DOMAIN Given(tip[c].tree.coll, name, <<>>)

IssueComment(c) ==
    /\ Exists(c)
    /\ \E prior \in Shown(c, "comments") \cup {Never} :
         Mutate(c, "issue.comment", [supersedes |-> prior])

\* The labels, or assignees, that occur.
Members == {1, 2}
AddsAndRemoves ==
    {[add |-> {1}], [remove |-> {1}], [add |-> {1}, remove |-> {1}],
     [add |-> {2}, remove |-> {1}]}

IssueLabel(c) ==
    Exists(c) /\ \E data \in AddsAndRemoves : Mutate(c, "issue.label", data)

IssueAssign(c) ==
    Exists(c) /\ \E data \in AddsAndRemoves : Mutate(c, "issue.assign", data)

IssueLink(c) ==
    Exists(c) /\ \E remove \in BOOLEAN :
        Mutate(c, "issue.link", [link |-> 1, remove |-> remove])

TaskNew(c) ==
    Fresh /\ \E data \in {[title |-> 0], [title |-> 0, owner |-> 1]} :
        Mutate(c, "task.create", data)

TaskEdit(c) == Exists(c) /\ Mutate(c, "task.edit", [title |-> c])

TaskStatus(c) ==
    Exists(c) /\ \E to \in Task!Statuses, note \in BOOLEAN :
        Mutate(c, "task.status", [to |-> to, note |-> note])

TaskReassign(c) ==
    Exists(c) /\ \E owner \in Clone : Mutate(c, "task.reassign", [owner |-> owner])

TaskNote(c) == Exists(c) /\ Mutate(c, "task.note", [body |-> c])

TaskLink(c) ==
    Exists(c) /\ \E remove \in BOOLEAN :
        Mutate(c, "task.link", [link |-> 1, remove |-> remove])

ChatNew(c) ==
    Fresh /\ \E body \in BOOLEAN :
        Mutate(c, "chat.create", [title |-> 0, body |-> body])

ChatPost(c) ==
    /\ Exists(c)
    /\ \E prior \in Shown(c, "messages") \cup {Never} :
         Mutate(c, "chat.post", [supersedes |-> prior])

ChatArchive(c) == Exists(c) /\ Mutate(c, "chat.edit_meta", [status |-> "archived"])

ChatEditMeta(c) ==
    Exists(c) /\ \E data \in {[title |-> c], [status |-> "open"]} :
        Mutate(c, "chat.edit_meta", data)

NotifyPost(c) ==
    \E target \in {<<"user", 1>>, Notify!Everyone} :
        Mutate(c, "notify.post", [targets |-> {target}])

NotifyAck(c) ==
    \E post \in Shown(c, "posts") : Mutate(c, "notify.ack", [ack_of |-> post])

UserAdd(c) ==
    \E data \in {[username |-> 1, fields |-> [emails |-> {1}]],
                 [username |-> 1, fields |-> [roles |-> {1}]]} :
        Mutate(c, "users.user_set", data)

\* getUser comes first: an unknown user is an error.
UserKeyAdd(c) ==
    \E u \in Shown(c, "users") :
        Mutate(c, "users.key_add", [username |-> u, pub |-> 1])

UserKeyRevoke(c) ==
    \E u \in Shown(c, "users") :
        Mutate(c, "users.key_revoke", [username |-> u, pub |-> 1])

GroupSet(c) == Mutate(c, "users.group_set", [name |-> 1, members |-> {c}])

GroupRemove(c) == Mutate(c, "users.group_remove", [name |-> 1])

PolicySet(c) == Mutate(c, "users.policy_set", [rules |-> c])

-----------------------------------------------------------------------------
(* Checkpoints and sync. *)

\* maybeCheckpoint, by this version or by one from before ADR-0016.  Bound: one
\* checkpoint on a chain.
Compact(c) ==
    LET t == tip[c]
        s == FullFold(t.events)
        ids == {e.id : e \in t.events} IN
    /\ "checkpoint" \in menu.kinds
    /\ t.events # {} /\ \A e \in t.events : ~IsCheckpoint(e)
    /\ \E state \in {StateToMap(s)} \cup
                    {LegacyStateToMap(s) : k \in menu.kinds \cap {"legacy"}},
          i \in NewIds(c) :
         LET ck == [id |-> i, kind |-> "checkpoint", actor |-> c,
                    data |-> [state |-> state, max_event_id |-> Max(ids),
                              behind |-> ids]] IN
         tip' = [tip EXCEPT ![c] = [events |-> t.events \cup {ck},
                                    tree |-> FoldInputs(t, ck),
                                    base |-> i]]
    /\ UNCHANGED menu

\* planRef: equal or ahead, behind, diverged.  A merge commit hides checkpoints.
Joined(mine, theirs) ==
    CASE theirs.events \subseteq mine.events -> mine
      [] mine.events \subseteq theirs.events -> theirs
      [] OTHER -> [events |-> mine.events \cup theirs.events,
                   tree |-> FullFold(mine.events \cup theirs.events),
                   base |-> Never]

Sync(c) ==
    /\ tip[c] # tip[Remote]
    /\ tip' = [tip EXCEPT ![c] = Joined(tip[c], tip[Remote]),
                          ![Remote] = Joined(tip[c], tip[Remote])]
    /\ UNCHANGED menu

Next ==
    \E c \in Clone :
        \/ IssueNew(c) \/ IssueEdit(c) \/ IssueStatus(c) \/ IssueComment(c)
        \/ IssueLabel(c) \/ IssueAssign(c) \/ IssueLink(c)
        \/ TaskNew(c) \/ TaskEdit(c) \/ TaskStatus(c) \/ TaskReassign(c)
        \/ TaskNote(c) \/ TaskLink(c)
        \/ ChatNew(c) \/ ChatPost(c) \/ ChatArchive(c) \/ ChatEditMeta(c)
        \/ NotifyPost(c) \/ NotifyAck(c)
        \/ UserAdd(c) \/ UserKeyAdd(c) \/ UserKeyRevoke(c)
        \/ GroupSet(c) \/ GroupRemove(c) \/ PolicySet(c)
        \/ Compact(c) \/ Sync(c)

Spec == Init /\ [][Next]_vars

-----------------------------------------------------------------------------
(* What a tree has to say, in terms of the events alone. *)

Creates == {"issue.create", "task.create", "chat.create"}

\* The events a fold counts: those from the create on, where there is one.
Counted(t) ==
    {e \in t.events :
        /\ ~IsCheckpoint(e)
        /\ menu.kinds \cap Creates # {} =>
             \E d \in t.events : d.kind \in Creates /\ d.id <= e.id}

OfKind(t, kind) == {e \in Counted(t) : e.kind = kind}

Earliest(E) == CHOOSE e \in E : \A d \in E : e.id <= d.id
Latest(E) == CHOOSE e \in E : \A d \in E : d.id <= e.id

\* The last event that gives a field decides what the record shows.
ShowsLatest(t, record, field) ==
    LET E == {e \in Counted(t) : field \in DOMAIN e.data} IN
    E # {} => record[field] = Latest(E).data[field]

\* The last event that mentions x decides whether it is in the set, or what was
\* given at first.
HoldsLatest(E, given, set, x) ==
    LET M == {e \in E : x \in Given(e.data, "add", {})
                               \cup Given(e.data, "remove", {})} IN
    x \in set <=> IF M = {} THEN x \in given
                            ELSE x \in Given(Latest(M).data, "add", {})

\* The assignees that an issue is created with.
FirstAssignees(t) == UNION {e.data.assignees : e \in OfKind(t, "issue.create")}

Tips == {tip[r] : r \in DOMAIN tip}

HasKind(kinds) == menu.kinds \cap kinds # {}

-----------------------------------------------------------------------------
(* Properties. *)

TypeOK ==
    /\ menu \in Menus
    /\ \A t \in Tips :
         /\ \A e \in t.events : e.id \in 1 .. menu.ids /\ e.actor \in Clone
                                /\ e.kind \in menu.kinds
         /\ DOMAIN t.tree = {"meta", "coll", "scratch"}
         /\ DOMAIN t.tree.scratch \subseteq ScratchKeys
         /\ t.base \in {Never} \cup {e.id : e \in {e \in t.events : IsCheckpoint(e)}}

\* Whatever path the events took (appended on a restored checkpoint, adopted by
\* a fast-forward, merged), the tree at the tip is the fold of the chain's
\* events: what StateToMap and StateFromMap leave out, no reducer misses.
TreesAreFolds == \A t \in Tips : t.tree = FullFold(t.events)

\* Scalars show the last event that sets them; a label or an assignee is there
\* when the last event that mentions it adds it, and an assignee of the create
\* unless one removes it; links are listed once, groups and policy are replaced
\* whole (docs/02-data-model.md), however the events arrived.
LastEventWins ==
    \A t \in Tips : LET s == t.tree IN
        /\ HasKind(Creates) /\ Created(s) => ShowsLatest(t, s.meta, "title")
        /\ HasKind(Task!Kinds) /\ Created(s) => ShowsLatest(t, s.meta, "owner")
        /\ HasKind(Chat!Kinds) /\ Created(s) => ShowsLatest(t, s.meta, "status")
        /\ HasKind(Issue!Kinds) /\ Created(s) =>
             \A x \in Members :
               /\ HoldsLatest(OfKind(t, "issue.label"), {}, s.meta.labels, x)
               /\ HoldsLatest(OfKind(t, "issue.assign"), FirstAssignees(t),
                              s.meta.assignees, x)
        /\ HasKind({"issue.link", "task.link"}) /\ Created(s) =>
             LET E == OfKind(t, "issue.link") \cup OfKind(t, "task.link") IN
             s.meta.links = IF E = {} \/ Latest(E).data.remove
                            THEN <<>> ELSE <<1>>
        /\ HasKind({"users.group_set"}) =>
             LET E == OfKind(t, "users.group_set")
                         \cup OfKind(t, "users.group_remove") IN
             Users!Groups(s) =
                IF E = {} \/ Latest(E).kind = "users.group_remove"
                THEN <<>> ELSE Put(<<>>, 1, Latest(E).data.members)
        /\ HasKind({"users.policy_set"}) =>
             LET E == OfKind(t, "users.policy_set") IN
             Users!Policy(s) = IF E = {} THEN Users!NoPolicy
                               ELSE Latest(E).data.rules

\* A comment or message that a later one supersedes is marked with the last
\* such, and no other is; every one is there, and counted.
SupersededIsMarked ==
    \A t \in Tips :
        HasKind({"issue.comment", "chat.post"}) /\ Created(t.tree) =>
            LET E == OfKind(t, "issue.comment") \cup OfKind(t, "chat.post")
                items == Given(t.tree.coll, "comments",
                               Given(t.tree.coll, "messages", <<>>)) IN
            /\ {e.id : e \in E} \subseteq DOMAIN items
            /\ Cardinality(DOMAIN items) =
                 Given(t.tree.meta, "comment_count",
                       Given(t.tree.meta, "message_count", 0))
            /\ \A i \in DOMAIN items :
                 LET S == {e \in E : e.data.supersedes = i /\ e.id > i} IN
                 items[i].superseded_by = IF S = {} THEN Never ELSE Latest(S).id

\* closed_at is set exactly while an issue is closed or archived.
ClosedAtFits(s) ==
    s.meta.closed_at # Never <=> s.meta.status \in {"closed", "archived"}

\* A task's history is a path of the documented machine in the order of time,
\* terminal states are left only by reopening, and it ends in the status shown.
HistoryFits(s) ==
    LET h == s.meta.status_history IN
    /\ h[1].to = "todo" /\ Last(h).to = s.meta.status
    /\ \A n \in 1 .. Len(h) - 1 :
         /\ h[n].ts < h[n + 1].ts
         /\ h[n + 1].to \notin {"todo", "cancelled"} =>
              <<h[n].to, h[n + 1].to>> \in Task!AllowedTransitions
         /\ h[n].to \in {"done", "cancelled"} => h[n + 1].to = "todo"

\* A merge that slips transitions between others leaves a status that the
\* machine can reach and summaries that agree with it (issue.status,
\* task.status).
StatusMachines ==
    \A t \in Tips : Created(t.tree) =>
        /\ HasKind(Issue!Kinds) => ClosedAtFits(t.tree)
        /\ HasKind(Task!Kinds) => HistoryFits(t.tree)

\* Everyone who acked a post is listed once, even if the ack sorts before the
\* post or both clones acked; what is left is unread (notify.ack, List).
AcksAreCounted ==
    HasKind(Notify!Kinds) =>
        \A t \in Tips : \A post \in OfKind(t, "notify.post") :
            LET list == Notify!AcksOf(t.tree, post.id)
                ackers == {e.actor : e \in {e \in OfKind(t, "notify.ack") :
                                              e.data.ack_of = post.id}} IN
            /\ list = Ordered(ackers)
            /\ \A c \in Clone :
                 post.id \in Notify!Unread(t.tree, c) <=>
                    /\ post.data.targets \cap {Notify!Everyone, <<"user", c>>} # {}
                    /\ c \notin ackers

\* A key is listed once, from its first effective key_add on, and the first
\* key_revoke after that ends it for good: adding it again does not bring it
\* back (key_add, key_revoke, ActiveKeysForEmail).
KeysFollowEvents ==
    HasKind({"users.key_add"}) =>
        \A t \in Tips : \A u \in DOMAIN Users!Users(t.tree) :
            LET keys == Users!Users(t.tree)[u].keys
                set == Earliest(OfKind(t, "users.user_set"))
                adds == {e \in OfKind(t, "users.key_add") : e.id > set.id}
                revokes == {e \in OfKind(t, "users.key_revoke") :
                              adds # {} /\ e.id > Earliest(adds).id} IN
            /\ Len(keys) = IF adds = {} THEN 0 ELSE 1
            /\ adds # {} =>
                 /\ keys[1].added_at = Earliest(adds).id
                 /\ keys[1].revoked_at = IF revokes = {} THEN Never
                                         ELSE Earliest(revokes).id
            /\ 1 \in Users!ActiveKeysForEmail(t.tree, 1) <=>
                 /\ adds # {} /\ revokes = {}
                 /\ 1 \in Users!Users(t.tree)[u].emails

\* A note given with a task's transition counts with the transition, which a
\* merge may make invalid; one of its own is there for good.
OwnNotes(t) ==
    DOMAIN Given(t.tree.coll, "notes", <<>>)
        \cap {e.id : e \in {e \in t.events : e.kind = "task.note"}}

\* What q shows of p: nothing was taken back.
Keeps(p, q) == LET s == p.tree
                   t == q.tree IN
    /\ Created(s) => Created(t)
    /\ OwnNotes(p) \subseteq OwnNotes(q)
    /\ \A name \in DOMAIN s.coll \ {"groups", "notes"} :
         /\ name \in DOMAIN t.coll
         /\ DOMAIN s.coll[name] \subseteq DOMAIN t.coll[name]
    /\ \A name \in DOMAIN s.coll \cap {"comments", "messages"} :
         \A i \in DOMAIN s.coll[name] :
            s.coll[name][i].superseded_by <= t.coll[name][i].superseded_by
    /\ HasKind(Chat!Kinds) /\ Created(s) =>
         s.meta.participants \subseteq t.meta.participants
    /\ \A post \in DOMAIN Notify!Acks(s) :
         Range(Notify!AcksOf(s, post)) \subseteq Range(Notify!AcksOf(t, post))
    /\ \A u \in DOMAIN Users!Users(s) : \A k \in Range(Users!Users(s)[u].keys) :
         k.revoked_at # Never =>
            \E l \in Range(Users!Users(t)[u].keys) :
                l.pub = k.pub /\ l.revoked_at \in 1 .. k.revoked_at

\* No command and no sync takes back what a clone was shown: a comment, message,
\* post or note, that one was superseded, a participant, an ack, a user, or the
\* revocation of a key, which can only move to an earlier time.
NothingIsTakenBack ==
    [][\A r \in DOMAIN tip : Keeps(tip[r], tip'[r])]_vars

=============================================================================
