-------------------------------- MODULE Wiki --------------------------------
(***************************************************************************)
(* The wiki of one clone: refs/projects/wiki/main is an ordinary branch,   *)
(* `githive wiki edit` checks it out into a temporary worktree, `githive   *)
(* wiki save` (a later process) commits, merges with the remote, pushes    *)
(* and removes the worktree (wikiapp), and `githive sync` fast-forwards it *)
(* when no edit is in progress (syncapp.planWiki).  A human edits, resolves*)
(* conflicts and reruns save; other clones push to the remote.             *)
(*                                                                         *)
(* A ref's value and a worktree's HEAD are sets of commits, as in RefSync. *)
(* Page contents are reduced to what the code looks at: is there something *)
(* to commit, are there conflict markers.  What validateTree looks for is  *)
(* not modelled: a tree it rejects ends the save where Fail can end it.    *)
(*                                                                         *)
(* Operators whose name starts with Faulty are wrong on purpose and break  *)
(* a property below.                                                       *)
(***************************************************************************)
EXTENDS Naturals, FiniteSets

CONSTANTS
    Proc,         \* terminals: githive processes in this clone
    Tree,         \* worktree directories that may ever exist
    None,         \* githive.wiki.worktree is not set
    MaxCommits,   \* bound: commits made here and by others ...
    MaxRaced,     \* ... and where commands have overlapped
    PushRetries,  \* wikiPushRetries
    MaxFailures   \* bound: commands killed or failing half way

ASSUME WikiAssumption ==
    /\ None \notin Tree
    /\ MaxCommits \in Nat /\ MaxRaced \in 0 .. MaxCommits
    /\ PushRetries \in Nat \ {0} /\ MaxFailures \in Nat

VARIABLES
    local,      \* refs/projects/wiki/main
    tracking,   \* refs/githive-remote/wiki/main
    remote,     \* the ref in the remote
    config,     \* githive.wiki.worktree
    trees,      \* trees[w]: what is in worktree directory w
    job,        \* job[p]: the command p runs and what it holds in memory
    outcome,    \* how the last command ended, "none" once another has begun
    made,       \* number of commits made so far; commits are 1 .. made
    own,        \* history: the commits made by saves of this clone
    marked,     \* the commits whose tree holds conflict markers
    saved,      \* history: commits a save reported as saved
    published,  \* history: commits a save reported as pushed
    overlapped, \* history: whether two commands ever ran at once
    failures    \* history: number of failures

refs    == <<local, tracking, remote>>
history == <<made, own, marked, saved, published>>
vars    == <<refs, config, trees, job, outcome, history, overlapped, failures>>

\* dirty: git status reports changes.  merging: what MERGE_HEAD reaches, {}
\* without a merge in progress.  unmerged: the index lists conflicted paths.
\* markers: a conflicted page still has its markers.
NoTree == [on |-> FALSE, head |-> {}, dirty |-> FALSE, merging |-> {},
           unmerged |-> FALSE, markers |-> FALSE]

Idle == [stage |-> "idle", wt |-> None, tip |-> {}, new |-> {}, tries |-> 0,
         nosync |-> FALSE]

Init ==
    /\ local = {} /\ tracking = {} /\ remote = {}
    /\ config    = None
    /\ trees     = [w \in Tree |-> NoTree]
    /\ job       = [p \in Proc |-> Idle]
    /\ outcome   = "none"
    /\ made      = 0
    /\ own       = {}
    /\ marked    = {}
    /\ saved     = {}
    /\ published = {}
    /\ overlapped = FALSE
    /\ failures  = 0

-----------------------------------------------------------------------------

At(p, stage) == job[p].stage = stage
GoTo(p, stage) == job' = [job EXCEPT ![p].stage = stage]

Finish(p, result) ==
    /\ job' = [job EXCEPT ![p] = Idle]
    /\ outcome' = result

Busy == \E q \in Proc : ~At(q, "idle")

Begin(p, fields) ==
    /\ At(p, "idle")
    /\ Busy => made < MaxRaced
    /\ job' = [job EXCEPT ![p] = fields]
    /\ outcome' = "none"
    /\ overlapped' = (overlapped \/ Busy)

\* wikiEditInProgress, and Edit's own check: recorded, and still on disk.
Editing == config # None /\ trees[config].on

\* The next commit, and a save of this clone making it.
NewCommit == made + 1
CommitsLeft == made < IF overlapped THEN MaxRaced ELSE MaxCommits
MakeCommit ==
    /\ CommitsLeft
    /\ made' = NewCommit
    /\ own' = own \cup {NewCommit}

-----------------------------------------------------------------------------
(* githive wiki edit *)

FaultyEditCheck(p) ==
    /\ Begin(p, [Idle EXCEPT !.stage = "add"])
    /\ UNCHANGED <<refs, config, trees, history, failures>>
EditCheck(p) ==
    /\ ~Editing
    /\ Begin(p, [Idle EXCEPT !.stage = "add"])
    /\ UNCHANGED <<refs, config, trees, history, failures>>

\* WorktreeAdd checks out the ref, or an empty root commit made for the
\* purpose, into a directory nobody has used.
EditAdd(p) ==
    \E w \in Tree \ ({config} \cup {job[q].wt : q \in Proc}) :
        /\ At(p, "add")
        /\ ~trees[w].on
        /\ \/ /\ local # {}
              /\ trees' = [trees EXCEPT ![w] = [NoTree EXCEPT !.on = TRUE, !.head = local]]
              /\ UNCHANGED made
           \/ /\ local = {} /\ CommitsLeft
              /\ trees' = [trees EXCEPT ![w] = [NoTree EXCEPT !.on = TRUE,
                                                              !.head = {NewCommit}]]
              /\ made' = NewCommit
        /\ job' = [job EXCEPT ![p].wt = w, ![p].stage = "record"]
        /\ UNCHANGED <<refs, config, outcome, own, marked, saved, published, overlapped, failures>>

\* ConfigSet; when it fails, Edit removes the worktree it has just made.
EditRecord(p) ==
    /\ At(p, "record")
    /\ \/ /\ config' = job[p].wt
          /\ Finish(p, "editing")
          /\ UNCHANGED <<trees, failures>>
       \/ /\ failures < MaxFailures
          /\ failures' = failures + 1
          /\ trees' = [trees EXCEPT ![job[p].wt] = NoTree]
          /\ Finish(p, "failed")
          /\ UNCHANGED config
    /\ UNCHANGED <<refs, history, overlapped>>

-----------------------------------------------------------------------------
(* The human, in a worktree. *)

Write(w) ==
    /\ trees[w].on /\ ~trees[w].dirty
    /\ trees' = [trees EXCEPT ![w].dirty = TRUE]
    /\ UNCHANGED <<refs, config, job, outcome, history, overlapped, failures>>

Resolve(w) ==
    /\ trees[w].on /\ trees[w].markers
    /\ trees' = [trees EXCEPT ![w].markers = FALSE, ![w].dirty = TRUE]
    /\ UNCHANGED <<refs, config, job, outcome, history, overlapped, failures>>

-----------------------------------------------------------------------------
(* githive wiki save *)

Held(p) == trees[job[p].wt]

SaveBegin(p) ==
    \E nosync \in BOOLEAN :
        /\ Editing
        /\ Begin(p, [Idle EXCEPT !.wt = config, !.nosync = nosync,
                     !.stage = IF trees[config].merging = {} THEN "commit" ELSE "resume"])
        /\ UNCHANGED <<refs, config, trees, history, failures>>

\* CommitAll concludes a merge in progress, and takes whatever is on disk.
CommitAll(p) ==
    /\ MakeCommit
    /\ trees' = [trees EXCEPT ![job[p].wt].head = @ \cup Held(p).merging \cup {NewCommit},
                              ![job[p].wt].dirty = FALSE,
                              ![job[p].wt].merging = {},
                              ![job[p].wt].unmerged = FALSE]
    /\ marked' = IF Held(p).markers THEN marked \cup {NewCommit} ELSE marked

\* What follows the commit; tries counts the attempts of mergeAndPush.
Publish(p, stage, tries) ==
    job' = [job EXCEPT ![p].stage = IF job[p].nosync THEN "tip" ELSE stage,
                       ![p].tries = tries]

\* saveNormal
SaveNormal(p) ==
    /\ At(p, "commit") /\ Held(p).on
    /\ \/ /\ ~Held(p).dirty
          /\ Finish(p, "nothing")
          /\ UNCHANGED <<trees, history>>
       \/ /\ Held(p).dirty
          /\ CommitAll(p)
          /\ Publish(p, "merge", 1)
          /\ UNCHANGED <<outcome, saved, published>>
    /\ UNCHANGED <<refs, config, overlapped, failures>>

\* finishConflictRerun lists the paths the index has as unmerged and stages
\* everything, which takes them off that list ...
StageAll(p) ==
    /\ At(p, "resume") /\ Held(p).on
    /\ trees' = [trees EXCEPT ![job[p].wt].unmerged = FALSE]
    /\ GoTo(p, IF Held(p).unmerged THEN "verify" ELSE "conclude")
    /\ UNCHANGED <<refs, config, outcome, history, overlapped, failures>>

\* ... and refuses the listed paths if they still have markers.
FinishConflictRerun(p) ==
    /\ job[p].stage \in {"verify", "conclude"} /\ Held(p).on
    /\ \/ /\ At(p, "verify") /\ Held(p).markers
          /\ Finish(p, "conflict")
          /\ UNCHANGED <<trees, history>>
       \/ /\ At(p, "conclude") \/ ~Held(p).markers
          /\ CommitAll(p)
          /\ Publish(p, "tip", 0)
          /\ UNCHANGED <<outcome, saved, published>>
    /\ UNCHANGED <<refs, config, overlapped, failures>>

\* MergeWikiRemote: git ls-remote ...
MergeRead(p) ==
    /\ At(p, "merge")
    /\ job' = [job EXCEPT ![p].new = remote,
                          ![p].stage = IF remote = {} THEN "tip" ELSE "merging"]
    /\ UNCHANGED <<refs, config, trees, outcome, history, overlapped, failures>>

\* ... git fetch, and git merge of what ls-remote had answered.
FaultyMerged(h, r) == r \cup {NewCommit}
Merged(h, r) == h \cup r \cup {NewCommit}

MergeWikiRemote(p) ==
    LET w == job[p].wt
        h == trees[w].head
        r == job[p].new
    IN  /\ At(p, "merging") /\ trees[w].on /\ trees[w].merging = {}
        /\ tracking' = remote
        /\ \/ /\ r \subseteq h \/ h \subseteq r            \* up to date, or ahead
              /\ trees' = [trees EXCEPT ![w].head = h \cup r]
              /\ GoTo(p, "tip")
              /\ UNCHANGED <<outcome, history>>
           \/ /\ ~(r \subseteq h \/ h \subseteq r) /\ h \cap r # {}
              /\ trees' = [trees EXCEPT ![w].head = Merged(h, r)]
              /\ MakeCommit
              /\ GoTo(p, "tip")
              /\ UNCHANGED <<outcome, marked, saved, published>>
           \/ /\ ~(r \subseteq h \/ h \subseteq r) /\ h \cap r # {}
              /\ trees' = [trees EXCEPT ![w].merging = r, ![w].unmerged = TRUE,
                                        ![w].markers = TRUE, ![w].dirty = TRUE]
              /\ Finish(p, "conflict")
              /\ UNCHANGED history
           \/ /\ h \cap r = {}                             \* unrelated histories
              /\ Finish(p, "failed")
              /\ UNCHANGED <<trees, history>>
        /\ UNCHANGED <<local, remote, config, overlapped, failures>>

\* pushMergedOnce, advanceLocalAndFinish: read HEAD, then the ref ...
ReadHead(p) ==
    /\ At(p, "tip") /\ Held(p).on
    /\ job' = [job EXCEPT ![p].new = Held(p).head, ![p].stage = "ref"]
    /\ UNCHANGED <<refs, config, trees, outcome, history, overlapped, failures>>

ReadTip(p) ==
    /\ At(p, "ref")
    /\ job' = [job EXCEPT ![p].tip = local, ![p].stage = "update"]
    /\ UNCHANGED <<refs, config, trees, outcome, history, overlapped, failures>>

\* ... and move the ref; a lost compare-and-swap ends the save.
UpdateRef(p) ==
    /\ At(p, "update")
    /\ \/ /\ local = job[p].tip
          /\ local' = job[p].new
          /\ GoTo(p, IF job[p].nosync THEN "remove" ELSE "push")
          /\ UNCHANGED outcome
       \/ /\ local # job[p].tip
          /\ Finish(p, "failed")
          /\ UNCHANGED local
    /\ UNCHANGED <<tracking, remote, config, trees, history, overlapped, failures>>

\* A push of the local ref, as one step: only a fast-forward is accepted.
FaultyPushAccepted == TRUE
PushAccepted == remote \subseteq local
Pushed == remote' = local /\ tracking' = local

\* Every rejection is taken for a race, up to PushRetries merges.
FaultyRetriesLeft(p) == job[p].tries <= PushRetries
RetriesLeft(p) == job[p].tries < PushRetries

PushWiki(p) ==
    /\ At(p, "push")
    /\ \/ /\ PushAccepted
          /\ Pushed
          /\ GoTo(p, "remove")
          /\ UNCHANGED outcome
       \/ /\ ~PushAccepted
          /\ \/ /\ RetriesLeft(p)
                /\ job' = [job EXCEPT ![p].tries = @ + 1, ![p].stage = "merge"]
                /\ UNCHANGED outcome
             \/ /\ ~RetriesLeft(p)
                /\ Finish(p, "exhausted")
          /\ UNCHANGED <<remote, tracking>>
    /\ UNCHANGED <<local, config, trees, history, overlapped, failures>>

\* cleanup: the worktree goes, changed or not, then the record of it.
RemoveTree(p) ==
    /\ At(p, "remove")
    /\ trees' = [trees EXCEPT ![job[p].wt] = NoTree]
    /\ GoTo(p, "unset")
    /\ UNCHANGED <<refs, config, outcome, history, overlapped, failures>>

UnsetConfig(p) ==
    /\ At(p, "unset")
    /\ config' = None
    /\ saved' = saved \cup job[p].new
    /\ published' = IF job[p].nosync THEN published ELSE published \cup job[p].new
    /\ Finish(p, "saved")
    /\ UNCHANGED <<refs, trees, made, own, marked, overlapped, failures>>

-----------------------------------------------------------------------------
(* githive sync, for the wiki ref alone. *)

SyncFetch(p) ==
    /\ Begin(p, [Idle EXCEPT !.stage = "plan"])
    /\ tracking' = IF remote = {} THEN tracking ELSE remote
    /\ UNCHANGED <<local, remote, config, trees, history, failures>>

\* planRef reads both refs ...
SyncPlan(p) ==
    /\ At(p, "plan")
    /\ \/ /\ local = tracking
          /\ Finish(p, "synced")
       \/ /\ local # tracking
          /\ job' = [job EXCEPT ![p].tip = local, ![p].new = tracking, ![p].stage = "decide"]
          /\ UNCHANGED outcome
    /\ UNCHANGED <<refs, config, trees, history, overlapped, failures>>

\* planWiki moves the ref only while nobody has the wiki checked out.
FaultyMayMove == TRUE
MayMove == ~Editing

\* ... and planWiki decides: skip during an edit, push, take, or warn.
PlanWiki(p) ==
    LET l == job[p].tip
        r == job[p].new
    IN  /\ At(p, "decide")
        /\ \/ /\ ~MayMove
              /\ Finish(p, "skipped")
           \/ /\ MayMove /\ r \subseteq l
              /\ GoTo(p, "send") /\ UNCHANGED outcome
           \/ /\ MayMove /\ l \subseteq r
              /\ GoTo(p, "advance") /\ UNCHANGED outcome
           \/ /\ MayMove /\ ~(r \subseteq l \/ l \subseteq r)
              /\ Finish(p, "diverged")
        /\ UNCHANGED <<refs, config, trees, history, overlapped, failures>>

SyncAdvance(p) ==
    /\ At(p, "advance")
    /\ \/ /\ local = job[p].tip
          /\ local' = job[p].new
          /\ Finish(p, "synced")
       \/ /\ local # job[p].tip
          /\ Finish(p, "failed")
          /\ UNCHANGED local
    /\ UNCHANGED <<tracking, remote, config, trees, history, overlapped, failures>>

\* A rejected push starts a new round, which is a sync begun anew.
SyncPush(p) ==
    /\ At(p, "send")
    /\ \/ /\ PushAccepted
          /\ Pushed
          /\ Finish(p, "synced")
       \/ /\ ~PushAccepted
          /\ Finish(p, "exhausted")
          /\ UNCHANGED <<remote, tracking>>
    /\ UNCHANGED <<local, config, trees, history, overlapped, failures>>

-----------------------------------------------------------------------------
(* The rest of the world. *)

\* Another clone saves: on top of the remote, or as the first wiki there is.
PeerPush ==
    /\ CommitsLeft
    /\ made' = NewCommit
    /\ remote' = remote \cup {NewCommit}
    /\ UNCHANGED <<local, tracking, config, trees, job, outcome, own, marked, saved,
                   published, overlapped, failures>>

\* The process is killed, or a git command or the network fails.
Fail(p) ==
    /\ ~At(p, "idle")
    /\ failures < MaxFailures
    /\ failures' = failures + 1
    /\ Finish(p, "failed")
    /\ UNCHANGED <<refs, config, trees, history, overlapped>>

\* The worktree was removed, or left in a merge, by another save: the next git
\* command there fails.
TreeTaken(p) ==
    /\ \/ /\ job[p].stage \in {"commit", "resume", "verify", "conclude", "merging", "tip"}
          /\ ~Held(p).on
       \/ /\ At(p, "merging")
          /\ Held(p).merging # {}
    /\ Finish(p, "failed")
    /\ UNCHANGED <<refs, config, trees, history, overlapped, failures>>

Edit(p) == EditCheck(p) \/ EditAdd(p) \/ EditRecord(p)

Save(p) ==
    \/ SaveBegin(p) \/ SaveNormal(p) \/ StageAll(p) \/ FinishConflictRerun(p)
    \/ MergeRead(p) \/ MergeWikiRemote(p) \/ ReadHead(p) \/ ReadTip(p) \/ UpdateRef(p)
    \/ PushWiki(p) \/ RemoveTree(p) \/ UnsetConfig(p) \/ TreeTaken(p)

Sync(p) ==
    SyncFetch(p) \/ SyncPlan(p) \/ PlanWiki(p) \/ SyncAdvance(p) \/ SyncPush(p)

Next ==
    \/ \E p \in Proc : Edit(p) \/ Save(p) \/ Sync(p) \/ Fail(p)
    \/ \E w \in Tree : Write(w) \/ Resolve(w)
    \/ PeerPush

Spec == Init /\ [][Next]_vars

-----------------------------------------------------------------------------
(* Properties.  Where commands may overlap the code promises less, and the *)
(* properties that need one command at a time say so.                      *)

Commit == 1 .. MaxCommits

Stages == {"idle", "add", "record", "commit", "resume", "verify",
           "conclude", "merge", "merging", "tip", "ref", "update", "push", "remove", "unset",
           "plan", "decide", "advance", "send"}

TypeOK ==
    /\ {local, tracking, remote, own, marked, saved, published} \subseteq SUBSET Commit
    /\ config \in Tree \cup {None}
    /\ trees \in [Tree -> [on : BOOLEAN, head : SUBSET Commit, dirty : BOOLEAN,
                           merging : SUBSET Commit, unmerged : BOOLEAN, markers : BOOLEAN]]
    /\ job \in [Proc -> [stage : Stages, wt : Tree \cup {None}, tip : SUBSET Commit,
                         new : SUBSET Commit, tries : 0 .. PushRetries, nosync : BOOLEAN]]
    /\ outcome \in {"none", "editing", "nothing", "conflict", "saved", "failed",
                   "exhausted", "synced", "skipped", "diverged"}
    /\ made \in 0 .. MaxCommits /\ failures \in 0 .. MaxFailures
    /\ overlapped \in BOOLEAN

\* With one command at a time no commit of a save is lost: it is in the ref, in
\* the remote or in a worktree that still exists, through conflicts, lost push
\* races, kills and reruns; what save reported as saved needs no worktree, and
\* what it reported as pushed is in the remote.
WorkIsKept ==
    ~overlapped =>
        /\ published \subseteq remote
        /\ saved \subseteq local \cup remote
        /\ own \subseteq local \cup remote \cup
                         UNION {trees[w].head : w \in {v \in Tree : trees[v].on}}

\* The remote's wiki is never rewound, whatever runs at once; with one command
\* at a time the local ref is not either, although save compares it with a
\* value it read after the merge.
WikiOnlyFastForwards ==
    [][/\ remote \subseteq remote'
       /\ ~overlapped' => local \subseteq local']_<<local, remote>>

\* With one command at a time, and none of them killed, every worktree on disk
\* is the recorded one or about to be (issue #57: no edit is orphaned).
OneEdit ==
    (~overlapped /\ failures = 0) =>
        \A w \in Tree : trees[w].on =>
            config = w \/ \E p \in Proc : At(p, "record") /\ job[p].wt = w

\* With one command at a time, sync does not move the ref under a checked-out
\* worktree (planWiki, ADR-0017).
SyncLeavesEditsAlone ==
    [][~overlapped' => \A p \in Proc : At(p, "advance") => ~Editing]_local

\* "Refuse to record a merge that still carries conflict markers"
\* (finishConflictRerun).
NoMarkersRecorded == marked = {}

\* "an error retains [the worktree] so the human can ... re-run save, which
\* then completes" (Save): a save that finds nothing to save has left none of
\* the commits of an earlier, failed save behind.
RerunCompletes ==
    outcome = "nothing" => trees[config].head \cap own \subseteq local

=============================================================================
