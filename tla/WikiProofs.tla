----------------------------- MODULE WikiProofs -----------------------------
(***************************************************************************)
(* What the run of Wiki checks for two terminals, two directories and a    *)
(* few commits, proved for any number of each and for every bound.         *)
(***************************************************************************)
EXTENDS Wiki, TLAPS

-----------------------------------------------------------------------------
(* Type correctness: TypeOK, with commits numbered as they are made and a   *)
(* directory in the memory of each command that has one.                    *)

Dirless == {"idle", "add", "plan", "decide", "advance", "send"}

TreeType == [on : BOOLEAN, head : SUBSET Commit, dirty : BOOLEAN,
             merging : SUBSET Commit, unmerged : BOOLEAN, markers : BOOLEAN]
JobType == [stage : Stages, wt : Tree \cup {None}, tip : SUBSET Commit,
            new : SUBSET Commit, tries : 0 .. PushRetries, nosync : BOOLEAN]
Jobs == {j \in JobType : j.stage \notin Dirless => j.wt \in Tree}

RefsTyped ==
    local \in SUBSET Commit /\ tracking \in SUBSET Commit /\ remote \in SUBSET Commit

HistoryTyped ==
    /\ own \in SUBSET Commit /\ marked \in SUBSET Commit
    /\ saved \in SUBSET Commit /\ published \in SUBSET Commit
    /\ made \in 0 .. MaxCommits /\ own \subseteq 1 .. made
    /\ overlapped \in BOOLEAN /\ failures \in 0 .. MaxFailures

TreesTyped == config \in Tree \cup {None} /\ trees \in [Tree -> TreeType]

Outcomes == {"none", "editing", "nothing", "conflict", "saved", "failed",
             "exhausted", "synced", "skipped", "diverged"}
JobsTyped ==
    /\ job \in [Proc -> Jobs]
    /\ outcome \in Outcomes

TypeInv == RefsTyped /\ HistoryTyped /\ TreesTyped /\ JobsTyped

LEMMA Numbers ==
    /\ MaxCommits \in Nat /\ MaxRaced \in Nat /\ MaxRaced <= MaxCommits
    /\ PushRetries \in Nat /\ PushRetries >= 1 /\ MaxFailures \in Nat
    /\ None \notin Tree
  BY WikiAssumption

LEMMA TypeInvIsStronger == TypeInv => TypeOK
  <1>. SUFFICES ASSUME TypeInv PROVE TypeOK
    OBVIOUS
  <1>1. job \in [Proc -> JobType]
    BY DEF TypeInv, JobsTyped, Jobs
  <1>2. QED
    BY <1>1 DEF TypeInv, RefsTyped, HistoryTyped, TreesTyped, JobsTyped, TypeOK,
                TreeType, JobType, Outcomes

\* What a step puts into trees and job is of their types.
LEMMA NoTreeTyped == NoTree \in TreeType
  BY DEF NoTree, TreeType

LEMMA IdleTyped == Idle \in Jobs /\ Idle.stage = "idle"
  <1>1. "idle" \in Stages
    BY DEF Stages
  <1>2. 0 \in 0 .. PushRetries
    BY Numbers
  <1>3. {} \in SUBSET Commit
    OBVIOUS
  <1>4. Idle \in JobType
    BY <1>1, <1>2, <1>3 DEF Idle, JobType
  <1>5. QED
    BY <1>4 DEF Jobs, Dirless, Idle

LEMMA StageTyped ==
    ASSUME NEW j \in Jobs, NEW s \in Stages, j.stage \notin Dirless \/ s \in Dirless
    PROVE  [j EXCEPT !.stage = s] \in Jobs
  BY DEF Jobs, JobType

LEMMA TriesTyped ==
    ASSUME NEW j \in Jobs, NEW s \in Stages, NEW n \in 0 .. PushRetries,
           j.stage \notin Dirless
    PROVE  [j EXCEPT !.stage = s, !.tries = n] \in Jobs
  BY DEF Jobs, JobType

LEMMA NewTyped ==
    ASSUME NEW j \in Jobs, NEW s \in Stages, NEW v \in SUBSET Commit,
           j.stage \notin Dirless
    PROVE  /\ [j EXCEPT !.new = v, !.stage = s] \in Jobs
           /\ [j EXCEPT !.tip = v, !.stage = s] \in Jobs
  BY DEF Jobs, JobType

LEMMA PlanTyped ==
    ASSUME NEW j \in Jobs, NEW v \in SUBSET Commit, NEW w \in SUBSET Commit
    PROVE  [j EXCEPT !.tip = v, !.new = w, !.stage = "decide"] \in Jobs
  BY DEF Jobs, JobType, Dirless, Stages

LEMMA JobSet ==
    ASSUME JobsTyped, NEW p \in Proc, NEW j \in Jobs
    PROVE  [job EXCEPT ![p] = j] \in [Proc -> Jobs]
  BY DEF JobsTyped

LEMMA CommitMade ==
    ASSUME TypeInv, CommitsLeft
    PROVE  /\ NewCommit \in Commit /\ NewCommit \notin own
           /\ NewCommit \in 0 .. MaxCommits /\ 1 .. made \subseteq 1 .. NewCommit
           /\ NewCommit \in 1 .. NewCommit
  BY Numbers DEF TypeInv, HistoryTyped, CommitsLeft, NewCommit, Commit

LEMMA TypeInit == Init => TypeInv
  <1>. SUFFICES ASSUME Init PROVE TypeInv
    OBVIOUS
  <1>1. RefsTyped
    BY DEF Init, RefsTyped
  <1>2. HistoryTyped
    <2>1. made \in 0 .. MaxCommits /\ failures \in 0 .. MaxFailures
      BY Numbers DEF Init
    <2>2. own = {} /\ marked = {} /\ saved = {} /\ published = {} /\ overlapped \in BOOLEAN
      BY DEF Init
    <2>3. QED
      BY <2>1, <2>2 DEF HistoryTyped
  <1>3. TreesTyped
    BY NoTreeTyped DEF Init, TreesTyped
  <1>4. JobsTyped
    BY IdleTyped DEF Init, JobsTyped, Outcomes
  <1>5. QED
    BY <1>1, <1>2, <1>3, <1>4 DEF TypeInv

-----------------------------------------------------------------------------
(* The parts of a step, and what they keep.                                 *)

LEMMA RefsKept ==
    ASSUME RefsTyped, UNCHANGED refs
    PROVE  RefsTyped'
  BY DEF RefsTyped, refs

LEMMA HistoryKept ==
    ASSUME HistoryTyped, UNCHANGED <<history, overlapped, failures>>
    PROVE  HistoryTyped'
  BY DEF HistoryTyped, history

LEMMA TreesKept ==
    ASSUME TreesTyped, UNCHANGED <<config, trees>>
    PROVE  TreesTyped'
  BY DEF TreesTyped

LEMMA Typed ==
    ASSUME RefsTyped', HistoryTyped', TreesTyped', JobsTyped'
    PROVE  TypeInv'
  BY DEF TypeInv

LEMMA Moved ==
    ASSUME JobsTyped, NEW p \in Proc, NEW j \in Jobs,
           job' = [job EXCEPT ![p] = j], outcome' = outcome
    PROVE  JobsTyped'
  BY JobSet DEF JobsTyped

LEMMA Finished ==
    ASSUME JobsTyped, NEW p \in Proc, NEW result \in Outcomes, Finish(p, result)
    PROVE  JobsTyped'
  BY JobSet, IdleTyped DEF JobsTyped, Finish

LEMMA Begun ==
    ASSUME JobsTyped, HistoryTyped, NEW p \in Proc, NEW fields \in Jobs, Begin(p, fields),
           UNCHANGED <<history, failures>>
    PROVE  JobsTyped' /\ HistoryTyped'
  <1>1. JobsTyped'
    BY JobSet DEF JobsTyped, Begin, Outcomes
  <1>2. overlapped' \in BOOLEAN
    BY DEF HistoryTyped, Begin, Busy
  <1>3. QED
    BY <1>1, <1>2 DEF HistoryTyped, history

LEMMA FailureCounted ==
    ASSUME HistoryTyped, failures < MaxFailures, failures' = failures + 1,
           UNCHANGED <<history, overlapped>>
    PROVE  HistoryTyped'
  <1>1. failures' \in 0 .. MaxFailures
    BY Numbers DEF HistoryTyped
  <1>2. QED
    BY <1>1 DEF HistoryTyped, history

\* A commit of a save is counted and recorded as this clone's.
LEMMA Committed ==
    ASSUME TypeInv, MakeCommit
    PROVE  made' \in 0 .. MaxCommits /\ own' \in SUBSET Commit /\ own' \subseteq 1 .. made'
  BY CommitMade DEF TypeInv, HistoryTyped, MakeCommit

LEMMA CommittedTree ==
    ASSUME TypeInv, NEW p \in Proc, job[p].wt \in Tree, CommitAll(p),
           UNCHANGED <<config, saved, published, overlapped, failures>>
    PROVE  HistoryTyped' /\ TreesTyped'
  <1>1. NewCommit \in Commit
    BY CommitMade DEF CommitAll, MakeCommit
  <1>2. HistoryTyped'
    <2>1. marked' \in SUBSET Commit
      BY <1>1 DEF CommitAll, TypeInv, HistoryTyped
    <2>2. QED
      BY <2>1, Committed DEF CommitAll, TypeInv, HistoryTyped
  <1>3. TreesTyped'
    BY <1>1 DEF CommitAll, TypeInv, TreesTyped, TreeType, Held
  <1>4. QED
    BY <1>2, <1>3

LEMMA Published ==
    ASSUME TypeInv, NEW p \in Proc, job[p].stage \notin Dirless, NEW s \in {"merge", "tip"},
           NEW n \in 0 .. PushRetries, Publish(p, s, n), UNCHANGED outcome
    PROVE  JobsTyped'
  <1>1. job[p] \in Jobs
    BY DEF TypeInv, JobsTyped
  <1>2. (IF job[p].nosync THEN "tip" ELSE s) \in Stages
    BY DEF Stages
  <1>. DEFINE next == IF job[p].nosync THEN "tip" ELSE s
              j    == [job[p] EXCEPT !.stage = next, !.tries = n]
  <1>3. j \in Jobs
    BY <1>1, <1>2, TriesTyped
  <1>4. job' = [job EXCEPT ![p] = j]
    BY DEF Publish
  <1>. HIDE DEF j
  <1>5. QED
    BY <1>3, <1>4, Moved DEF TypeInv

-----------------------------------------------------------------------------
(* Every step keeps the types.                                              *)

LEMMA EditTypes ==
    ASSUME TypeInv, NEW p \in Proc, Edit(p)
    PROVE  TypeInv'
  <1>. RefsTyped /\ HistoryTyped /\ TreesTyped /\ JobsTyped
    BY DEF TypeInv
  <1>. job[p] \in Jobs
    BY DEF JobsTyped
  <1>1. CASE EditCheck(p)
    <2>1. [Idle EXCEPT !.stage = "add"] \in Jobs
      BY IdleTyped, StageTyped DEF Stages, Dirless
    <2>2. JobsTyped' /\ HistoryTyped'
      BY <1>1, <2>1, Begun DEF EditCheck
    <2>3. QED
      BY <1>1, <2>2, RefsKept, TreesKept, Typed DEF EditCheck
  <1>2. CASE EditAdd(p)
    <2>1. PICK w \in Tree :
              /\ \/ /\ trees' = [trees EXCEPT ![w] = [NoTree EXCEPT !.on = TRUE, !.head = local]]
                    /\ made' = made
                 \/ /\ CommitsLeft
                    /\ trees' = [trees EXCEPT ![w] = [NoTree EXCEPT !.on = TRUE,
                                                                    !.head = {NewCommit}]]
                    /\ made' = NewCommit
              /\ job' = [job EXCEPT ![p].wt = w, ![p].stage = "record"]
              /\ UNCHANGED <<refs, config, outcome, own, marked, saved, published,
                             overlapped, failures>>
      BY <1>2 DEF EditAdd
    <2>2. TreesTyped'
      <3>1. \A h \in SUBSET Commit : [NoTree EXCEPT !.on = TRUE, !.head = h] \in TreeType
        BY NoTreeTyped DEF TreeType
      <3>2. CommitsLeft => {NewCommit} \in SUBSET Commit
        BY CommitMade
      <3>3. QED
        BY <2>1, <3>1, <3>2 DEF TreesTyped, RefsTyped
    <2>3. HistoryTyped'
      <3>1. made' \in 0 .. MaxCommits /\ 1 .. made \subseteq 1 .. made'
        BY <2>1, CommitMade DEF HistoryTyped
      <3>2. QED
        BY <2>1, <3>1 DEF HistoryTyped
    <2>4. JobsTyped'
      <3>. DEFINE j == [job[p] EXCEPT !.wt = w, !.stage = "record"]
      <3>1. j \in Jobs
        BY DEF Jobs, JobType, Stages
      <3>2. job' = [job EXCEPT ![p] = j]
        BY <2>1
      <3>. HIDE DEF j
      <3>3. QED
        BY <2>1, <3>1, <3>2, Moved
    <2>5. QED
      BY <2>1, <2>2, <2>3, <2>4, RefsKept, Typed
  <1>3. CASE EditRecord(p)
    <2>1. JobsTyped'
      BY <1>3, Finished DEF EditRecord, Outcomes
    <2>2. HistoryTyped'
      BY <1>3, HistoryKept, FailureCounted DEF EditRecord
    <2>3. TreesTyped'
      <3>1. job[p].wt \in Tree
        BY <1>3 DEF EditRecord, At, Jobs, Dirless
      <3>2. QED
        BY <1>3, <3>1, NoTreeTyped DEF EditRecord, TreesTyped
    <2>4. QED
      BY <1>3, <2>1, <2>2, <2>3, RefsKept, Typed DEF EditRecord
  <1>4. QED
    BY <1>1, <1>2, <1>3 DEF Edit

LEMMA SaveTypes ==
    ASSUME TypeInv, NEW p \in Proc, Save(p)
    PROVE  TypeInv'
  <1>. RefsTyped /\ HistoryTyped /\ TreesTyped /\ JobsTyped
    BY DEF TypeInv
  <1>. job[p] \in Jobs
    BY DEF JobsTyped
  <1>. DEFINE InTree == job[p].stage \notin Dirless
  <1>0. /\ InTree => job[p].wt \in Tree
        /\ InTree => Held(p) \in TreeType
        /\ \A s \in Stages : InTree => [job[p] EXCEPT !.stage = s] \in Jobs
    BY StageTyped DEF Jobs, TreesTyped, Held
  <1>1. CASE SaveBegin(p)
    <2>1. PICK nosync \in BOOLEAN :
              /\ Editing
              /\ Begin(p, [Idle EXCEPT !.wt = config, !.nosync = nosync,
                           !.stage = IF trees[config].merging = {} THEN "commit" ELSE "resume"])
              /\ UNCHANGED <<refs, config, trees, history, failures>>
      BY <1>1 DEF SaveBegin
    <2>2. config \in Tree
      BY <2>1 DEF TreesTyped, Editing
    <2>3. \A s \in {"commit", "resume"} :
              [Idle EXCEPT !.wt = config, !.nosync = nosync, !.stage = s] \in Jobs
      BY <2>2, IdleTyped DEF Jobs, JobType, Stages
    <2>4. JobsTyped' /\ HistoryTyped'
      BY <2>1, <2>3, Begun
    <2>5. QED
      BY <2>1, <2>4, RefsKept, TreesKept, Typed
  <1>2. CASE SaveNormal(p)
    <2>1. InTree
      BY <1>2 DEF SaveNormal, At, Dirless
    <2>2. CASE Finish(p, "nothing") /\ UNCHANGED <<trees, history>>
      BY <1>2, <2>2, Finished, RefsKept, HistoryKept, TreesKept, Typed DEF SaveNormal, Outcomes
    <2>3. CASE CommitAll(p) /\ Publish(p, "merge", 1) /\ UNCHANGED <<outcome, saved, published>>
      <3>1. 1 \in 0 .. PushRetries
        BY Numbers
      <3>2. JobsTyped'
        BY <2>1, <2>3, <3>1, Published
      <3>3. HistoryTyped' /\ TreesTyped'
        BY <1>0, <1>2, <2>1, <2>3, CommittedTree DEF SaveNormal
      <3>4. QED
        BY <1>2, <3>2, <3>3, RefsKept, Typed DEF SaveNormal
    <2>4. QED
      BY <1>2, <2>2, <2>3 DEF SaveNormal
  <1>3. CASE StageAll(p)
    <2>1. InTree
      BY <1>3 DEF StageAll, At, Dirless
    <2>2. JobsTyped'
      BY <1>0, <1>3, <2>1, Moved DEF StageAll, GoTo, Stages
    <2>3. TreesTyped'
      BY <1>0, <1>3, <2>1 DEF StageAll, TreesTyped, TreeType
    <2>4. QED
      BY <1>3, <2>2, <2>3, RefsKept, HistoryKept, Typed DEF StageAll
  <1>4. CASE FinishConflictRerun(p)
    <2>1. InTree
      BY <1>4 DEF FinishConflictRerun, Dirless
    <2>2. CASE Finish(p, "conflict") /\ UNCHANGED <<trees, history>>
      BY <1>4, <2>2, Finished, RefsKept, HistoryKept, TreesKept, Typed
      DEF FinishConflictRerun, Outcomes
    <2>3. CASE CommitAll(p) /\ Publish(p, "tip", 0) /\ UNCHANGED <<outcome, saved, published>>
      <3>1. 0 \in 0 .. PushRetries
        BY Numbers
      <3>2. JobsTyped'
        BY <2>1, <2>3, <3>1, Published
      <3>3. HistoryTyped' /\ TreesTyped'
        BY <1>0, <1>4, <2>1, <2>3, CommittedTree DEF FinishConflictRerun
      <3>4. QED
        BY <1>4, <3>2, <3>3, RefsKept, Typed DEF FinishConflictRerun
    <2>4. QED
      BY <1>4, <2>2, <2>3 DEF FinishConflictRerun
  <1>5. CASE MergeRead(p)
    <2>1. \A s \in Stages : [job[p] EXCEPT !.new = remote, !.stage = s] \in Jobs
      BY <1>5, NewTyped DEF MergeRead, At, Dirless, RefsTyped
    <2>2. PICK s \in Stages : job' = [job EXCEPT ![p] = [job[p] EXCEPT !.new = remote, !.stage = s]]
      BY <1>5 DEF MergeRead, Stages
    <2>3. JobsTyped'
      BY <1>5, <2>1, <2>2, Moved DEF MergeRead
    <2>4. QED
      BY <1>5, <2>3, RefsKept, HistoryKept, TreesKept, Typed DEF MergeRead
  <1>6. CASE MergeWikiRemote(p)
    <2>1. InTree
      BY <1>6 DEF MergeWikiRemote, At, Dirless
    <2>2. RefsTyped'
      BY <1>6 DEF MergeWikiRemote, RefsTyped
    <2>3. JobsTyped'
      BY <1>0, <1>6, <2>1, Moved, Finished DEF MergeWikiRemote, GoTo, Stages, Outcomes
    <2>4. HistoryTyped'
      BY <1>6, Committed DEF MergeWikiRemote, HistoryTyped, history
    <2>5. /\ trees[job[p].wt].head \in SUBSET Commit
          /\ job[p].new \in SUBSET Commit
          /\ MakeCommit => Merged(trees[job[p].wt].head, job[p].new) \in SUBSET Commit
      BY <1>0, <2>1, CommitMade DEF MakeCommit, Merged, TreesTyped, TreeType, Jobs, JobType
    <2>6. TreesTyped'
      <3>. DEFINE w == job[p].wt
      <3>1. w \in Tree /\ trees[w] \in TreeType
        BY <1>0, <2>1 DEF TreesTyped
      <3>2. \A h \in SUBSET Commit :
                [trees EXCEPT ![w].head = h] \in [Tree -> TreeType]
        BY <3>1 DEF TreesTyped, TreeType
      <3>3. [trees EXCEPT ![w].merging = job[p].new, ![w].unmerged = TRUE,
                          ![w].markers = TRUE, ![w].dirty = TRUE] \in [Tree -> TreeType]
        BY <2>5, <3>1 DEF TreesTyped, TreeType
      <3>4. config' = config
        BY <1>6 DEF MergeWikiRemote
      <3>5. CASE trees' = [trees EXCEPT ![w].head = trees[w].head \cup job[p].new]
        BY <2>5, <3>2, <3>4, <3>5 DEF TreesTyped
      <3>6. CASE MakeCommit /\ trees' = [trees EXCEPT ![w].head = Merged(trees[w].head, job[p].new)]
        BY <2>5, <3>2, <3>4, <3>6 DEF TreesTyped
      <3>7. CASE \/ trees' = [trees EXCEPT ![w].merging = job[p].new, ![w].unmerged = TRUE,
                                           ![w].markers = TRUE, ![w].dirty = TRUE]
                 \/ trees' = trees
        BY <3>3, <3>4, <3>7 DEF TreesTyped
      <3>8. QED
        BY <1>6, <3>5, <3>6, <3>7 DEF MergeWikiRemote
    <2>7. QED
      BY <2>2, <2>3, <2>4, <2>6, Typed
  <1>7. CASE ReadHead(p)
    <2>1. [job[p] EXCEPT !.new = Held(p).head, !.stage = "ref"] \in Jobs
      BY <1>0, <1>7, NewTyped DEF ReadHead, At, Dirless, Stages, TreeType
    <2>2. JobsTyped'
      BY <1>7, <2>1, Moved DEF ReadHead
    <2>3. QED
      BY <1>7, <2>2, RefsKept, HistoryKept, TreesKept, Typed DEF ReadHead
  <1>8. CASE ReadTip(p)
    <2>1. [job[p] EXCEPT !.tip = local, !.stage = "update"] \in Jobs
      BY <1>8, NewTyped DEF ReadTip, At, Dirless, Stages, RefsTyped
    <2>2. JobsTyped'
      BY <1>8, <2>1, Moved DEF ReadTip
    <2>3. QED
      BY <1>8, <2>2, RefsKept, HistoryKept, TreesKept, Typed DEF ReadTip
  <1>9. CASE UpdateRef(p)
    <2>1. InTree
      BY <1>9 DEF UpdateRef, At, Dirless
    <2>2. JobsTyped'
      BY <1>0, <1>9, <2>1, Moved, Finished DEF UpdateRef, GoTo, Stages, Outcomes
    <2>3. RefsTyped'
      BY <1>9 DEF UpdateRef, RefsTyped, Jobs, JobType
    <2>4. QED
      BY <1>9, <2>2, <2>3, HistoryKept, TreesKept, Typed DEF UpdateRef
  <1>10. CASE PushWiki(p)
    <2>1. InTree
      BY <1>10 DEF PushWiki, At, Dirless
    <2>2. ASSUME RetriesLeft(p), UNCHANGED outcome,
                 job' = [job EXCEPT ![p].tries = @ + 1, ![p].stage = "merge"]
          PROVE  JobsTyped'
      <3>1. job[p].tries + 1 \in 0 .. PushRetries
        BY <2>2, Numbers DEF RetriesLeft, Jobs, JobType
      <3>. DEFINE j == [job[p] EXCEPT !.stage = "merge", !.tries = job[p].tries + 1]
      <3>2. j \in Jobs
        BY <2>1, <3>1, TriesTyped DEF Stages
      <3>3. job' = [job EXCEPT ![p] = j]
        BY <2>2
      <3>. HIDE DEF j
      <3>4. QED
        BY <2>2, <3>2, <3>3, Moved
    <2>3. JobsTyped'
      BY <1>0, <1>10, <2>1, <2>2, Moved, Finished DEF PushWiki, GoTo, Stages, Outcomes
    <2>4. RefsTyped'
      BY <1>10 DEF PushWiki, Pushed, RefsTyped
    <2>5. QED
      BY <1>10, <2>3, <2>4, HistoryKept, TreesKept, Typed DEF PushWiki
  <1>11. CASE RemoveTree(p)
    <2>1. InTree
      BY <1>11 DEF RemoveTree, At, Dirless
    <2>2. JobsTyped'
      BY <1>0, <1>11, <2>1, Moved DEF RemoveTree, GoTo, Stages
    <2>3. TreesTyped'
      BY <1>0, <1>11, <2>1, NoTreeTyped DEF RemoveTree, TreesTyped
    <2>4. QED
      BY <1>11, <2>2, <2>3, RefsKept, HistoryKept, Typed DEF RemoveTree
  <1>12. CASE UnsetConfig(p)
    <2>1. JobsTyped'
      BY <1>12, Finished DEF UnsetConfig, Outcomes
    <2>2. saved' \in SUBSET Commit /\ published' \in SUBSET Commit
      BY <1>12 DEF UnsetConfig, HistoryTyped, Jobs, JobType
    <2>3. HistoryTyped'
      BY <1>12, <2>2 DEF UnsetConfig, HistoryTyped
    <2>4. QED
      BY <1>12, <2>1, <2>3, RefsKept, Typed DEF UnsetConfig, TreesTyped
  <1>13. CASE TreeTaken(p)
    BY <1>13, Finished, RefsKept, HistoryKept, TreesKept, Typed DEF TreeTaken, Outcomes
  <1>14. QED
    BY <1>1, <1>2, <1>3, <1>4, <1>5, <1>6, <1>7, <1>8, <1>9, <1>10, <1>11, <1>12, <1>13
    DEF Save

LEMMA SyncTypes ==
    ASSUME TypeInv, NEW p \in Proc, Sync(p)
    PROVE  TypeInv'
  <1>. RefsTyped /\ HistoryTyped /\ TreesTyped /\ JobsTyped
    BY DEF TypeInv
  <1>. job[p] \in Jobs
    BY DEF JobsTyped
  <1>0. \A s \in {"advance", "send"} : [job[p] EXCEPT !.stage = s] \in Jobs
    BY StageTyped DEF Stages, Dirless
  <1>1. CASE SyncFetch(p)
    <2>1. [Idle EXCEPT !.stage = "plan"] \in Jobs
      BY IdleTyped, StageTyped DEF Stages, Dirless
    <2>2. JobsTyped' /\ HistoryTyped'
      BY <1>1, <2>1, Begun DEF SyncFetch
    <2>3. RefsTyped'
      BY <1>1 DEF SyncFetch, RefsTyped
    <2>4. QED
      BY <1>1, <2>2, <2>3, TreesKept, Typed DEF SyncFetch
  <1>2. CASE SyncPlan(p)
    <2>. DEFINE j == [job[p] EXCEPT !.tip = local, !.new = tracking, !.stage = "decide"]
    <2>1. j \in Jobs
      BY PlanTyped DEF RefsTyped
    <2>2. JobsTyped'
      <3>1. \/ job' = [job EXCEPT ![p] = j] /\ UNCHANGED outcome
            \/ Finish(p, "synced")
        BY <1>2 DEF SyncPlan
      <3>. HIDE DEF j
      <3>2. QED
        BY <2>1, <3>1, Moved, Finished DEF Outcomes
    <2>3. QED
      BY <1>2, <2>2, RefsKept, HistoryKept, TreesKept, Typed DEF SyncPlan
  <1>3. CASE PlanWiki(p)
    <2>1. JobsTyped'
      <3>1. ASSUME NEW s \in {"advance", "send"}, GoTo(p, s), UNCHANGED outcome
            PROVE  JobsTyped'
        <4>. DEFINE j == [job[p] EXCEPT !.stage = s]
        <4>1. j \in Jobs /\ job' = [job EXCEPT ![p] = j]
          BY <1>0, <3>1 DEF GoTo
        <4>. HIDE DEF j
        <4>2. QED
          BY <3>1, <4>1, Moved
      <3>2. ASSUME NEW result \in {"skipped", "diverged"}, Finish(p, result)
            PROVE  JobsTyped'
        BY <3>2, Finished DEF Outcomes
      <3>3. QED
        BY <1>3, <3>1, <3>2 DEF PlanWiki
    <2>2. QED
      BY <1>3, <2>1, RefsKept, HistoryKept, TreesKept, Typed DEF PlanWiki
  <1>4. CASE SyncAdvance(p)
    <2>1. JobsTyped'
      BY <1>4, Finished DEF SyncAdvance, Outcomes
    <2>2. RefsTyped'
      BY <1>4 DEF SyncAdvance, RefsTyped, Jobs, JobType
    <2>3. QED
      BY <1>4, <2>1, <2>2, HistoryKept, TreesKept, Typed DEF SyncAdvance
  <1>5. CASE SyncPush(p)
    <2>1. JobsTyped'
      BY <1>5, Finished DEF SyncPush, Outcomes
    <2>2. RefsTyped'
      BY <1>5 DEF SyncPush, Pushed, RefsTyped
    <2>3. QED
      BY <1>5, <2>1, <2>2, HistoryKept, TreesKept, Typed DEF SyncPush
  <1>6. QED
    BY <1>1, <1>2, <1>3, <1>4, <1>5 DEF Sync

LEMMA TypeStep ==
    ASSUME TypeInv, [Next]_vars
    PROVE  TypeInv'
  <1>. RefsTyped /\ HistoryTyped /\ TreesTyped /\ JobsTyped
    BY DEF TypeInv
  <1>1. ASSUME NEW p \in Proc, Fail(p) PROVE TypeInv'
    BY <1>1, Finished, FailureCounted, RefsKept, TreesKept, Typed DEF Fail, Outcomes
  <1>2. ASSUME NEW w \in Tree, Write(w) \/ Resolve(w) PROVE TypeInv'
    <2>1. TreesTyped'
      <3>1. /\ [trees EXCEPT ![w].dirty = TRUE] \in [Tree -> TreeType]
            /\ [trees EXCEPT ![w].markers = FALSE, ![w].dirty = TRUE] \in [Tree -> TreeType]
        BY DEF TreesTyped, TreeType
      <3>2. QED
        BY <1>2, <3>1 DEF Write, Resolve, TreesTyped
    <2>2. JobsTyped'
      BY <1>2 DEF Write, Resolve, JobsTyped
    <2>3. QED
      BY <1>2, <2>1, <2>2, RefsKept, HistoryKept, Typed DEF Write, Resolve
  <1>3. CASE PeerPush
    <2>1. RefsTyped'
      BY <1>3, CommitMade DEF PeerPush, RefsTyped
    <2>2. HistoryTyped'
      BY <1>3, CommitMade DEF PeerPush, HistoryTyped
    <2>3. JobsTyped'
      BY <1>3 DEF PeerPush, JobsTyped
    <2>4. QED
      BY <1>3, <2>1, <2>2, <2>3, TreesKept, Typed DEF PeerPush
  <1>4. CASE UNCHANGED vars
    BY <1>4, RefsKept, HistoryKept, TreesKept, Typed DEF vars, JobsTyped
  <1>5. QED
    BY <1>1, <1>2, <1>3, <1>4, EditTypes, SaveTypes, SyncTypes DEF Next

\* Every variable keeps its type, whatever commands overlap, fail or are killed
\* (wikiapp, syncapp.planWiki).
THEOREM TypeCorrect == Spec => []TypeOK
  <1>1. Spec => []TypeInv
    BY TypeInit, TypeStep, PTL DEF Spec
  <1>2. QED
    BY <1>1, TypeInvIsStronger, PTL

-----------------------------------------------------------------------------
(* One command at a time.  What is true between two steps of the command    *)
(* that runs: a save and an edit know the recorded directory, the ref never *)
(* leaves what the checked-out branch holds, and a directory goes only when *)
(* all it holds is in the ref.                                              *)

Alone == \A p, q \in Proc : ~At(p, "idle") /\ ~At(q, "idle") => p = q

Saving == {"commit", "resume", "verify", "conclude", "merge", "merging", "tip", "ref",
           "update", "push", "remove"}

Holds(p) ==
    /\ job[p].stage \in {"add", "record", "advance", "unset"} => ~Editing
    /\ job[p].stage = "record" =>
           /\ trees[job[p].wt].on
           /\ local \subseteq trees[job[p].wt].head
           /\ trees[job[p].wt].head \cap own \subseteq local
    /\ job[p].stage \in Saving => job[p].wt = config /\ trees[config].on
    /\ job[p].stage \in {"ref", "update", "push", "remove"} => job[p].new = trees[config].head
    /\ job[p].stage \in {"push", "remove", "unset"} => job[p].new = local
    /\ job[p].stage \in {"remove", "unset"} /\ ~job[p].nosync => local \subseteq remote
    /\ job[p].stage = "advance" => job[p].tip \subseteq job[p].new

\* What a checked-out branch holds includes what the ref does.
Ahead == Editing => local \subseteq trees[config].head

\* The conclusions of WorkIsKept and OneEdit.
InTrees == UNION {trees[w].head : w \in {v \in Tree : trees[v].on}}
Kept ==
    /\ published \subseteq remote
    /\ saved \subseteq local \cup remote
    /\ own \subseteq local \cup remote \cup InTrees
Single ==
    failures = 0 =>
        \A w \in Tree : trees[w].on =>
            config = w \/ \E p \in Proc : At(p, "record") /\ job[p].wt = w

SafeInv ==
    ~overlapped => Alone /\ (\A p \in Proc : Holds(p)) /\ Ahead /\ Kept /\ Single

LEMMA SafeInit == Init => SafeInv
  <1>. SUFFICES ASSUME Init PROVE SafeInv
    OBVIOUS
  <1>1. \A p \in Proc : job[p].stage = "idle"
    BY DEF Init, Idle
  <1>2. \A w \in Tree : ~trees[w].on
    BY DEF Init, NoTree
  <1>3. Alone /\ (\A p \in Proc : Holds(p))
    BY <1>1 DEF Alone, Holds, At, Saving
  <1>4. Ahead /\ Single
    BY <1>2 DEF Ahead, Editing, Single, Init
  <1>5. Kept
    BY DEF Kept, Init
  <1>6. QED
    BY <1>3, <1>4, <1>5 DEF SafeInv

\* While one command runs the others are idle, and stay idle.
LEMMA Lone ==
    ASSUME NEW p \in Proc, job \in [Proc -> Jobs], NEW j, job' = [job EXCEPT ![p] = j],
           \A q \in Proc \ {p} : At(q, "idle")
    PROVE  /\ job'[p] = j
           /\ Alone'
           /\ Holds(p)' => \A q \in Proc : Holds(q)'
  <1>1. \A q \in Proc \ {p} : job'[q].stage = "idle"
    BY DEF At
  <1>2. \A q \in Proc \ {p} : Holds(q)'
    BY <1>1 DEF Holds, Saving
  <1>3. QED
    BY <1>1, <1>2 DEF Alone, At

LEMMA Others ==
    ASSUME Alone, NEW p \in Proc, ~At(p, "idle")
    PROVE  \A q \in Proc \ {p} : At(q, "idle")
  BY DEF Alone

\* A command that ends holds nothing.
LEMMA Ended ==
    ASSUME NEW p \in Proc, NEW result, job \in [Proc -> Jobs], Finish(p, result),
           \A q \in Proc \ {p} : At(q, "idle")
    PROVE  Alone' /\ (\A q \in Proc : Holds(q)' /\ job'[q].stage = "idle")
  <1>1. job' = [job EXCEPT ![p] = Idle]
    BY DEF Finish
  <1>2. Holds(p)' /\ job'[p].stage = "idle"
    BY <1>1, IdleTyped DEF Holds, Saving
  <1>3. QED
    BY <1>1, <1>2, Lone DEF At

\* Kept, as long as nothing leaves the ref, the remote and the directories.
LEMMA KeptAs ==
    ASSUME Kept, published' = published, saved' = saved, own' = own,
           remote \subseteq remote', local \subseteq local', InTrees \subseteq InTrees'
    PROVE  Kept'
  BY DEF Kept

LEMMA SameTrees ==
    ASSUME NEW t, trees' = t,
           \A w \in Tree : trees[w].on => t[w].on /\ trees[w].head \subseteq t[w].head
    PROVE  InTrees \subseteq InTrees'
  BY DEF InTrees

\* A step that removes nothing from the ref, the remote and the directories,
\* adds no directory and records none.
LEMMA Frame ==
    ASSUME Ahead, Kept, Single, HistoryTyped,
           UNCHANGED <<local, config, own, saved, published>>,
           remote \subseteq remote', failures' = 0 => failures = 0,
           \A w \in Tree : /\ trees'[w].on = trees[w].on
                          /\ trees[w].head \subseteq trees'[w].head,
           config \in Tree \cup {None},
           failures' = 0 => \A q \in Proc : At(q, "record") => job'[q] = job[q]
    PROVE  Ahead' /\ Kept' /\ Single'
  <1>1. Editing' <=> Editing
    BY Numbers DEF Editing
  <1>2. Ahead'
    BY <1>1 DEF Ahead, Editing
  <1>3. Kept'
    BY KeptAs, SameTrees
  <1>4. Single'
    BY DEF Single, At
  <1>5. QED
    BY <1>2, <1>3, <1>4

LEMMA Assembled ==
    ASSUME Alone', \A q \in Proc : Holds(q)', Ahead', Kept', Single'
    PROVE  SafeInv'
  BY DEF SafeInv

\* What the next lemmas know of a command that runs alone.
LEMMA Running ==
    ASSUME TypeInv, SafeInv, ~overlapped, NEW p \in Proc, ~At(p, "idle")
    PROVE  /\ Alone /\ (\A q \in Proc : Holds(q)) /\ Ahead /\ Kept /\ Single
           /\ RefsTyped /\ HistoryTyped /\ TreesTyped
           /\ job \in [Proc -> Jobs] /\ job[p] \in Jobs
           /\ \A q \in Proc \ {p} : At(q, "idle")
           /\ job[p].stage \in Saving => /\ job[p].wt \in Tree /\ job[p].wt = config
                                        /\ trees[config].on /\ Editing
  <1>1. /\ Alone /\ (\A q \in Proc : Holds(q)) /\ Ahead /\ Kept /\ Single
        /\ RefsTyped /\ HistoryTyped /\ TreesTyped
        /\ job \in [Proc -> Jobs] /\ job[p] \in Jobs
    BY DEF SafeInv, TypeInv, JobsTyped
  <1>2. \A q \in Proc \ {p} : At(q, "idle")
    BY <1>1, Others
  <1>3. job[p].stage \in Saving => job[p].wt = config /\ trees[config].on
    BY <1>1 DEF Holds
  <1>4. job[p].stage \in Saving => job[p].stage \notin Dirless
    BY DEF Saving, Dirless
  <1>5. job[p].stage \in Saving => job[p].wt \in Tree
    BY <1>1, <1>4 DEF Jobs
  <1>6. QED
    BY <1>1, <1>2, <1>3, <1>5, Numbers DEF Editing

\* A command that begins alone.
LEMMA Beginning ==
    ASSUME TypeInv, SafeInv, ~overlapped', NEW p \in Proc, NEW fields, Begin(p, fields)
    PROVE  /\ ~overlapped
           /\ (\A q \in Proc : Holds(q)) /\ Ahead /\ Kept /\ Single
           /\ RefsTyped /\ HistoryTyped /\ TreesTyped /\ job \in [Proc -> Jobs]
           /\ \A q \in Proc : At(q, "idle")
           /\ job' = [job EXCEPT ![p] = fields]
  BY DEF Begin, Busy, SafeInv, TypeInv, JobsTyped

\* A command that ends and has changed nothing but what Frame allows.
LEMMA Ending ==
    ASSUME TypeInv, SafeInv, ~overlapped, NEW p \in Proc, NEW result, ~At(p, "idle"),
           Finish(p, result), failures' = 0 => failures = 0,
           UNCHANGED <<local, config, own, saved, published>>, remote \subseteq remote',
           \A w \in Tree : /\ trees'[w].on = trees[w].on
                          /\ trees[w].head \subseteq trees'[w].head,
           At(p, "record") => failures' # 0
    PROVE  SafeInv'
  <1>1. Alone' /\ (\A q \in Proc : Holds(q)')
    BY Running, Ended
  <1>2. failures' = 0 => \A q \in Proc : At(q, "record") => job'[q] = job[q]
    BY Running DEF At
  <1>3. Ahead' /\ Kept' /\ Single'
    BY <1>2, Running, Frame DEF TreesTyped
  <1>4. QED
    BY <1>1, <1>3, Assembled

\* A command that goes on, and holds what its next stage needs.
LEMMA GoingOn ==
    ASSUME TypeInv, SafeInv, ~overlapped, NEW p \in Proc, NEW j, ~At(p, "idle"),
           job' = [job EXCEPT ![p] = j], Holds(p)', Ahead', Kept', Single'
    PROVE  SafeInv'
  BY Running, Lone, Assembled

-----------------------------------------------------------------------------
(* Every step keeps what is true of one command at a time.                  *)

LEMMA EditSafe ==
    ASSUME TypeInv, SafeInv, ~overlapped', NEW p \in Proc, Edit(p)
    PROVE  SafeInv'
  <1>1. CASE EditCheck(p)
    <2>. DEFINE j == [Idle EXCEPT !.stage = "add"]
    <2>1. Begin(p, j) /\ ~Editing /\ UNCHANGED <<refs, config, trees, history, failures>>
      BY <1>1 DEF EditCheck
    <2>2. j.stage = "add"
      BY DEF Idle
    <2>. HIDE DEF j
    <2>3. /\ Ahead /\ Kept /\ Single /\ HistoryTyped /\ TreesTyped /\ job \in [Proc -> Jobs]
          /\ \A q \in Proc : At(q, "idle")
          /\ job' = [job EXCEPT ![p] = j]
      BY <2>1, Beginning
    <2>4. Ahead' /\ Kept' /\ Single'
      BY <2>1, <2>3, Frame DEF refs, history, TreesTyped, At
    <2>5. Holds(p)'
      BY <2>1, <2>2, <2>3, Lone DEF Holds, Saving, Editing
    <2>6. QED
      BY <2>3, <2>4, <2>5, Lone, Assembled
  <1>2. CASE EditAdd(p)
    <2>1. PICK w \in Tree :
              /\ w # config /\ ~trees[w].on
              /\ \/ trees' = [trees EXCEPT ![w] = [NoTree EXCEPT !.on = TRUE, !.head = local]]
                 \/ /\ local = {} /\ CommitsLeft
                    /\ trees' = [trees EXCEPT ![w] = [NoTree EXCEPT !.on = TRUE,
                                                                    !.head = {NewCommit}]]
              /\ job' = [job EXCEPT ![p] = [job[p] EXCEPT !.wt = w, !.stage = "record"]]
              /\ UNCHANGED <<refs, config, own, saved, published, overlapped, failures>>
      BY ZenonT(60), <1>2 DEF EditAdd
    <2>2. At(p, "add") /\ ~At(p, "idle") /\ ~overlapped
      BY <1>2, <2>1 DEF EditAdd, At
    <2>3. /\ Holds(p) /\ Ahead /\ Kept /\ Single /\ HistoryTyped /\ TreesTyped
          /\ job \in [Proc -> Jobs] /\ job[p] \in Jobs
          /\ \A q \in Proc \ {p} : At(q, "idle")
      BY <2>2, Running
    <2>4. ~Editing /\ ~Editing'
      BY <2>1, <2>2, <2>3 DEF Holds, At, Editing, TreesTyped
    <2>. DEFINE h == trees'[w].head
    <2>5. /\ trees'[w].on /\ local \subseteq h /\ h \cap own \subseteq local
          /\ \A v \in Tree \ {w} : trees'[v] = trees[v]
      <3>1. \A v : [NoTree EXCEPT !.on = TRUE, !.head = v].head = v
        BY DEF NoTree
      <3>2. \A v : [NoTree EXCEPT !.on = TRUE, !.head = v].on
        BY DEF NoTree
      <3>3. CommitsLeft => NewCommit \notin own
        BY CommitMade
      <3>4. trees'[w].on /\ (h = local \/ (CommitsLeft /\ local = {} /\ h = {NewCommit}))
        BY <2>1, <2>3, <3>1, <3>2 DEF TreesTyped
      <3>5. QED
        BY <2>1, <2>3, <3>3, <3>4 DEF TreesTyped
    <2>6. job'[p].wt = w /\ job'[p].stage = "record"
      BY <2>1, <2>3 DEF Jobs, JobType
    <2>7. Holds(p)'
      BY <2>1, <2>4, <2>5, <2>6 DEF Holds, Saving, refs
    <2>8. Ahead'
      BY <2>4 DEF Ahead
    <2>9. Kept'
      <3>1. InTrees \subseteq InTrees'
        BY <2>1, <2>5, SameTrees
      <3>2. QED
        BY <2>1, <2>3, <3>1, KeptAs DEF refs
    <2>10. Single'
      <3>1. failures = 0 => \A v \in Tree : ~trees[v].on
        BY <2>2, <2>3, <2>4, Numbers DEF Single, At, Editing
      <3>2. QED
        BY <2>1, <2>5, <2>6, <3>1 DEF Single, At
    <2>11. QED
      BY <2>1, <2>2, <2>7, <2>8, <2>9, <2>10, GoingOn
  <1>3. CASE EditRecord(p)
    <2>. DEFINE w == job[p].wt
    <2>1. At(p, "record") /\ ~At(p, "idle") /\ ~overlapped
      BY <1>3 DEF EditRecord, At
    <2>2. /\ Holds(p) /\ Ahead /\ Kept /\ Single /\ HistoryTyped /\ TreesTyped
          /\ job \in [Proc -> Jobs] /\ job[p] \in Jobs
          /\ \A q \in Proc \ {p} : At(q, "idle")
      BY <2>1, Running
    <2>3. /\ w \in Tree /\ ~Editing /\ trees[w].on /\ local \subseteq trees[w].head
          /\ trees[w].head \cap own \subseteq local
      BY <2>1, <2>2 DEF Holds, At, Jobs, Dirless
    <2>4. PICK result : Finish(p, result)
      BY <1>3 DEF EditRecord
    <2>5. Alone' /\ (\A q \in Proc : Holds(q)' /\ job'[q].stage = "idle")
      BY <2>2, <2>4, Ended
    <2>6. CASE config' = w /\ UNCHANGED <<trees, failures>>
      <3>1. Ahead'
        BY <1>3, <2>3, <2>6 DEF Ahead, EditRecord, refs
      <3>2. Kept'
        BY <1>3, <2>2, <2>6 DEF Kept, InTrees, EditRecord, refs, history
      <3>3. Single'
        <4>1. ASSUME failures = 0, NEW v \in Tree, trees[v].on PROVE v = w
          BY <2>2, <2>3, <4>1, Numbers DEF Single, At, Editing
        <4>2. QED
          BY <2>6, <4>1 DEF Single
      <3>4. QED
        BY <2>5, <3>1, <3>2, <3>3, Assembled
    <2>7. CASE /\ failures < MaxFailures /\ failures' = failures + 1
               /\ trees' = [trees EXCEPT ![w] = NoTree] /\ UNCHANGED config
      <3>1. /\ ~trees'[w].on
            /\ \A v \in Tree \ {w} : trees'[v] = trees[v]
        BY <2>2, <2>3, <2>7 DEF TreesTyped, NoTree
      <3>2. Ahead'
        BY <2>2, <2>3, <2>7, <3>1 DEF Ahead, Editing, TreesTyped
      <3>3. Kept'
        <4>1. InTrees \subseteq InTrees' \cup trees[w].head
          BY <2>3, <3>1 DEF InTrees
        <4>2. UNCHANGED <<local, remote, own, saved, published>>
          BY <1>3 DEF EditRecord, refs, history
        <4>3. QED
          BY <2>2, <2>3, <4>1, <4>2 DEF Kept
      <3>4. Single'
        BY <2>2, <2>7 DEF Single, HistoryTyped
      <3>5. QED
        BY <2>5, <3>2, <3>3, <3>4, Assembled
    <2>8. QED
      BY <1>3, <2>6, <2>7 DEF EditRecord
  <1>4. QED
    BY <1>1, <1>2, <1>3 DEF Edit

\* A commit in the directory of a save that goes on or is to be merged.
LEMMA CommitSafe ==
    ASSUME TypeInv, SafeInv, ~overlapped, NEW p \in Proc, NEW t, NEW j,
           job[p].stage \in Saving, MakeCommit,
           trees' = t, \A v \in Tree \ {config} : t[v] = trees[v],
           t[config].on, trees[config].head \cup {NewCommit} \subseteq t[config].head,
           job' = [job EXCEPT ![p] = j],
           j.stage \in {"commit", "resume", "verify", "conclude", "merge", "merging", "tip"},
           j.wt = config,
           UNCHANGED <<local, remote, config, saved, published, failures>>
    PROVE  SafeInv'
  <1>1. ~At(p, "idle") /\ job[p].stage # "record"
    BY DEF At, Saving
  <1>2. /\ Ahead /\ Kept /\ Single /\ TreesTyped /\ job \in [Proc -> Jobs]
        /\ \A q \in Proc \ {p} : At(q, "idle")
        /\ config \in Tree /\ Editing
    BY <1>1, Running
  <1>3. Holds(p)'
    BY <1>2, Lone DEF Holds, Saving
  <1>4. Ahead'
    BY <1>2 DEF Ahead, Editing
  <1>5. Kept'
    <2>1. InTrees \subseteq InTrees' /\ NewCommit \in InTrees'
      BY <1>2 DEF InTrees
    <2>2. QED
      BY <1>2, <2>1 DEF Kept, MakeCommit
  <1>6. Single'
    BY <1>1, <1>2 DEF Single, At
  <1>7. QED
    BY <1>1, <1>3, <1>4, <1>5, <1>6, GoingOn

\* The two places where a save commits.
LEMMA CommitAllSafe ==
    ASSUME TypeInv, SafeInv, ~overlapped, NEW p \in Proc, NEW s \in {"merge", "tip"}, NEW n,
           job[p].stage \in Saving, Held(p).on, CommitAll(p), Publish(p, s, n),
           UNCHANGED <<refs, config, saved, published, failures>>
    PROVE  SafeInv'
  <1>. DEFINE w == job[p].wt
              t == [trees EXCEPT ![w].head = trees[w].head \cup Held(p).merging \cup {NewCommit},
                                 ![w].dirty = FALSE, ![w].merging = {}, ![w].unmerged = FALSE]
              j == [job[p] EXCEPT !.stage = IF job[p].nosync THEN "tip" ELSE s, !.tries = n]
  <1>1. /\ w \in Tree /\ w = config /\ trees[config].on
        /\ TreesTyped /\ job \in [Proc -> Jobs] /\ job[p] \in Jobs
    BY Running DEF At, Saving
  <1>2. trees' = t /\ MakeCommit
    BY DEF CommitAll, Held
  <1>3. /\ \A v \in Tree \ {config} : t[v] = trees[v]
        /\ t[config].on /\ trees[config].head \cup {NewCommit} \subseteq t[config].head
    BY <1>1 DEF TreesTyped, TreeType
  <1>4. job' = [job EXCEPT ![p] = j]
    BY DEF Publish
  <1>5. j.stage \in {"merge", "tip"} /\ j.wt = config
    BY <1>1 DEF Jobs, JobType
  <1>. HIDE DEF t, j
  <1>6. QED
    BY <1>2, <1>3, <1>4, <1>5, CommitSafe DEF refs

LEMMA MergeSafe ==
    ASSUME TypeInv, SafeInv, ~overlapped, NEW p \in Proc, MergeWikiRemote(p)
    PROVE  SafeInv'
  <1>. DEFINE w == job[p].wt
              h == trees[w].head
              r == job[p].new
  <1>1. At(p, "merging") /\ ~At(p, "idle") /\ job[p].stage \in Saving /\ ~At(p, "record")
    BY DEF MergeWikiRemote, At, Saving
  <1>2. /\ Holds(p) /\ Ahead /\ Kept /\ Single /\ HistoryTyped /\ TreesTyped
        /\ job \in [Proc -> Jobs] /\ job[p] \in Jobs
        /\ \A q \in Proc \ {p} : At(q, "idle")
        /\ w \in Tree /\ w = config /\ trees[config].on
    BY <1>1, Running
  <1>3. UNCHANGED <<local, remote, config, failures>>
    BY DEF MergeWikiRemote
  <1>4. CASE trees' = [trees EXCEPT ![w].head = h \cup r] /\ GoTo(p, "tip") /\ UNCHANGED history
    <2>. DEFINE j == [job[p] EXCEPT !.stage = "tip"]
    <2>1. job' = [job EXCEPT ![p] = j] /\ j.stage = "tip" /\ j.wt = config
      BY <1>2, <1>4 DEF GoTo, Jobs, JobType
    <2>. HIDE DEF j
    <2>2. \A v \in Tree : /\ trees'[v].on = trees[v].on
                         /\ trees[v].head \subseteq trees'[v].head
      BY <1>2, <1>4 DEF TreesTyped, TreeType
    <2>3. Ahead' /\ Kept' /\ Single'
      BY <1>1, <1>2, <1>3, <1>4, <2>2, Frame DEF history, TreesTyped, At
    <2>4. Holds(p)'
      BY <1>2, <1>3, <2>1, <2>2, Lone DEF Holds, Saving
    <2>5. QED
      BY <1>1, <2>1, <2>3, <2>4, GoingOn
  <1>5. CASE /\ trees' = [trees EXCEPT ![w].head = Merged(h, r)] /\ MakeCommit /\ GoTo(p, "tip")
             /\ UNCHANGED <<outcome, marked, saved, published>>
    <2>. DEFINE j == [job[p] EXCEPT !.stage = "tip"]
                t == [trees EXCEPT ![w].head = Merged(h, r)]
    <2>1. job' = [job EXCEPT ![p] = j] /\ j.stage = "tip" /\ j.wt = config
      BY <1>2, <1>5 DEF GoTo, Jobs, JobType
    <2>2. /\ trees' = t /\ \A v \in Tree \ {config} : t[v] = trees[v]
          /\ t[config].on /\ trees[config].head \cup {NewCommit} \subseteq t[config].head
      BY <1>2, <1>5 DEF TreesTyped, TreeType, Merged
    <2>. HIDE DEF j, t
    <2>3. QED
      BY <1>1, <1>3, <1>5, <2>1, <2>2, CommitSafe
  <1>6. CASE /\ \/ trees' = [trees EXCEPT ![w].merging = r, ![w].unmerged = TRUE,
                                          ![w].markers = TRUE, ![w].dirty = TRUE]
                \/ trees' = trees
             /\ \E result : Finish(p, result)
             /\ UNCHANGED history
    <2>1. \A v \in Tree : /\ trees'[v].on = trees[v].on
                         /\ trees[v].head \subseteq trees'[v].head
      BY <1>2, <1>6 DEF TreesTyped, TreeType
    <2>2. QED
      BY <1>1, <1>3, <1>6, <2>1, Ending DEF history
  <1>7. QED
    BY <1>4, <1>5, <1>6 DEF MergeWikiRemote

\* A step of a command that writes only what the process has in memory, the
\* remote, or what Frame does not look at.
LEMMA MemorySafe ==
    ASSUME TypeInv, SafeInv, ~overlapped, NEW p \in Proc, NEW j, ~At(p, "idle"),
           ~At(p, "record"), job' = [job EXCEPT ![p] = j], Holds(p)',
           UNCHANGED <<local, config, own, saved, published, failures>>,
           remote \subseteq remote',
           \A w \in Tree : trees'[w].on = trees[w].on /\ trees'[w].head = trees[w].head
    PROVE  SafeInv'
  <1>1. /\ Ahead /\ Kept /\ Single /\ HistoryTyped /\ TreesTyped
        /\ \A q \in Proc \ {p} : At(q, "idle")
    BY Running
  <1>2. \A q \in Proc : At(q, "record") => job'[q] = job[q]
    BY <1>1 DEF At
  <1>3. Ahead' /\ Kept' /\ Single'
    BY <1>1, <1>2, Frame DEF TreesTyped
  <1>4. QED
    BY <1>3, GoingOn

LEMMA SaveSafe ==
    ASSUME TypeInv, SafeInv, ~overlapped', NEW p \in Proc, Save(p)
    PROVE  SafeInv'
  <1>1. CASE SaveBegin(p)
    <2>1. PICK nosync \in BOOLEAN :
              /\ Editing
              /\ Begin(p, [Idle EXCEPT !.wt = config, !.nosync = nosync,
                           !.stage = IF trees[config].merging = {} THEN "commit" ELSE "resume"])
              /\ UNCHANGED <<refs, config, trees, history, failures>>
      BY <1>1 DEF SaveBegin
    <2>. DEFINE s == IF trees[config].merging = {} THEN "commit" ELSE "resume"
                j == [Idle EXCEPT !.wt = config, !.nosync = nosync, !.stage = s]
    <2>2. j.stage \in {"commit", "resume"} /\ j.wt = config /\ Begin(p, j)
      BY <2>1 DEF Idle
    <2>. HIDE DEF j
    <2>3. /\ Ahead /\ Kept /\ Single /\ HistoryTyped /\ TreesTyped /\ job \in [Proc -> Jobs]
          /\ \A q \in Proc : At(q, "idle")
          /\ job' = [job EXCEPT ![p] = j]
      BY <2>2, Beginning
    <2>4. Ahead' /\ Kept' /\ Single'
      BY <2>1, <2>3, Frame DEF refs, history, TreesTyped, At
    <2>5. Holds(p)'
      BY <2>1, <2>2, <2>3, Lone DEF Holds, Saving, Editing
    <2>6. QED
      BY <2>3, <2>4, <2>5, Lone, Assembled
  <1>2. CASE SaveNormal(p)
    <2>1. ~At(p, "idle") /\ ~At(p, "record") /\ ~overlapped /\ job[p].stage \in Saving
      BY <1>2 DEF SaveNormal, At, Saving
    <2>2. CASE Finish(p, "nothing") /\ UNCHANGED <<trees, history>>
      BY <1>2, <2>1, <2>2, Ending DEF SaveNormal, refs, history
    <2>3. CASE CommitAll(p) /\ Publish(p, "merge", 1) /\ UNCHANGED <<outcome, saved, published>>
      BY <1>2, <2>1, <2>3, CommitAllSafe DEF SaveNormal
    <2>4. QED
      BY <1>2, <2>2, <2>3 DEF SaveNormal
  <1>3. CASE StageAll(p)
    <2>. DEFINE s == IF Held(p).unmerged THEN "verify" ELSE "conclude"
                j == [job[p] EXCEPT !.stage = s]
    <2>1. ~At(p, "idle") /\ ~At(p, "record") /\ ~overlapped /\ job[p].stage \in Saving
      BY <1>3 DEF StageAll, At, Saving
    <2>2. /\ TreesTyped /\ job \in [Proc -> Jobs] /\ job[p] \in Jobs
          /\ job[p].wt = config /\ trees[config].on
          /\ \A q \in Proc \ {p} : At(q, "idle")
      BY <2>1, Running
    <2>3. job' = [job EXCEPT ![p] = j] /\ j.stage \in {"verify", "conclude"} /\ j.wt = config
      BY <1>3, <2>2 DEF StageAll, GoTo, Jobs, JobType
    <2>. HIDE DEF j
    <2>4. \A w \in Tree : trees'[w].on = trees[w].on /\ trees'[w].head = trees[w].head
      BY <1>3, <2>2 DEF StageAll, TreesTyped, TreeType
    <2>5. config \in Tree /\ config' = config
      BY <1>3, <2>1, Running DEF StageAll
    <2>6. Holds(p)'
      BY <2>2, <2>3, <2>4, <2>5, Lone DEF Holds, Saving
    <2>7. QED
      BY <1>3, <2>1, <2>3, <2>4, <2>6, MemorySafe DEF StageAll, refs, history
  <1>4. CASE FinishConflictRerun(p)
    <2>1. ~At(p, "idle") /\ ~At(p, "record") /\ ~overlapped /\ job[p].stage \in Saving
      BY <1>4 DEF FinishConflictRerun, At, Saving
    <2>2. CASE Finish(p, "conflict") /\ UNCHANGED <<trees, history>>
      BY <1>4, <2>1, <2>2, Ending DEF FinishConflictRerun, refs, history
    <2>3. CASE CommitAll(p) /\ Publish(p, "tip", 0) /\ UNCHANGED <<outcome, saved, published>>
      BY <1>4, <2>1, <2>3, CommitAllSafe DEF FinishConflictRerun
    <2>4. QED
      BY <1>4, <2>2, <2>3 DEF FinishConflictRerun
  <1>5. CASE MergeRead(p)
    <2>. DEFINE s == IF remote = {} THEN "tip" ELSE "merging"
                j == [job[p] EXCEPT !.new = remote, !.stage = s]
    <2>1. ~At(p, "idle") /\ ~At(p, "record") /\ ~overlapped /\ job[p].stage \in Saving
      BY <1>5 DEF MergeRead, At, Saving
    <2>2. /\ job \in [Proc -> Jobs] /\ job[p] \in Jobs
          /\ job[p].wt = config /\ trees[config].on
          /\ \A q \in Proc \ {p} : At(q, "idle")
      BY <2>1, Running
    <2>3. job' = [job EXCEPT ![p] = j] /\ j.stage \in {"tip", "merging"} /\ j.wt = config
      BY <1>5, <2>2 DEF MergeRead, Jobs, JobType
    <2>. HIDE DEF j
    <2>4. Holds(p)'
      BY <1>5, <2>2, <2>3, Lone DEF MergeRead, Holds, Saving
    <2>5. QED
      BY <1>5, <2>1, <2>3, <2>4, MemorySafe DEF MergeRead, refs, history
  <1>6. CASE MergeWikiRemote(p)
    BY <1>6, MergeSafe DEF MergeWikiRemote
  <1>7. CASE ReadHead(p)
    <2>. DEFINE j == [job[p] EXCEPT !.new = Held(p).head, !.stage = "ref"]
    <2>1. ~At(p, "idle") /\ ~At(p, "record") /\ ~overlapped /\ job[p].stage \in Saving
      BY <1>7 DEF ReadHead, At, Saving
    <2>2. /\ job \in [Proc -> Jobs] /\ job[p] \in Jobs
          /\ job[p].wt = config /\ trees[config].on
          /\ \A q \in Proc \ {p} : At(q, "idle")
      BY <2>1, Running
    <2>3. /\ job' = [job EXCEPT ![p] = j]
          /\ j.stage = "ref" /\ j.wt = config /\ j.new = trees[config].head
      BY <1>7, <2>2 DEF ReadHead, Held, Jobs, JobType
    <2>. HIDE DEF j
    <2>4. Holds(p)'
      BY <1>7, <2>2, <2>3, Lone DEF ReadHead, Holds, Saving
    <2>5. QED
      BY <1>7, <2>1, <2>3, <2>4, MemorySafe DEF ReadHead, refs, history
  <1>8. CASE ReadTip(p)
    <2>. DEFINE j == [job[p] EXCEPT !.tip = local, !.stage = "update"]
    <2>1. ~At(p, "idle") /\ ~At(p, "record") /\ ~overlapped /\ job[p].stage \in Saving
      BY <1>8 DEF ReadTip, At, Saving
    <2>2. /\ job \in [Proc -> Jobs] /\ job[p] \in Jobs /\ Holds(p)
          /\ job[p].wt = config /\ trees[config].on
          /\ \A q \in Proc \ {p} : At(q, "idle")
      BY <2>1, Running
    <2>3. /\ job' = [job EXCEPT ![p] = j]
          /\ j.stage = "update" /\ j.wt = config /\ j.new = job[p].new
      BY <1>8, <2>2 DEF ReadTip, Jobs, JobType
    <2>. HIDE DEF j
    <2>4. Holds(p)'
      BY <1>8, <2>2, <2>3, Lone DEF ReadTip, At, Holds, Saving
    <2>5. QED
      BY <1>8, <2>1, <2>3, <2>4, MemorySafe DEF ReadTip, refs, history
  <1>9. CASE UpdateRef(p)
    <2>1. ~At(p, "idle") /\ ~At(p, "record") /\ ~overlapped /\ job[p].stage \in Saving
      BY <1>9 DEF UpdateRef, At, Saving
    <2>2. /\ job \in [Proc -> Jobs] /\ job[p] \in Jobs /\ Holds(p)
          /\ Ahead /\ Kept /\ Single /\ TreesTyped
          /\ config \in Tree /\ Editing /\ job[p].wt = config /\ trees[config].on
          /\ \A q \in Proc \ {p} : At(q, "idle")
      BY <2>1, Running
    <2>3. CASE Finish(p, "failed") /\ UNCHANGED local
      BY <1>9, <2>1, <2>3, Ending DEF UpdateRef, refs, history
    <2>4. CASE local' = job[p].new /\ GoTo(p, IF job[p].nosync THEN "remove" ELSE "push")
      <3>. DEFINE s == IF job[p].nosync THEN "remove" ELSE "push"
                  j == [job[p] EXCEPT !.stage = s]
      <3>1. /\ job' = [job EXCEPT ![p] = j] /\ j.wt = config /\ j.new = job[p].new
            /\ j.stage \in {"remove", "push"} /\ j.nosync = job[p].nosync
            /\ j.stage = "remove" => j.nosync
        BY <2>2, <2>4 DEF GoTo, Jobs, JobType
      <3>. HIDE DEF j
      <3>2. UNCHANGED <<remote, config, trees, own, saved, published, failures>>
        BY <1>9 DEF UpdateRef, history
      <3>3. local' = trees[config].head /\ local \subseteq local'
        BY <1>9, <2>2, <2>4 DEF UpdateRef, At, Holds, Ahead
      <3>4. Holds(p)'
        BY <2>2, <2>4, <3>1, <3>2, <3>3, Lone DEF Holds, Saving
      <3>5. Ahead'
        BY <3>2, <3>3 DEF Ahead
      <3>6. Kept'
        BY <2>2, <3>2, <3>3 DEF Kept, InTrees
      <3>7. Single'
        BY <2>1, <2>2, <3>2 DEF Single, At
      <3>8. QED
        BY <2>1, <3>1, <3>4, <3>5, <3>6, <3>7, GoingOn
    <2>5. QED
      BY <1>9, <2>3, <2>4 DEF UpdateRef
  <1>10. CASE PushWiki(p)
    <2>1. ~At(p, "idle") /\ ~At(p, "record") /\ ~overlapped /\ job[p].stage \in Saving
      BY <1>10 DEF PushWiki, At, Saving
    <2>2. /\ job \in [Proc -> Jobs] /\ job[p] \in Jobs /\ Holds(p)
          /\ job[p].wt = config /\ trees[config].on
          /\ \A q \in Proc \ {p} : At(q, "idle")
      BY <2>1, Running
    <2>3. UNCHANGED <<local, config, trees, own, saved, published, failures>>
      BY <1>10 DEF PushWiki, history
    <2>4. CASE PushAccepted /\ Pushed /\ GoTo(p, "remove")
      <3>. DEFINE j == [job[p] EXCEPT !.stage = "remove"]
      <3>1. /\ job' = [job EXCEPT ![p] = j] /\ j.wt = config /\ j.new = job[p].new
            /\ j.stage = "remove"
        BY <2>2, <2>4 DEF GoTo, Jobs, JobType
      <3>. HIDE DEF j
      <3>2. remote' = local /\ remote \subseteq remote'
        BY <2>4 DEF PushAccepted, Pushed
      <3>3. Holds(p)'
        BY <1>10, <2>2, <2>3, <3>1, <3>2, Lone DEF PushWiki, At, Holds, Saving
      <3>4. QED
        BY <2>1, <2>3, <3>1, <3>2, <3>3, MemorySafe
    <2>5. CASE job' = [job EXCEPT ![p].tries = @ + 1, ![p].stage = "merge"] /\ remote' = remote
      <3>. DEFINE j == [job[p] EXCEPT !.tries = job[p].tries + 1, !.stage = "merge"]
      <3>1. job' = [job EXCEPT ![p] = j] /\ j.wt = config /\ j.stage = "merge"
        BY <2>2, <2>5 DEF Jobs, JobType
      <3>. HIDE DEF j
      <3>2. Holds(p)'
        BY <2>2, <2>3, <3>1, Lone DEF Holds, Saving
      <3>3. QED
        BY <2>1, <2>3, <2>5, <3>1, <3>2, MemorySafe
    <2>6. CASE Finish(p, "exhausted") /\ remote' = remote
      BY <2>1, <2>3, <2>6, Ending
    <2>7. QED
      BY <1>10, <2>4, <2>5, <2>6 DEF PushWiki
  <1>11. CASE RemoveTree(p)
    <2>. DEFINE j == [job[p] EXCEPT !.stage = "unset"]
    <2>1. ~At(p, "idle") /\ ~At(p, "record") /\ ~overlapped /\ job[p].stage \in Saving
      BY <1>11 DEF RemoveTree, At, Saving
    <2>2. /\ job \in [Proc -> Jobs] /\ job[p] \in Jobs /\ Holds(p)
          /\ Ahead /\ Kept /\ Single /\ TreesTyped
          /\ config \in Tree /\ job[p].wt = config /\ trees[config].on
          /\ \A q \in Proc \ {p} : At(q, "idle")
      BY <2>1, Running
    <2>3. /\ job' = [job EXCEPT ![p] = j] /\ j.new = job[p].new
          /\ j.stage = "unset" /\ j.nosync = job[p].nosync
      BY <1>11, <2>2 DEF RemoveTree, GoTo, Jobs, JobType
    <2>. HIDE DEF j
    <2>4. UNCHANGED <<local, remote, config, own, saved, published, failures>>
      BY <1>11 DEF RemoveTree, refs, history
    <2>5. ~trees'[config].on /\ \A w \in Tree \ {config} : trees'[w] = trees[w]
      BY <1>11, <2>2 DEF RemoveTree, TreesTyped, NoTree
    <2>6. ~Editing'
      BY <2>4, <2>5 DEF Editing
    <2>7. trees[config].head = local
      BY <1>11, <2>2 DEF RemoveTree, At, Holds
    <2>8. Holds(p)'
      BY <1>11, <2>2, <2>3, <2>4, <2>6, Lone DEF RemoveTree, At, Holds, Saving
    <2>9. Ahead'
      BY <2>6 DEF Ahead
    <2>10. Kept'
      <3>1. InTrees \subseteq InTrees' \cup local
        BY <2>5, <2>7 DEF InTrees
      <3>2. QED
        BY <2>2, <2>4, <3>1 DEF Kept
    <2>11. Single'
      BY <2>1, <2>2, <2>4, <2>5 DEF Single, At
    <2>12. QED
      BY <2>1, <2>3, <2>8, <2>9, <2>10, <2>11, GoingOn
  <1>12. CASE UnsetConfig(p)
    <2>1. At(p, "unset") /\ ~At(p, "idle") /\ ~At(p, "record") /\ ~overlapped
      BY <1>12 DEF UnsetConfig, At
    <2>2. /\ job \in [Proc -> Jobs] /\ Holds(p) /\ Kept /\ Single /\ TreesTyped
          /\ \A q \in Proc \ {p} : At(q, "idle")
      BY <2>1, Running
    <2>3. ~Editing /\ job[p].new = local /\ (~job[p].nosync => local \subseteq remote)
      BY <2>1, <2>2 DEF At, Holds
    <2>4. Finish(p, "saved") /\ config' = None /\ UNCHANGED <<local, remote, trees, own, failures>>
      BY <1>12 DEF UnsetConfig, refs
    <2>5. Alone' /\ (\A q \in Proc : Holds(q)')
      BY <2>2, <2>4, Ended
    <2>6. Ahead'
      BY <2>4 DEF Ahead, Editing
    <2>7. Kept'
      <3>1. saved' = saved \cup local
        BY <1>12, <2>3 DEF UnsetConfig
      <3>2. published' \subseteq published \cup remote
        BY <1>12, <2>3 DEF UnsetConfig
      <3>3. QED
        BY <2>2, <2>4, <3>1, <3>2 DEF Kept, InTrees
    <2>8. Single'
      <3>1. failures = 0 => \A w \in Tree : ~trees[w].on
        BY <2>1, <2>2, <2>3, Numbers DEF Single, At, Editing
      <3>2. QED
        BY <2>4, <3>1 DEF Single
    <2>9. QED
      BY <2>5, <2>6, <2>7, <2>8, Assembled
  <1>13. CASE TreeTaken(p)
    <2>1. ~At(p, "idle") /\ ~At(p, "record") /\ ~overlapped
      BY <1>13 DEF TreeTaken, At
    <2>2. QED
      BY <1>13, <2>1, Ending DEF TreeTaken, refs, history
  <1>14. QED
    BY <1>1, <1>2, <1>3, <1>4, <1>5, <1>6, <1>7, <1>8, <1>9, <1>10, <1>11, <1>12, <1>13
    DEF Save

LEMMA SyncSafe ==
    ASSUME TypeInv, SafeInv, ~overlapped', NEW p \in Proc, Sync(p)
    PROVE  SafeInv'
  <1>1. CASE SyncFetch(p)
    <2>. DEFINE j == [Idle EXCEPT !.stage = "plan"]
    <2>1. Begin(p, j) /\ UNCHANGED <<local, remote, config, trees, history, failures>>
      BY <1>1 DEF SyncFetch
    <2>2. j.stage = "plan"
      BY DEF Idle
    <2>. HIDE DEF j
    <2>3. /\ Ahead /\ Kept /\ Single /\ HistoryTyped /\ TreesTyped /\ job \in [Proc -> Jobs]
          /\ \A q \in Proc : At(q, "idle")
          /\ job' = [job EXCEPT ![p] = j]
      BY <2>1, Beginning
    <2>4. Ahead' /\ Kept' /\ Single'
      BY <2>1, <2>3, Frame DEF history, TreesTyped, At
    <2>5. Holds(p)'
      BY <2>2, <2>3, Lone DEF Holds, Saving
    <2>6. QED
      BY <2>3, <2>4, <2>5, Lone, Assembled
  <1>2. CASE SyncPlan(p)
    <2>. DEFINE j == [job[p] EXCEPT !.tip = local, !.new = tracking, !.stage = "decide"]
    <2>1. ~At(p, "idle") /\ ~At(p, "record") /\ ~overlapped
      BY <1>2 DEF SyncPlan, At
    <2>2. /\ job \in [Proc -> Jobs] /\ job[p] \in Jobs
          /\ \A q \in Proc \ {p} : At(q, "idle")
      BY <2>1, Running
    <2>3. CASE job' = [job EXCEPT ![p] = j]
      <3>1. j.stage = "decide"
        BY <2>2 DEF Jobs, JobType
      <3>. HIDE DEF j
      <3>2. Holds(p)'
        BY <2>2, <2>3, <3>1, Lone DEF Holds, Saving
      <3>3. QED
        BY <1>2, <2>1, <2>3, <3>2, MemorySafe DEF SyncPlan, refs, history
    <2>4. CASE Finish(p, "synced")
      BY <1>2, <2>1, <2>4, Ending DEF SyncPlan, refs, history
    <2>5. QED
      BY <1>2, <2>3, <2>4 DEF SyncPlan
  <1>3. CASE PlanWiki(p)
    <2>1. ~At(p, "idle") /\ ~At(p, "record") /\ ~overlapped
      BY <1>3 DEF PlanWiki, At
    <2>2. /\ job \in [Proc -> Jobs] /\ job[p] \in Jobs
          /\ \A q \in Proc \ {p} : At(q, "idle")
      BY <2>1, Running
    <2>3. UNCHANGED <<local, remote, config, trees, own, saved, published, failures>>
      BY <1>3 DEF PlanWiki, refs, history
    <2>4. ASSUME NEW s \in {"send", "advance"}, GoTo(p, s), ~Editing,
                 s = "advance" => job[p].tip \subseteq job[p].new
          PROVE  SafeInv'
      <3>. DEFINE j == [job[p] EXCEPT !.stage = s]
      <3>1. /\ job' = [job EXCEPT ![p] = j]
            /\ j.stage = s /\ j.tip = job[p].tip /\ j.new = job[p].new
        BY <2>2, <2>4 DEF GoTo, Jobs, JobType
      <3>. HIDE DEF j
      <3>2. Holds(p)'
        BY <2>2, <2>3, <2>4, <3>1, Lone DEF Holds, Saving, Editing
      <3>3. QED
        BY <2>1, <2>3, <3>1, <3>2, MemorySafe
    <2>5. ASSUME NEW result, Finish(p, result) PROVE SafeInv'
      BY <2>1, <2>3, <2>5, Ending
    <2>6. QED
      BY <1>3, <2>4, <2>5 DEF PlanWiki, MayMove
  <1>4. CASE SyncAdvance(p)
    <2>1. At(p, "advance") /\ ~At(p, "idle") /\ ~At(p, "record") /\ ~overlapped
      BY <1>4 DEF SyncAdvance, At
    <2>2. /\ Holds(p) /\ Kept /\ Single /\ job \in [Proc -> Jobs]
          /\ \A q \in Proc \ {p} : At(q, "idle")
      BY <2>1, Running
    <2>3. ~Editing /\ job[p].tip \subseteq job[p].new
      BY <2>1, <2>2 DEF Holds, At
    <2>4. local \subseteq local' /\ UNCHANGED <<remote, config, trees, own, saved, published, failures>>
      BY <1>4, <2>3 DEF SyncAdvance, history
    <2>5. Alone' /\ (\A q \in Proc : Holds(q)')
      BY <1>4, <2>2, Ended DEF SyncAdvance
    <2>6. Ahead'
      BY <2>3, <2>4 DEF Ahead, Editing
    <2>7. Kept'
      BY <2>2, <2>4 DEF Kept, InTrees
    <2>8. Single'
      BY <2>1, <2>2, <2>4 DEF Single, At
    <2>9. QED
      BY <2>5, <2>6, <2>7, <2>8, Assembled
  <1>5. CASE SyncPush(p)
    <2>1. ~At(p, "idle") /\ ~At(p, "record") /\ ~overlapped
      BY <1>5 DEF SyncPush, At
    <2>2. remote \subseteq remote'
      BY <1>5 DEF SyncPush, PushAccepted, Pushed
    <2>3. QED
      BY <1>5, <2>1, <2>2, Ending DEF SyncPush, history
  <1>6. QED
    BY <1>1, <1>2, <1>3, <1>4, <1>5 DEF Sync

LEMMA SafeStep ==
    ASSUME TypeInv, SafeInv, [Next]_vars
    PROVE  SafeInv'
  <1>. SUFFICES ASSUME ~overlapped' PROVE SafeInv'
    BY DEF SafeInv
  <1>1. ASSUME NEW p \in Proc, Fail(p) PROVE SafeInv'
    <2>1. ~At(p, "idle") /\ ~overlapped /\ failures' # 0 /\ Finish(p, "failed")
      BY <1>1 DEF Fail, TypeInv, HistoryTyped
    <2>2. QED
      BY <1>1, <2>1, Ending DEF Fail, refs, history
  <1>2. ASSUME ~overlapped, UNCHANGED <<local, config, job, own, saved, published, failures>>,
               remote \subseteq remote',
               \A w \in Tree : trees'[w].on = trees[w].on /\ trees'[w].head = trees[w].head
        PROVE  SafeInv'
    <2>1. /\ Alone /\ (\A p \in Proc : Holds(p)) /\ Ahead /\ Kept /\ Single
          /\ HistoryTyped /\ TreesTyped /\ job \in [Proc -> Jobs]
      BY <1>2 DEF SafeInv, TypeInv, JobsTyped
    <2>2. Ahead' /\ Kept' /\ Single'
      BY <1>2, <2>1, Frame DEF TreesTyped
    <2>3. Alone'
      BY <1>2, <2>1 DEF Alone, At
    <2>4. ASSUME NEW p \in Proc PROVE Holds(p)'
      <3>1. Holds(p) /\ (Editing' <=> Editing)
        BY <1>2, <2>1, Numbers DEF Editing, TreesTyped
      <3>2. job[p].stage = "record" => job[p].wt \in Tree
        BY <2>1 DEF Jobs, Dirless
      <3>3. job[p].stage \in Saving => config \in Tree
        BY <2>1, <3>1 DEF Holds, Jobs, Saving, Dirless
      <3>4. QED
        BY <1>2, <3>1, <3>2, <3>3 DEF Holds, Saving
    <2>5. QED
      BY <2>2, <2>3, <2>4, Assembled
  <1>3. ASSUME NEW w \in Tree, Write(w) \/ Resolve(w) PROVE SafeInv'
    <2>1. \A v \in Tree : trees'[v].on = trees[v].on /\ trees'[v].head = trees[v].head
      BY <1>3 DEF Write, Resolve, TypeInv, TreesTyped, TreeType
    <2>2. QED
      BY <1>2, <1>3, <2>1 DEF Write, Resolve, refs, history
  <1>4. CASE PeerPush
    BY <1>2, <1>4 DEF PeerPush
  <1>5. CASE UNCHANGED vars
    BY <1>2, <1>5 DEF vars, refs, history
  <1>6. QED
    BY <1>1, <1>3, <1>4, <1>5, EditSafe, SaveSafe, SyncSafe DEF Next

-----------------------------------------------------------------------------
(* The theorems.                                                            *)

LEMMA Safe == Spec => [](TypeInv /\ SafeInv)
  <1>1. Init => TypeInv /\ SafeInv
    BY TypeInit, SafeInit
  <1>2. TypeInv /\ SafeInv /\ [Next]_vars => (TypeInv /\ SafeInv)'
    BY TypeStep, SafeStep
  <1>3. QED
    BY <1>1, <1>2, PTL DEF Spec

\* With one command at a time no commit of a save is lost, through conflicts,
\* lost push races, kills and reruns: save removes a worktree only once all it
\* holds is in the ref and, without --no-sync, in the remote (pushMergedOnce,
\* advanceLocalAndFinish, cleanup).
THEOREM WorkKept == Spec => []WorkIsKept
  <1>1. SafeInv => WorkIsKept
    BY DEF SafeInv, WorkIsKept, Kept, InTrees
  <1>2. QED
    BY <1>1, Safe, PTL

\* With one command at a time and none killed there is never a second worktree
\* on disk that nothing records (Edit, issue #57).
THEOREM NoOrphanEdit == Spec => []OneEdit
  <1>1. SafeInv => OneEdit
    BY DEF SafeInv, OneEdit, Single
  <1>2. QED
    BY <1>1, Safe, PTL

\* The remote's wiki is never rewound, whatever runs at once, and with one
\* command at a time neither is the local ref, although save writes over the
\* value it reads last (advanceLocalAndFinish).
THEOREM WikiFastForwards == Spec => WikiOnlyFastForwards
  <1>1. ASSUME TypeInv, SafeInv, [Next]_vars
        PROVE  [/\ remote \subseteq remote'
                /\ ~overlapped' => local \subseteq local']_<<local, remote>>
    <2>1. remote \subseteq remote'
      BY ZenonT(60), <1>1 DEF Next, Edit, Save, Sync, EditCheck, EditAdd, EditRecord, SaveBegin, SaveNormal,
                  StageAll, FinishConflictRerun, MergeRead, MergeWikiRemote, ReadHead, ReadTip,
                  UpdateRef, PushWiki, RemoveTree, UnsetConfig, TreeTaken, SyncFetch, SyncPlan,
                  PlanWiki, SyncAdvance, SyncPush, Fail, Write, Resolve, PeerPush, PushAccepted,
                  Pushed, refs, vars
    <2>2. ASSUME ~overlapped' PROVE local \subseteq local'
      <3>1. ASSUME NEW p \in Proc, UpdateRef(p) PROVE local \subseteq local'
        <4>1. ~At(p, "idle") /\ At(p, "update") /\ ~overlapped /\ job[p].stage \in Saving
          BY <2>2, <3>1 DEF UpdateRef, At, Saving
        <4>2. Holds(p) /\ Ahead /\ Editing
          BY <1>1, <4>1, Running
        <4>3. local \subseteq job[p].new
          BY <4>1, <4>2 DEF Holds, Ahead, At
        <4>4. QED
          BY <3>1, <4>3 DEF UpdateRef
      <3>2. ASSUME NEW p \in Proc, SyncAdvance(p) PROVE local \subseteq local'
        <4>1. ~At(p, "idle") /\ At(p, "advance") /\ ~overlapped
          BY <2>2, <3>2 DEF SyncAdvance, At
        <4>2. Holds(p)
          BY <1>1, <4>1, Running
        <4>3. QED
          BY <3>2, <4>1, <4>2 DEF SyncAdvance, Holds, At
      <3>3. QED
        BY ZenonT(60), <1>1, <3>1, <3>2
        DEF Next, Edit, Save, Sync, EditCheck, EditAdd, EditRecord, SaveBegin, SaveNormal,
            StageAll, FinishConflictRerun, MergeRead, MergeWikiRemote, ReadHead, ReadTip,
            PushWiki, RemoveTree, UnsetConfig, TreeTaken, SyncFetch, SyncPlan,
            PlanWiki, SyncPush, Fail, Write, Resolve, PeerPush, refs, vars
    <2>3. QED
      BY <2>1, <2>2
  <1>2. QED
    BY <1>1, Safe, PTL DEF Spec, WikiOnlyFastForwards

\* With one command at a time sync never moves the ref under a worktree that
\* has it checked out: what it found when it planned is still so when it
\* writes, several git calls later (planWiki, ADR-0017).
THEOREM EditsLeftAlone == Spec => SyncLeavesEditsAlone
  <1>1. ASSUME TypeInv, SafeInv
        PROVE  [~overlapped' => \A p \in Proc : At(p, "advance") => ~Editing]_local
               \/ overlapped
    BY <1>1 DEF SafeInv, Holds, At
  <1>2. ASSUME [Next]_vars, overlapped PROVE overlapped'
    BY ZenonT(60), <1>2 DEF Next, Edit, Save, Sync, EditCheck, EditAdd, EditRecord, SaveBegin, SaveNormal,
                StageAll, FinishConflictRerun, MergeRead, MergeWikiRemote, ReadHead, ReadTip,
                UpdateRef, PushWiki, RemoveTree, UnsetConfig, TreeTaken, SyncFetch, SyncPlan,
                PlanWiki, SyncAdvance, SyncPush, Fail, Write, Resolve, PeerPush, Begin, vars
  <1>3. TypeInv /\ SafeInv /\ [Next]_vars
          => [~overlapped' => \A p \in Proc : At(p, "advance") => ~Editing]_local
    BY <1>1, <1>2
  <1>4. QED
    BY <1>3, Safe, PTL DEF Spec, SyncLeavesEditsAlone

=============================================================================
