---------------------------- MODULE RefSyncProofs ----------------------------
(***************************************************************************)
(* What RefSync's runs check on two clones, proved for any number of       *)
(* clones and processes and every bound: type correctness, the inductive   *)
(* invariant behind the safety properties, those properties, and that      *)
(* RefSync implements EventUnion.  Convergence and CommandsEnd are         *)
(* liveness and stay with the runs.                                        *)
(***************************************************************************)
EXTENDS RefSync, TLAPS

\* A process that has commits left to write picks one nobody has seen.
LEMMA NewCommitIsFresh ==
    ASSUME NEW p, NEW S, Fresh(p, S) # {}
    PROVE  /\ NewCommit(p, S) \in S
           /\ NewCommit(p, S) \notin objects
           /\ NewCommit(p, S)[1] = p
  <1>1. NewCommit(p, S) \in Fresh(p, S)
    BY DEF NewCommit
  <1>2. QED BY <1>1 DEF Fresh

\* The commit an Append writes is a new event of its own process.
LEMMA NewEvent ==
    ASSUME NEW p, Fresh(p, Event) # {}
    PROVE  /\ NewCommit(p, Event) \in Event
           /\ NewCommit(p, Event) \in Commit
           /\ NewCommit(p, Event) \notin objects
           /\ NewCommit(p, Event)[1] = p
  BY NewCommitIsFresh DEF Commit

\* The commit a merge writes is a new merge commit of its own process.
LEMMA NewMerge ==
    ASSUME NEW p, Fresh(p, Merge) # {}
    PROVE  /\ NewCommit(p, Merge) \in Commit
           /\ NewCommit(p, Merge) \notin Event
           /\ NewCommit(p, Merge) \notin objects
  <1>1. NewCommit(p, Merge) \in Merge /\ NewCommit(p, Merge) \notin objects
    BY NewCommitIsFresh
  <1>2. Merge \cap Event = {}
    BY DEF Merge, Event
  <1>3. QED BY <1>1, <1>2 DEF Commit

-----------------------------------------------------------------------------
(* Type correctness. *)

\* Every command has at least one attempt.
LEMMA AttemptsPositive ==
    \A s \in Stages : Attempts(s) \in Nat \ {0}
  BY SyncAssumption DEF Attempts, Stages

\* The initial state has its type.
LEMMA TypeInit == Init => TypeOK
  BY SyncAssumption DEF Init, TypeOK, Attempts, Stages, Outcomes

\* What every command that returns does to the processes' state.
LEMMA FinishKeepsTypes ==
    ASSUME TypeOK, NEW p \in Proc, NEW r \in Outcomes, Finish(p, r)
    PROVE  /\ pc' \in [Proc -> Stages]
           /\ base' \in [Proc -> SUBSET Commit]
           /\ seen' \in [Proc -> SUBSET Commit]
           /\ round' \in [Proc -> Nat]
           /\ \A q \in Proc : round'[q] < Attempts(pc'[q])
           /\ outcome' \in [Proc -> Outcomes]
  BY DEF TypeOK, Finish, GoTo, Attempts, Stages

\* A rejected push starts a further attempt or ends the command.
LEMMA RetryRoundKeepsTypes ==
    ASSUME TypeOK, NEW p \in Proc, pc[p] \in {"push", "sending"}, RetryRound(p)
    PROVE  /\ pc' \in [Proc -> Stages]
           /\ base' \in [Proc -> SUBSET Commit]
           /\ seen' \in [Proc -> SUBSET Commit]
           /\ round' \in [Proc -> Nat]
           /\ \A q \in Proc : round'[q] < Attempts(pc'[q])
           /\ outcome' \in [Proc -> Outcomes]
  <1>1. CASE RoundsLeft(p)
    <2>1. /\ round' = [round EXCEPT ![p] = @ + 1]
          /\ pc' = [pc EXCEPT ![p] = "fetch"]
          /\ UNCHANGED <<base, seen, outcome>>
      BY <1>1 DEF RetryRound, GoTo
    <2>2. QED BY <1>1, <2>1, SyncAssumption DEF TypeOK, RoundsLeft, Attempts, Stages
  <1>2. CASE ~RoundsLeft(p)
    <2>1. Finish(p, "exhausted")
      BY <1>2 DEF RetryRound
    <2>2. QED BY <2>1, FinishKeepsTypes DEF Outcomes
  <1>3. QED BY <1>1, <1>2

\* One step keeps TypeOK: each action in turn.
LEMMA TypeStep ==
    ASSUME TypeOK, [Next]_vars
    PROVE  TypeOK'
  <1>. USE SyncAssumption
  <1>1. ASSUME NEW p \in Proc, AppendBegin(p) PROVE TypeOK'
    BY <1>1 DEF TypeOK, AppendBegin, GoTo, Stages, Outcomes, Attempts, refs, env
  <1>2. ASSUME NEW p \in Proc, AppendRead(p) PROVE TypeOK'
    BY <1>2 DEF TypeOK, AppendRead, GoTo, Stages, Attempts, refs, env
  <1>3. ASSUME NEW p \in Proc, AppendCommit(p) PROVE TypeOK'
    <2>1. NewCommit(p, Event) \in Commit
      BY <1>3, NewEvent DEF AppendCommit
    <2>2. Finish(p, "appended")
      BY <1>3 DEF AppendCommit
    <2>3. QED BY <1>3, <2>1, <2>2, FinishKeepsTypes DEF TypeOK, AppendCommit, Outcomes, env
  <1>4. ASSUME NEW p \in Proc, AppendLost(p) PROVE TypeOK'
    <2>1. CASE /\ round[p] + 1 < AppendRetries
               /\ round' = [round EXCEPT ![p] = @ + 1]
               /\ GoTo(p, "append")
               /\ UNCHANGED <<base, seen, outcome>>
      BY <1>4, <2>1 DEF TypeOK, AppendLost, GoTo, Stages, Attempts, refs, env
    <2>2. CASE Finish(p, "exhausted")
      BY <1>4, <2>2, FinishKeepsTypes DEF TypeOK, AppendLost, Outcomes, refs, env
    <2>3. QED BY <1>4, <2>1, <2>2 DEF AppendLost
  <1>5. ASSUME NEW p \in Proc, SyncBegin(p) PROVE TypeOK'
    BY <1>5 DEF TypeOK, SyncBegin, GoTo, Stages, Outcomes, Attempts, refs, env
  <1>6. ASSUME NEW p \in Proc, FetchRead(p) PROVE TypeOK'
    BY <1>6 DEF TypeOK, FetchRead, GoTo, Stages, Attempts, refs, env
  <1>7. ASSUME NEW p \in Proc, FetchWrite(p) PROVE TypeOK'
    BY <1>7 DEF TypeOK, FetchWrite, Fetched, GoTo, Stages, Attempts, env
  <1>8. ASSUME NEW p \in Proc, PlanLocal(p) PROVE TypeOK'
    BY <1>8 DEF TypeOK, PlanLocal, GoTo, Stages, Attempts, refs, env
  <1>9. ASSUME NEW p \in Proc, PlanTracking(p) PROVE TypeOK'
    <2>1. CASE Finish(p, "synced")
      BY <1>9, <2>1, FinishKeepsTypes DEF TypeOK, PlanTracking, Outcomes, refs, env
    <2>2. CASE /\ seen' = [seen EXCEPT ![p] = tracking[CloneOf[p]]]
               /\ GoTo(p, IF NeedsPush(base[p], tracking[CloneOf[p]])
                          THEN "push" ELSE "advance")
               /\ UNCHANGED <<base, round, outcome>>
      BY <1>9, <2>2 DEF TypeOK, PlanTracking, GoTo, Stages, Attempts, refs, env
    <2>3. QED BY <1>9, <2>1, <2>2 DEF PlanTracking
  <1>10. ASSUME NEW p \in Proc, FastForward(p) PROVE TypeOK'
    BY <1>10, FinishKeepsTypes DEF TypeOK, FastForward, Outcomes, env
  <1>11. ASSUME NEW p \in Proc, MergeAndAdvance(p) PROVE TypeOK'
    <2>1. NewCommit(p, Merge) \in Commit
      BY <1>11, NewMerge DEF MergeAndAdvance
    <2>2. QED BY <1>11, <2>1
              DEF TypeOK, MergeAndAdvance, MergeTip, GoTo, Stages, Attempts, env
  <1>12. ASSUME NEW p \in Proc, AdvanceLost(p) PROVE TypeOK'
    BY <1>12, FinishKeepsTypes DEF TypeOK, AdvanceLost, Outcomes, refs, env
  <1>13. ASSUME NEW p \in Proc, PushRead(p) PROVE TypeOK'
    <2>1. CASE /\ base' = [base EXCEPT ![p] = local[CloneOf[p]]]
               /\ seen' = [seen EXCEPT ![p] = remote]
               /\ GoTo(p, "sending")
               /\ UNCHANGED <<round, outcome>>
      BY <1>13, <2>1 DEF TypeOK, PushRead, GoTo, Stages, Attempts, refs, env
    <2>2. CASE RetryRound(p)
      BY <1>13, <2>2, RetryRoundKeepsTypes DEF TypeOK, PushRead, refs, env
    <2>3. QED BY <1>13, <2>1, <2>2 DEF PushRead
  <1>14. ASSUME NEW p \in Proc, PushLand(p) PROVE TypeOK'
    BY <1>14 DEF TypeOK, PushLand, GoTo, Stages, Attempts, env
  <1>15. ASSUME NEW p \in Proc, PushRejected(p) PROVE TypeOK'
    BY <1>15, RetryRoundKeepsTypes DEF TypeOK, PushRejected, refs, env
  <1>16. ASSUME NEW p \in Proc, PushAck(p) PROVE TypeOK'
    BY <1>16, FinishKeepsTypes DEF TypeOK, PushAck, Outcomes, env
  <1>17. ASSUME NEW p \in Proc, Fail(p) PROVE TypeOK'
    BY <1>17, FinishKeepsTypes DEF TypeOK, Fail, Outcomes, refs
  <1>18. ASSUME NEW c \in Clone, OverwriteRemote(local[c]) PROVE TypeOK'
    BY <1>18 DEF TypeOK, OverwriteRemote, procs
  <1>19. ASSUME NEW c \in Clone, OverwriteRemote(tracking[c]) PROVE TypeOK'
    BY <1>19 DEF TypeOK, OverwriteRemote, procs
  <1>20. ASSUME DeleteRemote PROVE TypeOK'
    BY <1>20 DEF TypeOK, DeleteRemote, procs
  <1>21. ASSUME UNCHANGED vars PROVE TypeOK'
    BY <1>21 DEF TypeOK, vars, refs, procs, env
  <1>22. QED
    BY <1>1, <1>2, <1>3, <1>4, <1>5, <1>6, <1>7, <1>8, <1>9, <1>10, <1>11, <1>12,
       <1>13, <1>14, <1>15, <1>16, <1>17, <1>18, <1>19, <1>20, <1>21
    DEF Next, AppendStep, SyncStep

\* TypeOK, the attempts of every command included, holds throughout.
THEOREM TypeCorrect == Spec => []TypeOK
  <1>1. Init => TypeOK
    BY TypeInit
  <1>2. TypeOK /\ [Next]_vars => TypeOK'
    BY TypeStep
  <1>3. QED BY <1>1, <1>2, PTL DEF Spec

-----------------------------------------------------------------------------
(* Refs of a clone move forward, and only to commits that exist.           *)

\* The three actions that move a clone's ref compare-and-swap it away from the
\* value they started from, to one that contains it.
LEMMA LocalGrows ==
    ASSUME TypeOK, [Next]_vars
    PROVE  \A c \in Clone : local[c] \subseteq local'[c]
  <1>. USE SyncAssumption
  <1>1. ASSUME NEW p \in Proc, AppendCommit(p)
        PROVE  \A c \in Clone : local[c] \subseteq local'[c]
    BY <1>1 DEF TypeOK, AppendCommit, CasHolds
  <1>2. ASSUME NEW p \in Proc, FastForward(p)
        PROVE  \A c \in Clone : local[c] \subseteq local'[c]
    BY <1>2 DEF TypeOK, FastForward, FastForwardable, IsAncestor, CasHolds
  <1>3. ASSUME NEW p \in Proc, MergeAndAdvance(p)
        PROVE  \A c \in Clone : local[c] \subseteq local'[c]
    BY <1>3 DEF TypeOK, MergeAndAdvance, MergeTip, CasHolds
  <1>4. CASE ~ \E p \in Proc : AppendCommit(p) \/ FastForward(p) \/ MergeAndAdvance(p)
    <2>1. UNCHANGED local
      BY <1>4 DEF Next, AppendStep, SyncStep, vars, refs, AppendBegin, AppendRead,
                  AppendLost, SyncBegin, FetchRead, FetchWrite, PlanLocal,
                  PlanTracking, AdvanceLost, PushRead, PushLand, PushRejected,
                  PushAck, Fail, OverwriteRemote, DeleteRemote
    <2>2. QED BY <2>1
  <1>5. QED BY <1>1, <1>2, <1>3, <1>4

\* Nothing a ref or a running command holds is unknown to objects; a new
\* commit is therefore new to everybody.
Stored ==
    /\ \A c \in Clone : local[c] \subseteq objects /\ tracking[c] \subseteq objects
    /\ remote \subseteq objects
    /\ \A p \in Proc : base[p] \subseteq objects /\ seen[p] \subseteq objects

\* Whatever a ref or a command holds has been some ref's value before.
LEMMA StoredStep ==
    ASSUME TypeOK, Stored, [Next]_vars
    PROVE  Stored'
  <1>. USE SyncAssumption
  <1>1. ASSUME NEW p \in Proc, AppendCommit(p) PROVE Stored'
    BY <1>1 DEF TypeOK, Stored, AppendCommit, Finish
  <1>2. ASSUME NEW p \in Proc, MergeAndAdvance(p) PROVE Stored'
    BY <1>2 DEF TypeOK, Stored, MergeAndAdvance, MergeTip
  <1>3. ASSUME NEW p \in Proc, FastForward(p) PROVE Stored'
    BY <1>3 DEF TypeOK, Stored, FastForward, Finish
  <1>4. ASSUME NEW p \in Proc, AppendStep(p) PROVE Stored'
    BY <1>1, <1>4 DEF TypeOK, Stored, AppendStep, AppendRead, AppendLost, Finish, refs
  <1>5. ASSUME NEW p \in Proc, FetchRead(p) \/ FetchWrite(p) PROVE Stored'
    BY <1>5 DEF TypeOK, Stored, FetchRead, FetchWrite, Fetched, refs
  <1>6. ASSUME NEW p \in Proc, PlanLocal(p) \/ PlanTracking(p) PROVE Stored'
    BY <1>6 DEF TypeOK, Stored, PlanLocal, PlanTracking, Finish, refs
  <1>7. ASSUME NEW p \in Proc, PushRead(p) \/ PushRejected(p) PROVE Stored'
    BY <1>7 DEF TypeOK, Stored, PushRead, PushRejected, RetryRound, Finish, refs
  <1>8. ASSUME NEW p \in Proc, PushLand(p) \/ PushAck(p) PROVE Stored'
    BY <1>8 DEF TypeOK, Stored, PushLand, PushAck, Finish
  <1>9. ASSUME NEW p \in Proc, AppendBegin(p) \/ SyncBegin(p) PROVE Stored'
    BY <1>9 DEF TypeOK, Stored, AppendBegin, SyncBegin, refs
  <1>10. ASSUME NEW p \in Proc, AdvanceLost(p) \/ Fail(p) PROVE Stored'
    BY <1>10 DEF TypeOK, Stored, AdvanceLost, Fail, Finish, refs
  <1>11. ASSUME NEW c \in Clone, OverwriteRemote(local[c]) \/ OverwriteRemote(tracking[c])
         PROVE  Stored'
    BY <1>11 DEF TypeOK, Stored, OverwriteRemote, procs
  <1>12. ASSUME DeleteRemote \/ UNCHANGED vars PROVE Stored'
    BY <1>12 DEF Stored, DeleteRemote, vars, refs, procs
  <1>13. QED
    BY <1>2, <1>3, <1>4, <1>5, <1>6, <1>7, <1>8, <1>9, <1>10, <1>11, <1>12
    DEF Next, SyncStep

-----------------------------------------------------------------------------
(* Durability: an acknowledged event stays in its clone. *)

\* The only action that creates an event publishes it in the same step.
LEMMA DurableStep ==
    ASSUME TypeOK, Durable, [Next]_vars
    PROVE  Durable'
  <1>. USE SyncAssumption
  <1>1. \A c \in Clone : local[c] \subseteq local'[c]
    BY LocalGrows
  <1>2. ASSUME NEW p \in Proc, AppendCommit(p) PROVE Durable'
    <2>1. NewCommit(p, Event)[1] = p
      BY <1>2, NewEvent DEF AppendCommit
    <2>2. NewCommit(p, Event) \in local'[CloneOf[p]]
      BY <1>2 DEF AppendCommit, TypeOK
    <2>3. objects' = objects \cup {NewCommit(p, Event)}
      BY <1>2 DEF AppendCommit
    <2>4. SUFFICES ASSUME NEW e \in objects' \cap Event
                   PROVE  e \in local'[CloneOf[e[1]]]
      BY DEF Durable
    <2>5. e[1] \in Proc
      BY DEF Event
    <2>6. CASE e \in objects
      BY <1>1, <2>5, <2>6 DEF Durable
    <2>7. CASE e = NewCommit(p, Event)
      BY <2>1, <2>2, <2>7
    <2>8. QED BY <2>3, <2>4, <2>6, <2>7
  <1>3. ASSUME objects' \cap Event = objects \cap Event PROVE Durable'
    <2>1. \A e \in Event : CloneOf[e[1]] \in Clone
      BY DEF Event
    <2>2. QED BY <1>1, <1>3, <2>1 DEF Durable
  <1>4. ASSUME NEW p \in Proc, MergeAndAdvance(p)
        PROVE  objects' \cap Event = objects \cap Event
    BY <1>4, NewMerge DEF MergeAndAdvance
  <1>5. CASE ~ \E p \in Proc : AppendCommit(p) \/ MergeAndAdvance(p)
    <2>1. UNCHANGED objects
      BY <1>5 DEF Next, AppendStep, SyncStep, vars, refs, AppendBegin, AppendRead,
                  AppendLost, SyncBegin, FetchRead, FetchWrite, PlanLocal, FastForward,
                  PlanTracking, AdvanceLost, PushRead, PushLand, PushRejected,
                  PushAck, Fail, OverwriteRemote, DeleteRemote
    <2>2. QED BY <1>3, <2>1
  <1>6. QED BY <1>2, <1>3, <1>4, <1>5

\* No acknowledged event is ever lost from its clone, whatever happens.
THEOREM DurableHolds == Spec => []Durable
  <1>1. Init => TypeOK /\ Durable
    BY TypeInit DEF Init, Durable
  <1>2. TypeOK /\ Durable /\ [Next]_vars => TypeOK' /\ Durable'
    BY TypeStep, DurableStep
  <1>3. QED BY <1>1, <1>2, PTL DEF Spec

\* A clone's ref only moves to a descendant of its value.
THEOREM LocalRefsFastForward == Spec => LocalOnlyFastForwards
  <1>1. TypeOK /\ [Next]_vars => [\A c \in Clone : local[c] \subseteq local'[c]]_local
    BY LocalGrows
  <1>2. QED BY <1>1, TypeCorrect, PTL DEF Spec, LocalOnlyFastForwards

-----------------------------------------------------------------------------
(* The remote: pushes and what a finished sync may claim. *)

\* What git push has checked stays true while the update is on its way.
PushOrdered ==
    \A p \in Proc : pc[p] = "sending" => seen[p] \subseteq base[p]

\* Only PushRead enters the stage, with the comparison as its guard.
LEMMA PushOrderedStep ==
    ASSUME TypeOK, PushOrdered, [Next]_vars
    PROVE  PushOrdered'
  <1>1. ASSUME NEW p \in Proc, PushRead(p) PROVE PushOrdered'
    BY <1>1 DEF TypeOK, PushOrdered, PushRead, PushAccepted, IsAncestor, RetryRound,
                Finish, GoTo
  <1>2. ASSUME NEW p \in Proc, AppendBegin(p) \/ AppendRead(p) \/ AppendLost(p)
        PROVE  PushOrdered'
    BY <1>2 DEF TypeOK, PushOrdered, AppendBegin, AppendRead, AppendLost, Finish, GoTo
  <1>3. ASSUME NEW p \in Proc, AppendCommit(p) \/ FastForward(p) \/ AdvanceLost(p)
        PROVE  PushOrdered'
    BY <1>3 DEF TypeOK, PushOrdered, AppendCommit, FastForward, AdvanceLost, Finish, GoTo
  <1>4. ASSUME NEW p \in Proc, SyncBegin(p) \/ FetchRead(p) \/ FetchWrite(p)
        PROVE  PushOrdered'
    BY <1>4 DEF TypeOK, PushOrdered, SyncBegin, FetchRead, FetchWrite, GoTo
  <1>5. ASSUME NEW p \in Proc, PlanLocal(p) \/ PlanTracking(p) PROVE PushOrdered'
    BY <1>5 DEF TypeOK, PushOrdered, PlanLocal, PlanTracking, Finish, GoTo
  <1>6. ASSUME NEW p \in Proc, MergeAndAdvance(p) \/ PushLand(p) PROVE PushOrdered'
    BY <1>6 DEF TypeOK, PushOrdered, MergeAndAdvance, PushLand, GoTo
  <1>7. ASSUME NEW p \in Proc, PushRejected(p) \/ PushAck(p) \/ Fail(p) PROVE PushOrdered'
    BY <1>7 DEF TypeOK, PushOrdered, PushRejected, PushAck, Fail, RetryRound, Finish, GoTo
  <1>8. ASSUME NEW h, OverwriteRemote(h) \/ DeleteRemote PROVE PushOrdered'
    BY <1>8 DEF PushOrdered, OverwriteRemote, DeleteRemote, procs
  <1>9. CASE UNCHANGED vars
    BY <1>9 DEF PushOrdered, vars, procs
  <1>10. QED
    BY <1>1, <1>2, <1>3, <1>4, <1>5, <1>6, <1>7, <1>8, <1>9
    DEF Next, AppendStep, SyncStep

\* Only PushLand moves the remote without a fault, from the value the push
\* compared with.
LEMMA RemoteGrows ==
    ASSUME TypeOK, PushOrdered, [Next]_vars, faults' = faults
    PROVE  remote \subseteq remote'
  <1>1. ASSUME NEW p \in Proc, PushLand(p) PROVE remote \subseteq remote'
    BY <1>1 DEF PushLand, ReceiveHolds, PushOrdered
  <1>2. ASSUME NEW h, OverwriteRemote(h) \/ DeleteRemote PROVE FALSE
    BY <1>2 DEF OverwriteRemote, DeleteRemote, TypeOK
  <1>3. CASE ~ \E p \in Proc : PushLand(p)
    <2>1. UNCHANGED remote
      BY <1>2, <1>3
      DEF Next, AppendStep, SyncStep, vars, refs, AppendBegin, AppendRead,
          AppendCommit, AppendLost, SyncBegin, FetchRead, FetchWrite, PlanLocal,
          FastForward, MergeAndAdvance, PlanTracking, AdvanceLost, PushRead,
          PushRejected, PushAck, Fail
    <2>2. QED BY <2>1
  <1>4. QED BY <1>1, <1>3

\* A push under way would move the remote it has seen to a descendant.
THEOREM PushOrderedHolds == Spec => []PushOrdered
  <1>1. Init => PushOrdered
    BY DEF Init, PushOrdered
  <1>2. TypeOK /\ PushOrdered /\ [Next]_vars => PushOrdered'
    BY PushOrderedStep
  <1>3. QED BY <1>1, <1>2, TypeCorrect, PTL DEF Spec

\* A push never discards what another clone pushed.
THEOREM RemoteFastForwards == Spec => PushOnlyFastForwards
  <1>1. TypeOK /\ PushOrdered /\ [Next]_vars
            => [faults' = faults => remote \subseteq remote']_remote
    BY RemoteGrows
  <1>2. QED BY <1>1, TypeCorrect, PushOrderedHolds, PTL DEF Spec, PushOnlyFastForwards

\* What a sync promised to publish is in the clone's ref, and in the value the
\* sync works from once it has read that ref.
GoalKept ==
    \A p \in Proc :
        /\ goal[p] \subseteq local[CloneOf[p]]
        /\ pc[p] \in {"decide", "advance", "sending", "landed"} => goal[p] \subseteq base[p]

\* A sync works from local values that have all the clone held at its start.
LEMMA GoalKeptStep ==
    ASSUME TypeOK, GoalKept, [Next]_vars
    PROVE  GoalKept'
  <1>. USE SyncAssumption
  <1>1. \A p \in Proc : local[CloneOf[p]] \subseteq local'[CloneOf[p]]
    BY LocalGrows
  <1>2. ASSUME NEW p \in Proc, AppendBegin(p) \/ SyncBegin(p) PROVE GoalKept'
    BY <1>2 DEF TypeOK, GoalKept, AppendBegin, SyncBegin, GoTo, refs
  <1>3. ASSUME NEW p \in Proc, AppendRead(p) \/ AppendLost(p) PROVE GoalKept'
    BY <1>3 DEF TypeOK, GoalKept, AppendRead, AppendLost, Finish, GoTo, refs
  <1>4. ASSUME NEW p \in Proc, AppendCommit(p) \/ FastForward(p) PROVE GoalKept'
    BY <1>1, <1>4 DEF TypeOK, GoalKept, AppendCommit, FastForward, Finish, GoTo
  <1>5. ASSUME NEW p \in Proc, FetchRead(p) \/ FetchWrite(p) PROVE GoalKept'
    BY <1>5 DEF TypeOK, GoalKept, FetchRead, FetchWrite, GoTo, refs
  <1>6. ASSUME NEW p \in Proc, PlanLocal(p) \/ PlanTracking(p) PROVE GoalKept'
    BY <1>6 DEF TypeOK, GoalKept, PlanLocal, PlanTracking, Finish, GoTo, refs
  <1>7. ASSUME NEW p \in Proc, MergeAndAdvance(p) PROVE GoalKept'
    BY <1>1, <1>7 DEF TypeOK, GoalKept, MergeAndAdvance, GoTo
  <1>8. ASSUME NEW p \in Proc, PushRead(p) PROVE GoalKept'
    BY <1>8 DEF TypeOK, GoalKept, PushRead, RetryRound, Finish, GoTo, refs
  <1>9. ASSUME NEW p \in Proc, PushLand(p) \/ PushRejected(p) PROVE GoalKept'
    BY <1>9 DEF TypeOK, GoalKept, PushLand, PushRejected, RetryRound, Finish, GoTo, refs
  <1>10. ASSUME NEW p \in Proc, AdvanceLost(p) \/ PushAck(p) \/ Fail(p) PROVE GoalKept'
    BY <1>10 DEF TypeOK, GoalKept, AdvanceLost, PushAck, Fail, Finish, GoTo, refs
  <1>11. ASSUME NEW h, OverwriteRemote(h) \/ DeleteRemote PROVE GoalKept'
    BY <1>11 DEF GoalKept, OverwriteRemote, DeleteRemote, procs
  <1>12. CASE UNCHANGED vars
    BY <1>12 DEF GoalKept, vars, refs, procs
  <1>13. QED
    BY <1>2, <1>3, <1>4, <1>5, <1>6, <1>7, <1>8, <1>9, <1>10, <1>11, <1>12
    DEF Next, AppendStep, SyncStep

\* While nobody tampers with the remote it holds whatever a tracking ref or a
\* running command believes it to hold, and what a finished sync promised.
Published ==
    faults = 0 =>
        /\ \A c \in Clone : tracking[c] \subseteq remote
        /\ \A p \in Proc :
             /\ seen[p] \subseteq remote
             /\ pc[p] = "landed" => base[p] \subseteq remote
             /\ outcome[p] = "synced" => goal[p] \subseteq remote

\* Without faults the remote only grows, so what was in it once still is.
LEMMA PublishedStep ==
    ASSUME TypeOK, PushOrdered, GoalKept, Published, [Next]_vars
    PROVE  Published'
  <1>. USE SyncAssumption
  <1>1. faults' = faults => remote \subseteq remote'
    BY RemoteGrows
  <1>2. ASSUME NEW p \in Proc, AppendBegin(p) \/ SyncBegin(p) PROVE Published'
    BY <1>2 DEF TypeOK, Published, AppendBegin, SyncBegin, GoTo, refs, env
  <1>3. ASSUME NEW p \in Proc, AppendRead(p) \/ AppendLost(p) PROVE Published'
    BY <1>3 DEF TypeOK, Published, AppendRead, AppendLost, Finish, GoTo, refs, env
  <1>4. ASSUME NEW p \in Proc, AppendCommit(p) PROVE Published'
    BY <1>4 DEF TypeOK, Published, AppendCommit, Finish, GoTo, env
  <1>5. ASSUME NEW p \in Proc, FastForward(p) PROVE Published'
    BY <1>5 DEF TypeOK, Published, GoalKept, FastForward, FastForwardable, IsAncestor,
                Finish, GoTo, env
  <1>6. ASSUME NEW p \in Proc, FetchRead(p) \/ FetchWrite(p) PROVE Published'
    BY <1>6 DEF TypeOK, Published, FetchRead, FetchWrite, Fetched, GoTo, refs, env
  <1>7. ASSUME NEW p \in Proc, PlanLocal(p) \/ PlanTracking(p) PROVE Published'
    BY <1>7 DEF TypeOK, Published, GoalKept, PlanLocal, PlanTracking, Finish, GoTo,
                refs, env
  <1>8. ASSUME NEW p \in Proc, MergeAndAdvance(p) \/ AdvanceLost(p) PROVE Published'
    BY <1>8 DEF TypeOK, Published, MergeAndAdvance, AdvanceLost, Finish, GoTo, refs, env
  <1>9. ASSUME NEW p \in Proc, PushRead(p) \/ PushRejected(p) PROVE Published'
    BY <1>9 DEF TypeOK, Published, PushRead, PushRejected, RetryRound, Finish, GoTo,
                refs, env
  <1>10. ASSUME NEW p \in Proc, PushLand(p) PROVE Published'
    BY <1>1, <1>10 DEF TypeOK, Published, PushLand, GoTo, env
  <1>11. ASSUME NEW p \in Proc, PushAck(p) PROVE Published'
    BY <1>11 DEF TypeOK, Published, GoalKept, PushAck, Finish, GoTo, env
  <1>12. ASSUME NEW p \in Proc, Fail(p) PROVE Published'
    BY <1>12 DEF TypeOK, Published, Fail, Finish, GoTo, refs
  <1>13. ASSUME NEW h, OverwriteRemote(h) \/ DeleteRemote PROVE Published'
    BY <1>13 DEF TypeOK, Published, OverwriteRemote, DeleteRemote
  <1>14. CASE UNCHANGED vars
    BY <1>14 DEF Published, vars, refs, procs, env
  <1>15. QED
    BY <1>2, <1>3, <1>4, <1>5, <1>6, <1>7, <1>8, <1>9, <1>10, <1>11, <1>12, <1>13,
       <1>14
    DEF Next, AppendStep, SyncStep

\* The inductive invariant: every named part above.
IInv == TypeOK /\ Stored /\ Durable /\ PushOrdered /\ GoalKept /\ Published

\* The inductive invariant holds throughout.
THEOREM Invariance == Spec => []IInv
  <1>1. Init => IInv
    <2>1. ASSUME Init PROVE Stored /\ Durable /\ PushOrdered /\ GoalKept /\ Published
      BY <2>1, SyncAssumption
      DEF Init, Stored, Durable, PushOrdered, GoalKept, Published
    <2>2. QED BY <2>1, TypeInit DEF IInv
  <1>2. IInv /\ [Next]_vars => IInv'
    BY TypeStep, StoredStep, DurableStep, PushOrderedStep, GoalKeptStep, PublishedStep
    DEF IInv
  <1>3. QED BY <1>1, <1>2, PTL DEF Spec

\* A sync that reports success has published all the clone held at its start.
THEOREM SyncedIsPublished == Spec => []SyncedMeansPublished
  <1>1. IInv => SyncedMeansPublished
    BY DEF IInv, Published, SyncedMeansPublished
  <1>2. QED BY <1>1, Invariance, PTL

\* What status does not list as unpushed is in the remote.
THEOREM StatusSound == Spec => []StatusIsSound
  <1>1. IInv => StatusIsSound
    BY DEF IInv, Published, StatusIsSound, Unpushed
  <1>2. QED BY <1>1, Invariance, PTL

-----------------------------------------------------------------------------
(* RefSync implements EventUnion. *)

Known == [c \in Clone |-> local[c] \cap Event]

\* A step of the clones is a step of the replicas, or changes no event set:
\* Append records, a fast-forward or a merge learns the remote's events.
LEMMA UnionStep ==
    ASSUME IInv, IInv', [Next]_vars
    PROVE  [Union!Next]_(Known)
  <1>. USE SyncAssumption
  <1>1. local \in [Clone -> SUBSET Commit] /\ local' \in [Clone -> SUBSET Commit]
    BY DEF IInv, TypeOK
  <1>2. Union!Everything = objects \cap Event
    <2>1. \A e \in objects \cap Event : e[1] \in Proc /\ e \in local[CloneOf[e[1]]]
      BY DEF IInv, Durable, Event
    <2>2. \A c \in Clone : local[c] \subseteq objects
      BY DEF IInv, Stored
    <2>3. QED BY <1>1, <2>1, <2>2 DEF Union!Everything
  <1>3. ASSUME NEW p \in Proc, AppendCommit(p) PROVE Union!Record(CloneOf[p])
    <2>1. /\ NewCommit(p, Event) \in Event
          /\ NewCommit(p, Event) \notin objects
      BY <1>3, NewEvent DEF AppendCommit
    <2>2. local' = [local EXCEPT ![CloneOf[p]] = @ \cup {NewCommit(p, Event)}]
      BY <1>1, <1>3 DEF AppendCommit, CasHolds
    <2>3. Known' = [Known EXCEPT ![CloneOf[p]] = @ \cup {NewCommit(p, Event)}]
      BY <1>1, <2>1, <2>2 DEF Known
    <2>4. QED BY <1>2, <2>1, <2>3 DEF Union!Record, Known
  <1>4. ASSUME NEW p \in Proc,
               \A c \in Clone : local'[c] \cap Event =
                   IF c = CloneOf[p] THEN (local[c] \cap Event) \cup (seen[p] \cap Event)
                                     ELSE local[c] \cap Event
        PROVE  Union!Learn(CloneOf[p])
    <2>1. Known' = [Known EXCEPT ![CloneOf[p]] = @ \cup (seen[p] \cap Event)]
      BY <1>4 DEF Known
    <2>2. seen[p] \cap Event \in SUBSET Union!Everything
      BY <1>2 DEF IInv, Stored
    <2>3. QED BY <2>1, <2>2 DEF Union!Learn, Known
  <1>5. ASSUME NEW p \in Proc, FastForward(p) PROVE Union!Learn(CloneOf[p])
    <2>1. /\ local' = [local EXCEPT ![CloneOf[p]] = seen[p]]
          /\ local[CloneOf[p]] \subseteq seen[p]
      BY <1>5 DEF FastForward, FastForwardable, IsAncestor, CasHolds
    <2>2. \A c \in Clone : local'[c] \cap Event =
              IF c = CloneOf[p] THEN (local[c] \cap Event) \cup (seen[p] \cap Event)
                                ELSE local[c] \cap Event
      BY <1>1, <2>1
    <2>3. QED BY <1>4, <2>2
  <1>6. ASSUME NEW p \in Proc, MergeAndAdvance(p) PROVE Union!Learn(CloneOf[p])
    <2>1. local' = [local EXCEPT ![CloneOf[p]] =
                                 local[CloneOf[p]] \cup seen[p] \cup {NewCommit(p, Merge)}]
      BY <1>6 DEF MergeAndAdvance, MergeTip, CasHolds
    <2>2. NewCommit(p, Merge) \notin Event
      BY <1>6, NewMerge DEF MergeAndAdvance
    <2>3. \A c \in Clone : local'[c] \cap Event =
              IF c = CloneOf[p] THEN (local[c] \cap Event) \cup (seen[p] \cap Event)
                                ELSE local[c] \cap Event
      BY <1>1, <2>1, <2>2
    <2>4. QED BY <1>4, <2>3
  <1>7. CASE ~ \E p \in Proc : AppendCommit(p) \/ FastForward(p) \/ MergeAndAdvance(p)
    <2>1. UNCHANGED local
      BY <1>7 DEF Next, AppendStep, SyncStep, vars, refs, AppendBegin, AppendRead,
                  AppendLost, SyncBegin, FetchRead, FetchWrite, PlanLocal,
                  PlanTracking, AdvanceLost, PushRead, PushLand, PushRejected,
                  PushAck, Fail, OverwriteRemote, DeleteRemote
    <2>2. QED BY <2>1 DEF Known
  <1>8. \A p \in Proc : CloneOf[p] \in Clone
    OBVIOUS
  <1>9. QED BY <1>3, <1>5, <1>6, <1>7, <1>8 DEF Union!Next, Known

\* Whatever the processes, the network and the remote do, the clones are a
\* grow-only set of events that only Append adds to.
THEOREM Refinement == Spec => ImplementsUnion
  <1>1. Init => Union!Init
    BY DEF Init, Union!Init
  <1>2. IInv /\ IInv' /\ [Next]_vars => [Union!Next]_(Known)
    BY UnionStep
  <1>3. QED BY <1>1, <1>2, Invariance, PTL DEF Spec, ImplementsUnion, Union!Spec, Known

=============================================================================
