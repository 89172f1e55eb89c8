--------------------------- MODULE SyncBatchProofs ---------------------------
(***************************************************************************)
(* What the run of SyncBatch checks for two clones, proved for any number  *)
(* of clones and tools, any guarded refs and every bound.                  *)
(***************************************************************************)
EXTENDS SyncBatch, TLAPS

-----------------------------------------------------------------------------
(* Type correctness.  The part of TypeOK about results needs to know how the *)
(* three sets of a running sync lie to each other.                           *)

RefsTyped ==
    /\ local \in [Clone -> [Ref -> Value]]
    /\ tracking \in [Clone -> [Ref -> Value]]
    /\ remote \in [Ref -> Value]
    /\ pin \in [Clone -> CommitType \cup {NoPin}]
    /\ start \in [Clone -> [Ref -> Value]]
    /\ made \in [Clone -> Nat]
    /\ envelope \in [Clone -> Nat]

BatchTyped ==
    /\ plan \in [Clone -> SUBSET Ref]
    /\ push \in [Clone -> SUBSET Ref]
    /\ again \in [Clone -> SUBSET Ref]
    /\ round \in [Clone -> 0 .. SyncRetries]
    /\ result \in [Clone -> [Ref -> Results]]
    /\ asked \in [Clone -> SUBSET Ref]
    /\ tooOld \subseteq Clone

\* A ref has a result when it was asked for and is settled.
Reported(c, r) ==
    result[c][r] # "none" <=> r \in asked[c] \ (plan[c] \cup push[c] \cup again[c])

\* A ref is in one of plan, push and again, and the next round's refs are only
\* collected when this round is over and another one is left.
Staged(c) ==
    /\ plan[c] \cup push[c] \cup again[c] \subseteq asked[c]
    /\ plan[c] \cap push[c] = {}
    /\ again[c] # {} => plan[c] = {} /\ push[c] = {} /\ round[c] < SyncRetries

Bookkeeping == \A c \in Clone : Staged(c) /\ \A r \in Ref : Reported(c, r)

\* TypeOK is these parts, without how a running sync's sets lie to each other.
LEMMA TypeParts == TypeOK /\ (\A c \in Clone : Staged(c))
                     <=> RefsTyped /\ BatchTyped /\ Bookkeeping
  BY DEF TypeOK, RefsTyped, BatchTyped, Bookkeeping, Reported

\* The values that steps write.
LEMMA Typed ==
    /\ Unborn \in Value
    /\ \A c \in Clone, kind \in {"root", "event", "merge"} :
         RefsTyped => Commit(c, kind) \in CommitType
    /\ \A v \in Value : v.commits \subseteq CommitType /\ v.config \in Config
    /\ \A C \in SUBSET CommitType, f \in Config : [commits |-> C, config |-> f] \in Value
    /\ \A f, g \in Config : MergedConfig(f, g) \in Config
    /\ \A c \in Clone : [version |-> Supports[c], project |-> c] \in Config
  BY SyncBatchAssumption DEF Unborn, Value, Config, CommitType, Commit, MergedConfig, RefsTyped

\* What a fetch leaves in the tracking refs has their type.
LEMMA FetchedTyped ==
    ASSUME RefsTyped, NEW c \in Clone
    PROVE  Fetched(c) \in [Ref -> Value]
  BY DEF RefsTyped, Fetched

\* The initial state has its type, and nothing runs in it.
LEMMA TypeInit == Init => RefsTyped /\ BatchTyped /\ Bookkeeping
  BY Typed, SyncBatchAssumption
  DEF Init, RefsTyped, BatchTyped, Bookkeeping, Staged, Reported, Results

\* The refs of the clones and of the remote keep their types.
LEMMA RefsStep ==
    ASSUME RefsTyped, [Next]_vars
    PROVE  RefsTyped'
  <1>1. ASSUME NEW c \in Clone, InitProject(c) PROVE RefsTyped'
    <2>1. [commits |-> {Commit(c, "root")},
           config |-> [version |-> Supports[c], project |-> c]] \in Value
      BY Typed DEF RefsTyped
    <2>2. QED BY <1>1, <2>1 DEF InitProject, Made, RefsTyped, batch, Ref
  <1>2. ASSUME NEW c \in Clone, SetPin(c) PROVE RefsTyped'
    <2>1. \A k \in Roots(local[c]["users"]) \cup Roots(tracking[c]["users"]) :
            k \in CommitType
      BY Typed DEF RefsTyped, Roots, Ref
    <2>2. QED BY <1>2, <2>1 DEF SetPin, RefsTyped, batch, refs
  <1>3. ASSUME NEW c \in Clone, NEW r \in {"users", "issue"}, Append(c, r)
        PROVE  RefsTyped'
    <2>1. r \in Ref /\ local[c][r] \in Value
      BY DEF Ref, RefsTyped
    <2> DEFINE k == Commit(c, IF local[c][r] = Unborn THEN "root" ELSE "event")
               v == [commits |-> local[c][r].commits \cup {k},
                     config |-> local[c][r].config]
    <2>2. k \in CommitType
      BY Typed DEF RefsTyped
    <2>3. v \in Value
      BY <2>1, <2>2, Typed
    <2>4. local' = [local EXCEPT ![c][r] = v]
      BY <1>3 DEF Append
    <2>. HIDE DEF k, v
    <2>5. local' \in [Clone -> [Ref -> Value]]
      BY <2>1, <2>3, <2>4 DEF RefsTyped
    <2>6. made' \in [Clone -> Nat]
      BY <1>3 DEF Append, Made, RefsTyped
    <2>7. UNCHANGED <<tracking, remote, pin, start, envelope>>
      BY <1>3 DEF Append, batch
    <2>8. QED BY <2>5, <2>6, <2>7 DEF RefsTyped
  <1>4. ASSUME NEW c \in Clone, SyncBegin(c) PROVE RefsTyped'
    BY <1>4, FetchedTyped DEF SyncBegin, RefsTyped
  <1>5. ASSUME NEW c \in Clone, PushBatch(c) PROVE RefsTyped'
    BY <1>5 DEF PushBatch, RefsTyped
  <1>6. ASSUME NEW c \in Clone, NextRound(c) PROVE RefsTyped'
    BY <1>6, FetchedTyped DEF NextRound, RefsTyped
  <1>7. ASSUME NEW c \in Clone, Break(c) PROVE RefsTyped'
    BY <1>7 DEF Break, RefsTyped, refs
  <1>8. ASSUME NEW c \in Clone, NEW r \in Ref, PlanRef(c, r) PROVE RefsTyped'
    <2>1. CASE PlanMerge(c, r)
      <3>1. local[c][r] \in Value /\ tracking[c][r] \in Value
        BY DEF RefsTyped
      <3> DEFINE v == [commits |-> local[c][r].commits \cup tracking[c][r].commits
                                     \cup {Commit(c, "merge")},
                       config |-> MergedConfig(local[c][r].config, tracking[c][r].config)]
      <3>2. v \in Value
        BY <3>1, Typed DEF RefsTyped
      <3>3. local' = [local EXCEPT ![c][r] = v]
        BY <2>1 DEF PlanMerge
      <3>. HIDE DEF v
      <3>4. local' \in [Clone -> [Ref -> Value]]
        BY <3>2, <3>3 DEF RefsTyped
      <3>5. made' \in [Clone -> Nat]
        BY <2>1 DEF PlanMerge, Made, RefsTyped
      <3>6. UNCHANGED <<tracking, remote, pin, start, envelope>>
        BY <1>8 DEF PlanRef
      <3>7. QED BY <3>4, <3>5, <3>6 DEF RefsTyped
    <2>2. CASE local' = [local EXCEPT ![c][r] = tracking[c][r]] /\ made' = made
      BY <1>8, <2>2 DEF PlanRef, RefsTyped
    <2>3. CASE local' = local /\ made' = made
      BY <1>8, <2>3 DEF PlanRef, RefsTyped
    <2>4. QED BY <1>8, <2>1, <2>2, <2>3
              DEF PlanRef, PlanIn, PlanOut, MergeFails, KeepTrustRoot, AdoptTrustRoot,
                  TrustRootConflict
  <1>9. ASSUME NEW c \in Clone, Upgrade(c) PROVE RefsTyped'
    BY <1>9, SyncBatchAssumption DEF Upgrade, RefsTyped, refs
  <1>10. CASE UNCHANGED vars
    BY <1>10 DEF vars, refs, batch, RefsTyped
  <1>11. QED BY <1>1, <1>2, <1>3, <1>4, <1>5, <1>6, <1>7, <1>8, <1>9, <1>10 DEF Next

\* Only the steps of a sync touch what it keeps of its refs.
LEMMA BatchStep ==
    ASSUME RefsTyped, BatchTyped, Bookkeeping, [Next]_vars
    PROVE  BatchTyped' /\ Bookkeeping'
  <1>. USE DEF BatchTyped, Bookkeeping, Staged, Reported
  <1>1. CASE UNCHANGED batch
    BY <1>1 DEF batch
  <1>2. ASSUME NEW c \in Clone, SyncBegin(c) PROVE BatchTyped' /\ Bookkeeping'
    <2>1. PICK kinds \in Kinds : /\ plan' = [plan EXCEPT ![c] = Discovered(c, kinds)]
                                 /\ asked' = [asked EXCEPT ![c] = Discovered(c, kinds)]
      BY <1>2 DEF SyncBegin
    <2>2. Discovered(c, kinds) \subseteq Ref
      BY DEF Discovered, Kinds, Ref
    <2>3. /\ push[c] = {} /\ again[c] = {}
          /\ UNCHANGED <<push, again>>
          /\ round' = [round EXCEPT ![c] = 1]
          /\ result' = [result EXCEPT ![c] = [r \in Ref |-> "none"]]
          /\ tooOld' \in SUBSET Clone
      BY <1>2 DEF SyncBegin, Running
    <2>4. BatchTyped'
      BY <2>1, <2>2, <2>3, SyncBatchAssumption DEF Results
    <2>5. \A d \in Clone : Staged(d)' /\ \A r \in Ref : Reported(d, r)'
      <3>1. ASSUME NEW d \in Clone PROVE Staged(d)' /\ \A r \in Ref : Reported(d, r)'
        <4>1. CASE d = c
          BY <2>1, <2>3, <4>1
        <4>2. CASE d # c
          BY <2>1, <2>3, <4>2
        <4>3. QED BY <4>1, <4>2
      <3>2. QED BY <3>1
    <2>6. QED BY <2>4, <2>5
  <1>3. ASSUME NEW c \in Clone, PushBatch(c) PROVE BatchTyped' /\ Bookkeeping'
    <2>1. PICK refused \in SUBSET ((push[c] \cap Guarded) \ Raced(c)) :
            /\ push' = [push EXCEPT ![c] = {}]
            /\ again' = [again EXCEPT ![c] = IF RoundsLeft(c) THEN Raced(c) ELSE {}]
            /\ result' = [result EXCEPT ![c] =
                   [r \in Ref |->
                       IF r \in push[c] \ (Raced(c) \cup refused) THEN "done"
                       ELSE IF r \in refused THEN "refused"
                       ELSE IF r \in Raced(c) /\ ~RoundsLeft(c) THEN "exhausted"
                       ELSE result[c][r]]]
      BY <1>3 DEF PushBatch
    <2>2. /\ plan[c] = {} /\ push[c] # {}
          /\ UNCHANGED <<plan, round, asked, tooOld>>
      BY <1>3 DEF PushBatch
    <2>3. Raced(c) \subseteq push[c] /\ again[c] = {}
      BY <2>2 DEF Raced
    <2>4. BatchTyped'
      BY <2>1, <2>2, <2>3 DEF Results
    <2>5. ASSUME NEW d \in Clone PROVE Staged(d)' /\ \A r \in Ref : Reported(d, r)'
      <3>1. CASE d = c
        BY <2>1, <2>2, <2>3, <3>1 DEF RoundsLeft
      <3>2. CASE d # c
        BY <2>1, <2>2, <3>2
      <3>3. QED BY <3>1, <3>2
    <2>6. QED BY <2>4, <2>5
  <1>4. ASSUME NEW c \in Clone, NextRound(c) PROVE BatchTyped' /\ Bookkeeping'
    <2>1. /\ plan[c] = {} /\ push[c] = {} /\ again[c] # {}
          /\ plan' = [plan EXCEPT ![c] = again[c]]
          /\ again' = [again EXCEPT ![c] = {}]
          /\ round' = [round EXCEPT ![c] = @ + 1]
          /\ UNCHANGED <<push, result, asked, tooOld>>
      BY <1>4 DEF NextRound
    <2>2. BatchTyped'
      BY <2>1, SyncBatchAssumption
    <2>3. ASSUME NEW d \in Clone PROVE Staged(d)' /\ \A r \in Ref : Reported(d, r)'
      BY <2>1
    <2>4. QED BY <2>2, <2>3
  <1>5. ASSUME NEW c \in Clone, Break(c) PROVE BatchTyped' /\ Bookkeeping'
    BY <1>5 DEF Break, Results
  <1>6. ASSUME NEW c \in Clone, NEW r \in Ref, PlanRef(c, r)
        PROVE  BatchTyped' /\ Bookkeeping'
    <2>1. r \in plan[c] /\ UNCHANGED <<again, round, asked, tooOld>>
      BY <1>6 DEF PlanRef
    <2>2. CASE ToPush(c, r)
      <3>1. /\ plan' = [plan EXCEPT ![c] = @ \ {r}]
            /\ push' = [push EXCEPT ![c] = @ \cup {r}]
            /\ result' = result
        BY <2>2 DEF ToPush
      <3>2. QED BY <2>1, <3>1
    <2>3. ASSUME NEW how \in Results \ {"none"}, Settle(c, r, how)
          PROVE  BatchTyped' /\ Bookkeeping'
      <3>1. /\ plan' = [plan EXCEPT ![c] = @ \ {r}]
            /\ result' = [result EXCEPT ![c][r] = how]
            /\ push' = push
        BY <2>3 DEF Settle
      <3>2. QED BY <2>1, <2>3, <3>1
    <2>4. QED BY <1>6, <2>2, <2>3
              DEF PlanRef, PlanIn, PlanOut, KeepTrustRoot, AdoptTrustRoot,
                  TrustRootConflict, PlanMerge, MergeFails, Results
  <1>7. ASSUME NEW c \in Clone, Upgrade(c) PROVE BatchTyped' /\ Bookkeeping'
    BY <1>7 DEF Upgrade, Running, Results
  <1>8. QED BY <1>1, <1>2, <1>3, <1>4, <1>5, <1>6, <1>7
            DEF Next, InitProject, SetPin, Append, vars

TypeInv == RefsTyped /\ BatchTyped /\ Bookkeeping

\* Types and bookkeeping are an invariant.
LEMMA TypeInvariance == Spec => []TypeInv
  <1>1. Init => TypeInv
    BY TypeInit DEF TypeInv
  <1>2. TypeInv /\ [Next]_vars => TypeInv'
    BY RefsStep, BatchStep DEF TypeInv
  <1>3. QED BY <1>1, <1>2, PTL DEF Spec

\* Every reachable state has its type, and a sync reports a ref exactly when it
\* has settled it.
THEOREM TypeCorrect == Spec => []TypeOK
  <1>1. TypeInv => TypeOK
    BY TypeParts DEF TypeInv
  <1>2. QED BY <1>1, TypeInvariance, PTL

-----------------------------------------------------------------------------
(* How refs move, and where new values come from.                            *)

\* A clone's ref moves to a descendant, but for a registry that is given up for
\* the pinned one.
LEMMA LocalMoves ==
    ASSUME TypeInv, [Next]_vars, NEW c \in Clone, NEW r \in Ref
    PROVE  \/ Precedes(local[c][r], local'[c][r])
           \/ /\ AdoptTrustRoot(c, r) /\ local'[c][r] = tracking[c][r]
              /\ UNCHANGED <<push, again>>
              /\ plan' = [plan EXCEPT ![c] = @ \ {r}]
              /\ result' = [result EXCEPT ![c][r] = "adopted"]
  <1>. USE DEF Precedes
  <1>. local \in [Clone -> [Ref -> Value]] /\ tracking \in [Clone -> [Ref -> Value]]
    BY DEF TypeInv, RefsTyped
  <1>1. CASE UNCHANGED local
    BY <1>1
  <1>2. ASSUME NEW d \in Clone, InitProject(d)
        PROVE  Precedes(local[c][r], local'[c][r])
    BY <1>2 DEF InitProject, Unborn
  <1>3. ASSUME NEW d \in Clone, NEW s \in {"users", "issue"}, Append(d, s)
        PROVE  Precedes(local[c][r], local'[c][r])
    <2>1. local' = [local EXCEPT ![d][s] =
                      [commits |-> @.commits \cup
                         {Commit(d, IF @ = Unborn THEN "root" ELSE "event")},
                       config |-> @.config]]
      BY <1>3 DEF Append
    <2>2. QED BY <2>1
  <1>4. ASSUME NEW d \in Clone, NEW s \in Ref, PlanRef(d, s)
        PROVE  \/ Precedes(local[c][r], local'[c][r])
               \/ /\ AdoptTrustRoot(c, r) /\ local'[c][r] = tracking[c][r]
                  /\ UNCHANGED <<push, again>>
                  /\ plan' = [plan EXCEPT ![c] = @ \ {r}]
                  /\ result' = [result EXCEPT ![c][r] = "adopted"]
    <2>1. CASE PlanIn(d, s)
      BY <2>1 DEF PlanIn, Behind
    <2>2. CASE PlanMerge(d, s)
      <3>1. local' = [local EXCEPT ![d][s] =
                        [commits |-> @.commits \cup tracking[d][s].commits
                                        \cup {Commit(d, "merge")},
                         config |-> MergedConfig(@.config, tracking[d][s].config)]]
        BY <2>2 DEF PlanMerge
      <3>2. QED BY <3>1
    <2>3. CASE AdoptTrustRoot(d, s)
      <3>1. /\ local' = [local EXCEPT ![d][s] = tracking[d][s]]
            /\ plan' = [plan EXCEPT ![d] = @ \ {s}]
            /\ result' = [result EXCEPT ![d][s] = "adopted"]
            /\ UNCHANGED <<push, again>>
        BY <1>4, <2>3 DEF AdoptTrustRoot, Settle, PlanRef
      <3>2. CASE d = c /\ s = r
        BY <2>3, <3>1, <3>2
      <3>3. CASE ~(d = c /\ s = r)
        BY <3>1, <3>3
      <3>4. QED BY <3>2, <3>3
    <2>4. CASE PlanOut(d, s) \/ MergeFails(d, s) \/ KeepTrustRoot(d, s)
                 \/ TrustRootConflict(d, s)
      BY <1>1, <2>4 DEF PlanOut, MergeFails, KeepTrustRoot, TrustRootConflict
    <2>5. QED BY <1>4, <2>1, <2>2, <2>3, <2>4 DEF PlanRef
  <1>5. QED BY <1>1, <1>2, <1>3, <1>4
            DEF Next, SetPin, Upgrade, SyncBegin, PushBatch, NextRound, Break, refs, vars

\* What a push lands contains what was there.
LEMMA RemoteMoves ==
    ASSUME TypeInv, [Next]_vars, NEW r \in Ref
    PROVE  Precedes(remote[r], remote'[r])
  <1>. USE DEF Precedes
  <1>1. CASE UNCHANGED remote
    BY <1>1
  <1>2. ASSUME NEW c \in Clone, PushBatch(c) PROVE Precedes(remote[r], remote'[r])
    <2>1. PICK refused \in SUBSET ((push[c] \cap Guarded) \ Raced(c)) :
            remote' = [s \in Ref |-> IF s \in push[c] \ (Raced(c) \cup refused)
                                     THEN local[c][s] ELSE remote[s]]
      BY <1>2 DEF PushBatch
    <2>2. QED BY <2>1 DEF Raced
  <1>3. QED BY <1>1, <1>2
            DEF Next, InitProject, SetPin, Upgrade, Append, SyncBegin, NextRound,
                Break, PlanRef, refs, vars

\* The values of a ref, wherever they are.
Held(r) == {local[c][r] : c \in Clone} \cup {tracking[c][r] : c \in Clone} \cup {remote[r]}

Founded(c, v) ==
    v = [commits |-> {Commit(c, "root")},
         config |-> [version |-> Supports[c], project |-> c]]

Extended(c, r, v) ==
    v = [commits |-> local[c][r].commits \cup
            {Commit(c, IF local[c][r] = Unborn THEN "root" ELSE "event")},
         config |-> local[c][r].config]

Joined(c, r, v) ==
    /\ Diverged(c, r) /\ ~TwoTrustRoots(c, r)
    /\ v = [commits |-> local[c][r].commits \cup tracking[c][r].commits
                          \cup {Commit(c, "merge")},
            config |-> MergedConfig(local[c][r].config, tracking[c][r].config)]

New(c, r, v) ==
    \/ r = "meta" /\ Founded(c, v)
    \/ r # "meta" /\ Extended(c, r, v)
    \/ Joined(c, r, v)

\* Fetches, fast-forwards and pushes copy values; a step makes at most one new
\* value of a ref, with a new commit.
LEMMA HeldStep ==
    ASSUME TypeInv, [Next]_vars, NEW r \in Ref
    PROVE  \/ Held(r)' \subseteq Held(r) /\ (made' = made \/ \E c \in Clone : Made(c))
           \/ \E c \in Clone : /\ Made(c) /\ New(c, r, local'[c][r])
                               /\ Held(r)' \subseteq Held(r) \cup {local'[c][r]}
  <1>. local \in [Clone -> [Ref -> Value]] /\ tracking \in [Clone -> [Ref -> Value]]
    BY DEF TypeInv, RefsTyped
  <1>1. CASE UNCHANGED <<refs, made>>
    BY <1>1 DEF refs, Held
  <1>2. ASSUME NEW d \in Clone, NEW s \in Ref, NEW v, New(d, s, v), Made(d),
               local' = [local EXCEPT ![d][s] = v], UNCHANGED <<tracking, remote>>
        PROVE  \/ Held(r)' \subseteq Held(r) /\ \E c \in Clone : Made(c)
               \/ \E c \in Clone : /\ Made(c) /\ New(c, r, local'[c][r])
                                   /\ Held(r)' \subseteq Held(r) \cup {local'[c][r]}
    <2>1. CASE s = r
      <3>1. local'[d][r] = v /\ \A c \in Clone : c # d => local'[c][r] = local[c][r]
        BY <1>2, <2>1
      <3>2. Held(r)' \subseteq Held(r) \cup {v}
        BY <1>2, <3>1 DEF Held
      <3>3. QED BY <1>2, <2>1, <3>1, <3>2
    <2>2. CASE s # r
      <3>1. \A c \in Clone : local'[c][r] = local[c][r]
        BY <1>2, <2>2
      <3>2. QED BY <1>2, <3>1 DEF Held
    <2>3. QED BY <2>1, <2>2
  <1>3. ASSUME NEW d \in Clone, NEW s \in Ref, UNCHANGED <<tracking, remote, made>>,
               local' = [local EXCEPT ![d][s] = tracking[d][s]]
        PROVE  Held(r)' \subseteq Held(r)
    <2>1. \A c \in Clone : local'[c][r] \in {local[c][r], tracking[c][r]}
      BY <1>3
    <2>2. QED BY <1>3, <2>1 DEF Held
  <1>4. ASSUME NEW d \in Clone, tracking' = [tracking EXCEPT ![d] = Fetched(d)],
               UNCHANGED <<local, remote, made>>
        PROVE  Held(r)' \subseteq Held(r)
    <2>1. \A c \in Clone : tracking'[c][r] \in {tracking[c][r], remote[r]}
      BY <1>4 DEF Fetched
    <2>2. QED BY <1>4, <2>1 DEF Held
  <1>5. ASSUME NEW d \in Clone, PushBatch(d) PROVE Held(r)' \subseteq Held(r)
    <2>1. PICK accepted :
            /\ remote' = [s \in Ref |-> IF s \in accepted THEN local[d][s] ELSE remote[s]]
            /\ tracking' = [tracking EXCEPT ![d] =
                  [s \in Ref |-> IF s \in accepted THEN local[d][s] ELSE @[s]]]
      BY <1>5 DEF PushBatch
    <2>2. local' = local
      BY <1>5 DEF PushBatch
    <2>3. remote'[r] \in {local[d][r], remote[r]}
      BY <2>1
    <2>4. \A c \in Clone : tracking'[c][r] \in {tracking[c][r], local[d][r]}
      BY <2>1
    <2>5. QED BY <2>2, <2>3, <2>4 DEF Held
  <1>6. ASSUME NEW d \in Clone, InitProject(d)
        PROVE  \E v : /\ New(d, "meta", v) /\ Made(d) /\ UNCHANGED <<tracking, remote>>
                      /\ local' = [local EXCEPT ![d]["meta"] = v]
    BY <1>6 DEF InitProject, New, Founded
  <1>7. ASSUME NEW d \in Clone, NEW s \in {"users", "issue"}, Append(d, s)
        PROVE  \E v : /\ New(d, s, v) /\ Made(d) /\ UNCHANGED <<tracking, remote>>
                      /\ local' = [local EXCEPT ![d][s] = v]
    <2> DEFINE v == [commits |-> local[d][s].commits \cup
                       {Commit(d, IF local[d][s] = Unborn THEN "root" ELSE "event")},
                     config |-> local[d][s].config]
    <2>1. New(d, s, v)
      BY DEF New, Extended
    <2>2. local' = [local EXCEPT ![d][s] = v]
      BY <1>7 DEF Append
    <2>3. Made(d) /\ UNCHANGED <<tracking, remote>>
      BY <1>7 DEF Append
    <2>. HIDE DEF v
    <2>4. QED BY <2>1, <2>2, <2>3
  <1>8. ASSUME NEW d \in Clone, NEW s \in Ref, PlanRef(d, s)
        PROVE  \/ Held(r)' \subseteq Held(r) /\ made' = made
               \/ \E v : /\ New(d, s, v) /\ Made(d) /\ UNCHANGED <<tracking, remote>>
                         /\ local' = [local EXCEPT ![d][s] = v]
    <2>1. UNCHANGED <<tracking, remote>>
      BY <1>8 DEF PlanRef
    <2>2. CASE PlanMerge(d, s)
      <3> DEFINE v == [commits |-> local[d][s].commits \cup tracking[d][s].commits
                                     \cup {Commit(d, "merge")},
                       config |-> MergedConfig(local[d][s].config, tracking[d][s].config)]
      <3>1. New(d, s, v)
        BY <2>2 DEF New, Joined, PlanMerge
      <3>2. local' = [local EXCEPT ![d][s] = v] /\ Made(d)
        BY <2>2 DEF PlanMerge
      <3>. HIDE DEF v
      <3>3. QED BY <2>1, <3>1, <3>2
    <2>3. CASE PlanIn(d, s) \/ AdoptTrustRoot(d, s)
      BY <1>3, <2>1, <2>3 DEF PlanIn, AdoptTrustRoot
    <2>4. CASE PlanOut(d, s) \/ MergeFails(d, s) \/ KeepTrustRoot(d, s)
                 \/ TrustRootConflict(d, s)
      BY <1>1, <2>1, <2>4
      DEF PlanOut, MergeFails, KeepTrustRoot, TrustRootConflict, refs, Held
    <2>5. QED BY <1>8, <2>2, <2>3, <2>4 DEF PlanRef
  <1>9. ASSUME NEW d \in Clone, SyncBegin(d) \/ NextRound(d)
        PROVE  Held(r)' \subseteq Held(r) /\ made' = made
    BY <1>4, <1>9 DEF SyncBegin, NextRound
  <1>10. ASSUME NEW d \in Clone, PushBatch(d)
         PROVE  Held(r)' \subseteq Held(r) /\ made' = made
    BY <1>5, <1>10 DEF PushBatch
  <1>11. ASSUME NEW d \in Clone, SetPin(d) \/ Upgrade(d) \/ Break(d)
         PROVE  UNCHANGED <<refs, made>>
    BY <1>11 DEF SetPin, Upgrade, Break
  <1>12. "meta" \in Ref /\ {"users", "issue"} \subseteq Ref
    BY DEF Ref
  <1>13. QED BY <1>1, <1>2, <1>6, <1>7, <1>8, <1>9, <1>10, <1>11, <1>12
             DEF Next, vars

-----------------------------------------------------------------------------
(* The schema version. *)

\* The version of a meta/config is the highest that its founders' tools have.
Versioned(v) ==
    /\ \A k \in Roots(v) : Supports[k.by] <= v.config.version
    /\ v.config.version = 0 \/ \E k \in Roots(v) : v.config.version = Supports[k.by]

MetasVersioned == \A v \in Held("meta") : Versioned(v)

\* The values of a ref have their type.
LEMMA HeldTyped ==
    ASSUME TypeInv, NEW r \in Ref
    PROVE  Held(r) \subseteq Value
  BY DEF TypeInv, RefsTyped, Held

\* A meta/config that descends from another asks for no lower version.
LEMMA VersionsOrdered ==
    ASSUME NEW v \in Value, NEW w \in Value, Versioned(v), Versioned(w), Precedes(v, w)
    PROVE  v.config.version <= w.config.version
  <1>1. v.config.version \in Nat /\ w.config.version \in Nat
    BY DEF Value, Config
  <1>2. CASE v.config.version = 0
    BY <1>1, <1>2
  <1>3. ASSUME NEW k \in Roots(v), v.config.version = Supports[k.by]
        PROVE  v.config.version <= w.config.version
    BY <1>3 DEF Precedes, Roots, Versioned
  <1>4. QED BY <1>2, <1>3 DEF Versioned

\* Founding, merging and copying keep versions those of the founders.
LEMMA MetasStep ==
    ASSUME TypeInv, MetasVersioned, [Next]_vars
    PROVE  MetasVersioned'
  <1>. "meta" \in Ref
    BY DEF Ref
  <1>1. ASSUME NEW c \in Clone, NEW v, Founded(c, v) PROVE Versioned(v)
    <2>1. Roots(v) = {Commit(c, "root")} /\ Commit(c, "root").by = c
      BY <1>1 DEF Founded, Roots, Commit
    <2>2. v.config.version = Supports[c] /\ Supports[c] \in Nat
      BY <1>1, SyncBatchAssumption DEF Founded
    <2>3. QED BY <2>1, <2>2 DEF Versioned
  <1>2. ASSUME NEW c \in Clone, NEW v, Joined(c, "meta", v) PROVE Versioned(v)
    <2> DEFINE mine == local[c]["meta"]
               theirs == tracking[c]["meta"]
    <2>1. mine \in Held("meta") /\ theirs \in Held("meta")
      BY DEF Held
    <2>2. mine \in Value /\ theirs \in Value /\ Versioned(mine) /\ Versioned(theirs)
      BY <2>1, HeldTyped DEF MetasVersioned
    <2>3. Roots(v) = Roots(mine) \cup Roots(theirs)
      <3>1. Commit(c, "merge").kind = "merge"
        BY DEF Commit
      <3>2. v.commits = mine.commits \cup theirs.commits \cup {Commit(c, "merge")}
        BY <1>2 DEF Joined
      <3>3. QED BY <3>1, <3>2 DEF Roots
    <2>4. v.config = MergedConfig(mine.config, theirs.config)
      BY <1>2 DEF Joined
    <2>5. /\ mine.config.version \in Nat /\ theirs.config.version \in Nat
          /\ \A k \in Roots(mine) \cup Roots(theirs) : Supports[k.by] \in Nat
      BY <2>2, SyncBatchAssumption DEF Value, Config, Roots, CommitType
    <2>. HIDE DEF mine, theirs
    <2>6. CASE theirs.config.version > mine.config.version
      BY <2>2, <2>3, <2>4, <2>5, <2>6 DEF Versioned, MergedConfig
    <2>7. CASE ~(theirs.config.version > mine.config.version)
      <3>1. v.config = mine.config
        BY <2>4, <2>7 DEF MergedConfig
      <3>2. \A k \in Roots(v) : Supports[k.by] <= v.config.version
        BY <2>2, <2>3, <2>5, <2>7, <3>1 DEF Versioned
      <3>3. v.config.version = 0 \/ \E k \in Roots(v) : v.config.version = Supports[k.by]
        BY <2>2, <2>3, <3>1 DEF Versioned
      <3>4. QED BY <3>2, <3>3 DEF Versioned
    <2>8. QED BY <2>6, <2>7
  <1>3. ASSUME NEW v \in Held("meta")' PROVE Versioned(v)
    <2>1. CASE v \in Held("meta")
      BY <2>1 DEF MetasVersioned
    <2>2. CASE \E c \in Clone : New(c, "meta", v)
      BY <1>1, <1>2, <2>2 DEF New
    <2>3. QED BY <2>1, <2>2, HeldStep
  <1>4. QED BY <1>3 DEF MetasVersioned, Versioned, Roots

\* Every meta/config asks for exactly the newest of its founders' versions
\* (metaMergeFiles, ensureMetaConfig).
THEOREM MetasHold == Spec => []MetasVersioned
  <1>1. Init => MetasVersioned
    BY DEF Init, MetasVersioned, Held, Versioned, Roots, Unborn, Ref
  <1>2. TypeInv /\ MetasVersioned /\ [Next]_vars => MetasVersioned'
    BY MetasStep
  <1>3. QED BY <1>1, <1>2, TypeInvariance, PTL DEF Spec

\* For tools of any ages, init and merges in any order: the schema version that
\* a clone or the remote requires never falls.
THEOREM SchemaHolds == Spec => SchemaNeverFalls
  <1>1. ASSUME TypeInv, TypeInv', MetasVersioned, MetasVersioned', [Next]_vars
        PROVE  /\ remote'["meta"].config.version >= remote["meta"].config.version
               /\ \A c \in Clone : local'[c]["meta"].config.version
                                     >= local[c]["meta"].config.version
    <2>1. "meta" \in Ref
      BY DEF Ref
    <2>2. ASSUME NEW v \in Held("meta"), NEW w \in Held("meta")', Precedes(v, w)
          PROVE  w.config.version >= v.config.version
      <3>1. v \in Value /\ Versioned(v)
        BY <1>1, <2>1, HeldTyped DEF MetasVersioned
      <3>2. w \in Value
        BY <1>1, <2>1 DEF TypeInv, RefsTyped, Held
      <3>3. Versioned(w)
        BY <1>1 DEF MetasVersioned, Versioned, Roots
      <3>4. v.config.version \in Nat /\ w.config.version \in Nat
        BY <3>1, <3>2 DEF Value, Config
      <3>5. QED BY <2>2, <3>1, <3>2, <3>3, <3>4, VersionsOrdered
    <2>3. remote["meta"] \in Held("meta") /\ remote'["meta"] \in Held("meta")'
      BY DEF Held
    <2>4. ASSUME NEW c \in Clone
          PROVE  local[c]["meta"] \in Held("meta") /\ local'[c]["meta"] \in Held("meta")'
      BY DEF Held
    <2>5. ASSUME NEW c \in Clone PROVE Precedes(local[c]["meta"], local'[c]["meta"])
      BY <1>1, <2>1, LocalMoves DEF AdoptTrustRoot, TwoTrustRoots
    <2>6. QED BY <1>1, <2>1, <2>2, <2>3, <2>4, <2>5, RemoteMoves
  <1>2. QED BY <1>1, TypeInvariance, MetasHold, PTL DEF Spec, SchemaNeverFalls

-----------------------------------------------------------------------------
(* The trust root. *)

\* Two registries that share a commit share their root, and a commit that is
\* somewhere has been made.
Registries ==
    /\ \A v \in Held("users") : \A j, k \in Roots(v) : j = k
    /\ \A v, w \in Held("users") :
         v.commits \cap w.commits # {} => Roots(v) = Roots(w)
    /\ \A v \in Held("users") : \A k \in v.commits : k.n < made[k.by]

\* A first event founds a registry with a new root, an event and a merge keep
\* roots, and a merge is only made of registries that share a commit.
LEMMA RegistriesStep ==
    ASSUME TypeInv, Registries, [Next]_vars
    PROVE  Registries'
  <1>. "users" \in Ref
    BY DEF Ref
  <1>. made \in [Clone -> Nat] /\ Held("users") \subseteq Value
    BY HeldTyped DEF TypeInv, RefsTyped
  <1>1. \A v \in Held("users") : \A k \in v.commits : k.by \in Clone /\ k.n \in Nat
    BY DEF Value, CommitType
  <1>2. CASE Held("users")' \subseteq Held("users") /\ (made' = made \/ \E c \in Clone : Made(c))
    BY <1>1, <1>2 DEF Registries, Made, Roots
  <1>3. ASSUME NEW c \in Clone, NEW v, Made(c), v = local'[c]["users"],
               New(c, "users", v), Held("users")' \subseteq Held("users") \cup {v}
        PROVE  Registries'
    <2>1. PICK m : /\ m \in v.commits /\ m.by = c /\ m.n = made[c]
                   /\ \/ /\ Extended(c, "users", v)
                         /\ m = Commit(c, IF local[c]["users"] = Unborn THEN "root" ELSE "event")
                         /\ v.commits = local[c]["users"].commits \cup {m}
                      \/ /\ Joined(c, "users", v) /\ m = Commit(c, "merge")
                         /\ v.commits = local[c]["users"].commits \cup
                                        tracking[c]["users"].commits \cup {m}
      <3>1. \A kind : Commit(c, kind).by = c /\ Commit(c, kind).n = made[c]
        BY DEF Commit
      <3>2. CASE Extended(c, "users", v)
        <4>1. v.commits = local[c]["users"].commits \cup
                {Commit(c, IF local[c]["users"] = Unborn THEN "root" ELSE "event")}
          BY <3>2 DEF Extended
        <4>2. QED BY <3>1, <3>2, <4>1
      <3>3. CASE Joined(c, "users", v)
        <4>1. v.commits = local[c]["users"].commits \cup
                tracking[c]["users"].commits \cup {Commit(c, "merge")}
          BY <3>3 DEF Joined
        <4>2. QED BY <3>1, <3>3, <4>1
      <3>4. QED BY <1>3, <3>2, <3>3 DEF New
    <2>2. local[c]["users"] \in Held("users") /\ tracking[c]["users"] \in Held("users")
      BY DEF Held
    <2>3. \A w \in Held("users") : m \notin w.commits
      BY <1>1, <2>1 DEF Registries
    <2> DEFINE u == local[c]["users"]
    <2>4. \/ Roots(v) = {m} /\ v.commits = {m}
          \/ /\ Roots(v) = Roots(u)
             /\ \A w \in Held("users") : w.commits \cap v.commits # {}
                  => Roots(w) = Roots(u)
      <3>1. CASE Extended(c, "users", v) /\ u = Unborn
        <4>1. v.commits = {m} /\ m.kind = "root"
          BY <2>1, <3>1 DEF Extended, Unborn, Commit, Joined
        <4>2. QED BY <4>1 DEF Roots
      <3>2. CASE /\ m = Commit(c, "event") /\ v.commits = u.commits \cup {m}
        <4>1. m.kind = "event"
          BY <3>2 DEF Commit
        <4>2. QED BY <2>2, <2>3, <3>2, <4>1 DEF Roots, Registries
      <3>3. CASE Joined(c, "users", v) /\ m = Commit(c, "merge")
                   /\ v.commits = u.commits \cup tracking[c]["users"].commits \cup {m}
        <4>1. m.kind = "merge"
          BY <3>3 DEF Commit
        <4>2. u.commits \cap tracking[c]["users"].commits # {}
          BY <3>3 DEF Joined, TwoTrustRoots
        <4>3. Roots(tracking[c]["users"]) = Roots(u)
          BY <2>2, <4>2 DEF Registries
        <4>4. QED BY <2>2, <2>3, <3>3, <4>1, <4>3 DEF Roots, Registries
      <3>4. QED BY <2>1, <3>1, <3>2, <3>3
    <2>5. \A j, k \in Roots(v) : j = k
      BY <2>2, <2>4 DEF Registries
    <2>6. \A w \in Held("users") :
            w.commits \cap v.commits # {} => Roots(w) = Roots(v)
      BY <2>3, <2>4
    <2>7. \A k \in v.commits : k.n < made'[k.by]
      <3>1. made'[c] = made[c] + 1 /\ \A d \in Clone : made'[d] >= made[d]
        BY <1>3 DEF Made
      <3>2. ASSUME NEW k, \E w \in Held("users") : k \in w.commits
            PROVE  k.n < made'[k.by]
        <4>1. k.by \in Clone /\ k.n \in Nat /\ k.n < made[k.by]
          BY <1>1, <3>2 DEF Registries
        <4>2. made'[k.by] \in Nat /\ made[k.by] \in Nat
          BY <1>3, <4>1 DEF Made
        <4>3. QED BY <3>1, <4>1, <4>2
      <3>3. m.n < made'[m.by]
        BY <2>1, <3>1
      <3>4. QED BY <2>1, <2>2, <3>2, <3>3
    <2>8. \A w \in Held("users") : \A k \in w.commits : k.n < made'[k.by]
      BY <1>1, <1>3 DEF Registries, Made
    <2>. HIDE DEF u
    <2>9. QED BY <1>3, <2>5, <2>6, <2>7, <2>8 DEF Registries, Roots
  <1>4. QED BY <1>2, <1>3, HeldStep

\* Registries that share a commit share their one root, wherever they are
\* (resolveTrustRoots looks for a merge base, not at roots).
THEOREM RegistriesHold == Spec => []Registries
  <1>1. Init => Registries
    BY DEF Init, Registries, Held, Roots, Unborn, Ref
  <1>2. TypeInv /\ Registries /\ [Next]_vars => Registries'
    BY RegistriesStep
  <1>3. QED BY <1>1, <1>2, TypeInvariance, PTL DEF Spec

\* A registry never gets a second root, and only gives up the one it has for the
\* pinned one.
THEOREM TrustRootHolds == Spec => TrustRootIsChosen
  <1>1. ASSUME TypeInv, Registries, Registries', [Next]_vars
        PROVE  \A c \in Clone :
                 /\ \A j, k \in Roots(local'[c]["users"]) : j = k
                 /\ \A k \in Roots(local[c]["users"]) :
                      k \in Roots(local'[c]["users"]) \/ pin[c] \in Roots(local'[c]["users"])
    <2>. TAKE c \in Clone
    <2>1. \A j, k \in Roots(local'[c]["users"]) : j = k
      BY <1>1 DEF Registries, Held, Roots
    <2>2. CASE Precedes(local[c]["users"], local'[c]["users"])
      BY <2>1, <2>2 DEF Precedes, Roots
    <2>3. CASE AdoptTrustRoot(c, "users") /\ local'[c]["users"] = tracking[c]["users"]
      BY <2>1, <2>3 DEF AdoptTrustRoot
    <2>4. QED BY <1>1, <2>1, <2>2, <2>3, LocalMoves DEF Ref
  <1>2. QED BY <1>1, TypeInvariance, RegistriesHold, PTL DEF Spec, TrustRootIsChosen

-----------------------------------------------------------------------------
(* The results of a batch. *)

\* Between two steps of a sync: what it was asked to publish is still in the
\* clone, tracking refs are in the remote, and each result so far is earned.
Earned(c, r) ==
    /\ r \in plan[c] \cup push[c] \cup again[c] => Precedes(start[c][r], local[c][r])
    /\ result[c][r] = "done" => Precedes(start[c][r], remote[r])
    /\ result[c][r] = "exhausted" => round[c] = SyncRetries
    /\ result[c][r] = "refused" => r \in Guarded
    /\ result[c][r] \in {"kept", "adopted", "conflict"} => r = "users"
    /\ result[c][r] = "unreadable" =>
         r # "meta" /\ (~Readable(c, local[c][r]) \/ ~Readable(c, remote[r]))

AllEarned == \A c \in Clone, r \in Ref : Precedes(tracking[c][r], remote[r]) /\ Earned(c, r)

\* Containment is transitive.
LEMMA PrecedesTransitive ==
    ASSUME NEW u, NEW v, NEW w, Precedes(u, v), Precedes(v, w)
    PROVE  Precedes(u, w)
  BY DEF Precedes

\* A tracking ref is in the remote: fetched or pushed, and the remote only grows.
LEMMA TrackingStep ==
    ASSUME TypeInv, AllEarned, [Next]_vars, NEW c \in Clone, NEW r \in Ref
    PROVE  Precedes(tracking[c][r], remote[r])'
  <1>. tracking \in [Clone -> [Ref -> Value]]
    BY DEF TypeInv, RefsTyped
  <1>1. Precedes(tracking[c][r], remote'[r])
    BY RemoteMoves, PrecedesTransitive DEF AllEarned
  <1>2. CASE UNCHANGED tracking
    BY <1>1, <1>2 DEF Precedes
  <1>3. ASSUME NEW d \in Clone, tracking' = [tracking EXCEPT ![d] = Fetched(d)],
               UNCHANGED remote
        PROVE  Precedes(tracking[c][r], remote[r])'
    <2>1. tracking'[c][r] = tracking[c][r] \/ tracking'[c][r] = remote[r]
      BY <1>3 DEF Fetched
    <2>2. QED BY <1>1, <1>3, <2>1 DEF Precedes
  <1>4. ASSUME NEW d \in Clone, PushBatch(d) PROVE Precedes(tracking[c][r], remote[r])'
    <2>1. PICK accepted :
            /\ remote' = [s \in Ref |-> IF s \in accepted THEN local[d][s] ELSE remote[s]]
            /\ tracking' = [tracking EXCEPT ![d] =
                  [s \in Ref |-> IF s \in accepted THEN local[d][s] ELSE @[s]]]
      BY <1>4 DEF PushBatch
    <2>2. tracking'[c][r] = tracking[c][r] \/ tracking'[c][r] = remote'[r]
      BY <2>1
    <2>3. QED BY <1>1, <2>2 DEF Precedes
  <1>5. QED BY <1>2, <1>3, <1>4
            DEF Next, InitProject, SetPin, Upgrade, Append, SyncBegin, NextRound,
                Break, PlanRef, refs, vars

\* A step that gives this ref of this sync no result leaves its results earned.
LEMMA EarnedKept ==
    ASSUME TypeInv, AllEarned, [Next]_vars, NEW c \in Clone, NEW r \in Ref,
           (plan'[c] \cup push'[c] \cup again'[c]) \cap {r}
             \subseteq plan[c] \cup push[c] \cup again[c],
           result'[c][r] = result[c][r], start'[c] = start[c],
           envelope'[c] = envelope[c],
           result[c][r] = "exhausted" => round'[c] = round[c]
    PROVE  Earned(c, r)'
  <1>1. Earned(c, r) /\ start'[c][r] = start[c][r]
    BY DEF AllEarned
  <1>2. \/ Precedes(local[c][r], local'[c][r])
        \/ r \notin plan'[c] \cup push'[c] \cup again'[c]
           /\ result'[c][r] = "adopted"
    <2>1. CASE AdoptTrustRoot(c, r) /\ result' = [result EXCEPT ![c][r] = "adopted"]
      <3>1. result'[c][r] = "adopted" /\ Reported(c, r)
        BY <2>1 DEF TypeInv, BatchTyped, Bookkeeping
      <3>2. QED BY <3>1 DEF Reported
    <2>2. QED BY <2>1, LocalMoves
  <1>3. r \in plan'[c] \cup push'[c] \cup again'[c]
          => Precedes(start'[c][r], local'[c][r])
    BY <1>1, <1>2, PrecedesTransitive DEF Earned
  <1>4. result'[c][r] = "done" => Precedes(start'[c][r], remote'[r])
    BY <1>1, RemoteMoves, PrecedesTransitive DEF Earned
  <1>5. result'[c][r] = "unreadable" =>
          r # "meta" /\ (~Readable(c, local[c][r])' \/ ~Readable(c, remote[r])')
    <2>1. ASSUME result'[c][r] = "unreadable"
          PROVE  r # "meta" /\ (~Readable(c, local[c][r])' \/ ~Readable(c, remote[r])')
      <3>1. /\ Precedes(local[c][r], local'[c][r])
            /\ r # "meta" /\ (~Readable(c, local[c][r]) \/ ~Readable(c, remote[r]))
        BY <1>1, <1>2, <2>1 DEF Earned
      <3>2. Precedes(remote[r], remote'[r])
        BY RemoteMoves
      <3>3. QED BY <3>1, <3>2 DEF Precedes, Readable
    <2>2. QED BY <2>1
  <1>6. QED BY <1>1, <1>3, <1>4, <1>5 DEF Earned, Precedes

\* Each step that gives a result has earned it.
LEMMA EarnedStep ==
    ASSUME TypeInv, TypeInv', AllEarned, [Next]_vars, NEW c \in Clone, NEW r \in Ref
    PROVE  Earned(c, r)'
  <1>. /\ plan \in [Clone -> SUBSET Ref] /\ push \in [Clone -> SUBSET Ref]
       /\ again \in [Clone -> SUBSET Ref] /\ result \in [Clone -> [Ref -> Results]]
       /\ start \in [Clone -> [Ref -> Value]] /\ round \in [Clone -> 0 .. SyncRetries]
       /\ local \in [Clone -> [Ref -> Value]]
    BY DEF TypeInv, RefsTyped, BatchTyped
  <1>. Staged(c) /\ Reported(c, r) /\ Earned(c, r)
    BY DEF TypeInv, Bookkeeping, AllEarned
  <1>1. CASE UNCHANGED <<plan, push, again, result, start, round, envelope>>
    BY <1>1, EarnedKept
  <1>2. ASSUME NEW d \in Clone, SyncBegin(d) PROVE Earned(c, r)'
    <2>1. CASE d = c
      BY <1>2, <2>1 DEF SyncBegin, Earned, Precedes
    <2>2. CASE d # c
      BY <1>2, <2>2, EarnedKept DEF SyncBegin
    <2>3. QED BY <2>1, <2>2
  <1>3. ASSUME NEW d \in Clone, PushBatch(d) PROVE Earned(c, r)'
    <2>1. PICK refused \in SUBSET ((push[d] \cap Guarded) \ Raced(d)) :
            /\ remote' = [s \in Ref |-> IF s \in push[d] \ (Raced(d) \cup refused)
                                        THEN local[d][s] ELSE remote[s]]
            /\ push' = [push EXCEPT ![d] = {}]
            /\ again' = [again EXCEPT ![d] = IF RoundsLeft(d) THEN Raced(d) ELSE {}]
            /\ result' = [result EXCEPT ![d] =
                   [s \in Ref |->
                       IF s \in push[d] \ (Raced(d) \cup refused) THEN "done"
                       ELSE IF s \in refused THEN "refused"
                       ELSE IF s \in Raced(d) /\ ~RoundsLeft(d) THEN "exhausted"
                       ELSE result[d][s]]]
      BY <1>3 DEF PushBatch
    <2>2. UNCHANGED <<local, plan, round, start, envelope>>
      BY <1>3 DEF PushBatch
    <2>3. Raced(d) \subseteq push[d]
      BY DEF Raced
    <2>4. CASE d = c /\ r \in push[c]
      <3>1. Precedes(start'[c][r], local'[c][r])
        BY <2>2, <2>4 DEF Earned, Precedes
      <3>2. result'[c][r] = IF r \in push[c] \ (Raced(c) \cup refused) THEN "done"
                            ELSE IF r \in refused THEN "refused"
                            ELSE IF r \in Raced(c) /\ ~RoundsLeft(c) THEN "exhausted"
                            ELSE "none"
        BY <2>1, <2>4 DEF Reported
      <3>3. result'[c][r] = "done" => remote'[r] = local'[c][r]
        BY <2>1, <2>2, <2>4, <3>2
      <3>4. result'[c][r] = "exhausted" => round'[c] = SyncRetries
        <4>1. result'[c][r] = "exhausted" => ~(round[c] < SyncRetries)
          BY <3>2 DEF RoundsLeft
        <4>2. ~(round[c] < SyncRetries) => round[c] = SyncRetries
          <5>1. round[c] \in 0 .. SyncRetries /\ SyncRetries \in Nat
            BY SyncBatchAssumption
          <5>2. \A n \in 0 .. SyncRetries : ~(n < SyncRetries) => n = SyncRetries
            BY SyncBatchAssumption
          <5>3. QED BY <5>1, <5>2
        <4>3. round'[c] = round[c]
          BY <2>2
        <4>4. QED BY <4>1, <4>2, <4>3
      <3>5. /\ result'[c][r] = "refused" => r \in Guarded
            /\ result'[c][r] \notin {"kept", "adopted", "conflict", "unreadable"}
        BY <2>1, <2>4, <3>2
      <3>6. QED BY <3>1, <3>3, <3>4, <3>5 DEF Earned, Precedes
    <2>5. CASE ~(d = c /\ r \in push[c])
      <3>1. result'[c][r] = result[c][r] /\ start'[c] = start[c] /\ round'[c] = round[c]
        BY <2>1, <2>2, <2>3, <2>5
      <3>2. (plan'[c] \cup push'[c] \cup again'[c]) \cap {r}
              \subseteq plan[c] \cup push[c] \cup again[c]
        BY <2>1, <2>2, <2>3, <2>5
      <3>3. QED BY <2>2, <3>1, <3>2, EarnedKept
    <2>6. QED BY <2>4, <2>5
  <1>4. ASSUME NEW d \in Clone, NextRound(d) PROVE Earned(c, r)'
    <2>1. CASE d = c
      <3>1. result[c][r] # "exhausted"
        BY <1>4, <2>1, SyncBatchAssumption DEF NextRound, Staged, Earned
      <3>2. /\ plan'[c] \cup push'[c] \cup again'[c] \subseteq again[c]
            /\ UNCHANGED <<result, start, envelope>>
        BY <1>4, <2>1 DEF NextRound
      <3>3. QED BY <3>1, <3>2, EarnedKept
    <2>2. CASE d # c
      BY <1>4, <2>2, EarnedKept DEF NextRound
    <2>3. QED BY <2>1, <2>2
  <1>5. ASSUME NEW d \in Clone, Break(d) PROVE Earned(c, r)'
    <2>1. CASE d = c
      BY <1>5, <2>1 DEF Break, Earned
    <2>2. CASE d # c
      BY <1>5, <2>2, EarnedKept DEF Break
    <2>3. QED BY <2>1, <2>2
  <1>6. ASSUME NEW d \in Clone, NEW s \in Ref, PlanRef(d, s) PROVE Earned(c, r)'
    <2>1. s \in plan[d] /\ UNCHANGED <<again, round, start, remote, tracking, envelope>>
      BY <1>6 DEF PlanRef
    <2>2. CASE d = c /\ s = r
      <3>1. CASE ToPush(d, s)
        BY <2>1, <2>2, <3>1, EarnedKept DEF ToPush
      <3>2. ASSUME NEW how, Settle(d, s, how),
                   how \in {"done", "kept", "adopted", "conflict", "unreadable"},
                   how = "done" => Precedes(local[c][r], tracking[c][r]),
                   how \in {"kept", "adopted", "conflict"} => r = "users",
                   how = "unreadable" => /\ r # "meta" /\ local' = local
                                         /\ \/ ~Readable(c, local[c][r])
                                            \/ ~Readable(c, tracking[c][r])
            PROVE  Earned(c, r)'
        <4>1. result'[c][r] = how
          BY <2>2, <3>2 DEF Settle
        <4>2. r \notin plan'[c] \cup push'[c] \cup again'[c]
          BY <2>1, <2>2, <3>2 DEF Settle, Staged
        <4>3. how = "done" => Precedes(start'[c][r], remote'[r])
          <5>1. Precedes(start[c][r], local[c][r]) /\ Precedes(tracking[c][r], remote[r])
            BY <2>1, <2>2 DEF Earned, AllEarned
          <5>2. QED BY <2>1, <3>2, <5>1 DEF Precedes
        <4>4. how = "unreadable" =>
                r # "meta" /\ (~Readable(c, local[c][r])' \/ ~Readable(c, remote[r])')
          <5>1. Precedes(tracking[c][r], remote[r])
            BY DEF AllEarned
          <5>2. QED BY <2>1, <3>2, <5>1 DEF Precedes, Readable
        <4>5. QED BY <3>2, <4>1, <4>2, <4>3, <4>4 DEF Earned, Precedes
      <3>3. CASE PlanIn(d, s)
        <4>1. Settle(d, s, "done") /\ Precedes(local[c][r], tracking[c][r])
          BY <2>2, <3>3 DEF PlanIn, Behind
        <4>2. QED BY <3>2, <4>1
      <3>4. CASE KeepTrustRoot(d, s) \/ AdoptTrustRoot(d, s) \/ TrustRootConflict(d, s)
        <4>1. r = "users"
          BY <2>2, <3>4
          DEF KeepTrustRoot, AdoptTrustRoot, TrustRootConflict, TwoTrustRoots
        <4>2. CASE Settle(d, s, "kept")
          BY <3>2, <4>1, <4>2
        <4>3. CASE Settle(d, s, "adopted")
          BY <3>2, <4>1, <4>3
        <4>4. CASE Settle(d, s, "conflict")
          BY <3>2, <4>1, <4>4
        <4>5. QED BY <3>4, <4>2, <4>3, <4>4
                  DEF KeepTrustRoot, AdoptTrustRoot, TrustRootConflict
      <3>5. CASE MergeFails(d, s)
        <4>1. /\ Settle(d, s, "unreadable") /\ local' = local /\ r # "meta"
              /\ ~Readable(c, local[c][r]) \/ ~Readable(c, tracking[c][r])
          BY <2>2, <3>5 DEF MergeFails, Mergeable
        <4>2. QED BY <3>2, <4>1
      <3>6. QED BY <1>6, <3>1, <3>3, <3>4, <3>5 DEF PlanRef, PlanOut, PlanMerge
    <2>3. CASE ~(d = c /\ s = r)
      <3>1. CASE ToPush(d, s)
        BY <2>1, <2>3, <3>1, EarnedKept DEF ToPush
      <3>2. ASSUME NEW how, Settle(d, s, how) PROVE Earned(c, r)'
        BY <2>1, <2>3, <3>2, EarnedKept DEF Settle
      <3>3. QED BY <1>6, <3>1, <3>2
                DEF PlanRef, PlanIn, PlanOut, PlanMerge, MergeFails, KeepTrustRoot,
                    AdoptTrustRoot, TrustRootConflict
    <2>4. QED BY <2>2, <2>3
  <1>7. ASSUME NEW d \in Clone, Upgrade(d) PROVE Earned(c, r)'
    <2>1. CASE d = c
      BY <1>7, <2>1 DEF Upgrade, Running, Earned
    <2>2. CASE d # c
      <3>1. envelope'[c] = envelope[c]
        BY <1>7, <2>2 DEF Upgrade, TypeInv, RefsTyped
      <3>2. QED BY <1>7, <2>2, <3>1, EarnedKept DEF Upgrade
    <2>3. QED BY <2>1, <2>2
  <1>8. QED BY <1>1, <1>2, <1>3, <1>4, <1>5, <1>6, <1>7
            DEF Next, InitProject, SetPin, Append, batch, vars

\* The results of every sync are earned, however it was interrupted or raced.
THEOREM ResultsEarned == Spec => []AllEarned
  <1>1. Init => AllEarned
    BY DEF Init, AllEarned, Earned, Precedes, Unborn
  <1>2. TypeInv /\ TypeInv' /\ AllEarned /\ [Next]_vars => AllEarned'
    BY TrackingStep, EarnedStep DEF AllEarned
  <1>3. QED BY <1>1, <1>2, TypeInvariance, PTL DEF Spec

\* A sync that ran to its end settled every ref it was asked for, each on its
\* own, and published what it reports as done.
THEOREM BatchHolds == Spec => []BatchIsIndependent
  <1>1. TypeInv /\ AllEarned => BatchIsIndependent
    <2>1. ASSUME TypeInv, AllEarned, NEW c \in Clone, ~Running(c), NEW r \in asked[c]
          PROVE  \/ result[c][r] = "done" /\ Precedes(start[c][r], remote[r])
                 \/ result[c][r] = "exhausted" /\ round[c] = SyncRetries
                 \/ result[c][r] = "refused" /\ r \in Guarded
                 \/ /\ result[c][r] = "unreadable" /\ r # "meta"
                    /\ ~Readable(c, local[c][r]) \/ ~Readable(c, remote[r])
                 \/ result[c][r] \in {"kept", "adopted", "conflict"} /\ r = "users"
      <3>1. r \in Ref
        BY <2>1 DEF TypeInv, BatchTyped
      <3>2. result[c][r] # "none" /\ result[c][r] \in Results
        BY <2>1, <3>1 DEF TypeInv, BatchTyped, Bookkeeping, Reported, Running
      <3>3. QED BY <2>1, <3>1, <3>2 DEF AllEarned, Earned, Results
    <2>2. QED BY <2>1 DEF BatchIsIndependent
  <1>2. QED BY <1>1, TypeInvariance, ResultsEarned, PTL

=============================================================================
