------------------------- MODULE EntityChainProofs -------------------------
(***************************************************************************)
(* What the run of EntityChain checks for two writers, one compaction and  *)
(* four IDs about what is on the chain, proved for any number of each and  *)
(* for every order in which clocks hand out IDs.                           *)
(***************************************************************************)
EXTENDS EntityChain, FiniteSetTheorems, TLAPS

-----------------------------------------------------------------------------
(* Places and IDs of a chain that grows by one commit.                     *)

\* Commits of different kinds have different fields: all that a proof needs of
\* a chain is that it is a sequence.
IsSequence(ch) == \E S : ch \in Seq(S)

LEMMA Grown ==
    ASSUME NEW ch, IsSequence(ch), NEW e
    PROVE  /\ IsSequence(Append(ch, e))
           /\ Len(ch) \in Nat
           /\ Len(Append(ch, e)) = Len(ch) + 1
           /\ Append(ch, e)[Len(ch) + 1] = e
           /\ \A n \in 1 .. Len(ch) : Append(ch, e)[n] = ch[n]
  <1>1. PICK S : ch \in Seq(S)
    BY DEF IsSequence
  <1>2. ch \in Seq(S \cup {e}) /\ e \in S \cup {e}
    BY <1>1
  <1>3. Append(ch, e) \in Seq(S \cup {e})
    BY <1>2
  <1>4. IsSequence(Append(ch, e))
    BY <1>3 DEF IsSequence
  <1>5. QED
    BY <1>2, <1>4

LEMMA GrownPlaces ==
    ASSUME NEW ch, IsSequence(ch), NEW e, NEW kind
    PROVE  Places(Append(ch, e), kind) =
               Places(ch, kind) \cup (IF e.kind = kind THEN {Len(ch) + 1} ELSE {})
  BY Grown DEF Places

LEMMA GrownEvents ==
    ASSUME NEW ch, IsSequence(ch), NEW e
    PROVE  /\ e.kind = "event" => EventIds(Append(ch, e)) = EventIds(ch) \cup {e.id}
           /\ e.kind = "merge" => EventIds(Append(ch, e)) = EventIds(ch) \cup e.side
           /\ e.kind = "checkpoint" => EventIds(Append(ch, e)) = EventIds(ch)
  <1> DEFINE new == Append(ch, e)
  <1>1. /\ Len(ch) \in Nat
        /\ new[Len(ch) + 1] = e
        /\ \A n \in 1 .. Len(ch) : new[n] = ch[n]
    BY Grown
  <1>2. \A kind : Places(new, kind) =
            Places(ch, kind) \cup (IF e.kind = kind THEN {Len(ch) + 1} ELSE {})
    BY GrownPlaces
  <1>3. \A kind : \A n \in Places(ch, kind) : n \in 1 .. Len(ch) /\ new[n] = ch[n]
    BY <1>1 DEF Places
  <1>4. CASE e.kind = "event"
    <2>1. {new[n].id : n \in Places(new, "event")}
              = {ch[n].id : n \in Places(ch, "event")} \cup {e.id}
      BY <1>1, <1>2, <1>3, <1>4
    <2>2. {new[n].side : n \in Places(new, "merge")}
              = {ch[n].side : n \in Places(ch, "merge")}
      BY <1>2, <1>3, <1>4
    <2>3. QED
      BY <1>4, <2>1, <2>2 DEF EventIds
  <1>5. CASE e.kind = "merge"
    <2>1. {new[n].id : n \in Places(new, "event")}
              = {ch[n].id : n \in Places(ch, "event")}
      BY <1>2, <1>3, <1>5
    <2>2. {new[n].side : n \in Places(new, "merge")}
              = {ch[n].side : n \in Places(ch, "merge")} \cup {e.side}
      BY <1>1, <1>2, <1>3, <1>5
    <2>3. QED
      BY <1>5, <2>1, <2>2 DEF EventIds
  <1>6. CASE e.kind = "checkpoint"
    <2>1. /\ {new[n].id : n \in Places(new, "event")}
                  = {ch[n].id : n \in Places(ch, "event")}
          /\ {new[n].side : n \in Places(new, "merge")}
                  = {ch[n].side : n \in Places(ch, "merge")}
      BY <1>2, <1>3, <1>6
    <2>2. QED
      BY <1>6, <2>1 DEF EventIds
  <1>7. QED
    BY <1>4, <1>5, <1>6

LEMMA GrownCheckpoints ==
    ASSUME NEW ch, IsSequence(ch), NEW e
    PROVE  CheckpointIds(Append(ch, e)) =
               CheckpointIds(ch) \cup (IF e.kind = "checkpoint" THEN {e.id} ELSE {})
  <1> DEFINE new == Append(ch, e)
  <1>1. new[Len(ch) + 1] = e
    BY Grown
  <1>2. Places(new, "checkpoint") = Places(ch, "checkpoint")
            \cup (IF e.kind = "checkpoint" THEN {Len(ch) + 1} ELSE {})
    BY GrownPlaces
  <1>3. \A n \in Places(ch, "checkpoint") : new[n] = ch[n]
    BY Grown DEF Places
  <1>4. QED
    BY <1>1, <1>2, <1>3 DEF CheckpointIds

-----------------------------------------------------------------------------
(* The order in which reducers run: the n-th of a set of IDs is the one    *)
(* with n - 1 smaller ones, and there is exactly one.                      *)

Below(ids, i) == {j \in ids : j < i}
Rank(ids, i) == Cardinality(Below(ids, i)) + 1

\* An ID has fewer smaller ones than there are IDs, and more than a smaller one.
LEMMA RankGrows ==
    ASSUME NEW ids \in SUBSET Nat, IsFiniteSet(ids), NEW i \in ids
    PROVE  /\ Cardinality(ids) \in Nat
           /\ Rank(ids, i) \in 1 .. Cardinality(ids)
           /\ \A j \in ids : j < i => Rank(ids, j) < Rank(ids, i)
  <1>1. Cardinality(ids) \in Nat
    BY FS_CardinalityType
  <1>2. ASSUME NEW S \in SUBSET ids, NEW T \in SUBSET S, S # T
        PROVE  /\ Cardinality(S) \in Nat /\ Cardinality(T) \in Nat
               /\ Cardinality(T) < Cardinality(S)
    <2>1. IsFiniteSet(S)
      BY FS_Subset
    <2>2. IsFiniteSet(T) /\ Cardinality(T) <= Cardinality(S)
          /\ Cardinality(S) # Cardinality(T)
      BY <1>2, <2>1, FS_Subset
    <2>3. Cardinality(S) \in Nat /\ Cardinality(T) \in Nat
      BY <2>1, <2>2, FS_CardinalityType
    <2>4. QED
      BY <2>2, <2>3
  <1>3. Below(ids, i) \in SUBSET ids /\ i \notin Below(ids, i)
    BY DEF Below
  <1>4. /\ Cardinality(Below(ids, i)) \in Nat
        /\ Cardinality(Below(ids, i)) < Cardinality(ids)
    BY <1>2, <1>3
  <1>5. ASSUME NEW j \in ids, j < i
        PROVE  Rank(ids, j) < Rank(ids, i)
    <2>1. Below(ids, j) \in SUBSET Below(ids, i) /\ j \in Below(ids, i)
          /\ j \notin Below(ids, j)
      <3>1. i \in Nat /\ j \in Nat
        OBVIOUS
      <3>2. ~(j < j) /\ \A k \in ids : k < j => k < i
        BY <1>5, <3>1
      <3>3. QED
        BY <1>5, <3>2 DEF Below
    <2>2. /\ Cardinality(Below(ids, j)) \in Nat
          /\ Cardinality(Below(ids, j)) < Cardinality(Below(ids, i))
      BY <1>2, <1>3, <2>1
    <2>3. QED
      BY <1>4, <2>2 DEF Rank
  <1>6. QED
    BY <1>1, <1>4, <1>5 DEF Rank

LEMMA RankIsOne ==
    ASSUME NEW ids \in SUBSET Nat, IsFiniteSet(ids),
           NEW i \in ids, NEW j \in ids, Rank(ids, i) = Rank(ids, j)
    PROVE  i = j
  <1>1. /\ Rank(ids, i) \in Nat /\ i \in Nat /\ j \in Nat
        /\ j < i => Rank(ids, j) < Rank(ids, i)
        /\ i < j => Rank(ids, i) < Rank(ids, j)
    BY RankGrows
  <1>2. QED
    BY <1>1

LEMMA EveryRank ==
    ASSUME NEW ids \in SUBSET Nat, IsFiniteSet(ids),
           NEW n \in 1 .. Cardinality(ids)
    PROVE  \E i \in ids : Rank(ids, i) = n
  <1> DEFINE T == 1 .. Cardinality(ids)
             f == [i \in ids |-> Rank(ids, i)]
  <1>1. Cardinality(ids) \in Nat
    BY FS_CardinalityType
  <1>2. f \in [ids -> T]
    BY RankGrows
  <1>3. \A i, j \in ids : f[i] = f[j] => i = j
    BY RankIsOne
  <1>4. f \in Injection(ids, T)
    BY <1>2, <1>3 DEF Injection, IsInjective
  <1>5. IsFiniteSet(T) /\ Cardinality(T) = Cardinality(ids)
    BY <1>1, FS_Interval
  <1>6. f \in Surjection(ids, T)
    BY <1>4, <1>5, FS_Injection
  <1>7. QED
    BY <1>6 DEF Surjection

LEMMA NthIsOne ==
    ASSUME NEW ids \in SUBSET Nat, IsFiniteSet(ids),
           NEW n \in 1 .. Cardinality(ids)
    PROVE  \E i \in ids : Nth(ids, n) = {i}
  <1>1. PICK i \in ids : Rank(ids, i) = n
    BY EveryRank
  <1>2. \A j \in ids : Rank(ids, j) = n => j = i
    BY <1>1, RankIsOne
  <1>3. \A j \in ids : Cardinality(Below(ids, j)) \in Nat
    BY FS_Subset, FS_CardinalityType DEF Below
  <1>4. n \in Nat
    BY FS_CardinalityType
  <1>5. \A j \in ids : Rank(ids, j) = n <=> Cardinality(Below(ids, j)) = n - 1
    BY <1>3, <1>4 DEF Rank
  <1>6. Nth(ids, n) = {j \in ids : Cardinality(Below(ids, j)) = n - 1}
    BY DEF Nth, Below
  <1>7. QED
    BY <1>1, <1>2, <1>5, <1>6

\* The largest ID, which has all others below it.
LEMMA Largest ==
    ASSUME NEW ids \in SUBSET Nat, IsFiniteSet(ids), ids # {}
    PROVE  Max(ids) \in ids /\ \A i \in ids : i <= Max(ids)
  <1>1. Cardinality(ids) \in Nat \ {0}
    BY FS_CardinalityType, FS_EmptySet
  <1>2. PICK m \in ids : Rank(ids, m) = Cardinality(ids)
    BY <1>1, EveryRank
  <1>3. \A i \in ids : ~(m < i)
    BY <1>1, <1>2, RankGrows
  <1>4. \A i \in ids : m >= i
    BY <1>3
  <1>5. Max(ids) \in ids /\ \A i \in ids : Max(ids) >= i
    BY <1>4 DEF Max
  <1>6. QED
    BY <1>5

LEMMA Joined ==
    ASSUME NEW S, NEW s \in Seq(S), NEW t \in Seq(S)
    PROVE  /\ s \o t \in Seq(S)
           /\ Len(s \o t) = Len(s) + Len(t)
           /\ \A n \in 1 .. Len(s) : (s \o t)[n] = s[n]
           /\ \A n \in 1 .. Len(t) : (s \o t)[Len(s) + n] = t[n]
  OBVIOUS

LEMMA SameSequence ==
    ASSUME NEW S, NEW s \in Seq(S), NEW t \in Seq(S), Len(s) = Len(t),
           \A n \in 1 .. Len(s) : s[n] = t[n]
    PROVE  s = t
  OBVIOUS

\* A fold runs the reducer of each event once.
LEMMA FoldRunsAll ==
    ASSUME NEW ids \in SUBSET Nat, IsFiniteSet(ids)
    PROVE  /\ Fold(ids) \in Seq(ids)
           /\ Len(Fold(ids)) = Cardinality(ids)
           /\ \A n \in 1 .. Cardinality(ids) : Nth(ids, n) = {Fold(ids)[n]}
  <1>1. Cardinality(ids) \in Nat
    BY FS_CardinalityType
  <1>2. \A n \in 1 .. Cardinality(ids) :
            Nth(ids, n) = {Fold(ids)[n]} /\ Fold(ids)[n] \in ids
    BY NthIsOne DEF Fold
  <1>3. Fold(ids) \in [1 .. Cardinality(ids) -> ids]
    BY <1>2 DEF Fold
  <1>4. QED
    BY <1>1, <1>2, <1>3

\* Folding events on top of a state that holds only smaller ones is folding
\* them together: what a reader that starts at a checkpoint relies on.
LEMMA FoldOnTop ==
    ASSUME NEW old \in SUBSET Nat, IsFiniteSet(old),
           NEW new \in SUBSET Nat, IsFiniteSet(new),
           \A i \in old, j \in new : i < j
    PROVE  Fold(old) \o Fold(new) = Fold(old \cup new)
  <1> DEFINE all == old \cup new
  <1>1. /\ IsFiniteSet(all) /\ all \in SUBSET Nat
        /\ Cardinality(old) \in Nat /\ Cardinality(new) \in Nat
    BY FS_Union, FS_CardinalityType
  <1>2. old \cap new = {}
    <2>1. \A i \in Nat : ~(i < i)
      OBVIOUS
    <2>2. QED
      BY <2>1
  <1>3. Cardinality(all) = Cardinality(old) + Cardinality(new)
    <2>1. Cardinality(old \cap new) = 0
      BY <1>2, FS_EmptySet
    <2>2. Cardinality(all) = Cardinality(old) + Cardinality(new) - Cardinality(old \cap new)
      BY FS_Union
    <2>3. QED
      BY <1>1, <2>1, <2>2
  <1>4. /\ Fold(old) \in Seq(old) /\ Len(Fold(old)) = Cardinality(old)
        /\ Fold(new) \in Seq(new) /\ Len(Fold(new)) = Cardinality(new)
        /\ Fold(all) \in Seq(all) /\ Len(Fold(all)) = Cardinality(all)
    BY <1>1, FoldRunsAll
  <1>5. ASSUME NEW n \in 1 .. Cardinality(old)
        PROVE  Fold(all)[n] = Fold(old)[n]
    <2>1. n \in 1 .. Cardinality(all)
      BY <1>1, <1>3
    <2>2. PICK i \in old : Nth(old, n) = {i}
      BY NthIsOne
    <2>3. Below(all, i) = Below(old, i)
      <3>1. \A j \in new : ~(j < i)
        OBVIOUS
      <3>2. QED
        BY <3>1 DEF Below
    <2>4. i \in Nth(all, n)
      BY <2>2, <2>3 DEF Nth, Below
    <2>5. Nth(all, n) = {Fold(all)[n]} /\ Nth(old, n) = {Fold(old)[n]}
      BY <1>1, <2>1, FoldRunsAll
    <2>6. QED
      BY <2>2, <2>4, <2>5
  <1>6. ASSUME NEW n \in 1 .. Cardinality(new)
        PROVE  Fold(all)[Cardinality(old) + n] = Fold(new)[n]
    <2> DEFINE k == Cardinality(old) + n
    <2>1. k \in 1 .. Cardinality(all) /\ n \in Nat
      BY <1>1, <1>3
    <2>2. PICK i \in new : Nth(new, n) = {i}
      BY NthIsOne
    <2>3. Below(all, i) = old \cup Below(new, i)
      BY DEF Below
    <2>4. /\ IsFiniteSet(Below(new, i)) /\ old \cap Below(new, i) = {}
          /\ Cardinality(Below(new, i)) = n - 1
      BY <1>2, <2>2, FS_Subset DEF Below, Nth
    <2>5. Cardinality(Below(all, i)) = Cardinality(old) + (n - 1)
      <3>1. Cardinality(old \cap Below(new, i)) = 0
        BY <2>4, FS_EmptySet
      <3>2. Cardinality(old \cup Below(new, i)) =
                Cardinality(old) + Cardinality(Below(new, i)) - Cardinality(old \cap Below(new, i))
        BY <2>4, FS_Union
      <3>3. Cardinality(Below(all, i)) = Cardinality(old) + (n - 1) - 0
        BY <2>3, <2>4, <3>1, <3>2
      <3>4. QED
        BY <1>1, <2>1, <3>3
    <2>6. Cardinality(Below(all, i)) = k - 1
      BY <1>1, <2>1, <2>5
    <2>7. i \in Nth(all, k)
      BY <2>6 DEF Nth, Below
    <2>8. Nth(all, k) = {Fold(all)[k]} /\ Nth(new, n) = {Fold(new)[n]}
      BY <1>1, <2>1, FoldRunsAll
    <2>9. QED
      BY <2>2, <2>7, <2>8
  <1>7. QED
    <2> DEFINE s == Fold(old) \o Fold(new)
    <2>1. /\ s \in Seq(all) /\ Len(s) = Cardinality(all)
          /\ \A n \in 1 .. Cardinality(old) : s[n] = Fold(old)[n]
          /\ \A n \in 1 .. Cardinality(new) : s[Cardinality(old) + n] = Fold(new)[n]
      <3>1. Fold(old) \in Seq(all) /\ Fold(new) \in Seq(all)
        BY <1>4
      <3>2. QED
        BY <1>3, <1>4, <3>1, Joined
    <2>2. ASSUME NEW m \in 1 .. Cardinality(all)
          PROVE  s[m] = Fold(all)[m]
      <3>1. CASE m <= Cardinality(old)
        <4>1. m \in 1 .. Cardinality(old)
          BY <1>1, <3>1
        <4>2. QED
          BY <1>5, <2>1, <4>1
      <3>2. CASE m > Cardinality(old)
        <4> DEFINE n == m - Cardinality(old)
        <4>1. n \in 1 .. Cardinality(new) /\ m = Cardinality(old) + n
          BY <1>1, <1>3, <3>2
        <4>2. QED
          BY <1>6, <2>1, <4>1
      <3>3. QED
        <4>1. m <= Cardinality(old) \/ m > Cardinality(old)
          BY <1>1, <1>3
        <4>2. QED
          BY <3>1, <3>2, <4>1, Zenon
    <2>3. QED
      BY <1>4, <2>1, <2>2, SameSequence

-----------------------------------------------------------------------------
(* Reading from a checkpoint.                                              *)

LEMMA IdSets ==
    ASSUME NEW ids \in SUBSET Id
    PROVE  ids \in SUBSET Nat /\ IsFiniteSet(ids)
  <1>1. MaxId \in Nat
    BY ChainAssumption
  <1>2. IsFiniteSet(Id) /\ Id \in SUBSET Nat
    BY <1>1, FS_Interval DEF Id
  <1>3. QED
    BY <1>2, FS_Subset

LEMMA FoldType ==
    ASSUME NEW ids \in SUBSET Id
    PROVE  Fold(ids) \in Seq(Id)
  <1>1. Fold(ids) \in Seq(ids)
    BY IdSets, FoldRunsAll
  <1>2. QED
    BY <1>1

\* The largest of some IDs, or 0 without any.
LEMMA LargestId ==
    ASSUME NEW ids \in SUBSET Id
    PROVE  /\ Max(ids \cup {0}) \in 0 .. MaxId
           /\ \A i \in ids : i <= Max(ids \cup {0})
  <1>1. MaxId \in Nat
    BY ChainAssumption
  <1>2. ids \cup {0} \in SUBSET (0 .. MaxId)
    BY <1>1 DEF Id
  <1>3. ids \cup {0} \in SUBSET Nat /\ IsFiniteSet(ids \cup {0})
    <2>1. IsFiniteSet(0 .. MaxId) /\ 0 .. MaxId \in SUBSET Nat
      BY <1>1, FS_Interval
    <2>2. QED
      BY <1>2, <2>1, FS_Subset
  <1>4. Max(ids \cup {0}) \in ids \cup {0} /\ \A i \in ids \cup {0} : i <= Max(ids \cup {0})
    BY <1>3, Largest
  <1>5. QED
    BY <1>2, <1>4

\* The place a read starts from is a checkpoint that no merge commit hides.
LEMMA StartIsCheckpoint ==
    ASSUME NEW ch, IsSequence(ch), FindCheckpointStart(ch) > 0
    PROVE  /\ FindCheckpointStart(ch) \in Places(ch, "checkpoint")
           /\ \A m \in Places(ch, "merge") : m < FindCheckpointStart(ch)
  <1> DEFINE open == {n \in Places(ch, "checkpoint") :
                        \A m \in Places(ch, "merge") : m < n}
  <1>1. Len(ch) \in Nat
    BY Grown
  <1>2. open \cup {0} \in SUBSET (0 .. Len(ch))
    BY <1>1 DEF Places
  <1>3. open \cup {0} \in SUBSET Nat /\ IsFiniteSet(open \cup {0})
    <2>1. IsFiniteSet(0 .. Len(ch)) /\ 0 .. Len(ch) \in SUBSET Nat
      BY <1>1, FS_Interval
    <2>2. QED
      BY <1>2, <2>1, FS_Subset
  <1>4. Max(open \cup {0}) \in open \cup {0}
    BY <1>3, Largest
  <1>5. FindCheckpointStart(ch) = Max(open \cup {0})
    BY DEF FindCheckpointStart
  <1>6. FindCheckpointStart(ch) \in open
    BY <1>4, <1>5
  <1>7. QED
    BY <1>6

\* The commits behind a checkpoint and the events after it are all there is,
\* unless a merge comes after it.
LEMMA SplitAt ==
    ASSUME NEW ch, IsSequence(ch), NEW n \in Places(ch, "checkpoint"),
           \A m \in Places(ch, "merge") : m < n
    PROVE  EventIds(ch) = EventIds(SubSeq(ch, 1, n - 1)) \cup After(ch, n)
  <1> DEFINE pre == SubSeq(ch, 1, n - 1)
  <1>1. PICK S : ch \in Seq(S)
    BY DEF IsSequence
  <1>2. n \in 1 .. Len(ch) /\ Len(ch) \in Nat /\ ch[n].kind = "checkpoint"
    BY <1>1 DEF Places
  <1>3. Len(pre) = n - 1 /\ \A m \in 1 .. n - 1 : pre[m] = ch[m]
    BY <1>1, <1>2
  <1>4. \A kind : Places(pre, kind) = {m \in Places(ch, kind) : m < n}
    BY <1>2, <1>3 DEF Places
  <1>5. \A kind : \A m \in Places(pre, kind) : pre[m] = ch[m]
    BY <1>2, <1>3 DEF Places
  <1>6. \A m \in Places(ch, "event") : m < n \/ m > n
    BY <1>2 DEF Places
  <1>7. {ch[m].id : m \in Places(ch, "event")} =
            {pre[m].id : m \in Places(pre, "event")} \cup After(ch, n)
    BY <1>4, <1>5, <1>6 DEF After
  <1>8. {ch[m].side : m \in Places(ch, "merge")} =
            {pre[m].side : m \in Places(pre, "merge")}
    BY <1>4, <1>5
  <1>9. QED
    BY <1>7, <1>8 DEF EventIds

\* A chain of IDs whose checkpoints are snapshots of the commits behind them.
OfIds(ch) == IsSequence(ch) /\ EventIds(ch) \subseteq Id /\ CheckpointIds(ch) \subseteq Id
Faithfully(ch) == \A n \in Places(ch, "checkpoint") :
                     ch[n].data = Checkpoint(SubSeq(ch, 1, n - 1))

\* foldInputs, with or without a new envelope, folds everything.
LEMMA Transparent ==
    ASSUME NEW ch, OfIds(ch), Faithfully(ch),
           NEW new \in SUBSET Id, NEW ids \in SUBSET new
    PROVE  FoldInputs(ch, new, ids) = Fold(EventIds(ch) \cup ids)
  <1> DEFINE n == FindCheckpointStart(ch)
             pre == SubSeq(ch, 1, n - 1)
             late == After(ch, n) \cup ids
  <1>1. EventIds(ch) \cup ids \in SUBSET Id
    BY DEF OfIds
  <1>2. CASE CheckpointBase(ch, n, new)
    <2>1. n > 0
      BY <1>2 DEF CheckpointBase
    <2>2. /\ n \in Places(ch, "checkpoint")
          /\ \A m \in Places(ch, "merge") : m < n
      BY <2>1, StartIsCheckpoint DEF OfIds
    <2>3. EventIds(ch) = EventIds(pre) \cup After(ch, n)
      BY <2>2, SplitAt DEF OfIds
    <2>4. ch[n].data = Checkpoint(pre)
      BY <2>2 DEF Faithfully
    <2>5. ch[n].data.state = Fold(EventIds(pre)) /\ ch[n].data.max = MaxEventId(pre)
      BY <2>4 DEF Checkpoint, FullFold
    <2>6. CheckpointIds(pre) \subseteq CheckpointIds(ch)
      <3>1. PICK S : ch \in Seq(S)
        BY DEF OfIds, IsSequence
      <3>2. n \in 1 .. Len(ch)
        BY <2>2 DEF Places
      <3>3. Len(pre) = n - 1 /\ \A m \in 1 .. n - 1 : pre[m] = ch[m]
        BY <3>1, <3>2
      <3>4. \A m \in Places(pre, "checkpoint") :
                m \in Places(ch, "checkpoint") /\ pre[m] = ch[m]
        BY <3>1, <3>2, <3>3 DEF Places
      <3>5. QED
        BY <3>4 DEF CheckpointIds
    <2>7. /\ EventIds(pre) \in SUBSET Id /\ late \in SUBSET Id
          /\ EventIds(pre) \cup CheckpointIds(pre) \in SUBSET Id
      BY <2>3, <2>6 DEF OfIds
    <2>8. MaxEventId(pre) \in 0 .. MaxId /\ \A i \in EventIds(pre) : i <= MaxEventId(pre)
      BY <2>7, LargestId DEF MaxEventId
    <2>9. \A i \in late : i > MaxEventId(pre)
      BY <1>2, <2>5 DEF CheckpointBase
    <2>10. \A i \in EventIds(pre), j \in late : i < j
      BY <2>7, <2>8, <2>9, IdSets
    <2>11. Fold(EventIds(pre)) \o Fold(late) = Fold(EventIds(pre) \cup late)
      BY <2>7, <2>10, IdSets, FoldOnTop
    <2>12. EventIds(pre) \cup late = EventIds(ch) \cup ids
      BY <2>3
    <2>13. FoldInputs(ch, new, ids) = Fold(EventIds(pre)) \o Fold(late)
      BY <1>2, <2>5 DEF FoldInputs, FoldFrom
    <2>14. QED
      BY <2>11, <2>12, <2>13
  <1>3. CASE ~CheckpointBase(ch, n, new)
    <2>1. FoldInputs(ch, new, ids) = <<>> \o Fold(EventIds(ch) \cup ids)
      BY <1>3 DEF FoldInputs, FoldFrom
    <2>2. Fold(EventIds(ch) \cup ids) \in Seq(Id)
      BY <1>1, FoldType
    <2>3. QED
      BY <2>1, <2>2
  <1>4. QED
    BY <1>2, <1>3

-----------------------------------------------------------------------------
(* Types.                                                                  *)

EntryTyped(e, n) ==
    /\ e.kind \in {"event", "checkpoint", "merge"}
    /\ e.tree \in Seq(Id)
    /\ e.kind = "merge" => e.side \subseteq Id /\ e.from \in 0 .. n - 2
    /\ e.kind # "merge" => e.id \in Id
    /\ e.kind = "checkpoint" => e.data \in Snapshots

ChainTyped(ch) == IsSequence(ch) /\ \A n \in 1 .. Len(ch) : EntryTyped(ch[n], n)

ProcsTyped ==
    /\ used \subseteq Id
    /\ pc \in [Proc -> {"idle", "build", "read", "commit"}]
    /\ op \in [Proc -> {"open", "update", "checkpoint"}]
    /\ id \in [Proc -> 0 .. MaxId]
    /\ snap \in [Proc -> Snapshots]
    /\ tries \in [Proc -> 0 .. Retries - 1]
    /\ acked \subseteq Id

\* A process that has drawn an ID has one.
Drawn == \A p \in Proc : pc[p] \in {"read", "commit"} => id[p] \in used

TypeInv == ChainTyped(chain) /\ ProcsTyped /\ Drawn

LEMMA TypedIds ==
    ASSUME NEW ch, ChainTyped(ch)
    PROVE  OfIds(ch)
  <1>1. \A n \in Places(ch, "event") \cup Places(ch, "checkpoint") : ch[n].id \in Id
    BY DEF ChainTyped, EntryTyped, Places
  <1>2. \A n \in Places(ch, "merge") : ch[n].side \subseteq Id
    BY DEF ChainTyped, EntryTyped, Places
  <1>3. EventIds(ch) \subseteq Id
    BY <1>1, <1>2 DEF EventIds
  <1>4. CheckpointIds(ch) \subseteq Id
    BY <1>1 DEF CheckpointIds
  <1>5. QED
    BY <1>3, <1>4 DEF OfIds, ChainTyped

\* Whatever a checkpoint holds, what is read is a sequence of IDs.
LEMMA ReadTyped ==
    ASSUME NEW ch, ChainTyped(ch), NEW new, NEW ids \in SUBSET Id
    PROVE  FoldInputs(ch, new, ids) \in Seq(Id)
  <1> DEFINE n == FindCheckpointStart(ch)
  <1>1. OfIds(ch)
    BY TypedIds
  <1>2. EventIds(ch) \cup ids \in SUBSET Id /\ After(ch, n) \cup ids \in SUBSET Id
    BY <1>1 DEF OfIds, EventIds, After
  <1>3. Fold(EventIds(ch) \cup ids) \in Seq(Id) /\ Fold(After(ch, n) \cup ids) \in Seq(Id)
    BY <1>2, FoldType
  <1>4. CASE CheckpointBase(ch, n, new)
    <2>1. n > 0
      BY <1>4 DEF CheckpointBase
    <2>2. n \in Places(ch, "checkpoint")
      BY <1>1, <2>1, StartIsCheckpoint DEF OfIds
    <2>3. ch[n].data \in Snapshots
      BY <2>2 DEF ChainTyped, EntryTyped, Places
    <2>4. ch[n].data.state \in Seq(Id)
      BY <2>3 DEF Snapshots
    <2>5. ch[n].data.state \o Fold(After(ch, n) \cup ids) \in Seq(Id)
      BY <1>3, <2>4, Joined
    <2>6. QED
      BY <1>4, <2>5 DEF FoldInputs, FoldFrom
  <1>5. CASE ~CheckpointBase(ch, n, new)
    <2>1. <<>> \o Fold(EventIds(ch) \cup ids) \in Seq(Id)
      BY <1>3, Joined
    <2>2. QED
      BY <1>5, <2>1 DEF FoldInputs, FoldFrom
  <1>6. QED
    BY <1>4, <1>5

LEMMA CheckpointTyped ==
    ASSUME NEW ch, ChainTyped(ch)
    PROVE  Checkpoint(ch) \in Snapshots
  <1>1. OfIds(ch)
    BY TypedIds
  <1>2. FullFold(ch) \in Seq(Id)
    BY <1>1, FoldType DEF OfIds, FullFold
  <1>3. EventIds(ch) \cup CheckpointIds(ch) \in SUBSET Id
    BY <1>1 DEF OfIds
  <1>4. MaxEventId(ch) \in 0 .. MaxId
    BY <1>3, LargestId DEF MaxEventId
  <1>5. Len(ch) \in Nat
    BY <1>1, Grown DEF OfIds
  <1>6. QED
    BY <1>2, <1>4, <1>5 DEF Checkpoint, Snapshots

LEMMA GrownTyped ==
    ASSUME NEW ch, ChainTyped(ch), NEW e, EntryTyped(e, Len(ch) + 1)
    PROVE  ChainTyped(Append(ch, e))
  <1>1. IsSequence(ch)
    BY DEF ChainTyped
  <1>2. /\ IsSequence(Append(ch, e)) /\ Len(ch) \in Nat
        /\ Len(Append(ch, e)) = Len(ch) + 1
        /\ Append(ch, e)[Len(ch) + 1] = e
        /\ \A n \in 1 .. Len(ch) : Append(ch, e)[n] = ch[n]
    BY <1>1, Grown
  <1>3. \A n \in 1 .. Len(ch) + 1 : n \in 1 .. Len(ch) \/ n = Len(ch) + 1
    BY <1>2
  <1>4. QED
    BY <1>2, <1>3 DEF ChainTyped

\* What a command appends.
LEMMA EntryIsTyped ==
    ASSUME TypeInv, NEW p \in Proc, pc[p] = "commit", CasHolds(p)
    PROVE  EntryTyped(Entry(p), Len(chain) + 1)
  <1>1. id[p] \in Id /\ snap[p] \in Snapshots /\ basis[p] = chain
    BY DEF TypeInv, Drawn, ProcsTyped, CasHolds
  <1>2. /\ FoldInputs(chain, {id[p]}, {id[p]}) \in Seq(Id)
        /\ FoldInputs(chain, {id[p]}, {}) \in Seq(Id)
    BY <1>1, ReadTyped DEF TypeInv
  <1>3. QED
    BY <1>1, <1>2 DEF Entry, EntryTyped

LEMMA PeerEntryIsTyped ==
    ASSUME TypeInv, NEW i \in Id
    PROVE  /\ EntryTyped([kind |-> "event", id |-> i,
                          tree |-> FoldInputs(chain, {i}, {i})], Len(chain) + 1)
           /\ \A n \in 0 .. Len(chain) - 1 :
                EntryTyped([kind |-> "merge", side |-> {i}, from |-> n,
                            tree |-> Fold(EventIds(chain) \cup {i})], Len(chain) + 1)
  <1>1. FoldInputs(chain, {i}, {i}) \in Seq(Id)
    BY ReadTyped DEF TypeInv
  <1>2. OfIds(chain) /\ Len(chain) \in Nat
    BY TypedIds, Grown DEF TypeInv, ChainTyped
  <1>3. Fold(EventIds(chain) \cup {i}) \in Seq(Id)
    BY <1>2, FoldType DEF OfIds
  <1>4. QED
    BY <1>1, <1>2, <1>3 DEF EntryTyped

LEMMA TypeInit ==
    ASSUME Init
    PROVE  TypeInv
  <1>1. ChainTyped(chain)
    <2>1. chain \in Seq({}) /\ Len(chain) = 0
      BY DEF Init
    <2>2. QED
      BY <2>1 DEF ChainTyped, IsSequence
  <1>2. MaxId \in Nat /\ Retries \in Nat \ {0}
    BY ChainAssumption
  <1>3. NoSnap \in Snapshots
    BY <1>2 DEF NoSnap, Snapshots
  <1>4. QED
    BY <1>1, <1>2, <1>3 DEF Init, TypeInv, ProcsTyped, Drawn

\* The variables Finish sets.
LEMMA FinishTyped ==
    ASSUME TypeInv, NEW p \in Proc, Finish(p)
    PROVE  /\ pc' \in [Proc -> {"idle", "build", "read", "commit"}]
           /\ id' \in [Proc -> 0 .. MaxId]
           /\ snap' \in [Proc -> Snapshots]
           /\ tries' \in [Proc -> 0 .. Retries - 1]
           /\ pc'[p] = "idle" /\ \A q \in Proc \ {p} : pc'[q] = pc[q] /\ id'[q] = id[q]
  <1>1. MaxId \in Nat /\ Retries \in Nat \ {0}
    BY ChainAssumption
  <1>2. NoSnap \in Snapshots
    BY <1>1 DEF NoSnap, Snapshots
  <1>3. QED
    BY <1>1, <1>2 DEF TypeInv, ProcsTyped, Finish, GoTo

LEMMA TypeStep ==
    ASSUME TypeInv, [Next]_vars
    PROVE  TypeInv'
  <1>1. MaxId \in Nat /\ Retries \in Nat \ {0} /\ PeerIds \subseteq Id
    BY ChainAssumption DEF Id
  <1>2. ASSUME NEW p \in Proc, Begin(p)
        PROVE  TypeInv'
    BY <1>2 DEF TypeInv, ProcsTyped, Drawn, Begin, GoTo
  <1>3. ASSUME NEW p \in Proc, FsckRead(p)
        PROVE  TypeInv'
    <2>1. Checkpoint(chain) \in Snapshots
      BY CheckpointTyped DEF TypeInv
    <2>2. QED
      BY <1>3, <2>1 DEF TypeInv, ProcsTyped, Drawn, FsckRead, GoTo
  <1>4. ASSUME NEW p \in Proc, Build(p)
        PROVE  TypeInv'
    <2>1. PICK i \in NewIds : used' = used \cup {i} /\ id' = [id EXCEPT ![p] = i]
      BY <1>4 DEF Build
    <2>2. i \in Id /\ i \in 0 .. MaxId
      BY <1>1, <2>1 DEF NewIds, Id
    <2>3. QED
      BY <1>4, <2>1, <2>2 DEF TypeInv, ProcsTyped, Drawn, Build, GoTo
  <1>5. ASSUME NEW p \in Proc, ReadChain(p)
        PROVE  TypeInv'
    <2>1. CASE Finish(p)
      BY <1>5, <2>1, FinishTyped DEF TypeInv, ProcsTyped, Drawn, ReadChain
    <2>2. CASE GoTo(p, "commit") /\ UNCHANGED <<id, snap, tries>>
      BY <1>5, <2>2 DEF TypeInv, ProcsTyped, Drawn, ReadChain, GoTo
    <2>3. QED
      BY <1>5, <2>1, <2>2 DEF ReadChain
  <1>6. ASSUME NEW p \in Proc, Commit(p)
        PROVE  TypeInv'
    <2>1. chain' = Append(chain, Entry(p)) /\ pc[p] = "commit" /\ CasHolds(p)
      BY <1>6 DEF Commit, CasHolds
    <2>2. ChainTyped(chain')
      BY <2>1, EntryIsTyped, GrownTyped DEF TypeInv
    <2>3. id[p] \in Id
      BY <2>1 DEF TypeInv, Drawn, ProcsTyped
    <2>4. QED
      BY <1>6, <2>2, <2>3, FinishTyped DEF TypeInv, ProcsTyped, Drawn, Commit
  <1>7. ASSUME NEW p \in Proc, Lost(p)
        PROVE  TypeInv'
    <2>1. CASE Finish(p)
      BY <1>7, <2>1, FinishTyped DEF TypeInv, ProcsTyped, Drawn, Lost
    <2>2. CASE MayRetry(p) /\ tries' = [tries EXCEPT ![p] = @ + 1]
               /\ GoTo(p, "build") /\ UNCHANGED <<id, snap, basis>>
      <3>1. tries[p] + 1 \in 0 .. Retries - 1
        BY <1>1, <2>2 DEF TypeInv, ProcsTyped, MayRetry
      <3>2. QED
        BY <1>7, <2>2, <3>1 DEF TypeInv, ProcsTyped, Drawn, Lost, GoTo
    <2>3. QED
      BY <1>7, <2>1, <2>2 DEF Lost
  <1>8. ASSUME NEW i \in PeerIds, FastForward(i)
        PROVE  TypeInv'
    <2>1. ChainTyped(chain')
      BY <1>1, <1>8, PeerEntryIsTyped, GrownTyped DEF TypeInv, FastForward, PeerMove
    <2>2. QED
      BY <1>1, <1>8, <2>1 DEF TypeInv, ProcsTyped, Drawn, FastForward, PeerMove
  <1>9. ASSUME NEW i \in PeerIds, MergePeer(i)
        PROVE  TypeInv'
    <2>1. ChainTyped(chain')
      BY <1>1, <1>9, PeerEntryIsTyped, GrownTyped DEF TypeInv, MergePeer, PeerMove
    <2>2. QED
      BY <1>1, <1>9, <2>1 DEF TypeInv, ProcsTyped, Drawn, MergePeer, PeerMove
  <1>10. ASSUME UNCHANGED vars
         PROVE  TypeInv'
    BY <1>10 DEF TypeInv, ProcsTyped, Drawn, vars
  <1>11. QED
    BY <1>2, <1>3, <1>4, <1>5, <1>6, <1>7, <1>8, <1>9, <1>10 DEF Next

-----------------------------------------------------------------------------
(* Each reported event once.  The ID a process holds is on no chain and in *)
(* no other process, because no ID is drawn twice.                         *)

Active(p) == pc[p] \in {"read", "commit"}

Once ==
    /\ AppendedOnce
    /\ EventIds(chain) \subseteq used
    /\ \A p \in Proc : Active(p) => id[p] \notin EventIds(chain)
    /\ \A p, q \in Proc : Active(p) /\ Active(q) /\ p # q => id[p] # id[q]

\* A chain stays without double events if it grows by one that is not on it.
LEMMA GrownOnce ==
    ASSUME NEW ch, IsSequence(ch), NEW e,
           \A m, n \in Places(ch, "event") : ch[m].id = ch[n].id => m = n,
           e.kind = "event" => e.id \notin EventIds(ch)
    PROVE  \A m, n \in Places(Append(ch, e), "event") :
               Append(ch, e)[m].id = Append(ch, e)[n].id => m = n
  <1> DEFINE new == Append(ch, e)
  <1>1. new[Len(ch) + 1] = e
    BY Grown
  <1>2. Places(new, "event") =
            Places(ch, "event") \cup (IF e.kind = "event" THEN {Len(ch) + 1} ELSE {})
    BY GrownPlaces
  <1>3. \A n \in Places(ch, "event") : new[n] = ch[n] /\ ch[n].id \in EventIds(ch)
    BY Grown DEF Places, EventIds
  <1>4. QED
    BY <1>1, <1>2, <1>3

LEMMA OnceInit ==
    ASSUME Init
    PROVE  Once
  <1>1. Len(chain) = 0
    BY DEF Init
  <1>2. \A kind : Places(chain, kind) = {}
    BY <1>1 DEF Places
  <1>3. EventIds(chain) = {}
    BY <1>2 DEF EventIds
  <1>4. QED
    BY <1>2, <1>3 DEF Init, Once, AppendedOnce, Active

LEMMA OnceStep ==
    ASSUME TypeInv, Once, [Next]_vars
    PROVE  Once'
  <1>1. IsSequence(chain)
    BY DEF TypeInv, ChainTyped
  <1>2. ASSUME NEW p \in Proc, Begin(p)
        PROVE  Once'
    BY <1>2 DEF TypeInv, ProcsTyped, Once, AppendedOnce, Active, Begin, GoTo
  <1>3. ASSUME NEW p \in Proc, FsckRead(p)
        PROVE  Once'
    BY <1>3 DEF TypeInv, ProcsTyped, Once, AppendedOnce, Active, FsckRead, GoTo
  <1>4. ASSUME NEW p \in Proc, Build(p)
        PROVE  Once'
    <2>1. PICK i \in NewIds : used' = used \cup {i} /\ id' = [id EXCEPT ![p] = i]
      BY <1>4 DEF Build
    <2>2. i \notin used
      BY <2>1 DEF NewIds
    <2>3. /\ pc' = [pc EXCEPT ![p] = "read"] /\ pc[p] = "build"
          /\ UNCHANGED <<chain, acked>>
      BY <1>4 DEF Build, GoTo
    <2>4. \A q \in Proc \ {p} : Active(q)' => Active(q) /\ id'[q] = id[q] /\ id[q] \in used
      BY <2>1, <2>3 DEF TypeInv, ProcsTyped, Drawn, Active
    <2>5. id'[p] = i
      BY <2>1 DEF TypeInv, ProcsTyped
    <2>6. QED
      BY <2>1, <2>2, <2>3, <2>4, <2>5 DEF Once, AppendedOnce
  <1>5. ASSUME NEW p \in Proc, ReadChain(p)
        PROVE  Once'
    <2>1. /\ UNCHANGED <<chain, used, acked>>
          /\ \A q \in Proc : Active(q)' => Active(q) /\ id'[q] = id[q]
      <3>1. CASE Finish(p)
        BY <1>5, <3>1, FinishTyped DEF ReadChain, Active
      <3>2. CASE GoTo(p, "commit") /\ UNCHANGED <<id, snap, tries>>
        BY <1>5, <3>2 DEF ReadChain, Active, GoTo, TypeInv, ProcsTyped
      <3>3. QED
        BY <1>5, <3>1, <3>2 DEF ReadChain
    <2>2. QED
      BY <2>1 DEF Once, AppendedOnce
  <1>6. ASSUME NEW p \in Proc, Commit(p)
        PROVE  Once'
    <2>1. /\ chain' = Append(chain, Entry(p)) /\ Active(p)
          /\ Finish(p) /\ used' = used
          /\ acked' = IF op[p] = "checkpoint" THEN acked ELSE acked \cup {id[p]}
      BY <1>6 DEF Commit, CasHolds, Active
    <2>2. /\ op[p] = "checkpoint" => Entry(p).kind = "checkpoint"
          /\ op[p] # "checkpoint" => Entry(p).kind = "event" /\ Entry(p).id = id[p]
      BY DEF Entry
    <2>3. EventIds(chain') =
              IF op[p] = "checkpoint" THEN EventIds(chain) ELSE EventIds(chain) \cup {id[p]}
      BY <1>1, <2>1, <2>2, GrownEvents
    <2>4. \A q \in Proc : Active(q)' => Active(q) /\ id'[q] = id[q] /\ q # p
      BY <2>1, FinishTyped DEF Active
    <2>5. \A m, n \in Places(chain', "event") : chain'[m].id = chain'[n].id => m = n
      BY <1>1, <2>1, <2>2, GrownOnce DEF Once, AppendedOnce
    <2>6. id[p] \in used
      BY <2>1 DEF TypeInv, Drawn, Active
    <2>7. acked' = EventIds(chain')
      BY <2>1, <2>3 DEF Once, AppendedOnce
    <2>8. \A q \in Proc : Active(q)' => id'[q] \notin EventIds(chain')
      BY <2>1, <2>3, <2>4 DEF Once
    <2>9. EventIds(chain') \subseteq used'
      BY <2>1, <2>3, <2>6 DEF Once
    <2>10. \A q, r \in Proc : Active(q)' /\ Active(r)' /\ q # r => id'[q] # id'[r]
      BY <2>4 DEF Once
    <2>11. QED
      BY <2>5, <2>7, <2>8, <2>9, <2>10 DEF Once, AppendedOnce
  <1>7. ASSUME NEW p \in Proc, Lost(p)
        PROVE  Once'
    <2>1. /\ UNCHANGED <<chain, used, acked>>
          /\ \A q \in Proc : Active(q)' => Active(q) /\ id'[q] = id[q]
      <3>1. CASE Finish(p)
        BY <1>7, <3>1, FinishTyped DEF Lost, Active
      <3>2. CASE GoTo(p, "build") /\ UNCHANGED <<id, snap, basis>>
        BY <1>7, <3>2 DEF Lost, Active, GoTo, TypeInv, ProcsTyped
      <3>3. QED
        BY <1>7, <3>1, <3>2 DEF Lost
    <2>2. QED
      BY <2>1 DEF Once, AppendedOnce
  <1>8. ASSUME NEW i \in PeerIds, NEW e, PeerMove(e, i), e.kind \in {"event", "merge"},
               e.kind = "event" => e.id = i, e.kind = "merge" => e.side = {i}
        PROVE  Once'
    <2>1. /\ i \notin used /\ used' = used \cup {i}
          /\ chain' = Append(chain, e) /\ acked' = acked \cup {i}
          /\ UNCHANGED <<pc, id>>
      BY <1>8 DEF PeerMove, NewIds
    <2>2. EventIds(chain') = EventIds(chain) \cup {i}
      BY <1>1, <1>8, <2>1, GrownEvents
    <2>3. \A m, n \in Places(chain', "event") : chain'[m].id = chain'[n].id => m = n
      BY <1>1, <1>8, <2>1, GrownOnce DEF Once, AppendedOnce
    <2>4. \A q \in Proc : Active(q)' => Active(q) /\ id'[q] = id[q] /\ id[q] \in used
      BY <2>1 DEF TypeInv, Drawn, Active
    <2>5. \A q \in Proc : Active(q)' => id'[q] \notin EventIds(chain')
      BY <2>1, <2>2, <2>4 DEF Once
    <2>6. QED
      BY <2>1, <2>2, <2>3, <2>4, <2>5 DEF Once, AppendedOnce
  <1>9. ASSUME NEW i \in PeerIds, FastForward(i)
        PROVE  Once'
    <2> DEFINE e == [kind |-> "event", id |-> i, tree |-> FoldInputs(chain, {i}, {i})]
    <2>1. PeerMove(e, i) /\ e.kind = "event" /\ e.id = i
      BY <1>9 DEF FastForward
    <2> HIDE DEF e
    <2>2. QED
      BY <1>8, <2>1
  <1>10. ASSUME NEW i \in PeerIds, MergePeer(i)
        PROVE  Once'
    <2>1. PICK n \in 0 .. Len(chain) - 1 :
              PeerMove([kind |-> "merge", side |-> {i}, from |-> n,
                        tree |-> Fold(EventIds(chain) \cup {i})], i)
      BY <1>10 DEF MergePeer
    <2> DEFINE e == [kind |-> "merge", side |-> {i}, from |-> n,
                     tree |-> Fold(EventIds(chain) \cup {i})]
    <2>2. PeerMove(e, i) /\ e.kind = "merge" /\ e.side = {i}
      BY <2>1
    <2> HIDE DEF e
    <2>3. QED
      BY <1>8, <2>2
  <1>11. ASSUME UNCHANGED vars
         PROVE  Once'
    BY <1>11 DEF Once, AppendedOnce, Active, vars
  <1>12. QED
    BY <1>2, <1>3, <1>4, <1>5, <1>6, <1>7, <1>9, <1>10, <1>11 DEF Next

-----------------------------------------------------------------------------
(* Snapshots.  A checkpoint holds the fold of a prefix of the chain it is  *)
(* on, though not of the whole of it if events came in between.            *)

IsSnapshot(data, ch, n) == data.head \in 0 .. n /\ data = Checkpoint(SubSeq(ch, 1, data.head))
SnapsOf(ch) == \A n \in Places(ch, "checkpoint") : IsSnapshot(ch[n].data, ch, n - 1)
FaithfulIn(ch) == \A n \in Places(ch, "checkpoint") : ch[n].data.head = n - 1
TreeOf(ch) == (FaithfulIn(ch) /\ ch # <<>>) => Last(ch).tree = FullFold(ch)

Snapped ==
    /\ SnapsOf(chain)
    /\ TreeOf(chain)
    /\ \A p \in Proc : pc[p] # "idle" /\ op[p] = "checkpoint" =>
                         IsSnapshot(snap[p], chain, Len(chain))

LEMMA PrefixKept ==
    ASSUME NEW ch, IsSequence(ch), NEW e, NEW n \in 0 .. Len(ch)
    PROVE  /\ SubSeq(Append(ch, e), 1, n) = SubSeq(ch, 1, n)
           /\ SubSeq(ch, 1, Len(ch)) = ch
  <1>1. PICK S : ch \in Seq(S)
    BY DEF IsSequence
  <1>2. ch \in Seq(S \cup {e}) /\ e \in S \cup {e}
    BY <1>1
  <1>3. Append(ch, e) \in Seq(S \cup {e}) /\ Len(Append(ch, e)) = Len(ch) + 1
        /\ \A m \in 1 .. Len(ch) : Append(ch, e)[m] = ch[m]
    BY <1>2
  <1> DEFINE s == SubSeq(Append(ch, e), 1, n)
             t == SubSeq(ch, 1, n)
             u == SubSeq(ch, 1, Len(ch))
  <1>4. /\ s \in Seq(S \cup {e}) /\ t \in Seq(S \cup {e}) /\ u \in Seq(S \cup {e})
        /\ Len(s) = n /\ Len(t) = n /\ Len(u) = Len(ch)
    BY <1>2, <1>3
  <1>5. \A m \in 1 .. n : s[m] = t[m]
    BY <1>2, <1>3
  <1>6. \A m \in 1 .. Len(ch) : u[m] = ch[m]
    BY <1>2
  <1>7. s = t
    BY <1>4, <1>5, SameSequence
  <1>8. u = ch
    BY <1>2, <1>4, <1>6, SameSequence
  <1>9. QED
    BY <1>7, <1>8

LEMMA SnapshotKept ==
    ASSUME NEW ch, IsSequence(ch), NEW e, NEW data, NEW n \in 0 .. Len(ch),
           IsSnapshot(data, ch, n)
    PROVE  IsSnapshot(data, Append(ch, e), n) /\ IsSnapshot(data, Append(ch, e), Len(ch) + 1)
  <1>1. Len(ch) \in Nat
    BY Grown
  <1>2. data.head \in 0 .. n /\ data.head \in 0 .. Len(ch) /\ data.head \in 0 .. Len(ch) + 1
    BY <1>1 DEF IsSnapshot
  <1>3. SubSeq(Append(ch, e), 1, data.head) = SubSeq(ch, 1, data.head)
    BY <1>2, PrefixKept
  <1>4. QED
    BY <1>2, <1>3 DEF IsSnapshot

LEMMA FaithfulData ==
    ASSUME NEW ch, SnapsOf(ch), FaithfulIn(ch)
    PROVE  Faithfully(ch)
  BY DEF SnapsOf, FaithfulIn, Faithfully, IsSnapshot

\* A chain's growth: the new commit's tree is the fold of all events as long as
\* the snapshots on the chain are of what is right behind them.
LEMMA GrownSnaps ==
    ASSUME NEW ch, IsSequence(ch), SnapsOf(ch), NEW e,
           e.kind = "checkpoint" => IsSnapshot(e.data, ch, Len(ch)),
           FaithfulIn(ch) => e.tree = FullFold(Append(ch, e))
    PROVE  SnapsOf(Append(ch, e)) /\ TreeOf(Append(ch, e))
  <1> DEFINE new == Append(ch, e)
  <1>1. /\ Len(ch) \in Nat /\ Len(new) = Len(ch) + 1
        /\ new[Len(ch) + 1] = e
        /\ \A n \in 1 .. Len(ch) : new[n] = ch[n]
    BY Grown
  <1>2. Places(new, "checkpoint") =
            Places(ch, "checkpoint") \cup (IF e.kind = "checkpoint" THEN {Len(ch) + 1} ELSE {})
    BY GrownPlaces
  <1>3. \A n \in Places(ch, "checkpoint") :
            n \in 1 .. Len(ch) /\ n - 1 \in 0 .. Len(ch) /\ new[n] = ch[n]
    BY <1>1 DEF Places
  <1>4. ASSUME NEW n \in Places(new, "checkpoint")
        PROVE  IsSnapshot(new[n].data, new, n - 1)
    <2>1. CASE n \in Places(ch, "checkpoint")
      <3>1. IsSnapshot(ch[n].data, ch, n - 1)
        BY <2>1 DEF SnapsOf
      <3>2. QED
        BY <1>3, <2>1, <3>1, SnapshotKept
    <2>2. CASE n = Len(ch) + 1 /\ e.kind = "checkpoint"
      <3>1. n - 1 = Len(ch) /\ Len(ch) \in 0 .. Len(ch) /\ new[n] = e
        BY <1>1, <2>2
      <3>2. IsSnapshot(e.data, new, Len(ch))
        BY <2>2, <3>1, SnapshotKept
      <3>3. QED
        BY <3>1, <3>2
    <2>3. QED
      BY <1>2, <2>1, <2>2
  <1>5. FaithfulIn(new) => FaithfulIn(ch)
    BY <1>2, <1>3 DEF FaithfulIn
  <1>6. Last(new) = e
    BY <1>1 DEF Last
  <1>7. QED
    BY <1>4, <1>5, <1>6 DEF SnapsOf, TreeOf

\* The fold of what was read plus the new event is the fold of the new chain.
LEMMA TreeOfEvent ==
    ASSUME TypeInv, Snapped, NEW e, NEW i \in Id,
           FaithfulIn(chain)
    PROVE  /\ e.kind = "event" /\ e.id = i =>
                 FoldInputs(chain, {i}, {i}) = FullFold(Append(chain, e))
           /\ e.kind = "checkpoint" =>
                 FoldInputs(chain, {i}, {}) = FullFold(Append(chain, e))
           /\ e.kind = "merge" /\ e.side = {i} =>
                 Fold(EventIds(chain) \cup {i}) = FullFold(Append(chain, e))
  <1>1. OfIds(chain) /\ Faithfully(chain) /\ IsSequence(chain)
    BY TypedIds, FaithfulData DEF TypeInv, Snapped, ChainTyped
  <1>2. /\ FoldInputs(chain, {i}, {i}) = Fold(EventIds(chain) \cup {i})
        /\ FoldInputs(chain, {i}, {}) = Fold(EventIds(chain) \cup {})
    BY <1>1, Transparent
  <1>3. EventIds(chain) \cup {} = EventIds(chain)
    OBVIOUS
  <1>4. QED
    BY <1>1, <1>2, <1>3, GrownEvents DEF FullFold

LEMMA SnappedInit ==
    ASSUME Init
    PROVE  Snapped
  <1>1. Len(chain) = 0
    BY DEF Init
  <1>2. Places(chain, "checkpoint") = {}
    BY <1>1 DEF Places
  <1>3. QED
    BY <1>2 DEF Init, Snapped, SnapsOf, TreeOf

\* The new commit of any step that extends the chain.
LEMMA SnappedGrowth ==
    ASSUME TypeInv, Snapped, NEW e, chain' = Append(chain, e),
           e.kind = "checkpoint" => IsSnapshot(e.data, chain, Len(chain)),
           FaithfulIn(chain) => e.tree = FullFold(Append(chain, e)),
           \A p \in Proc : pc'[p] # "idle" =>
               pc[p] # "idle" /\ op'[p] = op[p] /\ snap'[p] = snap[p]
    PROVE  Snapped'
  <1>1. IsSequence(chain)
    BY DEF TypeInv, ChainTyped
  <1>2. SnapsOf(chain') /\ TreeOf(chain')
    BY <1>1, GrownSnaps DEF Snapped
  <1>3. Len(chain) \in 0 .. Len(chain) /\ Len(chain') = Len(chain) + 1
    BY <1>1, Grown
  <1>4. ASSUME NEW p \in Proc, pc'[p] # "idle", op'[p] = "checkpoint"
        PROVE  IsSnapshot(snap'[p], chain', Len(chain'))
    <2>1. IsSnapshot(snap[p], chain, Len(chain)) /\ snap'[p] = snap[p]
      BY <1>4 DEF Snapped
    <2>2. QED
      BY <1>1, <1>3, <2>1, SnapshotKept
  <1>5. QED
    BY <1>2, <1>4 DEF Snapped

LEMMA SnappedStep ==
    ASSUME TypeInv, Snapped, [Next]_vars
    PROVE  Snapped'
  <1>1. IsSequence(chain) /\ Len(chain) \in Nat /\ PeerIds \subseteq Id
    BY Grown, ChainAssumption DEF TypeInv, ChainTyped, Id
  <1>2. ASSUME chain' = chain,
               \A p \in Proc : pc'[p] # "idle" /\ op'[p] = "checkpoint" =>
                  \/ pc[p] # "idle" /\ op[p] = "checkpoint" /\ snap'[p] = snap[p]
                  \/ snap'[p] = Checkpoint(chain)
        PROVE  Snapped'
    <2>1. IsSnapshot(Checkpoint(chain), chain, Len(chain))
      <3>1. SubSeq(chain, 1, Len(chain)) = chain /\ Len(chain) \in 0 .. Len(chain)
        BY <1>1, PrefixKept
      <3>2. Checkpoint(chain).head = Len(chain)
        BY DEF Checkpoint
      <3>3. QED
        BY <3>1, <3>2 DEF IsSnapshot
    <2>2. QED
      BY <1>2, <2>1 DEF Snapped
  <1>3. ASSUME NEW p \in Proc, Begin(p)
        PROVE  Snapped'
    BY <1>2, <1>3 DEF TypeInv, ProcsTyped, Begin, GoTo
  <1>4. ASSUME NEW p \in Proc, FsckRead(p)
        PROVE  Snapped'
    BY <1>2, <1>4 DEF TypeInv, ProcsTyped, FsckRead, GoTo
  <1>5. ASSUME NEW p \in Proc, Build(p)
        PROVE  Snapped'
    BY <1>2, <1>5 DEF TypeInv, ProcsTyped, Build, GoTo
  <1>6. ASSUME NEW p \in Proc, Finish(p), op' = op
        PROVE  \A q \in Proc : pc'[q] # "idle" =>
                   pc[q] # "idle" /\ op'[q] = op[q] /\ snap'[q] = snap[q]
    BY <1>6 DEF TypeInv, ProcsTyped, Finish, GoTo
  <1>7. ASSUME NEW p \in Proc, ReadChain(p)
        PROVE  Snapped'
    <2>1. CASE Finish(p)
      BY <1>2, <1>6, <1>7, <2>1 DEF ReadChain
    <2>2. CASE GoTo(p, "commit") /\ UNCHANGED <<id, snap, tries>>
      BY <1>2, <1>7, <2>2 DEF TypeInv, ProcsTyped, ReadChain, GoTo
    <2>3. QED
      BY <1>7, <2>1, <2>2 DEF ReadChain
  <1>8. ASSUME NEW p \in Proc, Commit(p)
        PROVE  Snapped'
    <2>1. /\ chain' = Append(chain, Entry(p)) /\ basis[p] = chain
          /\ pc[p] = "commit" /\ Finish(p) /\ op' = op
      BY <1>8 DEF Commit, CasHolds
    <2>2. id[p] \in Id
      BY <2>1 DEF TypeInv, Drawn, ProcsTyped
    <2>3. CASE op[p] = "checkpoint"
      <3>1. /\ Entry(p).kind = "checkpoint" /\ Entry(p).data = snap[p]
            /\ Entry(p).tree = FoldInputs(chain, {id[p]}, {})
        BY <2>1, <2>3 DEF Entry
      <3>2. IsSnapshot(snap[p], chain, Len(chain))
        BY <2>1, <2>3 DEF Snapped
      <3>3. QED
        BY <1>6, <2>1, <2>2, <3>1, <3>2, TreeOfEvent, SnappedGrowth
    <2>4. CASE op[p] # "checkpoint"
      <3>1. /\ Entry(p).kind = "event" /\ Entry(p).id = id[p]
            /\ Entry(p).tree = FoldInputs(chain, {id[p]}, {id[p]})
        BY <2>1, <2>4 DEF Entry
      <3>2. QED
        BY <1>6, <2>1, <2>2, <3>1, TreeOfEvent, SnappedGrowth
    <2>5. QED
      BY <2>3, <2>4
  <1>9. ASSUME NEW p \in Proc, Lost(p)
        PROVE  Snapped'
    <2>1. CASE Finish(p)
      BY <1>2, <1>6, <1>9, <2>1 DEF Lost
    <2>2. CASE GoTo(p, "build") /\ UNCHANGED <<id, snap, basis>>
      BY <1>2, <1>9, <2>2 DEF TypeInv, ProcsTyped, Lost, GoTo
    <2>3. QED
      BY <1>9, <2>1, <2>2 DEF Lost
  <1>10. ASSUME NEW i \in PeerIds, FastForward(i)
         PROVE  Snapped'
    <2> DEFINE e == [kind |-> "event", id |-> i, tree |-> FoldInputs(chain, {i}, {i})]
    <2>1. /\ chain' = Append(chain, e) /\ UNCHANGED <<pc, op, snap>>
          /\ e.kind = "event" /\ e.id = i /\ e.tree = FoldInputs(chain, {i}, {i})
      BY <1>10 DEF FastForward, PeerMove
    <2> HIDE DEF e
    <2>2. QED
      BY <1>1, <2>1, TreeOfEvent, SnappedGrowth
  <1>11. ASSUME NEW i \in PeerIds, MergePeer(i)
         PROVE  Snapped'
    <2>1. PICK n \in 0 .. Len(chain) - 1 :
              PeerMove([kind |-> "merge", side |-> {i}, from |-> n,
                        tree |-> Fold(EventIds(chain) \cup {i})], i)
      BY <1>11 DEF MergePeer
    <2> DEFINE e == [kind |-> "merge", side |-> {i}, from |-> n,
                     tree |-> Fold(EventIds(chain) \cup {i})]
    <2>2. /\ chain' = Append(chain, e) /\ UNCHANGED <<pc, op, snap>>
          /\ e.kind = "merge" /\ e.side = {i} /\ e.tree = Fold(EventIds(chain) \cup {i})
      BY <2>1 DEF PeerMove
    <2> HIDE DEF e
    <2>3. QED
      BY <1>1, <2>2, TreeOfEvent, SnappedGrowth
  <1>12. ASSUME UNCHANGED vars
         PROVE  Snapped'
    BY <1>2, <1>12 DEF vars
  <1>13. QED
    BY <1>3, <1>4, <1>5, <1>7, <1>8, <1>9, <1>10, <1>11, <1>12 DEF Next

-----------------------------------------------------------------------------
(* Compaction comes to rest.  The events that let a compaction go on are   *)
(* younger than every checkpoint, and so than what punctual ones subsume.  *)

OnTimeIn(ch) == \A n \in Places(ch, "checkpoint") : ch[n].id > ch[n].data.max
HasMore(data, earlier) == Range(data.state) \ Range(earlier.state) # {}

Compacting(p) == pc[p] # "idle" /\ op[p] = "checkpoint"

Rests ==
    /\ \A p \in Proc : Compacting(p) => p \in Fsck
    /\ OnTimeIn(chain) =>
         /\ \A m, n \in Places(chain, "checkpoint") :
              m < n => HasMore(chain[n].data, chain[m].data)
         /\ \A p \in Proc : Compacting(p) =>
              \A m \in Places(chain, "checkpoint") : HasMore(snap[p], chain[m].data)

LEMMA FoldRange ==
    ASSUME NEW ids \in SUBSET Id
    PROVE  Range(Fold(ids)) = ids
  <1>1. ids \in SUBSET Nat /\ IsFiniteSet(ids)
    BY IdSets
  <1>2. /\ Fold(ids) \in Seq(ids)
        /\ DOMAIN Fold(ids) = 1 .. Cardinality(ids)
        /\ \A n \in 1 .. Cardinality(ids) : Nth(ids, n) = {Fold(ids)[n]}
    BY <1>1, FoldRunsAll DEF Fold
  <1>3. Range(Fold(ids)) \subseteq ids
    <2>1. \A n \in 1 .. Cardinality(ids) : Fold(ids)[n] \in ids
      BY <1>2 DEF Nth
    <2>2. QED
      BY <1>2, <2>1 DEF Range
  <1>4. ASSUME NEW i \in ids
        PROVE  i \in Range(Fold(ids))
    <2>1. Rank(ids, i) \in 1 .. Cardinality(ids)
      BY <1>1, RankGrows
    <2>2. IsFiniteSet(Below(ids, i))
      BY <1>1, FS_Subset DEF Below
    <2>3. Cardinality(Below(ids, i)) \in Nat
      BY <2>2, FS_CardinalityType
    <2>4. Cardinality(Below(ids, i)) = Rank(ids, i) - 1
      BY <2>3 DEF Rank
    <2>5. i \in Nth(ids, Rank(ids, i))
      BY <2>4 DEF Nth, Below
    <2>6. i = Fold(ids)[Rank(ids, i)]
      BY <1>2, <2>1, <2>5
    <2>7. QED
      BY <1>2, <2>1, <2>6 DEF Range
  <1>5. QED
    BY <1>3, <1>4

LEMMA SnapshotHasMore ==
    ASSUME TypeInv, SnapsOf(chain), OnTimeIn(chain),
           NEW aged, ShouldCompact(chain, aged),
           NEW m \in Places(chain, "checkpoint")
    PROVE  HasMore(Checkpoint(chain), chain[m].data)
  <1> DEFINE last == Max(CheckpointIds(chain) \cup {0})
             pre == SubSeq(chain, 1, chain[m].data.head)
  <1>1. OfIds(chain) /\ IsSequence(chain)
    BY TypedIds DEF TypeInv, ChainTyped
  <1>2. PICK i \in EventIds(chain) : i > last
    BY DEF ShouldCompact
  <1>3. chain[m].id \in Id /\ chain[m].id \in CheckpointIds(chain)
    BY <1>1 DEF OfIds, CheckpointIds
  <1>4. chain[m].id <= last /\ last \in 0 .. MaxId
    BY <1>1, <1>3, LargestId DEF OfIds
  <1>5. /\ chain[m].data.head \in 0 .. m - 1 /\ m \in 1 .. Len(chain)
        /\ chain[m].data = Checkpoint(pre)
    BY DEF SnapsOf, IsSnapshot, Places
  <1>6. EventIds(pre) \cup CheckpointIds(pre) \subseteq Id
    <2>1. PICK S : chain \in Seq(S)
      BY <1>1 DEF IsSequence
    <2>2. /\ Len(pre) = chain[m].data.head
          /\ \A n \in 1 .. Len(pre) : n \in 1 .. Len(chain) /\ pre[n] = chain[n]
      BY <1>5, <2>1
    <2>3. \A kind : \A n \in Places(pre, kind) : n \in Places(chain, kind) /\ pre[n] = chain[n]
      BY <2>2 DEF Places
    <2>4. EventIds(pre) \subseteq EventIds(chain)
      BY ZenonT(60), <2>3 DEF EventIds
    <2>5. CheckpointIds(pre) \subseteq CheckpointIds(chain)
      BY <2>3 DEF CheckpointIds
    <2>6. QED
      BY <1>1, <2>4, <2>5 DEF OfIds
  <1>7. chain[m].data.max = MaxEventId(pre) /\ Range(chain[m].data.state) = EventIds(pre)
    BY <1>5, <1>6, FoldRange DEF Checkpoint, FullFold
  <1>8. \A j \in EventIds(pre) : j <= chain[m].data.max
    BY <1>6, <1>7, LargestId DEF MaxEventId
  <1>9. chain[m].id > chain[m].data.max
    BY DEF OnTimeIn
  <1>10. chain[m].data.max \in 0 .. MaxId /\ MaxId \in Nat
    BY <1>6, <1>7, LargestId, ChainAssumption DEF MaxEventId
  <1>11. i \in Id
    BY <1>1 DEF OfIds
  <1>12. i \notin EventIds(pre)
    <2>1. i > chain[m].data.max
      BY <1>2, <1>3, <1>4, <1>9, <1>10, <1>11 DEF Id
    <2>2. ~(i <= chain[m].data.max)
      BY <1>10, <1>11, <2>1 DEF Id
    <2>3. QED
      BY <1>8, <2>2
  <1>13. i \in Range(Checkpoint(chain).state)
    BY <1>1, FoldRange DEF OfIds, Checkpoint, FullFold
  <1>14. QED
    BY <1>7, <1>12, <1>13 DEF HasMore

\* The new commit of any step that extends the chain.
LEMMA RestsGrowth ==
    ASSUME TypeInv, Rests, NEW e, chain' = Append(chain, e),
           \A p \in Proc : Compacting(p)' => Compacting(p) /\ snap'[p] = snap[p],
           e.kind = "checkpoint" =>
               /\ \A p \in Proc : ~Compacting(p)'
               /\ \E p \in Proc : Compacting(p) /\ e.data = snap[p]
    PROVE  Rests'
  <1>1. IsSequence(chain) /\ Len(chain) \in Nat
    BY Grown DEF TypeInv, ChainTyped
  <1>2. chain'[Len(chain) + 1] = e
    BY <1>1, Grown
  <1>3. Places(chain', "checkpoint") = Places(chain, "checkpoint")
            \cup (IF e.kind = "checkpoint" THEN {Len(chain) + 1} ELSE {})
    BY <1>1, GrownPlaces
  <1>4. \A n \in Places(chain, "checkpoint") : n \in 1 .. Len(chain) /\ chain'[n] = chain[n]
    BY <1>1, Grown DEF Places
  <1>5. SUFFICES ASSUME OnTimeIn(chain')
                 PROVE
                   /\ \A m, n \in Places(chain', "checkpoint") :
                        m < n => HasMore(chain'[n].data, chain'[m].data)
                   /\ \A p \in Proc : Compacting(p)' =>
                        \A m \in Places(chain', "checkpoint") : HasMore(snap'[p], chain'[m].data)
    BY DEF Rests
  <1>6. OnTimeIn(chain)
    BY <1>3, <1>4, <1>5 DEF OnTimeIn
  <1>7. ASSUME NEW m \in Places(chain', "checkpoint"), NEW n \in Places(chain', "checkpoint"),
               m < n
        PROVE  HasMore(chain'[n].data, chain'[m].data)
    <2>1. n \in Places(chain, "checkpoint") => m \in Places(chain, "checkpoint")
      BY <1>1, <1>3, <1>4, <1>7
    <2>2. CASE n \in Places(chain, "checkpoint")
      BY <1>4, <1>6, <1>7, <2>1, <2>2 DEF Rests
    <2>3. CASE n = Len(chain) + 1 /\ e.kind = "checkpoint"
      <3>1. m \in Places(chain, "checkpoint")
        BY <1>1, <1>3, <1>7, <2>3
      <3>2. PICK p \in Proc : Compacting(p) /\ e.data = snap[p]
        BY <2>3
      <3>3. HasMore(snap[p], chain[m].data)
        BY <1>6, <3>1, <3>2 DEF Rests
      <3>4. QED
        BY <1>2, <1>4, <2>3, <3>1, <3>2, <3>3
    <2>4. QED
      BY <1>3, <2>2, <2>3
  <1>8. ASSUME NEW p \in Proc, Compacting(p)', NEW m \in Places(chain', "checkpoint")
        PROVE  HasMore(snap'[p], chain'[m].data)
    <2>1. m \in Places(chain, "checkpoint")
      BY <1>3, <1>8
    <2>2. QED
      BY <1>4, <1>6, <1>8, <2>1 DEF Rests
  <1>9. QED
    BY <1>7, <1>8

LEMMA RestsStep ==
    ASSUME \A f, g \in Fsck : f = g, TypeInv, Snapped, Rests, [Next]_vars
    PROVE  Rests'
  <1>1. ASSUME chain' = chain,
               \A p \in Proc : Compacting(p)' => Compacting(p) /\ snap'[p] = snap[p]
        PROVE  Rests'
    BY <1>1 DEF Rests
  <1>2. ASSUME NEW p \in Proc, Finish(p), op' = op
        PROVE  /\ ~Compacting(p)'
               /\ \A q \in Proc : Compacting(q)' => Compacting(q) /\ snap'[q] = snap[q]
    BY <1>2 DEF TypeInv, ProcsTyped, Finish, GoTo, Compacting
  <1>3. ASSUME NEW p \in Proc, Begin(p)
        PROVE  Rests'
    BY <1>1, <1>3 DEF TypeInv, ProcsTyped, Begin, GoTo, Compacting
  <1>4. ASSUME NEW p \in Proc, FsckRead(p)
        PROVE  Rests'
    <2>1. /\ p \in Fsck /\ chain' = chain /\ snap'[p] = Checkpoint(chain)
          /\ \A q \in Proc \ {p} : Compacting(q)' => Compacting(q) /\ snap'[q] = snap[q]
      BY <1>4 DEF TypeInv, ProcsTyped, FsckRead, GoTo, Compacting
    <2>2. OnTimeIn(chain) =>
              \A m \in Places(chain, "checkpoint") : HasMore(Checkpoint(chain), chain[m].data)
      BY <1>4, SnapshotHasMore DEF FsckRead, Snapped
    <2>3. QED
      BY <2>1, <2>2 DEF Rests
  <1>5. ASSUME NEW p \in Proc, Build(p)
        PROVE  Rests'
    BY <1>1, <1>5 DEF TypeInv, ProcsTyped, Build, GoTo, Compacting
  <1>6. ASSUME NEW p \in Proc, ReadChain(p)
        PROVE  Rests'
    <2>1. CASE Finish(p)
      BY <1>1, <1>2, <1>6, <2>1 DEF ReadChain
    <2>2. CASE GoTo(p, "commit") /\ UNCHANGED <<id, snap, tries>>
      BY <1>1, <1>6, <2>2 DEF TypeInv, ProcsTyped, ReadChain, GoTo, Compacting
    <2>3. QED
      BY <1>6, <2>1, <2>2 DEF ReadChain
  <1>7. ASSUME NEW p \in Proc, Commit(p)
        PROVE  Rests'
    <2>1. /\ chain' = Append(chain, Entry(p)) /\ pc[p] = "commit"
          /\ Finish(p) /\ op' = op
      BY <1>7 DEF Commit, CasHolds
    <2>2. CASE op[p] = "checkpoint"
      <3>1. Entry(p).kind = "checkpoint" /\ Entry(p).data = snap[p]
        BY <2>2 DEF Entry
      <3>2. Compacting(p)
        BY <2>1, <2>2 DEF Compacting
      <3>3. ASSUME NEW q \in Proc, Compacting(q)'
            PROVE  FALSE
        <4>1. Compacting(q) /\ ~Compacting(p)'
          BY <1>2, <2>1, <3>3
        <4>2. q \in Fsck /\ p \in Fsck
          BY <3>2, <4>1 DEF Rests
        <4>3. q = p
          BY <4>2
        <4>4. QED
          BY <3>3, <4>1, <4>3
      <3>4. \A q \in Proc : Compacting(q)' => Compacting(q) /\ snap'[q] = snap[q]
        BY <1>2, <2>1
      <3>5. QED
        BY <2>1, <3>1, <3>2, <3>3, <3>4, RestsGrowth
    <2>3. CASE op[p] # "checkpoint"
      <3>1. Entry(p).kind = "event"
        BY <2>3 DEF Entry
      <3>2. \A q \in Proc : Compacting(q)' => Compacting(q) /\ snap'[q] = snap[q]
        BY <1>2, <2>1
      <3>3. QED
        BY <2>1, <3>1, <3>2, RestsGrowth
    <2>4. QED
      BY <2>2, <2>3
  <1>8. ASSUME NEW p \in Proc, Lost(p)
        PROVE  Rests'
    <2>1. CASE Finish(p)
      BY <1>1, <1>2, <1>8, <2>1 DEF Lost
    <2>2. CASE GoTo(p, "build") /\ UNCHANGED <<id, snap, basis>>
      BY <1>1, <1>8, <2>2 DEF TypeInv, ProcsTyped, Lost, GoTo, Compacting
    <2>3. QED
      BY <1>8, <2>1, <2>2 DEF Lost
  <1>9. ASSUME NEW e, e.kind # "checkpoint", chain' = Append(chain, e),
               UNCHANGED <<pc, op, snap>>
        PROVE  Rests'
    BY <1>9, RestsGrowth DEF Compacting
  <1>10. ASSUME NEW i \in PeerIds, FastForward(i)
         PROVE  Rests'
    <2> DEFINE e == [kind |-> "event", id |-> i, tree |-> FoldInputs(chain, {i}, {i})]
    <2>1. chain' = Append(chain, e) /\ UNCHANGED <<pc, op, snap>> /\ e.kind # "checkpoint"
      BY <1>10 DEF FastForward, PeerMove
    <2> HIDE DEF e
    <2>2. QED
      BY <1>9, <2>1
  <1>11. ASSUME NEW i \in PeerIds, MergePeer(i)
         PROVE  Rests'
    <2>1. PICK n \in 0 .. Len(chain) - 1 :
              PeerMove([kind |-> "merge", side |-> {i}, from |-> n,
                        tree |-> Fold(EventIds(chain) \cup {i})], i)
      BY <1>11 DEF MergePeer
    <2> DEFINE e == [kind |-> "merge", side |-> {i}, from |-> n,
                     tree |-> Fold(EventIds(chain) \cup {i})]
    <2>2. chain' = Append(chain, e) /\ UNCHANGED <<pc, op, snap>> /\ e.kind # "checkpoint"
      BY <2>1 DEF PeerMove
    <2> HIDE DEF e
    <2>3. QED
      BY <1>9, <2>2
  <1>12. ASSUME UNCHANGED vars
         PROVE  Rests'
    BY <1>1, <1>12 DEF vars, Compacting
  <1>13. QED
    BY <1>3, <1>4, <1>5, <1>6, <1>7, <1>8, <1>10, <1>11, <1>12 DEF Next

-----------------------------------------------------------------------------
(* The walk of log --since.                                                *)

\* Whether the walk gets from place n + 1, or from a later merge, to place n.
Reached(v, ch, since, n) ==
    \/ n = Len(ch)
    \/ v[n + 1] /\ Descends(ch[n + 1], since)
    \/ \E m \in Places(ch, "merge") :
         /\ m > n /\ ch[m].from = n
         /\ v[m] /\ \A i \in ch[m].side : i >= since

\* The function that Visited defines, on the places from low on.
WalksFrom(v, ch, since, low) ==
    v = [n \in low .. Len(ch) |-> Reached(v, ch, since, n)]

Walk(ch, since) == CHOOSE v : WalksFrom(v, ch, since, 1)

\* The recursive definition of the walk, from the tip down, is never empty.
LEMMA WalkExists ==
    ASSUME NEW ch, NEW since, Len(ch) \in Nat
    PROVE  WalksFrom(Walk(ch, since), ch, since, 1)
  <1> DEFINE Done == {k \in 0 .. Len(ch) :
                        \E v : WalksFrom(v, ch, since, Len(ch) + 1 - k)}
             k == Max(Done)
             low == Len(ch) + 1 - k
  <1>1. 0 \in Done
    <2>1. (Len(ch) + 1) .. Len(ch) = {}
      OBVIOUS
    <2>2. WalksFrom(<<>>, ch, since, Len(ch) + 1)
      BY <2>1 DEF WalksFrom
    <2>3. QED
      BY <2>2
  <1>2. Done \in SUBSET Nat /\ IsFiniteSet(Done)
    <2>1. IsFiniteSet(0 .. Len(ch))
      BY FS_Interval
    <2>2. QED
      BY <2>1, FS_Subset
  <1>3. k \in Done /\ \A j \in Done : j <= k
    <2> HIDE DEF Done
    <2>1. QED
      BY <1>1, <1>2, Largest
  <1>4. k \in 0 .. Len(ch)
    BY <1>3
  <1>5. PICK old : WalksFrom(old, ch, since, low)
    BY <1>3
  <1> HIDE DEF k
  <1>6. ASSUME k # Len(ch)
        PROVE  FALSE
    <2> DEFINE new == [n \in low - 1 .. Len(ch) |-> Reached(old, ch, since, n)]
    <2>1. low - 1 \in 1 .. Len(ch) /\ low - 1 = Len(ch) + 1 - (k + 1)
      BY <1>4, <1>6
    <2>2. \A n \in low .. Len(ch) : old[n] = Reached(old, ch, since, n)
      BY <1>5 DEF WalksFrom
    <2>3. \A n \in low .. Len(ch) : new[n] = old[n]
      <3>1. \A n \in low .. Len(ch) : n \in low - 1 .. Len(ch)
        BY <1>4
      <3>2. QED
        BY <2>2, <3>1, Zenon
    <2>4. ASSUME NEW n \in low - 1 .. Len(ch)
          PROVE  Reached(new, ch, since, n) <=> Reached(old, ch, since, n)
      <3>1. \A m \in Places(ch, "merge") : m > n => m \in low .. Len(ch)
        BY <1>4, <2>1 DEF Places
      <3>2. n # Len(ch) => n + 1 \in low .. Len(ch)
        BY <1>4, <2>1
      <3> HIDE DEF new
      <3>3. QED
        BY <2>3, <3>1, <3>2, Zenon DEF Reached
    <2>5. \A n \in low - 1 .. Len(ch) : new[n] = Reached(new, ch, since, n)
      <3>1. \A n \in low - 1 .. Len(ch) : new[n] = Reached(old, ch, since, n)
        OBVIOUS
      <3>2. \A n : Reached(new, ch, since, n) \in BOOLEAN /\ Reached(old, ch, since, n) \in BOOLEAN
        BY Zenon DEF Reached
      <3>3. QED
        BY <2>4, <3>1, <3>2, Zenon
    <2>6. WalksFrom(new, ch, since, Len(ch) + 1 - (k + 1))
      <3>1. DOMAIN new = low - 1 .. Len(ch)
        OBVIOUS
      <3>2. new = [n \in low - 1 .. Len(ch) |-> new[n]]
        BY <3>1
      <3> HIDE DEF new
      <3>3. new = [n \in low - 1 .. Len(ch) |-> Reached(new, ch, since, n)]
        BY <2>5, <3>2
      <3>4. QED
        BY <2>1, <3>3 DEF WalksFrom
    <2>7. k + 1 \in Done
      BY <1>4, <1>6, <2>6
    <2>8. QED
      BY <1>3, <1>4, <2>7
  <1>7. low = 1
    BY <1>4, <1>6
  <1>8. QED
    BY <1>5, <1>7, Zenon DEF Walk

\* What Visited's recursive definition says, place by place.
LEMMA VisitedIs ==
    ASSUME NEW ch, NEW since, Len(ch) \in Nat, NEW n \in 1 .. Len(ch)
    PROVE  n \in Visited(ch, since) <=>
             \/ n = Len(ch)
             \/ n + 1 \in Visited(ch, since) /\ Descends(ch[n + 1], since)
             \/ \E m \in Places(ch, "merge") :
                  /\ m > n /\ ch[m].from = n
                  /\ m \in Visited(ch, since) /\ \A i \in ch[m].side : i >= since
  <1> DEFINE v == Walk(ch, since)
  <1>1. Visited(ch, since) = {m \in 1 .. Len(ch) : v[m]}
    BY DEF Visited, Walk, WalksFrom, Reached
  <1>2. WalksFrom(v, ch, since, 1)
    BY WalkExists
  <1> HIDE DEF v
  <1>3. v[n] <=> Reached(v, ch, since, n)
    BY <1>2 DEF WalksFrom
  <1>4. \A m \in 1 .. Len(ch) : v[m] <=> m \in Visited(ch, since)
    BY <1>1
  <1>5. \A m \in Places(ch, "merge") : m \in 1 .. Len(ch)
    BY DEF Places
  <1>6. n = Len(ch) \/ n + 1 \in 1 .. Len(ch)
    OBVIOUS
  <1>7. QED
    BY <1>3, <1>4, <1>5, <1>6, Zenon DEF Reached

\* The walk leaves a place out only if it stopped at an older commit above it.
LEMMA StoppedAbove ==
    ASSUME ChainTyped(chain), NEW since \in Id,
           NEW n \in 1 .. Len(chain), n \notin Visited(chain, since)
    PROVE  \E m \in n + 1 .. Len(chain) :
             chain[m].kind # "merge" /\ chain[m].id < since
  <1> DEFINE Missed == {m \in n .. Len(chain) : m \notin Visited(chain, since)}
             last == Max(Missed)
  <1>1. Len(chain) \in Nat
    BY Grown DEF ChainTyped
  <1>2. n \in Missed
    BY <1>1
  <1>3. Missed \in SUBSET Nat /\ IsFiniteSet(Missed)
    <2>1. IsFiniteSet(n .. Len(chain)) /\ n .. Len(chain) \subseteq Nat
      BY <1>1, FS_Interval
    <2>2. QED
      BY <2>1, FS_Subset
  <1>4. last \in Missed /\ \A m \in Missed : m <= last
    <2> HIDE DEF Missed
    <2>1. QED
      BY <1>2, <1>3, Largest
  <1>5. last \in n .. Len(chain) /\ last \in 1 .. Len(chain) /\ last \notin Visited(chain, since)
    BY <1>1, <1>4
  <1>6. last # Len(chain)
    BY <1>1, <1>5, VisitedIs
  <1>7. last + 1 \in n + 1 .. Len(chain) /\ last + 1 \in n .. Len(chain) /\ ~(last + 1 <= last)
    <2> HIDE DEF last
    <2>1. QED
      BY <1>1, <1>5, <1>6
  <1>8. last + 1 \in Visited(chain, since)
    BY <1>4, <1>7
  <1>9. ~Descends(chain[last + 1], since)
    <2> HIDE DEF last
    <2>1. QED
      BY <1>1, <1>5, <1>8, VisitedIs
  <1>10. chain[last + 1].kind # "merge" /\ ~(chain[last + 1].id >= since)
    BY <1>9 DEF Descends
  <1>11. chain[last + 1].id \in Nat /\ since \in Nat
    <2> HIDE DEF last
    <2>1. chain[last + 1].id \in Id
      BY <1>1, <1>5, <1>7, <1>10 DEF ChainTyped, EntryTyped
    <2>2. QED
      BY <2>1, IdSets
  <1>12. chain[last + 1].id < since
    BY <1>10, <1>11
  <1>13. QED
    BY <1>7, <1>10, <1>12

-----------------------------------------------------------------------------
(* The theorems.                                                           *)

IInv == TypeInv /\ Once /\ Snapped

LEMMA Invariance == Spec => []IInv
  <1>1. Init => IInv
    BY TypeInit, OnceInit, SnappedInit DEF IInv
  <1>2. IInv /\ [Next]_vars => IInv'
    BY TypeStep, OnceStep, SnappedStep DEF IInv
  <1>3. QED
    BY <1>1, <1>2, PTL DEF Spec

\* Every variable keeps its type: whatever the order of IDs and whatever data a
\* checkpoint holds, the folds Append commits and fsck snapshots consist of IDs.
THEOREM TypeCorrect == Spec => []TypeOK
  <1>1. IInv => TypeOK
    BY DEF IInv, TypeInv, ChainTyped, EntryTyped, ProcsTyped, TypeOK
  <1>2. QED
    BY <1>1, Invariance, PTL

\* However many commands race, the events on the chain are those of commands
\* that reported success, each in one commit (Writer.Append's retry loop).
THEOREM NoneLostNoneTwice == Spec => []AppendedOnce
  <1>1. IInv => AppendedOnce
    BY DEF IInv, Once
  <1>2. QED
    BY <1>1, Invariance, PTL

\* While every checkpoint sits on the head it was computed from, foldInputs
\* reads from it what a fold of the whole chain reads, for every order of IDs.
THEOREM ShortcutHolds == Spec => []ShortcutIsTransparent
  <1>1. IInv => ShortcutIsTransparent
    <2>1. SUFFICES ASSUME IInv, AllFaithful
                   PROVE  Read(chain) = FullFold(chain)
      BY DEF ShortcutIsTransparent
    <2>2. FaithfulIn(chain)
      BY <2>1 DEF AllFaithful, Faithful, FaithfulIn
    <2>3. OfIds(chain) /\ Faithfully(chain)
      BY <2>1, <2>2, TypedIds, FaithfulData DEF IInv, TypeInv, Snapped
    <2>4. FoldInputs(chain, {}, {}) = Fold(EventIds(chain) \cup {})
      BY <2>3, Transparent
    <2>5. EventIds(chain) \cup {} = EventIds(chain)
      OBVIOUS
    <2>6. QED
      BY <2>4, <2>5 DEF Read, FullFold
  <1>2. QED
    BY <1>1, Invariance, PTL

\* Under the same proviso the tip's tree is the fold that reading returns: what
\* Append wrote from its own shortcut and what a merge wrote from the union agree.
THEOREM TreesMatch == Spec => []TreeMatchesRead
  <1>1. IInv /\ ShortcutIsTransparent => TreeMatchesRead
    BY DEF IInv, Snapped, TreeOf, FaithfulIn, AllFaithful, Faithful,
           ShortcutIsTransparent, TreeMatchesRead
  <1>2. QED
    BY <1>1, Invariance, ShortcutHolds, PTL

\* Where one fsck runs at a time, a checkpoint on time subsumes an event that no
\* earlier one does: repeated compaction comes to rest (shouldCompact).
THEOREM CompactionRests ==
    ASSUME \A f, g \in Fsck : f = g
    PROVE  Spec => []CheckpointsSubsumeMore
  <1>1. Init => Rests
    <2>1. SUFFICES ASSUME Init
                   PROVE  Rests
      OBVIOUS
    <2>2. Places(chain, "checkpoint") = {}
      BY <2>1 DEF Init, Places
    <2>3. QED
      BY <2>1, <2>2 DEF Init, Rests, Compacting
  <1>2. IInv /\ Rests /\ [Next]_vars => Rests'
    BY RestsStep DEF IInv
  <1>3. Rests => CheckpointsSubsumeMore
    BY DEF Rests, OnTimeIn, OnTime, HasMore, CheckpointsSubsumeMore
  <1>4. QED
    BY <1>1, <1>2, <1>3, Invariance, PTL DEF Spec

\* Whatever the order of IDs, log --since misses an event only where an older commit
\* lies above it (WalkChainSince, ADR-0012).
THEOREM SinceHolds == Spec => []SinceIsComplete
  <1>1. IInv => SinceIsComplete
    <2> SUFFICES ASSUME ChainTyped(chain), NEW since \in Id,
                        NEW n \in Places(chain, "event") \cup Places(chain, "merge"),
                        NEW i \in IdsAt(n), i >= since
                 PROVE  i \in LogSince(chain, since) \/ OlderAbove(n, since)
      BY DEF IInv, TypeInv, SinceIsComplete
    <2> DEFINE seen == Visited(chain, since)
    <2>1. n \in 1 .. Len(chain)
      BY DEF Places
    <2>2. CASE n \notin seen
      BY <2>1, <2>2, StoppedAbove DEF OlderAbove
    <2>3. CASE n \in seen
      <3> HIDE DEF seen
      <3>1. i \in {chain[m].id : m \in seen \cap Places(chain, "event")}
                  \cup UNION {chain[m].side : m \in seen \cap Places(chain, "merge")}
        BY <2>3 DEF Places, IdsAt
      <3>2. LogSince(chain, since) =
              {k \in {chain[m].id : m \in seen \cap Places(chain, "event")}
                    \cup UNION {chain[m].side : m \in seen \cap Places(chain, "merge")} :
                 k >= since}
        BY Zenon DEF LogSince, seen
      <3>3. QED
        BY <3>1, <3>2
    <2>4. QED
      BY <2>2, <2>3
  <1>2. QED
    BY <1>1, Invariance, PTL
=============================================================================
