------------------------------ MODULE FoldLaws ------------------------------
(***************************************************************************)
(* What a fold of events does, for any reducer Step: the laws of           *)
(* Materialize's engine (Registry.FoldFrom), by induction on the events in *)
(* the order of their IDs.                                                 *)
(*                                                                         *)
(* An induction theorem that takes a predicate is out of reach of the      *)
(* provers, but one that takes a set is not: the predicate is the set of   *)
(* numbers, or of event sets, that satisfy it.  Step is a constant with    *)
(* arguments, so that EntityProofs can take the laws for its reducers.     *)
(***************************************************************************)
EXTENDS Materialize, FiniteSetTheorems, WellFoundedInduction, TLAPS

CONSTANT Step(_, _)

-----------------------------------------------------------------------------
(* Induction with sets in place of predicates.                             *)

\* A set of numbers with 0 and every successor of its numbers has them all.
LEMMA NumberInduction ==
    ASSUME NEW T, 0 \in T, \A n \in Nat : n \in T => n + 1 \in T
    PROVE  \A n \in Nat : n \in T
  <1> DEFINE Bad == {n \in Nat : n \notin T}
  <1> SUFFICES ASSUME Bad # {} PROVE FALSE
    OBVIOUS
  <1>1. PICK n \in Bad : \A m \in Bad : <<m, n>> \notin OpToRel(<, Nat)
    BY NatLessThanWellFounded, WFMin, Zenon
  <1>2. \A m \in Bad : ~(m < n)
    BY <1>1, Zenon DEF OpToRel
  <1>3. n \in Nat \ {0}
    OBVIOUS
  <1>4. n - 1 \in Nat /\ n - 1 < n /\ (n - 1) + 1 = n
    BY <1>3
  <1>5. n - 1 \in T
    BY <1>2, <1>4
  <1>6. QED
    BY <1>4, <1>5

-----------------------------------------------------------------------------
(* The loop behind FoldLeft.                                               *)

\* The function by which the library defines a fold of a sequence: on each set
\* of places, the state after the events there.
RunsOn(iter, base, seq, n) ==
    iter = [s \in SUBSET (1 .. n) |->
              IF s = {} THEN base ELSE Step(iter[s \ {Max(s)}], seq[Max(s)])]

Runs(base, seq, n) == CHOOSE iter : RunsOn(iter, base, seq, n)

Run(base, seq, n) == Runs(base, seq, n)[1 .. n]

\* The library's fold of a sequence is the run over all its places.
LEMMA FoldIsRun ==
    ASSUME NEW base, NEW seq, NEW n \in Nat, DOMAIN seq = 1 .. n
    PROVE  FoldLeft(Step, base, seq) = Run(base, seq, n)
  BY DEF FoldLeft, MapThenFoldSet, Run, Runs, RunsOn

\* The last place of a set of places of a sequence that is one longer.
LEMMA MaxOfPlaces ==
    ASSUME NEW n \in Nat, NEW s \in SUBSET (1 .. n + 1)
    PROVE  /\ n + 1 \in s => Max(s) = n + 1
           /\ s \ {n + 1} \in SUBSET (1 .. n)
           /\ n + 1 \notin s => s \in SUBSET (1 .. n)
  <1>1. \A i \in s : i \in Nat /\ n + 1 >= i /\ (i >= n + 1 => i = n + 1)
    OBVIOUS
  <1>2. ASSUME n + 1 \in s
        PROVE  Max(s) = n + 1
    <2>1. Max(s) \in s /\ \A i \in s : Max(s) >= i
      BY <1>1, <1>2 DEF Max
    <2>2. QED
      BY <1>1, <1>2, <2>1
  <1>3. QED
    BY <1>2

\* The recursive definition of a run is never empty: there is such a function.
LEMMA RunsExist ==
    ASSUME NEW base, NEW seq
    PROVE  \A n \in Nat : \E iter : RunsOn(iter, base, seq, n)
  <1> DEFINE T == {n \in Nat : \E iter : RunsOn(iter, base, seq, n)}
  <1>1. 0 \in T
    <2>1. SUBSET (1 .. 0) = {{}}
      OBVIOUS
    <2>2. RunsOn([s \in SUBSET (1 .. 0) |-> base], base, seq, 0)
      BY <2>1 DEF RunsOn
    <2>3. QED
      BY <2>2
  <1>2. ASSUME NEW n \in Nat, n \in T
        PROVE  n + 1 \in T
    <2>1. PICK old : RunsOn(old, base, seq, n)
      BY <1>2
    <2> DEFINE new == [s \in SUBSET (1 .. n + 1) |->
                         IF n + 1 \in s THEN Step(old[s \ {n + 1}], seq[n + 1])
                                        ELSE old[s]]
    <2>2. \A s \in SUBSET (1 .. n) : s \in SUBSET (1 .. n + 1) /\ n + 1 \notin s
      OBVIOUS
    <2>4. ASSUME NEW s \in SUBSET (1 .. n + 1)
          PROVE  new[s] = IF s = {} THEN base
                          ELSE Step(new[s \ {Max(s)}], seq[Max(s)])
      <3>1. CASE n + 1 \in s
        <4>1. Max(s) = n + 1 /\ s \ {n + 1} \in SUBSET (1 .. n)
          BY <3>1, MaxOfPlaces
        <4>2. new[s \ {n + 1}] = old[s \ {n + 1}]
          BY <4>1, <2>2
        <4>3. QED
          BY <3>1, <4>1, <4>2
      <3>2. CASE n + 1 \notin s
        <4>1. s \in SUBSET (1 .. n)
          BY <3>2, MaxOfPlaces
        <4>2. new[s] = old[s]
          BY <3>2
        <4>3. old[s] = IF s = {} THEN base
                       ELSE Step(old[s \ {Max(s)}], seq[Max(s)])
          BY <2>1, <4>1 DEF RunsOn
        <4>4. s \ {Max(s)} \in SUBSET (1 .. n)
          BY <4>1
        <4>5. new[s \ {Max(s)}] = old[s \ {Max(s)}]
          BY <2>2, <4>4
        <4>6. QED
          BY <4>2, <4>3, <4>5
      <3>3. QED
        BY <3>1, <3>2
    <2>5. RunsOn(new, base, seq, n + 1)
      BY <2>4 DEF RunsOn
    <2>6. QED
      BY <2>5
  <1>3. \A n \in Nat : n \in T
    BY <1>1, <1>2, NumberInduction
  <1>4. QED
    BY <1>3

\* A run does one step per place, from the first.
LEMMA RunUnfolds ==
    ASSUME NEW base, NEW seq, NEW n \in Nat
    PROVE  /\ Runs(base, seq, n)[{}] = base
           /\ \A k \in Nat : k < n =>
                Runs(base, seq, n)[1 .. k + 1] =
                    Step(Runs(base, seq, n)[1 .. k], seq[k + 1])
  <1>1. RunsOn(Runs(base, seq, n), base, seq, n)
    BY RunsExist, Zenon DEF Runs
  <1>2. Runs(base, seq, n)[{}] = base
    BY <1>1 DEF RunsOn
  <1>3. ASSUME NEW k \in Nat, k < n
        PROVE  Runs(base, seq, n)[1 .. k + 1] =
                   Step(Runs(base, seq, n)[1 .. k], seq[k + 1])
    <2>1. /\ 1 .. k + 1 \in SUBSET (1 .. n) /\ 1 .. k + 1 # {}
          /\ (1 .. k + 1) \ {k + 1} = 1 .. k
      BY <1>3
    <2>2. k + 1 \in 1 .. k + 1 /\ 1 .. k + 1 \in SUBSET (1 .. k + 1)
      OBVIOUS
    <2>3. Max(1 .. k + 1) = k + 1
      BY <2>2, MaxOfPlaces
    <2>4. Runs(base, seq, n)[1 .. k + 1] =
            Step(Runs(base, seq, n)[(1 .. k + 1) \ {Max(1 .. k + 1)}],
                 seq[Max(1 .. k + 1)])
      BY <1>1, <2>1, Zenon DEF RunsOn
    <2>5. QED
      BY <2>1, <2>3, <2>4
  <1>4. QED
    BY <1>2, <1>3

\* What comes later in the sequence does not change the first states.
LEMMA RunIsLocal ==
    ASSUME NEW base, NEW seq, NEW t, NEW n \in Nat, NEW m \in Nat, n <= m,
           \A i \in 1 .. n : seq[i] = t[i]
    PROVE  Runs(base, t, m)[1 .. n] = Run(base, seq, n)
  <1> DEFINE T == {k \in Nat : k <= n =>
                     Runs(base, t, m)[1 .. k] = Runs(base, seq, n)[1 .. k]}
  <1>1. 0 \in T
    <2>1. 1 .. 0 = {}
      OBVIOUS
    <2>2. QED
      BY <2>1, RunUnfolds
  <1>2. ASSUME NEW k \in Nat, k \in T
        PROVE  k + 1 \in T
    <2> SUFFICES ASSUME k + 1 <= n
                 PROVE  Runs(base, t, m)[1 .. k + 1] = Runs(base, seq, n)[1 .. k + 1]
      OBVIOUS
    <2>1. k < n /\ k < m /\ k + 1 \in 1 .. n /\ k <= n
      OBVIOUS
    <2>2. Runs(base, t, m)[1 .. k] = Runs(base, seq, n)[1 .. k]
      BY <1>2, <2>1
    <2>3. Runs(base, t, m)[1 .. k + 1] =
            Step(Runs(base, t, m)[1 .. k], t[k + 1])
      BY <2>1, RunUnfolds
    <2>4. Runs(base, seq, n)[1 .. k + 1] =
            Step(Runs(base, seq, n)[1 .. k], seq[k + 1])
      BY <2>1, RunUnfolds
    <2>5. seq[k + 1] = t[k + 1]
      BY <2>1
    <2>6. QED
      BY <2>2, <2>3, <2>4, <2>5
  <1>3. \A k \in Nat : k \in T
    BY <1>1, <1>2, NumberInduction
  <1>4. QED
    BY <1>3 DEF Run

\* No event, no change.
LEMMA RunOfNothing ==
    ASSUME NEW base, NEW seq
    PROVE  Run(base, seq, 0) = base
  <1>1. 1 .. 0 = {}
    OBVIOUS
  <1>2. QED
    BY <1>1, RunUnfolds DEF Run

\* A run over one more event ends with the step of that event.
LEMMA RunGrows ==
    ASSUME NEW base, NEW seq, NEW t, NEW n \in Nat,
           \A i \in 1 .. n : seq[i] = t[i]
    PROVE  Run(base, t, n + 1) = Step(Run(base, seq, n), t[n + 1])
  <1>1. n < n + 1 /\ n <= n + 1 /\ n + 1 \in Nat
    OBVIOUS
  <1>3. Runs(base, t, n + 1)[1 .. n] = Run(base, seq, n)
    BY <1>1, RunIsLocal
  <1>4. Runs(base, t, n + 1)[1 .. n + 1] =
          Step(Runs(base, t, n + 1)[1 .. n], t[n + 1])
    BY <1>1, RunUnfolds
  <1>5. QED
    BY <1>3, <1>4 DEF Run

-----------------------------------------------------------------------------
(* Events in the order of their IDs.                                       *)

\* A finite set of events, none of which shares its ID with another.
IsEvents(E) ==
    /\ IsFiniteSet(E)
    /\ \A e \in E : e.id \in Nat /\ \A d \in E : d.id = e.id => d = e

\* The events up to one of them, and how many there are.
UpTo(E, e) == {d \in E : d.id <= e.id}
Rank(E, e) == Cardinality(UpTo(E, e))

\* What holds of a set of events holds of its subsets.
LEMMA PartOfEvents ==
    ASSUME NEW E, IsEvents(E), NEW F \in SUBSET E
    PROVE  IsEvents(F) /\ Cardinality(F) \in Nat /\ Cardinality(F) <= Cardinality(E)
  BY FS_Subset, FS_CardinalityType DEF IsEvents

\* The place of an event in the sorted list: later events have later places.
LEMMA RankIncreases ==
    ASSUME NEW E, IsEvents(E), NEW e \in E
    PROVE  /\ Rank(E, e) \in 1 .. Cardinality(E)
           /\ \A d \in E : d.id < e.id => Rank(E, d) < Rank(E, e)
  <1>1. ASSUME NEW S \in SUBSET E, NEW T \in SUBSET S, S # T
        PROVE  /\ Cardinality(S) \in Nat /\ Cardinality(T) \in Nat
               /\ Cardinality(T) < Cardinality(S)
    <2>1. IsFiniteSet(S)
      BY FS_Subset DEF IsEvents
    <2>2. IsFiniteSet(T) /\ Cardinality(T) <= Cardinality(S)
          /\ Cardinality(S) # Cardinality(T)
      BY <1>1, <2>1, FS_Subset
    <2>3. Cardinality(S) \in Nat /\ Cardinality(T) \in Nat
      BY <2>1, <2>2, FS_CardinalityType
    <2>4. QED
      BY <2>2, <2>3
  <1>2. e.id \in Nat /\ \A d \in E : d.id \in Nat
    BY DEF IsEvents
  <1>3. UpTo(E, e) \in SUBSET E /\ e \in UpTo(E, e) /\ {} \in SUBSET UpTo(E, e)
    BY <1>2 DEF UpTo
  <1>4. Cardinality({}) = 0
    BY FS_EmptySet
  <1>5. Rank(E, e) \in Nat /\ 0 < Rank(E, e)
    BY <1>1, <1>3, <1>4 DEF Rank
  <1>6. Cardinality(E) \in Nat /\ Rank(E, e) <= Cardinality(E)
    BY <1>3, PartOfEvents, FS_CardinalityType DEF Rank, IsEvents
  <1>7. ASSUME NEW d \in E, d.id < e.id
        PROVE  Rank(E, d) < Rank(E, e)
    <2>1. e \notin UpTo(E, d) /\ UpTo(E, d) \in SUBSET UpTo(E, e)
      BY <1>2, <1>7 DEF UpTo
    <2>2. QED
      BY <1>1, <1>3, <2>1 DEF Rank
  <1>8. QED
    BY <1>5, <1>6, <1>7

\* Each place of SortEvents holds the one event of that rank.
LEMMA SortedPlaces ==
    ASSUME NEW E, IsEvents(E)
    PROVE  /\ Cardinality(E) \in Nat
           /\ DOMAIN SortEvents(E) = 1 .. Cardinality(E)
           /\ \A n \in 1 .. Cardinality(E) :
                SortEvents(E)[n] \in E /\ Rank(E, SortEvents(E)[n]) = n
           /\ \A e \in E : SortEvents(E)[Rank(E, e)] = e
  <1>1. Cardinality(E) \in Nat
    BY FS_CardinalityType DEF IsEvents
  <1>2. \A d, e \in E : Rank(E, d) = Rank(E, e) => d = e
    <2> SUFFICES ASSUME NEW d \in E, NEW e \in E, Rank(E, d) = Rank(E, e)
                 PROVE  d = e
      OBVIOUS
    <2>1. Rank(E, e) \in Nat /\ d.id \in Nat /\ e.id \in Nat
          /\ (d.id = e.id => d = e)
      BY RankIncreases DEF IsEvents
    <2>2. ~(d.id < e.id) /\ ~(e.id < d.id)
      BY <2>1, RankIncreases
    <2>3. QED
      BY <2>1, <2>2
  <1> DEFINE T == 1 .. Cardinality(E)
             f == [e \in E |-> Rank(E, e)]
  <1>3. f \in Injection(E, T)
    BY <1>2, RankIncreases DEF Injection, IsInjective
  <1>4. IsFiniteSet(T) /\ Cardinality(T) = Cardinality(E)
    BY <1>1, FS_Interval
  <1>5. f \in Surjection(E, T)
    BY <1>3, <1>4, FS_Injection
  <1>6. \A n \in T : \E e \in E : Rank(E, e) = n
    BY <1>5 DEF Surjection
  <1>7. \A n \in T : SortEvents(E)[n] = CHOOSE e \in E : Rank(E, e) = n
    BY DEF SortEvents, Rank, UpTo
  <1>8. \A n \in T : SortEvents(E)[n] \in E /\ Rank(E, SortEvents(E)[n]) = n
    BY <1>6, <1>7
  <1>9. \A e \in E : SortEvents(E)[Rank(E, e)] = e
    BY <1>2, <1>8, RankIncreases
  <1>10. QED
    BY <1>1, <1>8, <1>9 DEF SortEvents

\* The latest of a set of events, and its rank.
LEMMA LatestIsLast ==
    ASSUME NEW E, IsEvents(E), NEW e, e.id \in Nat, \A d \in E : d.id < e.id
    PROVE  /\ IsEvents(E \cup {e})
           /\ Cardinality(E \cup {e}) = Cardinality(E) + 1
           /\ SortEvents(E \cup {e})[Cardinality(E) + 1] = e
           /\ \A n \in 1 .. Cardinality(E) :
                SortEvents(E \cup {e})[n] = SortEvents(E)[n]
  <1> DEFINE F == E \cup {e}
  <1>1. \A d \in E : d.id \in Nat /\ d # e /\ d.id # e.id
    BY DEF IsEvents
  <1>2. IsEvents(F) /\ Cardinality(F) = Cardinality(E) + 1
    BY <1>1, FS_AddElement DEF IsEvents
  <1>3. UpTo(F, e) = F /\ \A d \in E : UpTo(F, d) = UpTo(E, d)
    BY <1>1 DEF UpTo
  <1>4. Rank(F, e) = Cardinality(E) + 1 /\ \A d \in E : Rank(F, d) = Rank(E, d)
    BY <1>2, <1>3 DEF Rank
  <1>5. SortEvents(F)[Cardinality(E) + 1] = e
    BY <1>2, <1>4, SortedPlaces
  <1>6. ASSUME NEW n \in 1 .. Cardinality(E)
        PROVE  SortEvents(F)[n] = SortEvents(E)[n]
    <2>1. SortEvents(E)[n] \in E /\ Rank(E, SortEvents(E)[n]) = n
      BY SortedPlaces
    <2>2. Rank(F, SortEvents(E)[n]) = n
      BY <1>4, <2>1
    <2>3. QED
      BY <1>2, <2>1, <2>2, SortedPlaces
  <1>7. QED
    BY <1>2, <1>5, <1>6

\* What holds of no events, and stays true when the next one in the order of IDs
\* is added, holds of all.
LEMMA EventInduction ==
    ASSUME NEW E, IsEvents(E), NEW Good, {} \in Good,
           ASSUME NEW e \in E, NEW F \in SUBSET E, F \in Good,
                  F = {d \in E : d.id < e.id}
           PROVE  F \cup {e} \in Good
    PROVE  E \in Good
  <1> DEFINE First(n) == {e \in E : Rank(E, e) <= n}
             T == {n \in Nat : n <= Cardinality(E) => First(n) \in Good}
  <1>1. /\ Cardinality(E) \in Nat
        /\ \A e \in E : Rank(E, e) \in 1 .. Cardinality(E)
    BY RankIncreases, SortedPlaces
  <1>2. 0 \in T
    <2>1. First(0) = {}
      BY <1>1
    <2>2. QED
      BY <2>1
  <1>3. ASSUME NEW n \in Nat, n \in T
        PROVE  n + 1 \in T
    <2> SUFFICES ASSUME n + 1 <= Cardinality(E)
                 PROVE  First(n + 1) \in Good
      OBVIOUS
    <2> DEFINE e == SortEvents(E)[n + 1]
    <2>1. e \in E /\ Rank(E, e) = n + 1
      BY <1>1, SortedPlaces
    <2>2. First(n) \in Good
      BY <1>1, <1>3
    <2>3. \A d \in E : Rank(E, d) <= n <=> d.id < e.id
      <3> SUFFICES ASSUME NEW d \in E
                   PROVE  Rank(E, d) <= n <=> d.id < e.id
        OBVIOUS
      <3>1. /\ Rank(E, d) \in Nat /\ d.id \in Nat /\ e.id \in Nat
            /\ (d.id = e.id => d = e)
        BY <1>1, <2>1 DEF IsEvents
      <3>2. /\ d.id < e.id => Rank(E, d) < Rank(E, e)
            /\ e.id < d.id => Rank(E, e) < Rank(E, d)
        BY <2>1, RankIncreases
      <3>3. QED
        BY <2>1, <3>1, <3>2
    <2>4. First(n) = {d \in E : d.id < e.id} /\ First(n) \in SUBSET E
      BY <2>3
    <2>5. First(n) \cup {e} \in Good
      BY <2>1, <2>2, <2>4
    <2>6. First(n + 1) = First(n) \cup {e}
      <3>1. ASSUME NEW d \in E
            PROVE  Rank(E, d) <= n + 1 <=> Rank(E, d) <= n \/ d = e
        <4>1. Rank(E, d) \in Nat /\ (Rank(E, d) = n + 1 => d = e)
          BY <1>1, SortedPlaces
        <4>2. QED
          BY <2>1, <4>1
      <3>2. QED
        BY <2>1, <3>1
    <2>7. QED
      BY <2>5, <2>6
  <1>4. \A n \in Nat : n \in T
    BY <1>2, <1>3, NumberInduction
  <1>5. First(Cardinality(E)) = E
    BY <1>1
  <1>6. QED
    BY <1>1, <1>4, <1>5

-----------------------------------------------------------------------------
(* Folds of event sets.                                                    *)

Folded(E) == {e \in E : ~IsCheckpoint(e)}

\* A fold is a run over the sorted events that are not checkpoints.
LEMMA FoldRuns ==
    ASSUME NEW E, IsEvents(E), NEW init
    PROVE  /\ IsEvents(Folded(E)) /\ Cardinality(Folded(E)) \in Nat
           /\ FoldFrom(Step, init, E) =
                Run(init, SortEvents(Folded(E)), Cardinality(Folded(E)))
  <1>1. IsEvents(Folded(E)) /\ Cardinality(Folded(E)) \in Nat
    BY PartOfEvents DEF Folded
  <1>2. DOMAIN SortEvents(Folded(E)) = 1 .. Cardinality(Folded(E))
    BY <1>1, SortedPlaces
  <1>3. FoldFrom(Step, init, E) = FoldLeft(Step, init, SortEvents(Folded(E)))
    BY DEF FoldFrom, Folded
  <1>4. QED
    BY <1>1, <1>2, <1>3, FoldIsRun

\* Nothing to fold leaves the state as it is.
LEMMA FoldOfNothing ==
    ASSUME NEW init
    PROVE  FoldFrom(Step, init, {}) = init
  <1>1. IsEvents({}) /\ Folded({}) = {} /\ Cardinality({}) = 0
    BY FS_EmptySet DEF IsEvents, Folded
  <1>2. QED
    BY <1>1, FoldRuns, RunOfNothing

\* The reducers do not see checkpoints.
LEMMA FoldOfCheckpoint ==
    ASSUME NEW E, NEW init, NEW c, IsCheckpoint(c)
    PROVE  FoldFrom(Step, init, E \cup {c}) = FoldFrom(Step, init, E)
  <1>1. {e \in E \cup {c} : ~IsCheckpoint(e)} = {e \in E : ~IsCheckpoint(e)}
    OBVIOUS
  <1>2. QED
    BY <1>1, Zenon DEF FoldFrom

\* The latest event is reduced last.
LEMMA FoldOfLatest ==
    ASSUME NEW E, IsEvents(E), NEW init, NEW e, ~IsCheckpoint(e),
           e.id \in Nat, \A d \in E : d.id < e.id
    PROVE  FoldFrom(Step, init, E \cup {e}) = Step(FoldFrom(Step, init, E), e)
  <1> DEFINE G == Folded(E)
  <1>1. Folded(E \cup {e}) = G \cup {e} /\ \A d \in G : d.id < e.id
    BY DEF Folded
  <1>2. /\ IsEvents(E \cup {e}) /\ IsEvents(G) /\ Cardinality(G) \in Nat
        /\ FoldFrom(Step, init, E) = Run(init, SortEvents(G), Cardinality(G))
    BY LatestIsLast, FoldRuns
  <1>3. FoldFrom(Step, init, E \cup {e}) =
          Run(init, SortEvents(G \cup {e}), Cardinality(G \cup {e}))
    BY <1>1, <1>2, FoldRuns
  <1>4. /\ Cardinality(G \cup {e}) = Cardinality(G) + 1
        /\ SortEvents(G \cup {e})[Cardinality(G) + 1] = e
        /\ \A n \in 1 .. Cardinality(G) :
             SortEvents(G)[n] = SortEvents(G \cup {e})[n]
    BY <1>1, <1>2, LatestIsLast
  <1>5. Run(init, SortEvents(G \cup {e}), Cardinality(G) + 1) =
          Step(Run(init, SortEvents(G), Cardinality(G)),
               SortEvents(G \cup {e})[Cardinality(G) + 1])
    <2> DEFINE s == SortEvents(G)
               t == SortEvents(G \cup {e})
    <2>1. \A n \in 1 .. Cardinality(G) : s[n] = t[n]
      BY <1>4
    <2> HIDE DEF s, t
    <2>2. Run(init, t, Cardinality(G) + 1) =
            Step(Run(init, s, Cardinality(G)), t[Cardinality(G) + 1])
      BY <1>2, <2>1, RunGrows
    <2>3. QED
      BY <2>2 DEF s, t
  <1>6. QED
    BY <1>2, <1>3, <1>4, <1>5

\* Folding later events into the state that the earlier ones left is folding
\* them all: what makes a checkpoint a legitimate start.
THEOREM FoldOfLater ==
    ASSUME NEW A, IsEvents(A), NEW B, IsEvents(B), NEW init,
           \A a \in A, b \in B : a.id < b.id
    PROVE  /\ IsEvents(A \cup B)
           /\ FoldFrom(Step, FoldFrom(Step, init, A), B) =
                FoldFrom(Step, init, A \cup B)
  <1> DEFINE Good == {F \in SUBSET B :
                        /\ IsEvents(A \cup F)
                        /\ FoldFrom(Step, FoldFrom(Step, init, A), F) =
                             FoldFrom(Step, init, A \cup F)}
  <1>1. {} \in Good
    BY FoldOfNothing
  <1>2. ASSUME NEW e \in B, NEW F \in SUBSET B, F \in Good,
               F = {d \in B : d.id < e.id}
        PROVE  F \cup {e} \in Good
    <2>1. /\ IsEvents(F) /\ e.id \in Nat
          /\ \A d \in F : d.id < e.id
          /\ \A d \in A \cup F : d.id < e.id
      BY <1>2, PartOfEvents DEF IsEvents
    <2>2. A \cup (F \cup {e}) = (A \cup F) \cup {e}
      OBVIOUS
    <2>3. /\ IsEvents(A \cup F)
          /\ FoldFrom(Step, FoldFrom(Step, init, A), F) =
               FoldFrom(Step, init, A \cup F)
      BY <1>2
    <2>4. IsEvents((A \cup F) \cup {e})
      BY <2>1, <2>3, LatestIsLast
    <2>5. CASE IsCheckpoint(e)
      <3>1. FoldFrom(Step, FoldFrom(Step, init, A), F \cup {e}) =
              FoldFrom(Step, FoldFrom(Step, init, A), F)
        BY <2>5, FoldOfCheckpoint
      <3>2. FoldFrom(Step, init, (A \cup F) \cup {e}) =
              FoldFrom(Step, init, A \cup F)
        BY <2>5, FoldOfCheckpoint
      <3>3. QED
        BY <2>2, <2>3, <2>4, <3>1, <3>2
    <2>6. CASE ~IsCheckpoint(e)
      <3>1. FoldFrom(Step, FoldFrom(Step, init, A), F \cup {e}) =
              Step(FoldFrom(Step, FoldFrom(Step, init, A), F), e)
        BY <2>1, <2>6, FoldOfLatest
      <3>2. FoldFrom(Step, init, (A \cup F) \cup {e}) =
              Step(FoldFrom(Step, init, A \cup F), e)
        BY <2>1, <2>3, <2>6, FoldOfLatest
      <3>3. QED
        BY <2>2, <2>3, <2>4, <3>1, <3>2
    <2>7. QED
      BY <2>5, <2>6
  <1>3. B \in Good
    <2> HIDE DEF Good
    <2> QED
      BY <1>1, <1>2, EventInduction
  <1>4. QED
    BY <1>3

=============================================================================
