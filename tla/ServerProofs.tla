---------------------------- MODULE ServerProofs ----------------------------
(***************************************************************************)
(* What holds of all commands in one clone, beside a server whose clients  *)
(* page through lists: the chains that they append to, the registry that   *)
(* they read, the keys that they sign with.                                *)
(*                                                                         *)
(* First data: lists, sorted lists, and what the folds of a task, an issue, *)
(* the registry and the notification stream are, all by induction on the   *)
(* events in the order of their IDs (FoldLaws, instantiated for each). Then *)
(* Typed, the invariant that every chain is one of well-formed events with *)
(* IDs of their own and that a command in progress holds what its next step *)
(* needs. On it rest the four properties: TypeOK; PagesAreComplete, from   *)
(* what a page cuts out of a sorted list (PageOk); SetupsWork, from what an *)
(* agent's setup has found and left (AgentsOk); and VerdictsFollowRules,   *)
(* from what the registry's keys are in terms of its events (RegistryFits). *)
(***************************************************************************)
EXTENDS Server, FiniteSetTheorems, WellFoundedInduction, TLAPS

-----------------------------------------------------------------------------
(* Lists.                                                                  *)

\* A list with one more member at its end.
LEMMA Appended ==
    ASSUME NEW s, IsList(s), NEW e
    PROVE  /\ Len(s) \in Nat /\ DOMAIN s = 1 .. Len(s)
           /\ IsList(Append(s, e))
           /\ Len(Append(s, e)) = Len(s) + 1
           /\ DOMAIN Append(s, e) = 1 .. Len(s) + 1
           /\ Append(s, e)[Len(s) + 1] = e
           /\ \A n \in 1 .. Len(s) : Append(s, e)[n] = s[n]
           /\ Range(Append(s, e)) = Range(s) \cup {e}
  <1> DEFINE t == Append(s, e)
             S == Range(s)
  <1>1. s \in Seq(S)
    BY DEF IsList
  <1>2. Len(s) \in Nat /\ DOMAIN s = 1 .. Len(s)
    BY <1>1
  <1>3. s \in Seq(S \cup {e}) /\ e \in S \cup {e}
    BY <1>1
  <1>4. /\ t \in Seq(S \cup {e}) /\ Len(t) = Len(s) + 1
        /\ DOMAIN t = 1 .. Len(s) + 1
        /\ t[Len(s) + 1] = e
        /\ \A n \in 1 .. Len(s) : t[n] = s[n]
    BY <1>3
  <1>5. Range(t) = S \cup {e}
    <2>1. Len(s) + 1 \in DOMAIN t /\ \A n \in 1 .. Len(s) : n \in DOMAIN t
      BY <1>2, <1>4
    <2>2. \A n \in DOMAIN t : n = Len(s) + 1 \/ n \in 1 .. Len(s)
      BY <1>2, <1>4
    <2>3. \A x \in S : \E n \in 1 .. Len(s) : x = s[n]
      BY <1>2 DEF Range
    <2>4. \A n \in 1 .. Len(s) : s[n] \in S
      BY <1>2 DEF Range
    <2> HIDE DEF t, S
    <2>5. Range(t) = {t[n] : n \in DOMAIN t}
      BY DEF Range
    <2>6. QED
      BY <1>4, <2>1, <2>2, <2>3, <2>4, <2>5
  <1>6. IsList(t)
    BY <1>4, <1>5 DEF IsList
  <1>7. QED
    BY <1>2, <1>4, <1>5, <1>6

\* The empty list.
LEMMA EmptyList ==
    IsList(<<>>) /\ Range(<<>>) = {} /\ Len(<<>>) = 0 /\ DOMAIN <<>> = {}
  <1>1. DOMAIN <<>> = {} /\ Len(<<>>) = 0
    OBVIOUS
  <1>2. Range(<<>>) = {}
    BY <1>1 DEF Range
  <1>3. <<>> \in Seq({})
    OBVIOUS
  <1>4. QED
    BY <1>1, <1>2, <1>3 DEF IsList

\* The members of a list, its first and its rest.
LEMMA ListParts ==
    ASSUME NEW s, IsList(s)
    PROVE  /\ Len(s) \in Nat /\ DOMAIN s = 1 .. Len(s)
           /\ \A n \in 1 .. Len(s) : s[n] \in Range(s)
           /\ \A x \in Range(s) : \E n \in 1 .. Len(s) : s[n] = x
           /\ IsFiniteSet(Range(s))
           /\ s # <<>> => /\ Len(s) > 0
                          /\ Head(s) \in Range(s) /\ IsList(Tail(s))
                          /\ Len(Tail(s)) = Len(s) - 1
                          /\ \A n \in 1 .. Len(s) - 1 : Tail(s)[n] = s[n + 1]
                          /\ Range(s) = {Head(s)} \cup Range(Tail(s))
  <1> DEFINE S == Range(s)
  <1>1. s \in Seq(S)
    BY DEF IsList
  <1>2. Len(s) \in Nat /\ DOMAIN s = 1 .. Len(s)
    BY <1>1
  <1>3. /\ \A n \in 1 .. Len(s) : s[n] \in S
        /\ \A x \in S : \E n \in 1 .. Len(s) : s[n] = x
    BY <1>2 DEF Range
  <1>4. IsFiniteSet(S)
    <2>1. IsFiniteSet(1 .. Len(s))
      BY <1>2, FS_Interval
    <2>2. s \in Surjection(1 .. Len(s), S)
      <3> HIDE DEF S
      <3>1. s \in [1 .. Len(s) -> S]
        BY <1>1
      <3>2. QED
        BY <1>3, <3>1 DEF Surjection
    <2>3. QED
      BY <2>1, <2>2, FS_Surjection
  <1>5. ASSUME s # <<>>
        PROVE  /\ Len(s) > 0
               /\ Head(s) \in S /\ IsList(Tail(s))
               /\ Len(Tail(s)) = Len(s) - 1
               /\ \A n \in 1 .. Len(s) - 1 : Tail(s)[n] = s[n + 1]
               /\ S = {Head(s)} \cup Range(Tail(s))
    <2> HIDE DEF S
    <2>1. /\ Len(s) > 0 /\ Head(s) = s[1] /\ Head(s) \in S
          /\ Tail(s) \in Seq(S) /\ Len(Tail(s)) = Len(s) - 1
          /\ DOMAIN Tail(s) = 1 .. Len(s) - 1
          /\ \A n \in 1 .. Len(s) - 1 : Tail(s)[n] = s[n + 1]
      BY <1>1, <1>5
    <2>2. Range(Tail(s)) = {Tail(s)[n] : n \in 1 .. Len(s) - 1}
      BY <2>1 DEF Range
    <2>3. \A x \in S : x = s[1] \/ \E n \in 1 .. Len(s) - 1 : x = s[n + 1]
      <3> SUFFICES ASSUME NEW x \in S, x # s[1]
                   PROVE  \E n \in 1 .. Len(s) - 1 : x = s[n + 1]
        OBVIOUS
      <3>1. PICK m \in 1 .. Len(s) : s[m] = x
        BY <1>3
      <3>2. m - 1 \in 1 .. Len(s) - 1 /\ (m - 1) + 1 = m
        BY <1>2, <3>1
      <3>3. QED
        BY <3>1, <3>2
    <2>4. \A n \in 1 .. Len(s) - 1 : s[n + 1] \in S
      <3>1. \A n \in 1 .. Len(s) - 1 : n + 1 \in 1 .. Len(s)
        BY <1>2
      <3>2. QED
        BY <1>3, <3>1
    <2>5. S = {Head(s)} \cup Range(Tail(s))
      BY <2>1, <2>2, <2>3, <2>4
    <2>6. Tail(s) \in Seq(Range(Tail(s)))
      <3> DEFINE t == Tail(s)
      <3>1. t \in Seq(S) /\ \A n \in 1 .. Len(t) : t[n] \in Range(t)
        BY <2>1, <2>2
      <3> HIDE DEF t
      <3>2. t \in Seq(Range(t))
        BY <3>1
      <3>3. QED
        BY <3>2 DEF t
    <2>7. QED
      BY <2>1, <2>5, <2>6 DEF IsList
  <1>6. QED
    BY <1>2, <1>3, <1>4, <1>5

\* The commits up to a place stay what they were.
LEMMA PrefixKept ==
    ASSUME NEW s, IsList(s), NEW e, NEW n \in 0 .. Len(s)
    PROVE  /\ SubSeq(Append(s, e), 1, n) = SubSeq(s, 1, n)
           /\ SubSeq(s, 1, Len(s)) = s
           /\ IsList(SubSeq(s, 1, n)) /\ Len(SubSeq(s, 1, n)) = n
           /\ \A m \in 1 .. n : SubSeq(s, 1, n)[m] = s[m]
           /\ Range(SubSeq(s, 1, n)) \subseteq Range(s)
  <1> DEFINE S == Range(s) \cup {e}
             t == SubSeq(Append(s, e), 1, n)
             u == SubSeq(s, 1, n)
             v == SubSeq(s, 1, Len(s))
  <1>1. s \in Seq(S) /\ e \in S
    <2>1. s \in Seq(Range(s))
      BY DEF IsList
    <2>2. QED
      BY <2>1
  <1> HIDE DEF S
  <1>2. /\ Len(s) \in Nat /\ DOMAIN s = 1 .. Len(s)
        /\ Append(s, e) \in Seq(S) /\ Len(Append(s, e)) = Len(s) + 1
        /\ \A m \in 1 .. Len(s) : Append(s, e)[m] = s[m]
    BY <1>1
  <1>3. /\ t \in Seq(S) /\ Len(t) = n
        /\ u \in Seq(S) /\ Len(u) = n
        /\ v \in Seq(S) /\ Len(v) = Len(s)
    BY <1>1, <1>2
  <1>4. /\ \A m \in 1 .. n : t[m] = s[m]
        /\ \A m \in 1 .. n : u[m] = s[m]
        /\ \A m \in 1 .. Len(s) : v[m] = s[m]
    BY <1>1, <1>2
  <1> HIDE DEF t, u, v
  <1>5. t = u /\ v = s
    BY <1>1, <1>2, <1>3, <1>4
  <1>6. Range(u) \subseteq Range(s) /\ u \in Seq(Range(u))
    <2>1. DOMAIN u = 1 .. n /\ 1 .. n \subseteq 1 .. Len(s)
      BY <1>2, <1>3
    <2>2. Range(u) \subseteq Range(s)
      BY <1>2, <1>4, <2>1 DEF Range
    <2>3. \A m \in 1 .. Len(u) : u[m] \in Range(u)
      BY <1>3, <2>1 DEF Range
    <2>4. QED
      BY <1>3, <2>2, <2>3
  <1>7. QED
    BY <1>3, <1>4, <1>5, <1>6 DEF t, u, v, IsList

-----------------------------------------------------------------------------
(* Smallest numbers.                                                       *)

\* A set of numbers that is not empty has a smallest one.
LEMMA Smallest ==
    ASSUME NEW S \in SUBSET Nat, S # {}
    PROVE  Min(S) \in S /\ \A i \in S : Min(S) <= i
  <1>1. PICK n \in S : \A m \in S : <<m, n>> \notin OpToRel(<, Nat)
    BY NatLessThanWellFounded, WFMin, Zenon
  <1>2. \A m \in S : ~(m < n)
    BY <1>1, Zenon DEF OpToRel
  <1>3. \A m \in S : n <= m
    BY <1>2
  <1>4. QED
    BY <1>3 DEF Min

-----------------------------------------------------------------------------
(* Sorted lists and their pages.                                           *)

\* A sorted list has the members of the set that was sorted, in their order.
LEMMA OrderedList ==
    ASSUME NEW S \in SUBSET Nat, IsFiniteSet(S)
    PROVE  /\ Ordered(S) \in Seq(S) /\ Range(Ordered(S)) = S
           /\ Ascending(Ordered(S))
  <1> DEFINE Below(i) == {j \in S : j < i}
             T == 1 .. Cardinality(S)
             place == [i \in S |-> Cardinality(Below(i)) + 1]
             list == Ordered(S)
  <1>1. Cardinality(S) \in Nat
    BY FS_CardinalityType
  <1>2. ASSUME NEW A \in SUBSET S, NEW B \in SUBSET A, A # B
        PROVE  /\ Cardinality(A) \in Nat /\ Cardinality(B) \in Nat
               /\ Cardinality(B) < Cardinality(A)
    <2>1. IsFiniteSet(A) /\ IsFiniteSet(B)
      BY FS_Subset
    <2>2. Cardinality(B) <= Cardinality(A) /\ Cardinality(A) # Cardinality(B)
      BY <1>2, <2>1, FS_Subset
    <2>3. Cardinality(A) \in Nat /\ Cardinality(B) \in Nat
      BY <2>1, FS_CardinalityType
    <2>4. QED
      BY <2>2, <2>3
  <1>3. ASSUME NEW i \in S
        PROVE  Cardinality(Below(i)) \in Nat /\ place[i] \in T
    <2>1. Below(i) \in SUBSET S /\ i \in S /\ i \notin Below(i)
      OBVIOUS
    <2>2. /\ Cardinality(Below(i)) \in Nat
          /\ Cardinality(Below(i)) < Cardinality(S)
      BY <1>2, <2>1
    <2>3. QED
      BY <1>1, <2>2
  <1>4. ASSUME NEW i \in S, NEW j \in S, i < j
        PROVE  Cardinality(Below(i)) < Cardinality(Below(j))
    <2>1. i \in Nat /\ j \in Nat /\ \A k \in S : k \in Nat
      OBVIOUS
    <2>2. \A k \in S : k < i => k < j
      BY <1>4, <2>1
    <2>3. Below(j) \in SUBSET S /\ Below(i) \in SUBSET Below(j)
      BY <2>2
    <2>4. i \in Below(j) /\ i \notin Below(i)
      BY <1>4, <2>1
    <2>5. QED
      BY <1>2, <2>3, <2>4
  <1>5. \A i, j \in S : place[i] = place[j] => i = j
    <2> SUFFICES ASSUME NEW i \in S, NEW j \in S, i # j
                 PROVE  place[i] # place[j]
      OBVIOUS
    <2>1. i < j \/ j < i
      OBVIOUS
    <2>2. QED
      BY <1>3, <1>4, <2>1
  <1>6. place \in Injection(S, T)
    BY <1>3, <1>5 DEF Injection, IsInjective
  <1>7. IsFiniteSet(T) /\ Cardinality(T) = Cardinality(S)
    BY <1>1, FS_Interval
  <1>8. place \in Surjection(S, T)
    BY <1>6, <1>7, FS_Injection
  <1>9. \A n \in T : \E i \in S : Cardinality(Below(i)) = n - 1
    <2> SUFFICES ASSUME NEW n \in T PROVE \E i \in S : Cardinality(Below(i)) = n - 1
      OBVIOUS
    <2>1. PICK i \in S : place[i] = n
      BY <1>8 DEF Surjection
    <2>2. Cardinality(Below(i)) = n - 1
      BY <1>3, <2>1
    <2>3. QED
      BY <2>2
  <1>10. /\ list = [n \in T |-> list[n]]
         /\ \A n \in T : list[n] = CHOOSE i \in S : Cardinality(Below(i)) = n - 1
    BY DEF Ordered
  <1> HIDE DEF list
  <1>11. \A n \in T : list[n] \in S /\ Cardinality(Below(list[n])) = n - 1
    BY <1>9, <1>10
  <1>12. ASSUME NEW i \in S
         PROVE  \E n \in T : list[n] = i
    <2>1. place[i] \in T /\ Cardinality(Below(i)) = place[i] - 1
      BY <1>3
    <2>2. /\ list[place[i]] \in S
          /\ Cardinality(Below(list[place[i]])) = Cardinality(Below(i))
      BY <1>11, <2>1
    <2>3. place[list[place[i]]] = place[i]
      BY <2>2
    <2>4. list[place[i]] = i
      BY <1>5, <2>2, <2>3
    <2>5. QED
      BY <2>1, <2>4
  <1>13. list \in Seq(S)
    <2>1. PICK k \in Nat : k = Cardinality(S)
      BY <1>1
    <2>2. list \in [1 .. k -> S]
      BY <1>10, <1>11, <2>1
    <2>3. QED
      BY <2>2
  <1>14. Range(list) = S
    <2>1. DOMAIN list = T
      BY <1>10
    <2>2. QED
      BY <1>11, <1>12, <2>1 DEF Range
  <1>15. ASSUME NEW m \in T, NEW n \in T, m < n
         PROVE  list[m] < list[n]
    <2>1. /\ list[m] \in S /\ Cardinality(Below(list[m])) = m - 1
          /\ list[n] \in S /\ Cardinality(Below(list[n])) = n - 1
      BY <1>11
    <2>2. list[n] < list[m] => n - 1 < m - 1
      BY <1>4, <2>1
    <2>3. list[n] = list[m] => n - 1 = m - 1
      BY <2>1
    <2>4. m \in Nat /\ n \in Nat
      BY <1>1
    <2>7. list[m] \in Nat /\ list[n] \in Nat
      <3>1. S \subseteq Nat
        OBVIOUS
      <3>2. QED
        BY <2>1, <3>1, Zenon
    <2>5. ~(list[n] < list[m]) /\ list[n] # list[m]
      BY <1>15, <2>2, <2>3, <2>4, <2>7
    <2>6. QED
      BY <2>5, <2>7
  <1>16. Ascending(list)
    <2>1. DOMAIN list = T
      BY <1>10
    <2>2. QED
      BY <1>15, <2>1 DEF Ascending
  <1>17. QED
    BY <1>13, <1>14, <1>16 DEF list

\* A page of a list holds what comes after the cursor and up to the next one, or
\* up to the end if there is no next one.
LEMMA PageOfList ==
    ASSUME NEW S \in SUBSET (Nat \ {0}), NEW ids \in Seq(S), Ascending(ids),
           NEW cursor \in Nat, NEW limit \in Int
    PROVE  LET result == PageOf(ids, cursor, limit) IN
           /\ result.page \in Seq(S) /\ Ascending(result.page)
           /\ result.next \in Nat
           /\ result.next # 0 => cursor < result.next
           /\ Range(result.page) =
                {i \in Range(ids) : i > cursor /\ (result.next = 0 \/ i <= result.next)}
  <1>1. PICK l \in Nat : Len(ids) = l /\ DOMAIN ids = 1 .. l
    OBVIOUS
  <1>2. \A n \in 1 .. l : ids[n] \in S /\ ids[n] \in Nat \ {0}
    <2>1. \A n \in 1 .. l : ids[n] \in S
      BY <1>1
    <2>2. S \subseteq Nat \ {0}
      OBVIOUS
    <2>3. QED
      BY <2>1, <2>2, Zenon
  <1>3. PICK size \in Nat \ {0} :
          size = IF limit <= 0 THEN DefaultPageSize ELSE Min({limit, MaxPageSize})
    <2>1. DefaultPageSize \in Nat \ {0} /\ MaxPageSize \in Nat \ {0}
      BY ServerAssumption
    <2>2. ASSUME limit > 0
          PROVE  Min({limit, MaxPageSize}) \in {limit, MaxPageSize}
      <3>1. {limit, MaxPageSize} \in SUBSET Nat /\ {limit, MaxPageSize} # {}
        BY <2>1, <2>2
      <3>2. QED
        BY <3>1, Smallest
    <2>3. QED
      BY <2>1, <2>2
  <1>4. PICK start \in Nat :
          /\ start = Min({n \in DOMAIN ids : ids[n] > cursor} \cup {Len(ids) + 1})
          /\ start >= 1 /\ start <= l + 1
          /\ \A n \in 1 .. l : ids[n] > cursor <=> n >= start
    <2> DEFINE after == {n \in 1 .. l : ids[n] > cursor} \cup {l + 1}
    <2>1. after \in SUBSET Nat /\ after # {}
      OBVIOUS
    <2>0. Min(after) \in after /\ \A n \in after : Min(after) <= n
      BY <2>1, Smallest, Zenon
    <2>2. PICK start \in after : start = Min(after) /\ \A n \in after : start <= n
      BY <2>0, Zenon
    <2>3. start \in Nat /\ start >= 1 /\ start <= l + 1
      BY <2>2
    <2>4. ASSUME NEW n \in 1 .. l, n >= start
          PROVE  ids[n] > cursor
      <3>1. start \in 1 .. l /\ ids[start] > cursor
        BY <2>3, <2>4
      <3>2. start = n \/ ids[start] < ids[n]
        BY <1>1, <2>4, <3>1 DEF Ascending
      <3>3. ids[start] \in Nat /\ ids[n] \in Nat
        BY <1>2, <3>1
      <3>4. QED
        BY <3>1, <3>2, <3>3
    <2>5. \A n \in 1 .. l : ids[n] > cursor => n >= start
      BY <2>2
    <2>6. start = Min({n \in DOMAIN ids : ids[n] > cursor} \cup {Len(ids) + 1})
      BY <1>1, <2>2
    <2>7. QED
      BY <2>3, <2>4, <2>5, <2>6
  <1>5. PICK end \in Nat :
          /\ end = Min({Len(ids), start + size - 1})
          /\ end <= l
          /\ start <= l => start <= end
          /\ end >= start - 1
    <2>1. {l, start + size - 1} \in SUBSET Nat /\ {l, start + size - 1} # {}
      BY <1>4
    <2>2. PICK end \in {l, start + size - 1} :
            /\ end = Min({l, start + size - 1})
            /\ \A n \in {l, start + size - 1} : end <= n
      BY <2>1, Smallest
    <2>3. /\ end \in Nat /\ end <= l
          /\ start <= l => start <= end
          /\ end >= start - 1
      BY <1>4, <2>1, <2>2
    <2>4. end = Min({Len(ids), start + size - 1})
      BY <1>1, <2>2
    <2>5. QED
      BY <2>3, <2>4
  <1>6. start .. end \subseteq 1 .. l /\ end - start + 1 \in Nat
    <2>1. start >= 1 /\ end <= l /\ end >= start - 1
      BY <1>4, <1>5, Zenon
    <2>2. QED
      BY <2>1
  <1>7. PICK page : page = SubSeq(ids, start, end)
    OBVIOUS
  <1>8. /\ page \in Seq(S) /\ DOMAIN page = 1 .. end - start + 1
        /\ \A n \in 1 .. end - start + 1 :
             start + n - 1 \in start .. end /\ page[n] = ids[start + n - 1]
    <2>1. \A n \in 1 .. end - start + 1 : start + n - 1 \in start .. end
      OBVIOUS
    <2>2. page = [n \in 1 .. end - start + 1 |-> ids[start + n - 1]]
      BY <1>6, <1>7
    <2>3. \A n \in 1 .. end - start + 1 : ids[start + n - 1] \in S
      BY <1>2, <1>6, <2>1
    <2>4. page \in [1 .. end - start + 1 -> S]
      BY <2>2, <2>3
    <2>5. page \in Seq(S)
      BY <1>6, <2>4
    <2>6. QED
      BY <2>1, <2>2, <2>5
  <1>9. Ascending(page)
    <2> SUFFICES ASSUME NEW m \in DOMAIN page, NEW n \in DOMAIN page, m < n
                 PROVE  page[m] < page[n]
      BY DEF Ascending
    <2>1. /\ start + m - 1 \in 1 .. l /\ start + n - 1 \in 1 .. l
          /\ page[m] = ids[start + m - 1] /\ page[n] = ids[start + n - 1]
      BY <1>6, <1>8
    <2>2. start + m - 1 < start + n - 1
      BY <1>8
    <2>3. QED
      BY <1>1, <2>1, <2>2 DEF Ascending
  <1>10. Range(page) = {ids[n] : n \in start .. end}
    <2>1. \A n \in start .. end : n - start + 1 \in 1 .. end - start + 1
                                /\ start + (n - start + 1) - 1 = n
      OBVIOUS
    <2>2. \A n \in start .. end : page[n - start + 1] = ids[n]
      BY <1>8, <2>1
    <2>3. Range(page) = {page[n] : n \in 1 .. end - start + 1}
      BY <1>8 DEF Range
    <2>4. \A n \in 1 .. end - start + 1 : page[n] \in {ids[m] : m \in start .. end}
      BY <1>8
    <2>5. \A n \in start .. end : ids[n] \in {page[m] : m \in 1 .. end - start + 1}
      BY <2>1, <2>2
    <2>6. QED
      BY <2>3, <2>4, <2>5
  <1>11. PICK next : next = IF end < Len(ids) THEN ids[end] ELSE 0
    OBVIOUS
  <1>12. ASSUME end < l
         PROVE  end \in 1 .. l /\ next = ids[end] /\ next \in Nat \ {0} /\ cursor < next
    <2>1. start <= end
      BY <1>4, <1>5, <1>12
    <2>2. end \in 1 .. l
      BY <1>4, <1>5, <2>1
    <2>3. next = ids[end] /\ next \in Nat \ {0}
      BY <1>1, <1>2, <1>11, <1>12, <2>2
    <2>4. ids[end] > cursor
      BY <1>4, <2>1, <2>2
    <2>5. QED
      BY <2>2, <2>3, <2>4
  <1>13. ~(end < l) => next = 0 /\ end = l
    BY <1>1, <1>5, <1>11
  <1>14. ASSUME NEW n \in 1 .. l
         PROVE  n \in start .. end <=>
                  ids[n] > cursor /\ (next = 0 \/ ids[n] <= next)
    <2>1. CASE end < l
      <3>1. ids[n] \in Nat /\ ids[end] \in Nat /\ next # 0 /\ next = ids[end]
        BY <1>2, <1>12, <2>1
      <3>2. n <= end <=> ids[n] <= ids[end]
        <4>1. n < end => ids[n] < ids[end]
          BY <1>1, <1>12, <2>1 DEF Ascending
        <4>2. end < n => ids[end] < ids[n]
          BY <1>1, <1>12, <2>1 DEF Ascending
        <4>3. QED
          BY <3>1, <4>1, <4>2
      <3>3. n \in start .. end <=> n >= start /\ n <= end
        OBVIOUS
      <3>4. QED
        BY <1>4, <3>1, <3>2, <3>3
    <2>2. CASE ~(end < l)
      <3>1. next = 0 /\ end = l
        BY <1>13, <2>2
      <3>2. n \in start .. end <=> n >= start
        BY <3>1
      <3>3. QED
        BY <1>4, <3>1, <3>2
    <2>3. QED
      BY <2>1, <2>2
  <1>15. Range(page) =
           {i \in Range(ids) : i > cursor /\ (next = 0 \/ i <= next)}
    <2>1. Range(ids) = {ids[n] : n \in 1 .. l}
      BY <1>1 DEF Range
    <2>2. QED
      BY <1>6, <1>10, <1>14, <2>1
  <1>16. PageOf(ids, cursor, limit) = [page |-> page, next |-> next]
    BY <1>3, <1>4, <1>5, <1>7, <1>11, Zenon DEF PageOf
  <1>17. next \in Nat /\ (next # 0 => cursor < next)
    BY <1>12, <1>13
  <1> HIDE DEF PageOf
  <1>18. QED
    BY <1>8, <1>9, <1>15, <1>16, <1>17

\* A page of a list tool, of the members of a set.
LEMMA PageIs ==
    ASSUME NEW S \in SUBSET (Nat \ {0}), IsFiniteSet(S), NEW cursor \in Nat,
           NEW limit \in Int
    PROVE  LET result == PageOf(Ordered(S), cursor, limit) IN
           /\ result.page \in Seq(S) /\ Ascending(result.page)
           /\ result.next \in Nat
           /\ result.next # 0 => cursor < result.next
           /\ Range(result.page) =
                {i \in S : i > cursor /\ (result.next = 0 \/ i <= result.next)}
  <1>1. PICK ids : ids = Ordered(S)
    OBVIOUS
  <1>2. ids \in Seq(S) /\ Range(ids) = S /\ Ascending(ids)
    BY <1>1, OrderedList
  <1>3. PICK result : result = PageOf(ids, cursor, limit)
    OBVIOUS
  <1>4. /\ result.page \in Seq(S) /\ Ascending(result.page)
        /\ result.next \in Nat
        /\ result.next # 0 => cursor < result.next
        /\ Range(result.page) =
             {i \in S : i > cursor /\ (result.next = 0 \/ i <= result.next)}
    BY <1>2, <1>3, PageOfList
  <1>5. QED
    BY <1>1, <1>3, <1>4

-----------------------------------------------------------------------------
(* Folds of chains, for each feature's reducers.                           *)

TaskLaws == INSTANCE FoldLaws WITH Step <- Task!Apply
IssueLaws == INSTANCE FoldLaws WITH Step <- Issue!Apply
RegistryLaws == INSTANCE FoldLaws WITH Step <- Verify!Apply
StreamLaws == INSTANCE FoldLaws WITH Step <- Notify!Apply

IsEvents(E) ==
    /\ IsFiniteSet(E)
    /\ \A e \in E : e.id \in Nat /\ \A d \in E : d.id = e.id => d = e

\* What holds of no events, and stays true when the next one in the order of IDs
\* is added, holds of all.
LEMMA EventInduction ==
    ASSUME NEW E, IsEvents(E), NEW Good, {} \in Good,
           ASSUME NEW e \in E, NEW F \in SUBSET E, F \in Good, IsEvents(F),
                  F = {d \in E : d.id < e.id}
           PROVE  F \cup {e} \in Good
    PROVE  E \in Good
  <1>1. TaskLaws!IsFiniteSet(E) <=> IsFiniteSet(E)
    BY DEF IsFiniteSet, TaskLaws!IsFiniteSet
  <1>2. TaskLaws!IsEvents(E)
    BY <1>1 DEF IsEvents, TaskLaws!IsEvents
  <1>3. \A F \in SUBSET E : IsEvents(F)
    BY FS_Subset DEF IsEvents
  <1>4. QED
    BY <1>2, <1>3, TaskLaws!EventInduction

\* The state of no events, and of those up to one in terms of those before it.
LEMMA TaskFold ==
    /\ FoldFrom(Task!Apply, NewState, {}) = NewState
    /\ \A F, e : IsEvents(F) /\ e.id \in Nat /\ (\A d \in F : d.id < e.id) =>
         FoldFrom(Task!Apply, NewState, F \cup {e}) =
           IF IsCheckpoint(e) THEN FoldFrom(Task!Apply, NewState, F)
           ELSE Task!Apply(FoldFrom(Task!Apply, NewState, F), e)
  <1>1. ASSUME NEW s, NEW E
        PROVE  FoldFrom(Task!Apply, s, E) = TaskLaws!FoldFrom(Task!Apply, s, E)
    <2> DEFINE F == {e \in E : ~IsCheckpoint(e)}
               q == SortEvents(F)
    <2>1. F = {e \in E : ~TaskLaws!IsCheckpoint(e)}
      BY DEF IsCheckpoint, TaskLaws!IsCheckpoint
    <2>2. SortEvents(F) = TaskLaws!SortEvents(F)
      BY Zenon DEF SortEvents, TaskLaws!SortEvents, Cardinality, TaskLaws!Cardinality
    <2>3. TaskLaws!FoldFrom(Task!Apply, s, E) =
            TaskLaws!FoldLeft(Task!Apply, s, TaskLaws!SortEvents(F))
      BY <2>1, Zenon DEF TaskLaws!FoldFrom
    <2>4. FoldFrom(Task!Apply, s, E) = FoldLeft(Task!Apply, s, SortEvents(F))
      BY Zenon DEF FoldFrom
    <2>5. TaskLaws!FoldLeft(Task!Apply, s, q) = FoldLeft(Task!Apply, s, q)
      BY Zenon DEF TaskLaws!FoldLeft, FoldLeft, TaskLaws!MapThenFoldSet,
                   MapThenFoldSet, TaskLaws!Max, Max
    <2>6. QED
      BY <2>2, <2>3, <2>4, <2>5
  <1>2. FoldFrom(Task!Apply, NewState, {}) = NewState
    BY <1>1, TaskLaws!FoldOfNothing
  <1>3. ASSUME NEW F, NEW e, IsEvents(F), e.id \in Nat, \A d \in F : d.id < e.id
        PROVE  FoldFrom(Task!Apply, NewState, F \cup {e}) =
                 IF IsCheckpoint(e) THEN FoldFrom(Task!Apply, NewState, F)
                 ELSE Task!Apply(FoldFrom(Task!Apply, NewState, F), e)
    <2>1. TaskLaws!IsFiniteSet(F) <=> IsFiniteSet(F)
      BY DEF IsFiniteSet, TaskLaws!IsFiniteSet
    <2>2. TaskLaws!IsEvents(F)
      BY <1>3, <2>1 DEF IsEvents, TaskLaws!IsEvents
    <2>3. CASE IsCheckpoint(e)
      BY <1>1, <2>3, TaskLaws!FoldOfCheckpoint DEF IsCheckpoint, TaskLaws!IsCheckpoint
    <2>4. CASE ~IsCheckpoint(e)
      <3>1. TaskLaws!FoldFrom(Task!Apply, NewState, F \cup {e}) =
              Task!Apply(TaskLaws!FoldFrom(Task!Apply, NewState, F), e)
        BY <1>3, <2>2, <2>4, TaskLaws!FoldOfLatest DEF IsCheckpoint, TaskLaws!IsCheckpoint
      <3>2. QED
        BY <1>1, <2>4, <3>1
    <2>5. QED
      BY <2>3, <2>4
  <1>4. QED
    BY <1>2, <1>3, Zenon

\* Issues.
LEMMA IssueFold ==
    /\ FoldFrom(Issue!Apply, NewState, {}) = NewState
    /\ \A F, e : IsEvents(F) /\ e.id \in Nat /\ (\A d \in F : d.id < e.id) =>
         FoldFrom(Issue!Apply, NewState, F \cup {e}) =
           IF IsCheckpoint(e) THEN FoldFrom(Issue!Apply, NewState, F)
           ELSE Issue!Apply(FoldFrom(Issue!Apply, NewState, F), e)
  <1>1. ASSUME NEW s, NEW E
        PROVE  FoldFrom(Issue!Apply, s, E) = IssueLaws!FoldFrom(Issue!Apply, s, E)
    <2> DEFINE F == {e \in E : ~IsCheckpoint(e)}
               q == SortEvents(F)
    <2>1. F = {e \in E : ~IssueLaws!IsCheckpoint(e)}
      BY DEF IsCheckpoint, IssueLaws!IsCheckpoint
    <2>2. SortEvents(F) = IssueLaws!SortEvents(F)
      BY Zenon DEF SortEvents, IssueLaws!SortEvents, Cardinality, IssueLaws!Cardinality
    <2>3. IssueLaws!FoldFrom(Issue!Apply, s, E) =
            IssueLaws!FoldLeft(Issue!Apply, s, IssueLaws!SortEvents(F))
      BY <2>1, Zenon DEF IssueLaws!FoldFrom
    <2>4. FoldFrom(Issue!Apply, s, E) = FoldLeft(Issue!Apply, s, SortEvents(F))
      BY Zenon DEF FoldFrom
    <2>5. IssueLaws!FoldLeft(Issue!Apply, s, q) = FoldLeft(Issue!Apply, s, q)
      BY Zenon DEF IssueLaws!FoldLeft, FoldLeft, IssueLaws!MapThenFoldSet,
                   MapThenFoldSet, IssueLaws!Max, Max
    <2>6. QED
      BY <2>2, <2>3, <2>4, <2>5
  <1>2. FoldFrom(Issue!Apply, NewState, {}) = NewState
    BY <1>1, IssueLaws!FoldOfNothing
  <1>3. ASSUME NEW F, NEW e, IsEvents(F), e.id \in Nat, \A d \in F : d.id < e.id
        PROVE  FoldFrom(Issue!Apply, NewState, F \cup {e}) =
                 IF IsCheckpoint(e) THEN FoldFrom(Issue!Apply, NewState, F)
                 ELSE Issue!Apply(FoldFrom(Issue!Apply, NewState, F), e)
    <2>1. IssueLaws!IsFiniteSet(F) <=> IsFiniteSet(F)
      BY DEF IsFiniteSet, IssueLaws!IsFiniteSet
    <2>2. IssueLaws!IsEvents(F)
      BY <1>3, <2>1 DEF IsEvents, IssueLaws!IsEvents
    <2>3. CASE IsCheckpoint(e)
      BY <1>1, <2>3, IssueLaws!FoldOfCheckpoint DEF IsCheckpoint, IssueLaws!IsCheckpoint
    <2>4. CASE ~IsCheckpoint(e)
      <3>1. IssueLaws!FoldFrom(Issue!Apply, NewState, F \cup {e}) =
              Issue!Apply(IssueLaws!FoldFrom(Issue!Apply, NewState, F), e)
        BY <1>3, <2>2, <2>4, IssueLaws!FoldOfLatest DEF IsCheckpoint, IssueLaws!IsCheckpoint
      <3>2. QED
        BY <1>1, <2>4, <3>1
    <2>5. QED
      BY <2>3, <2>4
  <1>4. QED
    BY <1>2, <1>3, Zenon

\* Registries.
LEMMA RegistryFold ==
    /\ FoldFrom(Verify!Apply, NewState, {}) = NewState
    /\ \A F, e : IsEvents(F) /\ e.id \in Nat /\ (\A d \in F : d.id < e.id) =>
         FoldFrom(Verify!Apply, NewState, F \cup {e}) =
           IF IsCheckpoint(e) THEN FoldFrom(Verify!Apply, NewState, F)
           ELSE Verify!Apply(FoldFrom(Verify!Apply, NewState, F), e)
  <1>1. ASSUME NEW s, NEW E
        PROVE  FoldFrom(Verify!Apply, s, E) = RegistryLaws!FoldFrom(Verify!Apply, s, E)
    <2> DEFINE F == {e \in E : ~IsCheckpoint(e)}
               q == SortEvents(F)
    <2>1. F = {e \in E : ~RegistryLaws!IsCheckpoint(e)}
      BY DEF IsCheckpoint, RegistryLaws!IsCheckpoint
    <2>2. SortEvents(F) = RegistryLaws!SortEvents(F)
      BY Zenon DEF SortEvents, RegistryLaws!SortEvents, Cardinality, RegistryLaws!Cardinality
    <2>3. RegistryLaws!FoldFrom(Verify!Apply, s, E) =
            RegistryLaws!FoldLeft(Verify!Apply, s, RegistryLaws!SortEvents(F))
      BY <2>1, Zenon DEF RegistryLaws!FoldFrom
    <2>4. FoldFrom(Verify!Apply, s, E) = FoldLeft(Verify!Apply, s, SortEvents(F))
      BY Zenon DEF FoldFrom
    <2>5. RegistryLaws!FoldLeft(Verify!Apply, s, q) = FoldLeft(Verify!Apply, s, q)
      BY Zenon DEF RegistryLaws!FoldLeft, FoldLeft, RegistryLaws!MapThenFoldSet,
                   MapThenFoldSet, RegistryLaws!Max, Max
    <2>6. QED
      BY <2>2, <2>3, <2>4, <2>5
  <1>2. FoldFrom(Verify!Apply, NewState, {}) = NewState
    BY <1>1, RegistryLaws!FoldOfNothing
  <1>3. ASSUME NEW F, NEW e, IsEvents(F), e.id \in Nat, \A d \in F : d.id < e.id
        PROVE  FoldFrom(Verify!Apply, NewState, F \cup {e}) =
                 IF IsCheckpoint(e) THEN FoldFrom(Verify!Apply, NewState, F)
                 ELSE Verify!Apply(FoldFrom(Verify!Apply, NewState, F), e)
    <2>1. RegistryLaws!IsFiniteSet(F) <=> IsFiniteSet(F)
      BY DEF IsFiniteSet, RegistryLaws!IsFiniteSet
    <2>2. RegistryLaws!IsEvents(F)
      BY <1>3, <2>1 DEF IsEvents, RegistryLaws!IsEvents
    <2>3. CASE IsCheckpoint(e)
      BY <1>1, <2>3, RegistryLaws!FoldOfCheckpoint DEF IsCheckpoint, RegistryLaws!IsCheckpoint
    <2>4. CASE ~IsCheckpoint(e)
      <3>1. RegistryLaws!FoldFrom(Verify!Apply, NewState, F \cup {e}) =
              Verify!Apply(RegistryLaws!FoldFrom(Verify!Apply, NewState, F), e)
        BY <1>3, <2>2, <2>4, RegistryLaws!FoldOfLatest DEF IsCheckpoint, RegistryLaws!IsCheckpoint
      <3>2. QED
        BY <1>1, <2>4, <3>1
    <2>5. QED
      BY <2>3, <2>4
  <1>4. QED
    BY <1>2, <1>3, Zenon

\* The notification stream.
LEMMA StreamFold ==
    /\ FoldFrom(Notify!Apply, NewState, {}) = NewState
    /\ \A F, e : IsEvents(F) /\ e.id \in Nat /\ (\A d \in F : d.id < e.id) =>
         FoldFrom(Notify!Apply, NewState, F \cup {e}) =
           IF IsCheckpoint(e) THEN FoldFrom(Notify!Apply, NewState, F)
           ELSE Notify!Apply(FoldFrom(Notify!Apply, NewState, F), e)
  <1>1. ASSUME NEW s, NEW E
        PROVE  FoldFrom(Notify!Apply, s, E) = StreamLaws!FoldFrom(Notify!Apply, s, E)
    <2> DEFINE F == {e \in E : ~IsCheckpoint(e)}
               q == SortEvents(F)
    <2>1. F = {e \in E : ~StreamLaws!IsCheckpoint(e)}
      BY DEF IsCheckpoint, StreamLaws!IsCheckpoint
    <2>2. SortEvents(F) = StreamLaws!SortEvents(F)
      BY Zenon DEF SortEvents, StreamLaws!SortEvents, Cardinality, StreamLaws!Cardinality
    <2>3. StreamLaws!FoldFrom(Notify!Apply, s, E) =
            StreamLaws!FoldLeft(Notify!Apply, s, StreamLaws!SortEvents(F))
      BY <2>1, Zenon DEF StreamLaws!FoldFrom
    <2>4. FoldFrom(Notify!Apply, s, E) = FoldLeft(Notify!Apply, s, SortEvents(F))
      BY Zenon DEF FoldFrom
    <2>5. StreamLaws!FoldLeft(Notify!Apply, s, q) = FoldLeft(Notify!Apply, s, q)
      BY Zenon DEF StreamLaws!FoldLeft, FoldLeft, StreamLaws!MapThenFoldSet,
                   MapThenFoldSet, StreamLaws!Max, Max
    <2>6. QED
      BY <2>2, <2>3, <2>4, <2>5
  <1>2. FoldFrom(Notify!Apply, NewState, {}) = NewState
    BY <1>1, StreamLaws!FoldOfNothing
  <1>3. ASSUME NEW F, NEW e, IsEvents(F), e.id \in Nat, \A d \in F : d.id < e.id
        PROVE  FoldFrom(Notify!Apply, NewState, F \cup {e}) =
                 IF IsCheckpoint(e) THEN FoldFrom(Notify!Apply, NewState, F)
                 ELSE Notify!Apply(FoldFrom(Notify!Apply, NewState, F), e)
    <2>1. StreamLaws!IsFiniteSet(F) <=> IsFiniteSet(F)
      BY DEF IsFiniteSet, StreamLaws!IsFiniteSet
    <2>2. StreamLaws!IsEvents(F)
      BY <1>3, <2>1 DEF IsEvents, StreamLaws!IsEvents
    <2>3. CASE IsCheckpoint(e)
      BY <1>1, <2>3, StreamLaws!FoldOfCheckpoint DEF IsCheckpoint, StreamLaws!IsCheckpoint
    <2>4. CASE ~IsCheckpoint(e)
      <3>1. StreamLaws!FoldFrom(Notify!Apply, NewState, F \cup {e}) =
              Notify!Apply(StreamLaws!FoldFrom(Notify!Apply, NewState, F), e)
        BY <1>3, <2>2, <2>4, StreamLaws!FoldOfLatest DEF IsCheckpoint, StreamLaws!IsCheckpoint
      <3>2. QED
        BY <1>1, <2>4, <3>1
    <2>5. QED
      BY <2>3, <2>4
  <1>4. QED
    BY <1>2, <1>3, Zenon

-----------------------------------------------------------------------------
(* Tasks: who made one, and who has it.                                    *)

IsState(s) == s = [meta |-> s.meta, coll |-> s.coll, scratch |-> s.scratch]

TaskState(s) ==
    /\ IsState(s)
    /\ Created(s) => {"created_by", "owner"} \subseteq DOMAIN s.meta

\* What a reducer does to the two of them.
LEMMA TaskStep ==
    ASSUME NEW s, TaskState(s), NEW e
    PROVE  LET t == Task!Apply(s, e) IN
           /\ TaskState(t)
           /\ Created(t) <=> Created(s) \/ e.kind = "task.create"
           /\ ~Created(s) /\ e.kind = "task.create" =>
                /\ t.meta.created_by = e.actor
                /\ t.meta.owner = Given(e.data, "owner", e.actor)
           /\ Created(s) =>
                /\ t.meta.created_by = s.meta.created_by
                /\ t.meta.owner = IF e.kind = "task.reassign" THEN e.data.owner
                                  ELSE s.meta.owner
  <1> DEFINE t == Task!Apply(s, e)
             Both == {"created_by", "owner"}
  <1>1. /\ Task!Created(s) <=> Created(s)
        /\ \A m : m = <<>> => DOMAIN m = {}
    BY DEF Task!Created, Created, Task!NoMeta, NoMeta
  <1>2. CASE e.kind = "task.create"
    <2>1. CASE Created(s)
      <3>1. t = s
        BY <1>1, <1>2, <2>1 DEF Task!Apply, Task!Create
      <3> HIDE DEF t
      <3>2. QED
        BY <1>2, <2>1, <3>1 DEF t
    <2>2. CASE ~Created(s)
      <3>1. PICK m : m = [title |-> e.data.title, status |-> "todo",
                          owner |-> Task!Given(e.data, "owner", e.actor),
                          created_by |-> e.actor, created_at |-> e.id,
                          updated_at |-> e.id, links |-> <<>>]
        OBVIOUS
      <3>2. PICK h : t = [meta |-> Task!Put(m, "status_history", h),
                          coll |-> [notes |-> <<>>],
                          scratch |-> Task!Put(s.scratch, "status_history", h)]
        BY <1>1, <1>2, <2>2, <3>1 DEF Task!Apply, Task!Create, Task!AppendHistory
      <3>3. /\ t.meta = Task!Put(m, "status_history", h) /\ IsState(t)
        BY <3>2 DEF IsState
      <3>4. /\ Both \subseteq DOMAIN Task!Put(m, "status_history", h)
            /\ Task!Put(m, "status_history", h).created_by = e.actor
            /\ Task!Put(m, "status_history", h).owner = Given(e.data, "owner", e.actor)
        BY <3>1 DEF Task!Put, Task!Given, Given
      <3> HIDE DEF t
      <3>5. Created(t)
        BY <1>1, <3>3, <3>4 DEF Created, NoMeta
      <3>6. QED
        BY <1>2, <2>2, <3>3, <3>4, <3>5 DEF TaskState, t
    <2>3. QED
      BY <2>1, <2>2
  <1>3. CASE e.kind # "task.create" /\ ~Created(s)
    <2>1. t = s
      BY <1>1, <1>3 DEF Task!Apply
    <2> HIDE DEF t
    <2>2. QED
      BY <1>3, <2>1 DEF t
  <1>4. CASE e.kind # "task.create" /\ Created(s)
    <2> DEFINE Kept(m) ==
                 /\ Both \subseteq DOMAIN m /\ m.created_by = s.meta.created_by
                 /\ m.owner = IF e.kind = "task.reassign" THEN e.data.owner
                              ELSE s.meta.owner
    <2>1. Both \subseteq DOMAIN s.meta /\ IsState(s)
      BY <1>4 DEF TaskState
    <2>2. SUFFICES IsState(t) /\ Kept(t.meta)
      <3> HIDE DEF t
      <3>1. Created(t)
        BY <1>1, <2>2 DEF Created, NoMeta
      <3>2. QED
        BY <1>4, <2>2, <3>1 DEF TaskState, t
    <2>3. CASE e.kind = "task.edit"
      <3>1. PICK m : m = Task!Put(Task!Over(Task!Fields(e.data, {"title"}), s.meta),
                                  "updated_at", e.id)
        OBVIOUS
      <3>2. t = [s EXCEPT !.meta = m]
        BY <1>1, <1>4, <2>3, <3>1 DEF Task!Apply, Task!Edit
      <3>3. Kept(m)
        BY <2>1, <2>3, <3>1 DEF Task!Put, Task!Over, Task!Fields
      <3>4. t.meta = m /\ IsState(t)
        BY <2>1, <3>2 DEF IsState
      <3>5. QED
        BY <3>3, <3>4
    <2>4. CASE e.kind = "task.status"
      <3> DEFINE m == Task!Over([status |-> e.data.to, updated_at |-> e.id], s.meta)
                 n == [s EXCEPT !.meta = m]
                 u == Task!AppendHistory(n, e, e.data.to)
      <3>1. t = IF ~Task!ValidTransition(s.meta.status, e.data.to) THEN s
                ELSE IF e.data.note THEN Task!PutNote(u, e) ELSE u
        BY <1>1, <1>4, <2>4 DEF Task!Apply, Task!Status
      <3>2. Kept(s.meta)
        BY <2>1, <2>4
      <3>3. Kept(m)
        BY <2>1, <2>4 DEF Task!Over
      <3> HIDE DEF m
      <3>4. n.meta = m /\ IsState(n)
        BY <2>1 DEF IsState
      <3> HIDE DEF n
      <3>5. PICK h : u = [meta |-> Task!Put(m, "status_history", h), coll |-> n.coll,
                          scratch |-> Task!Put(n.scratch, "status_history", h)]
        BY <3>4 DEF Task!AppendHistory
      <3>6. u.meta = Task!Put(m, "status_history", h) /\ IsState(u)
        BY <3>5 DEF IsState
      <3>7. Kept(u.meta)
        BY <2>4, <3>3, <3>6 DEF Task!Put
      <3> HIDE DEF u
      <3>8. Task!PutNote(u, e).meta = u.meta /\ IsState(Task!PutNote(u, e))
        BY <3>6 DEF Task!PutNote, IsState
      <3>9. t = s \/ t = u \/ t = Task!PutNote(u, e)
        BY <3>1
      <3> HIDE DEF t, Kept
      <3>10. QED
        BY <2>1, <3>2, <3>6, <3>7, <3>8, <3>9
    <2>5. CASE e.kind = "task.reassign"
      <3>1. PICK m : m = Task!Over([owner |-> e.data.owner, updated_at |-> e.id], s.meta)
        OBVIOUS
      <3>2. t = [s EXCEPT !.meta = m]
        BY <1>1, <1>4, <2>5, <3>1 DEF Task!Apply, Task!Reassign
      <3>3. Kept(m)
        BY <2>1, <2>5, <3>1 DEF Task!Over
      <3>4. t.meta = m /\ IsState(t)
        BY <2>1, <3>2 DEF IsState
      <3>5. QED
        BY <3>3, <3>4
    <2>6. CASE e.kind = "task.note"
      <3> DEFINE n == Task!PutNote(s, e)
      <3>1. n.meta = s.meta /\ IsState(n)
        BY <2>1 DEF Task!PutNote, IsState
      <3>2. t = [n EXCEPT !.meta = Task!Put(n.meta, "updated_at", e.id)]
        BY <1>1, <1>4, <2>6 DEF Task!Apply, Task!Note
      <3> HIDE DEF n
      <3>3. PICK m : m = Task!Put(s.meta, "updated_at", e.id)
        OBVIOUS
      <3>4. t.meta = m /\ IsState(t)
        BY <3>1, <3>2, <3>3 DEF IsState
      <3>5. Kept(m)
        BY <2>1, <2>6, <3>3 DEF Task!Put
      <3>6. QED
        BY <3>4, <3>5
    <2>7. CASE e.kind = "task.link"
      <3>1. PICK links : links = Task!LinkEvent(Task!Links(s), e.data)
        OBVIOUS
      <3>2. PICK m : m = Task!Over([links |-> links, updated_at |-> e.id], s.meta)
        OBVIOUS
      <3>3. t = [meta |-> m, coll |-> s.coll,
                 scratch |-> Task!Put(s.scratch, "links", links)]
        BY <1>1, <1>4, <2>7, <3>1, <3>2 DEF Task!Apply, Task!Link
      <3>4. Kept(m)
        BY <2>1, <2>7, <3>2 DEF Task!Over
      <3>5. t.meta = m /\ IsState(t)
        BY <3>3 DEF IsState
      <3>6. QED
        BY <3>4, <3>5
    <2>8. CASE e.kind \notin {"task.edit", "task.status", "task.reassign",
                              "task.note", "task.link"}
      <3>1. t = s
        BY <1>1, <1>4, <2>8 DEF Task!Apply
      <3>2. Kept(s.meta)
        BY <2>1, <2>8
      <3> HIDE DEF t
      <3>3. QED
        BY <2>1, <3>1, <3>2
    <2>9. QED
      BY <2>3, <2>4, <2>5, <2>6, <2>7, <2>8
  <1>5. QED
    BY <1>2, <1>3, <1>4

\* No task yet.
LEMMA NewTask == TaskState(NewState) /\ ~Created(NewState)
  BY DEF TaskState, IsState, NewState, Created, NoMeta

-----------------------------------------------------------------------------
(* Issues: who has one, and who wrote its comments.                        *)

Comments(s) == Given(s.coll, "comments", <<>>)

IssueState(s) ==
    /\ IsState(s)
    /\ ~Created(s) => s = NewState
    /\ Created(s) =>
         /\ "comments" \in DOMAIN s.coll /\ "assignees" \in DOMAIN s.meta
         /\ s.meta.assignees = Issue!Assignees(s)

\* What a reducer does to them.
LEMMA IssueStep ==
    ASSUME NEW s, IssueState(s), NEW e
    PROVE  LET t == Issue!Apply(s, e) IN
           /\ IssueState(t)
           /\ Created(t) <=> Created(s) \/ e.kind = "issue.create"
           /\ Comments(t) = IF Created(s) /\ e.kind = "issue.comment"
                            THEN PutItem(Comments(s), e)
                            ELSE Comments(s)
           /\ Created(s) =>
                t.meta.assignees = IF e.kind = "issue.assign"
                                   THEN AddRemove(s.meta.assignees, e.data)
                                   ELSE s.meta.assignees
  <1> DEFINE t == Issue!Apply(s, e)
  <1>1. /\ Issue!Created(s) <=> Created(s)
        /\ \A m : m = <<>> => DOMAIN m = {}
        /\ NewState.coll = <<>> /\ NewState.scratch = <<>>
    BY DEF Issue!Created, Created, Issue!NoMeta, NoMeta, NewState
  <1>2. Comments(NewState) = <<>>
    BY <1>1 DEF Comments, Given
  <1>3. CASE e.kind = "issue.create"
    <2>1. CASE Created(s)
      <3>1. t = s
        BY <1>1, <1>3, <2>1 DEF Issue!Apply, Issue!Create
      <3> HIDE DEF t
      <3>2. QED
        BY <1>3, <2>1, <3>1 DEF t
    <2>2. CASE ~Created(s)
      <3>1. PICK labels, people :
              /\ labels = Issue!Given(e.data, "labels", {})
              /\ people = Issue!Given(e.data, "assignees", {})
        OBVIOUS
      <3>2. PICK m : m = [title |-> e.data.title, status |-> "open",
                          labels |-> labels, assignees |-> people,
                          created_by |-> e.actor, created_at |-> e.id,
                          updated_at |-> e.id, closed_at |-> Issue!Never,
                          comment_count |-> 0, links |-> <<>>]
        OBVIOUS
      <3>3. t = [meta |-> m, coll |-> [comments |-> <<>>],
                 scratch |-> [labels |-> labels, assignees |-> people]]
        BY <1>1, <1>3, <2>2, <3>1, <3>2 DEF Issue!Apply, Issue!Create
      <3>4. /\ IsState(t) /\ t.meta = m /\ t.coll = [comments |-> <<>>]
            /\ t.scratch = [labels |-> labels, assignees |-> people]
        BY <3>3 DEF IsState
      <3>5. "assignees" \in DOMAIN m /\ m.assignees = people
        BY <3>2
      <3> HIDE DEF t
      <3>6. Issue!Assignees(t) = people /\ Comments(t) = <<>>
        BY <3>4 DEF Issue!Assignees, Issue!Given, Comments, Given
      <3>7. Created(t)
        BY <1>1, <3>4, <3>5 DEF Created, NoMeta
      <3>8. s = NewState
        BY <2>2 DEF IssueState
      <3>9. QED
        BY <1>2, <1>3, <2>2, <3>4, <3>5, <3>6, <3>7, <3>8 DEF IssueState, t
    <2>3. QED
      BY <2>1, <2>2
  <1>4. CASE e.kind # "issue.create" /\ ~Created(s)
    <2>1. t = s
      BY <1>1, <1>4 DEF Issue!Apply
    <2> HIDE DEF t
    <2>2. QED
      BY <1>4, <2>1 DEF t
  <1>5. CASE e.kind # "issue.create" /\ Created(s)
    <2> DEFINE people == IF e.kind = "issue.assign"
                         THEN AddRemove(s.meta.assignees, e.data)
                         ELSE s.meta.assignees
               items == IF e.kind = "issue.comment" THEN PutItem(Comments(s), e)
                        ELSE Comments(s)
               Fits(x) == /\ IsState(x)
                          /\ "assignees" \in DOMAIN x.meta /\ x.meta.assignees = people
                          /\ Issue!Assignees(x) = people
                          /\ "comments" \in DOMAIN x.coll /\ x.coll.comments = items
    <2>1. /\ IsState(s) /\ "assignees" \in DOMAIN s.meta
          /\ s.meta.assignees = Issue!Assignees(s)
          /\ "comments" \in DOMAIN s.coll /\ Comments(s) = s.coll.comments
      BY <1>5 DEF IssueState, Comments, Given
    <2>2. SUFFICES Fits(t)
      <3> HIDE DEF t, people, items
      <3>1. Created(t) /\ Comments(t) = items
        BY <1>1, <2>2 DEF Created, NoMeta, Comments, Given
      <3>2. QED
        BY <1>5, <2>2, <3>1 DEF IssueState, t, people, items
    <2>3. ASSUME NEW x, NEW m, x = [s EXCEPT !.meta = m],
                 "assignees" \in DOMAIN m, m.assignees = s.meta.assignees,
                 e.kind \notin {"issue.assign", "issue.comment"}
          PROVE  Fits(x)
      <3>1. x.meta = m /\ x.coll = s.coll /\ x.scratch = s.scratch /\ IsState(x)
        BY <2>1, <2>3 DEF IsState
      <3>2. Issue!Assignees(x) = Issue!Assignees(s)
        BY <3>1 DEF Issue!Assignees
      <3>3. QED
        BY <2>1, <2>3, <3>1, <3>2
    <2>4. ASSUME NEW field, NEW v, NEW x, x = Issue!SetBoth(s, e, field, v),
                 field # "comments",
                 IF field = "assignees" THEN v = people ELSE people = s.meta.assignees,
                 field # "updated_at", e.kind # "issue.comment"
          PROVE  Fits(x)
      <3>1. PICK m : m = Issue!Put(Issue!Put(s.meta, field, v), "updated_at", e.id)
        OBVIOUS
      <3>2. Issue!Set(s, e, field, v).meta = m
        BY <2>1, <3>1 DEF Issue!Set, IsState
      <3>3. x = [meta |-> m, coll |-> s.coll, scratch |-> Issue!Put(s.scratch, field, v)]
        BY <2>4, <3>2 DEF Issue!SetBoth
      <3>4. /\ x.meta = m /\ x.coll = s.coll
            /\ x.scratch = Issue!Put(s.scratch, field, v) /\ IsState(x)
        BY <3>3 DEF IsState
      <3>5. "assignees" \in DOMAIN m /\ m.assignees = people
        BY <2>1, <2>4, <3>1 DEF Issue!Put
      <3>6. Issue!Assignees(x) = people
        <4> HIDE DEF people
        <4>1. CASE field = "assignees"
          BY <2>4, <3>4, <4>1 DEF Issue!Assignees, Issue!Given, Issue!Put
        <4>2. CASE field # "assignees"
          BY <2>1, <2>4, <3>4, <4>2 DEF Issue!Assignees, Issue!Given, Issue!Put
        <4>3. QED
          BY <4>1, <4>2
      <3>7. QED
        BY <2>1, <2>4, <3>4, <3>5, <3>6
    <2>5. CASE e.kind = "issue.edit"
      <3>1. PICK m : m = Issue!Put(Issue!Over(Issue!Fields(e.data, {"title"}), s.meta),
                                   "updated_at", e.id)
        OBVIOUS
      <3>2. t = [s EXCEPT !.meta = m]
        BY <1>1, <1>5, <2>5, <3>1 DEF Issue!Apply, Issue!Edit
      <3>3. "assignees" \in DOMAIN m /\ m.assignees = s.meta.assignees
        BY <2>1, <3>1 DEF Issue!Put, Issue!Over, Issue!Fields
      <3>4. QED
        BY <2>3, <2>5, <3>2, <3>3
    <2>6. CASE e.kind = "issue.status"
      <3>1. PICK c : c = Issue!ClosedAt(s, e)
        OBVIOUS
      <3>2. PICK m : m = Issue!Over([status |-> e.data.to, updated_at |-> e.id,
                                     closed_at |-> c], s.meta)
        OBVIOUS
      <3>3. t = s \/ t = [s EXCEPT !.meta = m]
        BY <1>1, <1>5, <2>6, <3>1, <3>2 DEF Issue!Apply, Issue!Status
      <3>4. "assignees" \in DOMAIN m /\ m.assignees = s.meta.assignees
        BY <2>1, <3>2 DEF Issue!Over
      <3>5. s = [s EXCEPT !.meta = s.meta]
        BY <2>1 DEF IsState
      <3> HIDE DEF t, Fits
      <3>6. Fits(s)
        BY <2>1, <2>3, <2>6, <3>5
      <3>7. QED
        BY <2>3, <2>6, <3>3, <3>4, <3>6
    <2>7. CASE e.kind = "issue.comment"
      <3>1. PICK c : c = Issue!PutItem(s.coll.comments, e)
        OBVIOUS
      <3>2. c = items
        <4>1. Issue!PutItem(s.coll.comments, e) = PutItem(s.coll.comments, e)
          BY Zenon DEF Issue!PutItem, PutItem, Issue!Given, Given, Issue!Put, Put,
                       Issue!Never, Never
        <4>2. QED
          BY <2>1, <2>7, <3>1, <4>1
      <3> HIDE DEF items
      <3>3. PICK n : n = Issue!Cardinality(DOMAIN c)
        OBVIOUS
      <3>4. PICK m : m = Issue!Put(Issue!Put(s.meta, "comment_count", n),
                                   "updated_at", e.id)
        OBVIOUS
      <3>5. Issue!Set(s, e, "comment_count", n).meta = m
        BY <2>1, <3>4 DEF Issue!Set, IsState
      <3>6. t = [meta |-> m, coll |-> Issue!Put(s.coll, "comments", c),
                 scratch |-> s.scratch]
        BY <1>1, <1>5, <2>7, <3>1, <3>3, <3>5 DEF Issue!Apply, Issue!Comment
      <3>7. /\ t.meta = m /\ t.coll = Issue!Put(s.coll, "comments", c)
            /\ t.scratch = s.scratch /\ IsState(t)
        BY <3>6 DEF IsState
      <3>8. "assignees" \in DOMAIN m /\ m.assignees = s.meta.assignees
        BY <2>1, <3>4 DEF Issue!Put
      <3>9. /\ "comments" \in DOMAIN Issue!Put(s.coll, "comments", c)
            /\ Issue!Put(s.coll, "comments", c).comments = c
        BY DEF Issue!Put
      <3> HIDE DEF t
      <3>10. Issue!Assignees(t) = Issue!Assignees(s)
        BY <3>7 DEF Issue!Assignees
      <3>11. QED
        BY <2>1, <2>7, <3>2, <3>7, <3>8, <3>9, <3>10
    <2>8. CASE e.kind = "issue.label"
      <3>1. t = Issue!SetBoth(s, e, "labels", Issue!AddRemove(Issue!Labels(s), e.data))
        BY <1>1, <1>5, <2>8 DEF Issue!Apply, Issue!Label
      <3>2. people = s.meta.assignees
        BY <2>8
      <3> HIDE DEF t, people, Fits
      <3>3. QED
        BY <2>4, <2>8, <3>1, <3>2
    <2>9. CASE e.kind = "issue.assign"
      <3>1. t = Issue!SetBoth(s, e, "assignees",
                              Issue!AddRemove(Issue!Assignees(s), e.data))
        BY <1>1, <1>5, <2>9 DEF Issue!Apply, Issue!Assign
      <3>2. Issue!AddRemove(Issue!Assignees(s), e.data) = people
        BY <2>1, <2>9 DEF Issue!AddRemove, AddRemove, Issue!Given, Given
      <3> HIDE DEF t, people, Fits
      <3>3. QED
        BY <2>4, <2>9, <3>1, <3>2
    <2>10. CASE e.kind = "issue.link"
      <3>1. t = Issue!SetBoth(s, e, "links", Issue!LinkEvent(Issue!Links(s), e.data))
        BY <1>1, <1>5, <2>10 DEF Issue!Apply, Issue!Link
      <3>2. people = s.meta.assignees
        BY <2>10
      <3> HIDE DEF t, people, Fits
      <3>3. QED
        BY <2>4, <2>10, <3>1, <3>2
    <2>11. CASE e.kind \notin {"issue.edit", "issue.status", "issue.comment",
                               "issue.label", "issue.assign", "issue.link"}
      <3>1. t = s
        BY <1>1, <1>5, <2>11 DEF Issue!Apply
      <3>2. s = [s EXCEPT !.meta = s.meta]
        BY <2>1 DEF IsState
      <3> HIDE DEF t, Fits
      <3>3. Fits(s)
        BY <2>1, <2>3, <2>11, <3>2
      <3>4. QED
        BY <3>1, <3>3
    <2>12. QED
      BY <2>5, <2>6, <2>7, <2>8, <2>9, <2>10, <2>11
  <1>6. QED
    BY <1>3, <1>4, <1>5

\* No issue yet.
LEMMA NewIssue == IssueState(NewState) /\ ~Created(NewState) /\ Comments(NewState) = <<>>
  <1>1. NewState.coll = <<>>
    BY DEF NewState
  <1>2. QED
    BY <1>1 DEF IssueState, IsState, NewState, Created, NoMeta, Comments, Given

-----------------------------------------------------------------------------
(* The registry: users, their keys, groups.                                *)

\* The users after an event, and the groups.
KeysAfter(keys, e) ==
    IF e.kind = "users.key_revoke" THEN [n \in DOMAIN keys |-> Verify!Revoked(keys[n], e)]
    ELSE IF \E k \in Range(keys) : k.pub = e.data.pub THEN keys
    ELSE Append(keys, Verify!NewKey(e))

UsersAfter(users, e) ==
    CASE e.kind = "users.user_set" ->
           Put(users, e.data.username,
               Over(Fields(e.data.fields, {"emails", "roles"}),
                    Given(users, e.data.username, Verify!NewUser)))
      [] e.kind \in {"users.key_add", "users.key_revoke"}
           /\ e.data.username \in DOMAIN users ->
           Put(users, e.data.username,
               Put(users[e.data.username], "keys",
                   KeysAfter(users[e.data.username].keys, e)))
      [] OTHER -> users

GroupsAfter(groups, e) ==
    CASE e.kind = "users.group_set" -> Put(groups, e.data.name, e.data.members)
      [] e.kind = "users.group_remove" ->
           [g \in DOMAIN groups \ {e.data.name} |-> groups[g]]
      [] OTHER -> groups

\* ensureUsersCollections shows nothing new.
LEMMA RegistryEnsured ==
    ASSUME NEW s, IsState(s)
    PROVE  LET t == Verify!Ensure(s) IN
           /\ IsState(t) /\ {"users", "groups"} \subseteq DOMAIN t.coll
           /\ t.coll.users = Verify!Users(s) /\ t.coll.groups = Verify!Groups(s)
           /\ Verify!Users(t) = Verify!Users(s) /\ Verify!Groups(t) = Verify!Groups(s)
  <1> DEFINE t == Verify!Ensure(s)
  <1>1. PICK c : c = Verify!Over(s.coll, [users |-> <<>>, groups |-> <<>>])
    OBVIOUS
  <1>2. t = [s EXCEPT !.coll = c]
    BY <1>1 DEF Verify!Ensure
  <1>3. t.coll = c /\ IsState(t)
    BY <1>2 DEF IsState
  <1>4. /\ {"users", "groups"} \subseteq DOMAIN c
        /\ c.users = Verify!Users(s) /\ c.groups = Verify!Groups(s)
    BY <1>1 DEF Verify!Over, Verify!Users, Verify!Groups, Verify!Given
  <1> HIDE DEF t
  <1>5. Verify!Users(t) = c.users /\ Verify!Groups(t) = c.groups
    BY <1>3, <1>4 DEF Verify!Users, Verify!Groups, Verify!Given
  <1>6. QED
    BY <1>3, <1>4, <1>5 DEF t

\* A reducer that puts a collection changes no other.
LEMMA CollectionPut ==
    ASSUME NEW s, IsState(s), NEW t, NEW name \in {"users", "groups"}, NEW v,
           t = [Verify!Ensure(s) EXCEPT !.coll = Verify!Put(Verify!Ensure(s).coll, name, v)]
    PROVE  /\ IsState(t)
           /\ Verify!Users(t) = IF name = "users" THEN v ELSE Verify!Users(s)
           /\ Verify!Groups(t) = IF name = "groups" THEN v ELSE Verify!Groups(s)
  <1> DEFINE u == Verify!Ensure(s)
  <1>1. /\ IsState(u) /\ {"users", "groups"} \subseteq DOMAIN u.coll
        /\ u.coll.users = Verify!Users(s) /\ u.coll.groups = Verify!Groups(s)
    BY RegistryEnsured
  <1> HIDE DEF u
  <1>2. PICK c : c = Verify!Put(u.coll, name, v)
    OBVIOUS
  <1>3. t = [u EXCEPT !.coll = c]
    BY <1>2 DEF u
  <1>4. t.coll = c /\ IsState(t)
    BY <1>1, <1>3 DEF IsState
  <1>5. /\ {"users", "groups"} \subseteq DOMAIN c
        /\ c.users = IF name = "users" THEN v ELSE Verify!Users(s)
        /\ c.groups = IF name = "groups" THEN v ELSE Verify!Groups(s)
    BY <1>1, <1>2 DEF Verify!Put
  <1>6. QED
    BY <1>4, <1>5 DEF Verify!Users, Verify!Groups, Verify!Given

\* What a reducer does to users and groups.
LEMMA RegistryStep ==
    ASSUME NEW s, IsState(s), NEW e
    PROVE  LET t == Verify!Apply(s, e) IN
           /\ IsState(t)
           /\ Verify!Users(t) = UsersAfter(Verify!Users(s), e)
           /\ Verify!Groups(t) = GroupsAfter(Verify!Groups(s), e)
  <1> DEFINE t == Verify!Apply(s, e)
             U == Verify!Users(s)
             G == Verify!Groups(s)
             u == Verify!Ensure(s)
             name == e.data.username
  <1>0. /\ \A f, k, v : Verify!Put(f, k, v) = Put(f, k, v)
        /\ \A f, g : Verify!Over(f, g) = Over(f, g)
        /\ \A f, g : Verify!Fields(f, g) = Fields(f, g)
        /\ \A f, k, v : Verify!Given(f, k, v) = Given(f, k, v)
        /\ \A f : Verify!Range(f) = Range(f)
    BY Zenon DEF Verify!Put, Put, Verify!Over, Over, Verify!Fields, Fields,
                 Verify!Given, Given, Verify!Range, Range
  <1>1. /\ IsState(u) /\ u.coll.users = U /\ u.coll.groups = G
        /\ Verify!Users(u) = U /\ Verify!Groups(u) = G
    BY RegistryEnsured
  <1>2. ASSUME NEW user, t = Verify!SetUser(s, name, user)
        PROVE  IsState(t) /\ Verify!Users(t) = Put(U, name, user) /\ Verify!Groups(t) = G
    <2>1. PICK v : v = Verify!Put(u.coll.users, name, user)
      OBVIOUS
    <2>2. Verify!SetUser(s, name, user) =
            [Verify!Ensure(s) EXCEPT !.coll = Verify!Put(Verify!Ensure(s).coll, "users", v)]
      BY <2>1 DEF Verify!SetUser
    <2>3. v = Put(U, name, user)
      BY <1>0, <1>1, <2>1, Zenon
    <2> HIDE DEF t
    <2>4. QED
      BY <1>2, <2>2, <2>3, CollectionPut
  <1>3. CASE e.kind = "users.user_set"
    <2>1. PICK user : user = Over(Fields(e.data.fields, {"emails", "roles"}),
                                  Given(U, name, Verify!NewUser))
      OBVIOUS
    <2>2. t = Verify!SetUser(s, name, user)
      <3>1. t = Verify!UserSet(s, e)
        BY <1>3 DEF Verify!Apply
      <3>2. user = Verify!Over(Verify!Fields(e.data.fields, {"emails", "roles"}),
                               Verify!Given(U, name, Verify!NewUser))
        BY <1>0, <2>1, Zenon
      <3>3. QED
        BY <3>1, <3>2, Zenon DEF Verify!UserSet
    <2>3. UsersAfter(U, e) = Put(U, name, user) /\ GroupsAfter(G, e) = G
      BY <1>3, <2>1 DEF UsersAfter, GroupsAfter
    <2>4. QED
      BY <1>2, <2>2, <2>3
  <1>4. CASE e.kind \in {"users.key_add", "users.key_revoke"} /\ name \notin DOMAIN U
    <2>1. t = u
      BY <1>4 DEF Verify!Apply, Verify!KeyAdd, Verify!KeyRevoke
    <2>2. UsersAfter(U, e) = U /\ GroupsAfter(G, e) = G
      BY <1>4 DEF UsersAfter, GroupsAfter
    <2> HIDE DEF t, u
    <2>3. QED
      BY <1>1, <2>1, <2>2 DEF t
  <1>5. CASE e.kind \in {"users.key_add", "users.key_revoke"} /\ name \in DOMAIN U
    <2>1. PICK keys : keys = U[name].keys
      OBVIOUS
    <2>2. PICK after : after = KeysAfter(keys, e)
      OBVIOUS
    <2>3. t = Verify!SetKeys(s, name, after)
      <3>1. CASE e.kind = "users.key_add"
        <4>1. after = IF \E k \in Verify!Range(keys) : k.pub = e.data.pub THEN keys
                      ELSE Append(keys, Verify!NewKey(e))
          BY <1>0, <2>2, <3>1 DEF KeysAfter
        <4>2. t = Verify!KeyAdd(s, e)
          BY <3>1 DEF Verify!Apply
        <4>3. QED
          BY <1>5, <2>1, <4>1, <4>2, Zenon DEF Verify!KeyAdd
      <3>2. CASE e.kind = "users.key_revoke"
        <4>1. after = [n \in DOMAIN keys |-> Verify!Revoked(keys[n], e)]
          BY <2>2, <3>2 DEF KeysAfter
        <4>2. t = Verify!KeyRevoke(s, e)
          BY <3>2 DEF Verify!Apply
        <4>3. QED
          BY <1>5, <2>1, <4>1, <4>2, Zenon DEF Verify!KeyRevoke
      <3>3. QED
        BY <1>5, <3>1, <3>2
    <2>4. PICK user : user = Put(U[name], "keys", after)
      OBVIOUS
    <2>5. t = Verify!SetUser(s, name, user)
      BY <1>0, <2>3, <2>4, Zenon DEF Verify!SetKeys
    <2>6. UsersAfter(U, e) = Put(U, name, user) /\ GroupsAfter(G, e) = G
      BY <1>5, <2>1, <2>2, <2>4 DEF UsersAfter, GroupsAfter
    <2>7. QED
      BY <1>2, <2>5, <2>6
  <1>6. ASSUME NEW v, t = [Verify!Ensure(s) EXCEPT
                             !.coll = Verify!Put(Verify!Ensure(s).coll, "groups", v)]
        PROVE  IsState(t) /\ Verify!Users(t) = U /\ Verify!Groups(t) = v
    <2> HIDE DEF t
    <2> QED
      BY <1>6, CollectionPut
  <1>7. CASE e.kind = "users.group_set"
    <2>1. PICK v : v = Verify!Put(u.coll.groups, e.data.name, e.data.members)
      OBVIOUS
    <2>2. t = [Verify!Ensure(s) EXCEPT !.coll = Verify!Put(Verify!Ensure(s).coll, "groups", v)]
      BY <1>7, <2>1 DEF Verify!Apply, Verify!GroupSet
    <2>3. v = Put(G, e.data.name, e.data.members)
      BY <1>0, <1>1, <2>1, Zenon
    <2>4. UsersAfter(U, e) = U /\ GroupsAfter(G, e) = v
      BY <1>7, <2>3 DEF UsersAfter, GroupsAfter
    <2>5. QED
      BY <1>6, <2>2, <2>4
  <1>8. CASE e.kind = "users.group_remove"
    <2>1. PICK v : v = [g \in DOMAIN G \ {e.data.name} |-> G[g]]
      OBVIOUS
    <2>2. t = [Verify!Ensure(s) EXCEPT !.coll = Verify!Put(Verify!Ensure(s).coll, "groups", v)]
      BY <1>1, <1>8, <2>1 DEF Verify!Apply, Verify!GroupRemove
    <2>3. UsersAfter(U, e) = U /\ GroupsAfter(G, e) = v
      BY <1>8, <2>1 DEF UsersAfter, GroupsAfter
    <2>4. QED
      BY <1>6, <2>2, <2>3
  <1>9. CASE e.kind = "users.policy_set"
    <2>1. PICK v : v = Verify!Put(u.scratch, "policy", e.data.rules)
      OBVIOUS
    <2>2. t = [u EXCEPT !.scratch = v]
      BY <1>9, <2>1 DEF Verify!Apply, Verify!PolicySet
    <2> HIDE DEF u
    <2>3. t.coll = u.coll /\ IsState(t)
      BY <1>1, <2>2 DEF IsState
    <2> HIDE DEF t
    <2>4. Verify!Users(t) = U /\ Verify!Groups(t) = G
      BY <1>1, <2>3 DEF Verify!Users, Verify!Groups
    <2>5. UsersAfter(U, e) = U /\ GroupsAfter(G, e) = G
      BY <1>9 DEF UsersAfter, GroupsAfter
    <2>6. QED
      BY <2>3, <2>4, <2>5 DEF t
  <1>10. CASE e.kind \notin {"users.user_set", "users.key_add", "users.key_revoke",
                             "users.group_set", "users.group_remove", "users.policy_set"}
    <2>1. t = s
      BY <1>10 DEF Verify!Apply
    <2>2. UsersAfter(U, e) = U /\ GroupsAfter(G, e) = G
      BY <1>10 DEF UsersAfter, GroupsAfter
    <2> HIDE DEF t
    <2>3. QED
      BY <2>1, <2>2 DEF t
  <1>11. QED
    BY <1>3, <1>4, <1>5, <1>7, <1>8, <1>9, <1>10

\* Nobody yet.
LEMMA NewRegistry ==
    IsState(NewState) /\ Verify!Users(NewState) = <<>> /\ Verify!Groups(NewState) = <<>>
  <1>1. NewState.coll = <<>> /\ IsState(NewState)
    BY DEF NewState, IsState
  <1>2. QED
    BY <1>1 DEF Verify!Users, Verify!Groups, Verify!Given

-----------------------------------------------------------------------------
(* The notification stream.                                                *)

Posts(s) == Given(s.coll, "posts", <<>>)

\* Only a post adds one.
LEMMA StreamStep ==
    ASSUME NEW s, IsState(s), NEW e
    PROVE  LET t == Notify!Apply(s, e) IN
           /\ IsState(t)
           /\ DOMAIN Posts(t) = IF e.kind = "notify.post" THEN DOMAIN Posts(s) \cup {e.id}
                                ELSE DOMAIN Posts(s)
  <1> DEFINE t == Notify!Apply(s, e)
             u == Notify!Ensure(s)
  <1>1. /\ IsState(u) /\ "posts" \in DOMAIN u.coll
        /\ u.coll.posts = Posts(s) /\ Posts(u) = Posts(s)
    <2>1. PICK m : m = IF Notify!Created(s) THEN s.meta ELSE [seeded |-> TRUE]
      OBVIOUS
    <2>2. PICK c : c = Notify!Over(s.coll, [posts |-> <<>>])
      OBVIOUS
    <2>3. u = [meta |-> m, coll |-> c, scratch |-> s.scratch]
      BY <2>1, <2>2 DEF Notify!Ensure
    <2>4. u.coll = c /\ IsState(u)
      BY <2>3 DEF IsState
    <2>5. "posts" \in DOMAIN c /\ c.posts = Posts(s)
      BY <2>2 DEF Notify!Over, Posts, Given
    <2> HIDE DEF u
    <2>6. QED
      BY <2>4, <2>5 DEF Posts, Given
  <1>2. CASE e.kind = "notify.post"
    <2>1. PICK post : post = [actor |-> e.actor, targets |-> e.data.targets]
      OBVIOUS
    <2>2. PICK all : all = Notify!Put(u.coll.posts, e.id, post)
      OBVIOUS
    <2>3. t = [u EXCEPT !.coll = Notify!Put(u.coll, "posts", all)]
      BY <1>2, <2>1, <2>2 DEF Notify!Apply, Notify!Post
    <2> HIDE DEF u
    <2>4. t.coll = Notify!Put(u.coll, "posts", all) /\ IsState(t)
      BY <1>1, <2>3 DEF IsState
    <2> HIDE DEF t
    <2>5. Posts(t) = all
      BY <2>4 DEF Notify!Put, Posts, Given
    <2>6. DOMAIN all = DOMAIN Posts(s) \cup {e.id}
      BY <1>1, <2>2 DEF Notify!Put
    <2>7. QED
      BY <1>2, <2>4, <2>5, <2>6 DEF t
  <1>3. CASE e.kind = "notify.ack"
    <2>1. PICK v : t = u \/ t = [u EXCEPT !.scratch = v]
      BY <1>3 DEF Notify!Apply, Notify!Ack
    <2> HIDE DEF u
    <2>2. t.coll = u.coll /\ IsState(t)
      BY <1>1, <2>1 DEF IsState
    <2> HIDE DEF t
    <2>3. QED
      BY <1>1, <1>3, <2>2 DEF Posts, t
  <1>4. CASE e.kind \notin {"notify.post", "notify.ack"}
    <2>1. t = s
      BY <1>4 DEF Notify!Apply
    <2> HIDE DEF t
    <2>2. QED
      BY <1>4, <2>1 DEF t
  <1>5. QED
    BY <1>2, <1>3, <1>4

\* No notification yet.
LEMMA NewStream == IsState(NewState) /\ DOMAIN Posts(NewState) = {}
  <1>1. NewState.coll = <<>> /\ IsState(NewState)
    BY DEF NewState, IsState
  <1>2. QED
    BY <1>1 DEF Posts, Given

-----------------------------------------------------------------------------
(* What the fold of a chain is.                                            *)

\* The commits of a chain are events.
LEMMA ChainEvents ==
    ASSUME NEW s, IsChain(s)
    PROVE  /\ IsEvents(Range(s)) /\ \A c \in Range(s) : WellFormed(c)
           /\ \A c \in Range(s) : /\ c.id \in Nat \ {0} /\ c.actor \in Nat \ {0}
  <1>1. IsList(s) /\ \A n \in DOMAIN s : WellFormed(s[n])
    BY DEF IsChain
  <1>2. /\ DOMAIN s = 1 .. Len(s) /\ IsFiniteSet(Range(s))
        /\ \A x \in Range(s) : \E n \in 1 .. Len(s) : s[n] = x
    BY <1>1, ListParts
  <1>3. \A c \in Range(s) : WellFormed(c)
    BY <1>1, <1>2
  <1>4. \A c \in Range(s) : c.id \in Nat \ {0} /\ c.actor \in Nat \ {0}
    BY <1>3 DEF WellFormed
  <1>5. \A c, d \in Range(s) : c.id = d.id => c = d
    <2> SUFFICES ASSUME NEW c \in Range(s), NEW d \in Range(s), c.id = d.id
                 PROVE  c = d
      OBVIOUS
    <2>1. PICK m, n \in 1 .. Len(s) : s[m] = c /\ s[n] = d
      BY <1>2
    <2>2. m # n => s[m].id # s[n].id
      BY <1>2 DEF IsChain
    <2>3. QED
      BY <2>1, <2>2
  <1>6. QED
    BY <1>2, <1>3, <1>4, <1>5 DEF IsEvents

TaskFoldOf(E) == FoldFrom(Task!Apply, NewState, E)
IssueFoldOf(E) == FoldFrom(Issue!Apply, NewState, E)
RegistryFoldOf(E) == FoldFrom(Verify!Apply, NewState, E)
StreamFoldOf(E) == FoldFrom(Notify!Apply, NewState, E)

HasKind(E, kind) == \E e \in E : e.kind = kind

\* A task is there if some event creates it, and one of the actors made it.
LEMMA TaskEvents ==
    ASSUME NEW E, IsEvents(E), NEW A, \A e \in E : e.actor \in A
    PROVE  /\ TaskState(TaskFoldOf(E))
           /\ Created(TaskFoldOf(E)) <=> HasKind(E, "task.create")
           /\ Created(TaskFoldOf(E)) => TaskFoldOf(E).meta.created_by \in A
  <1> DEFINE Fine(F) ==
               /\ TaskState(TaskFoldOf(F))
               /\ Created(TaskFoldOf(F)) <=> HasKind(F, "task.create")
               /\ Created(TaskFoldOf(F)) => TaskFoldOf(F).meta.created_by \in A
             Good == {F \in SUBSET E : Fine(F)}
  <1>1. {} \in Good
    BY TaskFold, NewTask DEF TaskFoldOf, HasKind
  <1>2. ASSUME NEW e \in E, NEW F \in SUBSET E, F \in Good, IsEvents(F),
               F = {d \in E : d.id < e.id}
        PROVE  F \cup {e} \in Good
    <2>1. e.id \in Nat /\ \A d \in F : d.id < e.id
      BY <1>2 DEF IsEvents
    <2>2. TaskFoldOf(F \cup {e}) = IF IsCheckpoint(e) THEN TaskFoldOf(F)
                                   ELSE Task!Apply(TaskFoldOf(F), e)
      BY <1>2, <2>1, TaskFold DEF TaskFoldOf
    <2>3. HasKind(F \cup {e}, "task.create") <=>
            HasKind(F, "task.create") \/ e.kind = "task.create"
      BY DEF HasKind
    <2>4. Fine(F)
      BY <1>2
    <2>5. PICK s : s = TaskFoldOf(F)
      OBVIOUS
    <2>6. Fine(F \cup {e})
      <3>1. CASE IsCheckpoint(e)
        BY <2>2, <2>3, <2>4, <3>1 DEF IsCheckpoint
      <3>2. CASE ~IsCheckpoint(e)
        <4>1. PICK t : t = Task!Apply(s, e)
          OBVIOUS
        <4>2. /\ TaskState(t)
              /\ Created(t) <=> Created(s) \/ e.kind = "task.create"
              /\ ~Created(s) /\ e.kind = "task.create" => t.meta.created_by = e.actor
              /\ Created(s) => t.meta.created_by = s.meta.created_by
          <5>1. TaskState(s)
            BY <2>4, <2>5
          <5>2. LET r == Task!Apply(s, e) IN
                /\ TaskState(r)
                /\ Created(r) <=> Created(s) \/ e.kind = "task.create"
                /\ ~Created(s) /\ e.kind = "task.create" =>
                     /\ r.meta.created_by = e.actor
                     /\ r.meta.owner = Given(e.data, "owner", e.actor)
                /\ Created(s) =>
                     /\ r.meta.created_by = s.meta.created_by
                     /\ r.meta.owner = IF e.kind = "task.reassign" THEN e.data.owner
                                       ELSE s.meta.owner
            BY <5>1, TaskStep, Zenon
          <5>3. QED
            BY <4>1, <5>2, Zenon
        <4>3. TaskFoldOf(F \cup {e}) = t
          BY <2>2, <2>5, <3>2, <4>1
        <4>4. QED
          BY <2>3, <2>4, <2>5, <4>2, <4>3
      <3>3. QED
        BY <3>1, <3>2
    <2>7. QED
      BY <2>6
  <1>3. E \in Good
    <2> HIDE DEF Good
    <2> QED
      BY <1>1, <1>2, EventInduction
  <1>4. QED
    BY <1>3

IsItem(item) == DOMAIN item = {"author", "supersedes", "superseded_by"}

\* A comment more, and perhaps a mark on another.
LEMMA ItemPut ==
    ASSUME NEW items, NEW e, NEW A, e.actor \in A,
           \A i \in DOMAIN items : IsItem(items[i]) /\ items[i].author \in A
    PROVE  LET after == PutItem(items, e) IN
           /\ DOMAIN after = DOMAIN items \cup {e.id}
           /\ \A i \in DOMAIN after : IsItem(after[i]) /\ after[i].author \in A
  <1>1. PICK prior : prior = Given(e.data, "supersedes", Never)
    OBVIOUS
  <1>2. PICK marked :
          marked = IF prior \in DOMAIN items
                   THEN [items EXCEPT ![prior] = [@ EXCEPT !.superseded_by = e.id]]
                   ELSE items
    OBVIOUS
  <1>3. PutItem(items, e) =
          Put(marked, e.id, [author |-> e.actor, supersedes |-> prior,
                             superseded_by |-> Never])
    BY <1>1, <1>2 DEF PutItem
  <1>4. DOMAIN marked = DOMAIN items
    BY <1>2
  <1>5. ASSUME NEW i \in DOMAIN items
        PROVE  IsItem(marked[i]) /\ marked[i].author \in A
    <2>1. CASE prior = i
      <3>1. marked[i] = [items[i] EXCEPT !.superseded_by = e.id]
        BY <1>2, <2>1
      <3>2. QED
        BY <3>1 DEF IsItem
    <2>2. CASE prior # i
      <3>1. marked[i] = items[i]
        BY <1>2, <2>2
      <3>2. QED
        BY <3>1
    <2>3. QED
      BY <2>1, <2>2
  <1>6. QED
    BY <1>3, <1>4, <1>5 DEF Put, IsItem

\* An issue is there if some event creates it, and actors wrote its comments.
LEMMA IssueEvents ==
    ASSUME NEW E, IsEvents(E), NEW A, \A e \in E : e.actor \in A
    PROVE  LET s == IssueFoldOf(E) IN
           /\ IssueState(s)
           /\ Created(s) <=> HasKind(E, "issue.create")
           /\ \A i \in DOMAIN Comments(s) : Comments(s)[i].author \in A
  <1> DEFINE Fine(F, s) ==
               /\ IssueState(s)
               /\ Created(s) <=> HasKind(F, "issue.create")
               /\ \A i \in DOMAIN Comments(s) :
                    IsItem(Comments(s)[i]) /\ Comments(s)[i].author \in A
             Good == {F \in SUBSET E : Fine(F, IssueFoldOf(F))}
  <1>1. {} \in Good
    <2>1. DOMAIN <<>> = {}
      OBVIOUS
    <2>2. QED
      BY <2>1, IssueFold, NewIssue DEF IssueFoldOf, HasKind
  <1>2. ASSUME NEW e \in E, NEW F \in SUBSET E, F \in Good, IsEvents(F),
               F = {d \in E : d.id < e.id}
        PROVE  F \cup {e} \in Good
    <2>1. e.id \in Nat /\ \A d \in F : d.id < e.id
      BY <1>2 DEF IsEvents
    <2>2. IssueFoldOf(F \cup {e}) = IF IsCheckpoint(e) THEN IssueFoldOf(F)
                                    ELSE Issue!Apply(IssueFoldOf(F), e)
      BY <1>2, <2>1, IssueFold DEF IssueFoldOf
    <2>3. HasKind(F \cup {e}, "issue.create") <=>
            HasKind(F, "issue.create") \/ e.kind = "issue.create"
      BY DEF HasKind
    <2>4. PICK s : s = IssueFoldOf(F)
      OBVIOUS
    <2>5. Fine(F, s)
      BY <1>2, <2>4
    <2>6. PICK t : t = IssueFoldOf(F \cup {e})
      OBVIOUS
    <2>7. Fine(F \cup {e}, t)
      <3>1. CASE IsCheckpoint(e)
        <4>1. t = s /\ e.kind # "issue.create"
          BY <2>2, <2>4, <2>6, <3>1 DEF IsCheckpoint
        <4>2. QED
          BY <2>3, <2>5, <4>1
      <3>2. CASE ~IsCheckpoint(e)
        <4>1. t = Issue!Apply(s, e)
          BY <2>2, <2>4, <2>6, <3>2
        <4>2. /\ IssueState(t)
              /\ Created(t) <=> Created(s) \/ e.kind = "issue.create"
              /\ Comments(t) = IF Created(s) /\ e.kind = "issue.comment"
                               THEN PutItem(Comments(s), e)
                               ELSE Comments(s)
          BY <2>5, <4>1, IssueStep
        <4>3. \A i \in DOMAIN Comments(t) :
                IsItem(Comments(t)[i]) /\ Comments(t)[i].author \in A
          <5>1. \A i \in DOMAIN PutItem(Comments(s), e) :
                  /\ IsItem(PutItem(Comments(s), e)[i])
                  /\ PutItem(Comments(s), e)[i].author \in A
            BY <2>5, ItemPut
          <5>2. QED
            BY <2>5, <4>2, <5>1
        <4>4. QED
          BY <2>3, <2>5, <4>2, <4>3
      <3>3. QED
        BY <3>1, <3>2
    <2>8. QED
      BY <2>6, <2>7
  <1>3. E \in Good
    <2> HIDE DEF Good
    <2> QED
      BY <1>1, <1>2, EventInduction
  <1>4. QED
    BY <1>3

\* What the list of unread notifications can hold.
LEMMA StreamEvents ==
    ASSUME NEW E, IsEvents(E)
    PROVE  DOMAIN Posts(StreamFoldOf(E)) \subseteq {e.id : e \in E}
  <1> DEFINE Fine(F, s) == IsState(s) /\ DOMAIN Posts(s) \subseteq {e.id : e \in F}
             Good == {F \in SUBSET E : Fine(F, StreamFoldOf(F))}
  <1>1. {} \in Good
    BY StreamFold, NewStream DEF StreamFoldOf
  <1>2. ASSUME NEW e \in E, NEW F \in SUBSET E, F \in Good, IsEvents(F),
               F = {d \in E : d.id < e.id}
        PROVE  F \cup {e} \in Good
    <2>1. e.id \in Nat /\ \A d \in F : d.id < e.id
      BY <1>2 DEF IsEvents
    <2>2. StreamFoldOf(F \cup {e}) = IF IsCheckpoint(e) THEN StreamFoldOf(F)
                                     ELSE Notify!Apply(StreamFoldOf(F), e)
      BY <1>2, <2>1, StreamFold DEF StreamFoldOf
    <2>3. PICK s : s = StreamFoldOf(F)
      OBVIOUS
    <2>4. Fine(F, s)
      BY <1>2, <2>3
    <2>5. PICK t : t = StreamFoldOf(F \cup {e})
      OBVIOUS
    <2>6. IsState(t) /\ DOMAIN Posts(t) \subseteq DOMAIN Posts(s) \cup {e.id}
      <3>1. CASE IsCheckpoint(e)
        BY <2>2, <2>3, <2>4, <2>5, <3>1
      <3>2. CASE ~IsCheckpoint(e)
        <4>1. t = Notify!Apply(s, e)
          BY <2>2, <2>3, <2>5, <3>2
        <4>2. QED
          BY <2>4, <4>1, StreamStep
      <3>3. QED
        BY <3>1, <3>2
    <2>7. Fine(F \cup {e}, t)
      BY <2>4, <2>6
    <2>8. QED
      BY <2>5, <2>7
  <1>3. E \in Good
    <2> HIDE DEF Good
    <2> QED
      BY <1>1, <1>2, EventInduction
  <1>4. QED
    BY <1>3

\* Users, their keys and groups of a registry.
IsKey(k) == DOMAIN k = {"pub", "added_at", "revoked_at"}
IsUser(u) ==
    /\ DOMAIN u = {"emails", "roles", "keys"} /\ u.emails \subseteq Nat \ {0}
    /\ IsList(u.keys) /\ \A k \in Range(u.keys) : IsKey(k)
AreUsers(users) == \A n \in DOMAIN users : n \in Name /\ IsUser(users[n])
AreGroups(groups) == \A g \in DOMAIN groups : IsList(groups[g])

\* The same list of keys, one of them perhaps with a later state, or one more.
LEMMA KeysChange ==
    ASSUME NEW keys, IsList(keys), \A k \in Range(keys) : IsKey(k), NEW e
    PROVE  LET after == KeysAfter(keys, e) IN
           /\ IsList(after) /\ \A k \in Range(after) : IsKey(k)
           /\ \A k \in Range(keys) : \E l \in Range(after) : l.pub = k.pub
           /\ e.kind = "users.key_add" => \E l \in Range(after) : l.pub = e.data.pub
  <1>0. Len(keys) \in Nat /\ DOMAIN keys = 1 .. Len(keys)
    BY ListParts
  <1>1. CASE e.kind = "users.key_revoke"
    <2>1. PICK after : after = [n \in DOMAIN keys |-> Verify!Revoked(keys[n], e)]
      OBVIOUS
    <2>2. KeysAfter(keys, e) = after
      BY <1>1, <2>1 DEF KeysAfter
    <2>3. \A n \in DOMAIN keys : keys[n] \in Range(keys)
      BY DEF Range
    <2>4. \A k : IsKey(k) => /\ IsKey(Verify!Revoked(k, e))
                             /\ Verify!Revoked(k, e).pub = k.pub
      BY DEF IsKey, Verify!Revoked
    <2>5. Range(after) = {Verify!Revoked(keys[n], e) : n \in DOMAIN keys}
      BY <2>1 DEF Range
    <2>6. \A k \in Range(keys) : \E n \in DOMAIN keys : k = keys[n]
      BY DEF Range
    <2>7. IsList(after)
      <3>1. PICK l \in Nat : l = Len(keys)
        BY <1>0
      <3>2. after \in [1 .. l -> Range(after)]
        BY <1>0, <2>1, <2>5, <3>1
      <3>3. after \in Seq(Range(after))
        BY <3>2
      <3>4. QED
        BY <3>3 DEF IsList
    <2>8. \A k \in Range(after) : IsKey(k)
      BY <2>3, <2>4, <2>5
    <2>9. ASSUME NEW k \in Range(keys)
          PROVE  \E l \in Range(after) : l.pub = k.pub
      <3>1. PICK n \in DOMAIN keys : k = keys[n]
        BY <2>6
      <3>2. Verify!Revoked(keys[n], e) \in Range(after)
        BY <2>5
      <3>3. QED
        BY <2>4, <3>1, <3>2
    <2>10. QED
      BY <1>1, <2>2, <2>7, <2>8, <2>9
  <1>2. CASE e.kind # "users.key_revoke" /\ \E k \in Range(keys) : k.pub = e.data.pub
    <2>1. KeysAfter(keys, e) = keys
      BY <1>2 DEF KeysAfter
    <2>2. QED
      BY <1>2, <2>1
  <1>3. CASE e.kind # "users.key_revoke" /\ ~\E k \in Range(keys) : k.pub = e.data.pub
    <2>1. PICK new : new = Verify!NewKey(e)
      OBVIOUS
    <2>2. KeysAfter(keys, e) = Append(keys, new)
      BY <1>3, <2>1 DEF KeysAfter
    <2>3. IsKey(new) /\ new.pub = e.data.pub
      BY <2>1 DEF IsKey, Verify!NewKey
    <2>4. IsList(Append(keys, new)) /\ Range(Append(keys, new)) = Range(keys) \cup {new}
      BY Appended
    <2>5. QED
      BY <2>2, <2>3, <2>4
  <1>4. QED
    BY <1>1, <1>2, <1>3

\* What an event leaves of a registry, and what it adds.
LEMMA UsersChange ==
    ASSUME NEW users, AreUsers(users), NEW e, WellFormed(e)
    PROVE  LET after == UsersAfter(users, e) IN
           /\ AreUsers(after)
           /\ \A n \in DOMAIN users :
                /\ n \in DOMAIN after
                /\ \A k \in Range(users[n].keys) :
                     \E l \in Range(after[n].keys) : l.pub = k.pub
           /\ e.kind = "users.user_set" => e.data.username \in DOMAIN after
           /\ e.kind = "users.key_add" /\ e.data.username \in DOMAIN users =>
                \E l \in Range(after[e.data.username].keys) : l.pub = e.data.pub
  <1> DEFINE name == e.data.username
  <1>1. CASE e.kind = "users.user_set"
    <2>1. PICK old : old = Given(users, name, Verify!NewUser)
      OBVIOUS
    <2>2. PICK user : user = Over(Fields(e.data.fields, {"emails", "roles"}), old)
      OBVIOUS
    <2>3. UsersAfter(users, e) = Put(users, name, user)
      BY <1>1, <2>1, <2>2 DEF UsersAfter
    <2>4. IsUser(old) /\ (name \in DOMAIN users => old = users[name])
      <3>1. CASE name \in DOMAIN users
        BY <2>1, <3>1 DEF Given, AreUsers
      <3>2. CASE name \notin DOMAIN users
        <4>1. old = [emails |-> {}, roles |-> {}, keys |-> <<>>]
          BY <2>1, <3>2 DEF Given, Verify!NewUser
        <4>2. DOMAIN old = {"emails", "roles", "keys"} /\ old.emails = {} /\ old.keys = <<>>
          BY <4>1
        <4>3. QED
          BY <3>2, <4>2, EmptyList DEF IsUser
      <3>3. QED
        BY <3>1, <3>2
    <2>5. name \in Name /\ Given(e.data.fields, "emails", {}) \subseteq Nat \ {0}
      BY <1>1 DEF WellFormed, Name
    <2>6. DOMAIN user = {"emails", "roles", "keys"} /\ user.keys = old.keys
      BY <2>2, <2>4 DEF Over, Fields, IsUser
    <2>7. user.emails \subseteq Nat \ {0}
      <3>1. CASE "emails" \in DOMAIN e.data.fields
        <4>1. user.emails = e.data.fields.emails
          BY <2>2, <3>1 DEF Over, Fields
        <4>2. QED
          BY <2>5, <3>1, <4>1 DEF Given
      <3>2. CASE "emails" \notin DOMAIN e.data.fields
        <4>1. user.emails = old.emails
          BY <2>2, <2>4, <3>2 DEF Over, Fields, IsUser
        <4>2. QED
          BY <2>4, <4>1 DEF IsUser
      <3>3. QED
        BY <3>1, <3>2
    <2>8. IsUser(user)
      BY <2>4, <2>6, <2>7 DEF IsUser
    <2>9. QED
      BY <1>1, <2>3, <2>4, <2>5, <2>6, <2>8 DEF AreUsers, Put
  <1>2. CASE e.kind \in {"users.key_add", "users.key_revoke"} /\ name \in DOMAIN users
    <2>1. PICK keys : keys = users[name].keys
      OBVIOUS
    <2>2. PICK after : after = KeysAfter(keys, e)
      OBVIOUS
    <2>3. PICK user : user = Put(users[name], "keys", after)
      OBVIOUS
    <2>4. UsersAfter(users, e) = Put(users, name, user)
      BY <1>2, <2>1, <2>2, <2>3 DEF UsersAfter
    <2>5. name \in Name /\ IsUser(users[name])
      BY <1>2 DEF AreUsers
    <2>6. /\ IsList(after) /\ \A k \in Range(after) : IsKey(k)
          /\ \A k \in Range(keys) : \E l \in Range(after) : l.pub = k.pub
          /\ e.kind = "users.key_add" => \E l \in Range(after) : l.pub = e.data.pub
      BY <2>1, <2>2, <2>5, KeysChange DEF IsUser
    <2>7. DOMAIN user = {"emails", "roles", "keys"} /\ user.keys = after
          /\ user.emails = users[name].emails
      BY <2>3, <2>5 DEF Put, IsUser
    <2>8. IsUser(user)
      BY <2>5, <2>6, <2>7 DEF IsUser
    <2>9. /\ \A n \in DOMAIN users : n \in DOMAIN Put(users, name, user)
          /\ \A n \in DOMAIN Put(users, name, user) :
               Put(users, name, user)[n] = IF n = name THEN user ELSE users[n]
          /\ DOMAIN Put(users, name, user) = DOMAIN users
      BY <1>2 DEF Put
    <2>10. AreUsers(UsersAfter(users, e))
      BY <2>4, <2>5, <2>8, <2>9 DEF AreUsers
    <2>11. \A n \in DOMAIN users :
             \A k \in Range(users[n].keys) :
               \E l \in Range(Put(users, name, user)[n].keys) : l.pub = k.pub
      BY <2>1, <2>6, <2>7, <2>9
    <2>12. QED
      BY <1>2, <2>4, <2>6, <2>7, <2>9, <2>10, <2>11
  <1>3. CASE /\ e.kind # "users.user_set"
             /\ ~(e.kind \in {"users.key_add", "users.key_revoke"} /\ name \in DOMAIN users)
    <2>1. UsersAfter(users, e) = users
      BY <1>3 DEF UsersAfter
    <2>2. QED
      BY <1>3, <2>1
  <1>4. QED
    BY <1>1, <1>2, <1>3

\* Groups stay groups.
LEMMA GroupsChange ==
    ASSUME NEW groups, AreGroups(groups), NEW e, WellFormed(e)
    PROVE  AreGroups(GroupsAfter(groups, e))
  <1>1. CASE e.kind = "users.group_set"
    <2>1. GroupsAfter(groups, e) = Put(groups, e.data.name, e.data.members)
      BY <1>1 DEF GroupsAfter
    <2>2. IsList(e.data.members)
      BY <1>1 DEF WellFormed
    <2>3. QED
      BY <2>1, <2>2 DEF AreGroups, Put
  <1>2. CASE e.kind = "users.group_remove"
    BY <1>2 DEF GroupsAfter, AreGroups
  <1>3. CASE e.kind \notin {"users.group_set", "users.group_remove"}
    BY <1>3 DEF GroupsAfter
  <1>4. QED
    BY <1>1, <1>2, <1>3

HasPub(users, name, pub) ==
    name \in DOMAIN users /\ \E k \in Range(users[name].keys) : k.pub = pub

\* A registry is one, and a key that was added to a user set before is in it, whatever
\* else was done to the user.
LEMMA RegistryEvents ==
    ASSUME NEW E, IsEvents(E), \A e \in E : WellFormed(e)
    PROVE  LET s == RegistryFoldOf(E) IN
           /\ IsState(s) /\ AreUsers(Verify!Users(s)) /\ AreGroups(Verify!Groups(s))
           /\ \A u, a \in E :
                /\ u.kind = "users.user_set" /\ a.kind = "users.key_add"
                /\ u.data.username = a.data.username /\ u.id < a.id
                => HasPub(Verify!Users(s), a.data.username, a.data.pub)
  <1> DEFINE Fine(F, s) ==
               /\ IsState(s) /\ AreUsers(Verify!Users(s)) /\ AreGroups(Verify!Groups(s))
               /\ \A u \in F : u.kind = "users.user_set" =>
                    u.data.username \in DOMAIN Verify!Users(s)
               /\ \A u, a \in F :
                    /\ u.kind = "users.user_set" /\ a.kind = "users.key_add"
                    /\ u.data.username = a.data.username /\ u.id < a.id
                    => HasPub(Verify!Users(s), a.data.username, a.data.pub)
             Good == {F \in SUBSET E : Fine(F, RegistryFoldOf(F))}
  <1>1. {} \in Good
    <2>1. DOMAIN <<>> = {}
      OBVIOUS
    <2>2. QED
      BY <2>1, RegistryFold, NewRegistry DEF RegistryFoldOf, AreUsers, AreGroups
  <1>2. ASSUME NEW e \in E, NEW F \in SUBSET E, F \in Good, IsEvents(F),
               F = {d \in E : d.id < e.id}
        PROVE  F \cup {e} \in Good
    <2>1. e.id \in Nat /\ (\A d \in F : d.id < e.id) /\ \A d \in F : d.id \in Nat
      BY <1>2 DEF IsEvents
    <2>2. RegistryFoldOf(F \cup {e}) = IF IsCheckpoint(e) THEN RegistryFoldOf(F)
                                       ELSE Verify!Apply(RegistryFoldOf(F), e)
      BY <1>2, <2>1, RegistryFold DEF RegistryFoldOf
    <2>3. PICK s : s = RegistryFoldOf(F)
      OBVIOUS
    <2>4. Fine(F, s)
      BY <1>2, <2>3
    <2>5. PICK t : t = RegistryFoldOf(F \cup {e})
      OBVIOUS
    <2>6. PICK U, V : U = Verify!Users(s) /\ V = Verify!Users(t)
      OBVIOUS
    <2>7. Fine(F \cup {e}, t)
      <3>1. CASE IsCheckpoint(e)
        <4>1. t = s /\ e.kind \notin {"users.user_set", "users.key_add"}
          BY <2>2, <2>3, <2>5, <3>1 DEF IsCheckpoint
        <4>2. QED
          BY <2>4, <4>1
      <3>2. CASE ~IsCheckpoint(e)
        <4>1. t = Verify!Apply(s, e)
          BY <2>2, <2>3, <2>5, <3>2
        <4>2. /\ IsState(t) /\ V = UsersAfter(U, e)
              /\ Verify!Groups(t) = GroupsAfter(Verify!Groups(s), e)
          BY <2>4, <2>6, <4>1, RegistryStep
        <4>3. /\ AreUsers(V)
              /\ \A n \in DOMAIN U :
                   /\ n \in DOMAIN V
                   /\ \A k \in Range(U[n].keys) : \E l \in Range(V[n].keys) : l.pub = k.pub
              /\ e.kind = "users.user_set" => e.data.username \in DOMAIN V
              /\ e.kind = "users.key_add" /\ e.data.username \in DOMAIN U =>
                   \E l \in Range(V[e.data.username].keys) : l.pub = e.data.pub
          BY <2>4, <2>6, <4>2, UsersChange
        <4>4. AreGroups(Verify!Groups(t))
          BY <2>4, <4>2, GroupsChange
        <4>5. \A u \in F \cup {e} : u.kind = "users.user_set" =>
                u.data.username \in DOMAIN V
          BY <2>4, <2>6, <4>3
        <4>6. ASSUME NEW u \in F \cup {e}, NEW a \in F \cup {e},
                     u.kind = "users.user_set", a.kind = "users.key_add",
                     u.data.username = a.data.username, u.id < a.id
              PROVE  HasPub(V, a.data.username, a.data.pub)
          <5>1. u # e
            <6> SUFFICES ASSUME u = e PROVE FALSE
              OBVIOUS
            <6>1. a # e
              BY <4>6
            <6>2. a.id < e.id /\ a.id \in Nat
              BY <2>1, <6>1
            <6>3. QED
              BY <2>1, <4>6, <6>2
          <5>2. u \in F /\ u.data.username \in DOMAIN U
            BY <2>4, <2>6, <4>6, <5>1
          <5>3. CASE a = e
            BY <4>3, <4>6, <5>2, <5>3 DEF HasPub
          <5>4. CASE a # e
            <6>1. HasPub(U, a.data.username, a.data.pub)
              BY <2>4, <2>6, <4>6, <5>2, <5>4
            <6>2. PICK k \in Range(U[a.data.username].keys) : k.pub = a.data.pub
              BY <6>1 DEF HasPub
            <6>3. QED
              BY <4>3, <6>1, <6>2 DEF HasPub
          <5>5. QED
            BY <5>3, <5>4
        <4>7. QED
          BY <2>6, <4>2, <4>3, <4>4, <4>5, <4>6
      <3>3. QED
        BY <3>1, <3>2
    <2>8. QED
      BY <2>5, <2>7
  <1>3. E \in Good
    <2> HIDE DEF Good
    <2> QED
      BY <1>1, <1>2, EventInduction
  <1>4. QED
    BY <1>3

-----------------------------------------------------------------------------
(* Chains of every step.                                                   *)

IdBound(r) == menu.ids + (IF r = "stream" THEN Len(chain[r]) ELSE 0)

Populated(ref, create, kinds) ==
    menu.kinds \cap kinds # {} => HasCreate(chain[ref], create)

ChainsTyped ==
    /\ menu \in Menus
    /\ chain = [r \in Ref |-> chain[r]]
    /\ \A r \in Ref : IsChain(chain[r]) /\ \A c \in Range(chain[r]) : c.id <= IdBound(r)
    /\ Populated("task", "task.create", {"task.reassign", "task.status", "task.note"})
    /\ Populated("issue", "issue.create", {"issue.assign", "issue.comment"})

ConfigTyped == config \in [Proc -> [email : Nat \ {0}, key : Nat]]

NoticesTyped == DOMAIN notice \subseteq UsedIds

\* A commit more on one chain.
Appends(ref, c) ==
    /\ chain' = [chain EXCEPT ![ref] = Append(@, c)]
    /\ WellFormed(c) /\ c.id \notin UsedIds
    /\ \/ c.id <= menu.ids
       \/ ref = "stream" /\ c.id = menu.ids + Len(chain[ref]) + 1

\* What a menu is.
LEMMA MenuIs ==
    ASSUME menu \in Menus
    PROVE  /\ menu.ids \in Nat /\ menu.people \subseteq Nat \ {0} /\ menu.keys \subseteq Nat
           /\ "agent" \in menu.kinds => \E k \in menu.keys : \A l \in menu.keys : k >= l
           /\ \A s \in menu.mentions \cup menu.groups : IsList(s)
           /\ DOMAIN menu.start \subseteq Ref
           /\ \A r \in DOMAIN menu.start :
                IsChain(menu.start[r]) /\ \A c \in Range(menu.start[r]) : c.id <= menu.ids
           /\ StartsWith(menu, "task", "task.create",
                         {"task.reassign", "task.status", "task.note"})
           /\ StartsWith(menu, "issue", "issue.create", {"issue.assign", "issue.comment"})
           /\ menu.lists \subseteq {"notify", "notify unread", "log"}
           /\ menu.limits \subseteq Int
  BY CommandsAssumption, ServerAssumption, Zenon

\* The IDs that are in use.
LEMMA UsedIs ==
    ASSUME ChainsTyped
    PROVE  /\ UsedIds \subseteq Nat \ {0}
           /\ \A r \in Ref : \A c \in Range(chain[r]) : c.id \in UsedIds
           /\ \A i \in UsedIds : \E r \in Ref : \E c \in Range(chain[r]) : c.id = i
           /\ menu.ids + Len(chain["stream"]) + 1 \in Nat \ UsedIds
  <1>1. \A i \in UsedIds : \E r \in Ref : \E c \in Range(chain[r]) : c.id = i
    BY DEF UsedIds
  <1>2. \A r \in Ref : \A c \in Range(chain[r]) : c.id \in UsedIds
    BY DEF UsedIds
  <1>3. \A r \in Ref : \A c \in Range(chain[r]) : c.id \in Nat \ {0}
    BY ChainEvents DEF ChainsTyped
  <1>4. PICK n \in Nat : n = Len(chain["stream"])
    BY ListParts DEF ChainsTyped, IsChain, Ref
  <1>5. PICK m \in Nat : m = menu.ids
    BY MenuIs DEF ChainsTyped
  <1>6. \A r \in Ref : \A c \in Range(chain[r]) : c.id <= m + n
    <2> SUFFICES ASSUME NEW r \in Ref, NEW c \in Range(chain[r])
                 PROVE  c.id <= m + n
      OBVIOUS
    <2>1. c.id <= IdBound(r) /\ c.id \in Nat
      BY <1>3 DEF ChainsTyped
    <2>2. IdBound(r) = m + n \/ IdBound(r) = m + 0
      BY <1>4, <1>5 DEF IdBound
    <2>3. QED
      BY <2>1, <2>2
  <1>7. m + n + 1 \notin UsedIds
    <2> SUFFICES ASSUME m + n + 1 \in UsedIds PROVE FALSE
      OBVIOUS
    <2>1. PICK r \in Ref : \E c \in Range(chain[r]) : c.id = m + n + 1
      BY <1>1
    <2>2. PICK c \in Range(chain[r]) : c.id = m + n + 1
      BY <2>1
    <2>3. m + n + 1 <= m + n
      BY <1>6, <2>2
    <2>4. QED
      BY <2>3
  <1>8. UsedIds \subseteq Nat \ {0}
    BY <1>1, <1>3
  <1>9. QED
    BY <1>1, <1>2, <1>4, <1>5, <1>7, <1>8

\* The chains with a commit more.
LEMMA AppendsIs ==
    ASSUME ChainsTyped, NEW ref \in Ref, NEW c, Appends(ref, c), menu' = menu
    PROVE  /\ ChainsTyped'
           /\ \A r \in Ref : chain'[r] = IF r = ref THEN Append(chain[ref], c) ELSE chain[r]
           /\ \A r \in Ref : Range(chain'[r]) = IF r = ref THEN Range(chain[ref]) \cup {c}
                                                ELSE Range(chain[r])
           /\ Len(chain[ref]) \in Nat /\ Len(chain'[ref]) = Len(chain[ref]) + 1
           /\ UsedIds' = UsedIds \cup {c.id}
  <1>1. \A r \in Ref : chain'[r] = IF r = ref THEN Append(chain[ref], c) ELSE chain[r]
    BY DEF ChainsTyped, Appends
  <1>2. chain' = [r \in Ref |-> chain'[r]]
    BY DEF ChainsTyped, Appends
  <1>3. IsList(chain[ref])
    BY DEF ChainsTyped, IsChain
  <1>4. PICK s, t : s = chain[ref] /\ t = Append(chain[ref], c)
    OBVIOUS
  <1>5. /\ Len(s) \in Nat /\ DOMAIN s = 1 .. Len(s)
        /\ IsList(t) /\ Len(t) = Len(s) + 1 /\ DOMAIN t = 1 .. Len(s) + 1
        /\ t[Len(s) + 1] = c /\ \A n \in 1 .. Len(s) : t[n] = s[n]
        /\ Range(t) = Range(s) \cup {c}
    BY <1>3, <1>4, Appended
  <1>6. \A r \in Ref : Range(chain'[r]) = IF r = ref THEN Range(chain[ref]) \cup {c}
                                          ELSE Range(chain[r])
    BY <1>1, <1>4, <1>5
  <1>7. IsChain(t)
    <2>1. PICK l \in Nat : l = Len(s)
      BY <1>5
    <2>2. IsChain(s)
      BY <1>4 DEF ChainsTyped
    <2>3. \A n \in 1 .. l : t[n].id \in UsedIds
      <3>1. \A n \in 1 .. l : s[n] \in Range(s)
        BY <1>5, <2>1 DEF Range
      <3>2. QED
        BY <1>4, <1>5, <2>1, <3>1, UsedIs
    <2>4. WellFormed(c) /\ c.id \notin UsedIds
      BY DEF Appends
    <2>5. ASSUME NEW m \in DOMAIN t, NEW n \in DOMAIN t
          PROVE  WellFormed(t[n]) /\ (m # n => t[m].id # t[n].id)
      <3>1. (m \in 1 .. l \/ m = l + 1) /\ (n \in 1 .. l \/ n = l + 1)
        BY <1>5, <2>1
      <3>2. WellFormed(t[n])
        BY <1>5, <2>1, <2>2, <2>4, <3>1 DEF IsChain
      <3>3. CASE m \in 1 .. l /\ n \in 1 .. l
        <4>1. m # n => s[m].id # s[n].id
          BY <1>5, <2>1, <2>2, <3>3 DEF IsChain
        <4>2. QED
          BY <1>5, <2>1, <3>2, <3>3, <4>1
      <3>4. CASE m \in 1 .. l /\ n = l + 1
        BY <1>5, <2>1, <2>3, <2>4, <3>2, <3>4
      <3>5. CASE m = l + 1 /\ n \in 1 .. l
        BY <1>5, <2>1, <2>3, <2>4, <3>2, <3>5
      <3>6. CASE m = l + 1 /\ n = l + 1
        BY <3>2, <3>6
      <3>7. QED
        BY <3>1, <3>3, <3>4, <3>5, <3>6
    <2>6. QED
      BY <1>5, <2>5 DEF IsChain
  <1>8. ASSUME NEW r \in Ref
        PROVE  IsChain(chain'[r]) /\ \A d \in Range(chain'[r]) : d.id <= IdBound(r)'
    <2>1. CASE r # ref
      <3>1. chain'[r] = chain[r] /\ IdBound(r)' = IdBound(r)
        BY <1>1, <2>1 DEF IdBound
      <3>2. QED
        BY <3>1 DEF ChainsTyped
    <2>2. CASE r = ref
      <3>1. chain'[r] = t
        BY <1>1, <1>4, <2>2
      <3>2. PICK l, m \in Nat : l = Len(s) /\ m = menu.ids
        BY <1>5, MenuIs DEF ChainsTyped
      <3>3. /\ IdBound(r) = m + (IF r = "stream" THEN l ELSE 0)
            /\ IdBound(r)' = m + (IF r = "stream" THEN l + 1 ELSE 0)
        BY <1>4, <1>5, <2>2, <3>1, <3>2 DEF IdBound
      <3>4. ASSUME NEW d \in Range(s)
            PROVE  d.id <= IdBound(r)'
        <4>1. d.id <= IdBound(r) /\ d.id \in Nat
          BY <1>4, <2>2, ChainEvents DEF ChainsTyped
        <4>2. QED
          BY <3>2, <3>3, <4>1
      <3>5. c.id <= IdBound(r)'
        <4>1. c.id \in Nat
          BY DEF Appends, WellFormed
        <4>2. c.id <= m \/ (r = "stream" /\ c.id = m + l + 1)
          BY <1>4, <2>2, <3>2 DEF Appends
        <4>3. QED
          BY <3>2, <3>3, <4>1, <4>2
      <3>6. QED
        BY <1>5, <1>7, <3>1, <3>4, <3>5
    <2>3. QED
      BY <2>1, <2>2
  <1>9. \A r \in Ref : \A kind : HasCreate(chain[r], kind) => HasCreate(chain'[r], kind)
    BY <1>6 DEF HasCreate
  <1>10. ChainsTyped'
    <2>1. /\ Populated("task", "task.create", {"task.reassign", "task.status", "task.note"})'
          /\ Populated("issue", "issue.create", {"issue.assign", "issue.comment"})'
      BY <1>9 DEF ChainsTyped, Populated, Ref
    <2>2. QED
      BY <1>2, <1>8, <2>1 DEF ChainsTyped
  <1>11. UsedIds' = UsedIds \cup {c.id}
    <2>1. \A i : i \in UsedIds <=> \E r \in Ref : \E d \in Range(chain[r]) : d.id = i
      BY DEF UsedIds
    <2>2. \A i : i \in UsedIds' <=> \E r \in Ref : \E d \in Range(chain'[r]) : d.id = i
      BY DEF UsedIds
    <2>3. ASSUME NEW i \in UsedIds'
          PROVE  i \in UsedIds \cup {c.id}
      <3>1. PICK r \in Ref : \E d \in Range(chain'[r]) : d.id = i
        BY <2>2
      <3>2. PICK d \in Range(chain'[r]) : d.id = i
        BY <3>1
      <3>3. d \in Range(chain[r]) \/ d = c
        BY <1>6, <3>2
      <3>4. QED
        BY <2>1, <3>2, <3>3
    <2>4. ASSUME NEW i \in UsedIds
          PROVE  i \in UsedIds'
      <3>1. PICK r \in Ref : \E d \in Range(chain[r]) : d.id = i
        BY <2>1
      <3>2. PICK d \in Range(chain[r]) : d.id = i
        BY <3>1
      <3>3. d \in Range(chain'[r])
        BY <1>6, <3>2
      <3>4. QED
        BY <2>2, <3>2, <3>3
    <2>5. c.id \in UsedIds'
      <3>1. c \in Range(chain'[ref])
        BY <1>6
      <3>2. QED
        BY <2>2, <3>1
    <2>6. QED
      BY <2>3, <2>4, <2>5
  <1>12. QED
    BY <1>1, <1>4, <1>5, <1>6, <1>10, <1>11

\* Writer.Append with an ID that is not in use.
LEMMA WriteAppends ==
    ASSUME ChainsTyped, ConfigTyped, NEW p \in Proc, NEW ref \in Ref, NEW i, NEW kind,
           NEW data, Write(p, ref, i, kind, data), i \in FreshIds,
           kind = "users.user_set" =>
             /\ data.username \in Name
             /\ Given(data.fields, "emails", {}) \subseteq Nat \ {0},
           kind = "users.group_set" => IsList(data.members)
    PROVE  Appends(ref, Commit(p, i, kind, data)) /\ kind \in menu.kinds
  <1>1. menu.ids \in Nat
    BY MenuIs DEF ChainsTyped
  <1>2. i \in Nat \ {0} /\ i <= menu.ids /\ i \notin UsedIds
    BY <1>1 DEF FreshIds
  <1>3. Me(p) \in Nat \ {0} /\ config[p].key \in Nat
    BY DEF ConfigTyped, Me
  <1>4. PICK c : c = Commit(p, i, kind, data)
    OBVIOUS
  <1>5. /\ DOMAIN c = {"id", "kind", "actor", "data", "key"}
        /\ c.id = i /\ c.kind = kind /\ c.actor = Me(p) /\ c.data = data
        /\ c.key = config[p].key
    BY <1>4 DEF Commit
  <1>6. WellFormed(c)
    BY <1>2, <1>3, <1>5 DEF WellFormed, Name
  <1>7. QED
    BY <1>2, <1>4, <1>5, <1>6 DEF Appends, Write

\* IDs that a process may draw are on no chain.
LEMMA NewIdIsFresh == NewIds \subseteq FreshIds
  BY DEF NewIds, FreshIds

-----------------------------------------------------------------------------
(* Jobs of every step.                                                     *)

\* A job of a process with email me, where N are the writes with a notice.
JobOk(j, me, N) ==
    /\ j.at \in {"idle", "change", "names", "group", "tell", "user", "key", "ack"}
    /\ j.at = "idle" => j = Idle
    /\ j.at = "change" =>
         /\ DOMAIN j = {"at", "ref", "kind", "data", "new", "before", "seen"}
         /\ \/ j.ref = "task" /\ j.kind = "task.reassign"
            \/ j.ref = "issue" /\ j.kind = "issue.assign"
         /\ j.new \subseteq Nat \ {0}
    /\ j.at \in {"names", "group"} =>
         /\ DOMAIN j = {"at", "cause", "names", "members", "found"}
         /\ IsList(j.names) /\ IsList(j.members) /\ j.found \subseteq Nat \ {0}
         /\ j.cause \in N /\ (j.at = "group" => j.names # <<>>)
    /\ j.at = "tell" =>
         /\ DOMAIN j = {"at", "ref", "cause", "todo", "again"}
         /\ j.todo # {} /\ j.todo \subseteq Nat \ {0, me} /\ j.cause \in N
         /\ j.again \subseteq j.todo
    /\ j.at = "user" => DOMAIN j = {"at", "name", "pub"} /\ j.name \in Name
    /\ j.at = "key" =>
         DOMAIN j = {"at", "name", "pub", "after"} /\ j.name \in Name /\ j.after \in Nat
    /\ j.at = "ack" => DOMAIN j = {"at", "todo"}

JobsTyped ==
    /\ job = [p \in Proc |-> job[p]]
    /\ \A p \in Proc : JobOk(job[p], Me(p), DOMAIN notice)

FilesTyped ==
    /\ keyFile \in [Name -> Nat]
    /\ \A s \in setups : s.name \in Name

Typed == ChainsTyped /\ ConfigTyped /\ NoticesTyped /\ FilesTyped /\ JobsTyped

\* What a step of a process is: chains stay, or one of them has a commit more;
\* what the others are at stays.
Moves(p, j) ==
    /\ menu' = menu /\ config' = config /\ FilesTyped'
    /\ job' = [job EXCEPT ![p] = j] /\ JobOk(j, Me(p), DOMAIN notice')
Stays == chain' = chain /\ DOMAIN notice' = DOMAIN notice
Grows ==
    \E ref \in Ref : \E c :
        /\ Appends(ref, c)
        /\ DOMAIN notice \subseteq DOMAIN notice'
        /\ DOMAIN notice' \subseteq DOMAIN notice \cup {c.id}

\* Nobody loses a notice that a job refers to.
LEMMA JobKept ==
    ASSUME NEW j, NEW me, NEW N, NEW M, N \subseteq M, JobOk(j, me, N)
    PROVE  JobOk(j, me, M)
  BY DEF JobOk

\* Chains after a step.
LEMMA GrowsIs ==
    ASSUME Typed, menu' = menu, Stays \/ Grows
    PROVE  /\ ChainsTyped' /\ NoticesTyped' /\ UsedIds \subseteq UsedIds'
           /\ DOMAIN notice \subseteq DOMAIN notice'
  <1>1. CASE Stays
    <2>1. ChainsTyped'
      BY <1>1 DEF Typed, Stays, ChainsTyped, IdBound, Populated
    <2>2. UsedIds' = UsedIds
      BY <1>1 DEF Stays, UsedIds
    <2>3. QED
      BY <1>1, <2>1, <2>2 DEF Typed, NoticesTyped, Stays
  <1>2. CASE Grows
    <2>1. PICK ref, c : /\ ref \in Ref /\ Appends(ref, c)
                         /\ DOMAIN notice \subseteq DOMAIN notice'
                         /\ DOMAIN notice' \subseteq DOMAIN notice \cup {c.id}
      BY <1>2 DEF Grows
    <2>2. ChainsTyped' /\ UsedIds' = UsedIds \cup {c.id}
      BY <2>1, AppendsIs DEF Typed
    <2>3. QED
      BY <2>1, <2>2 DEF Typed, NoticesTyped
  <1>3. QED
    BY <1>1, <1>2

\* A step of that kind leaves everything well formed.
LEMMA MovesTyped ==
    ASSUME Typed, NEW p \in Proc, NEW j, Moves(p, j), Stays \/ Grows
    PROVE  Typed'
  <1>1. /\ ChainsTyped' /\ NoticesTyped'
        /\ DOMAIN notice \subseteq DOMAIN notice'
    BY GrowsIs DEF Moves
  <1>2. ConfigTyped' /\ \A q \in Proc : Me(q)' = Me(q)
    BY DEF Typed, ConfigTyped, Moves, Me
  <1>3. job' = [q \in Proc |-> job'[q]] /\ \A q \in Proc : job'[q] = IF q = p THEN j ELSE job[q]
    BY DEF Typed, JobsTyped, Moves
  <1>4. ASSUME NEW q \in Proc
        PROVE  JobOk(job'[q], Me(q)', DOMAIN notice')
    <2>1. CASE q = p
      BY <1>2, <1>3, <2>1 DEF Moves
    <2>2. CASE q # p
      <3>1. JobOk(job[q], Me(q), DOMAIN notice)
        BY DEF Typed, JobsTyped
      <3>2. JobOk(job[q], Me(q), DOMAIN notice')
        BY <1>1, <3>1, JobKept
      <3>3. QED
        BY <1>2, <1>3, <2>2, <3>2
    <2>3. QED
      BY <2>1, <2>2
  <1>5. QED
    BY <1>1, <1>2, <1>3, <1>4 DEF Typed, JobsTyped, Moves

\* What is left to tell.
LEMMA ToTellOk ==
    ASSUME NEW p, NEW ref, NEW i, NEW people, people \subseteq Nat \ {0}, NEW again,
           NEW N, i \in N
    PROVE  /\ JobOk(ToTell(p, ref, i, people, again), Me(p), N)
           /\ JobOk(Announce(p, ref, i, people, again), Me(p), N)
  <1>1. ASSUME NEW P, P \subseteq Nat \ {0}
        PROVE  JobOk(ToTell(p, ref, i, P, again), Me(p), N)
    <2>1. CASE P \ {Me(p)} = {}
      BY <2>1 DEF ToTell, JobOk, Idle
    <2>2. CASE P \ {Me(p)} # {}
      <3>1. PICK j : j = [at |-> "tell", ref |-> ref, cause |-> i, todo |-> P \ {Me(p)},
                          again |-> (P \ {Me(p)}) \cap again]
        OBVIOUS
      <3>2. /\ ToTell(p, ref, i, P, again) = j
            /\ DOMAIN j = {"at", "ref", "cause", "todo", "again"} /\ j.at = "tell"
            /\ j.todo = P \ {Me(p)} /\ j.again = (P \ {Me(p)}) \cap again /\ j.cause = i
        BY <2>2, <3>1 DEF ToTell
      <3>3. JobOk(j, Me(p), N)
        BY <1>1, <2>2, <3>2 DEF JobOk
      <3>4. QED
        BY <3>2, <3>3
    <2>3. QED
      BY <2>1, <2>2
  <1>2. JobOk(ToTell(p, ref, i, people, again), Me(p), N)
    BY <1>1
  <1>3. JobOk(ToTell(p, ref, i, IF "auto" \in menu.on THEN people ELSE {}, again), Me(p), N)
    <2>1. JobOk(ToTell(p, ref, i, {}, again), Me(p), N)
      BY <1>1
    <2>2. QED
      BY <1>2, <2>1
  <1>4. QED
    BY <1>2, <1>3 DEF Announce

\* A process with nothing to do.
LEMMA IdleOk == \A me, N : JobOk(Idle, me, N)
  BY DEF JobOk, Idle

-----------------------------------------------------------------------------
(* What each step does.                                                    *)

\* What commands find in the registry, a task or an issue.
LEMMA RegistryNow ==
    ASSUME NEW commits, IsChain(commits)
    PROVE  LET s == RegistryOf(commits) IN
           /\ AreUsers(Verify!Users(s)) /\ AreGroups(Verify!Groups(s))
           /\ \A name : ResolveToEmail(s, name) \in Nat
           /\ \A name : IsList(Given(Verify!Groups(s), name, <<>>))
  <1>1. PICK s : s = RegistryOf(commits)
    OBVIOUS
  <1>2. s = RegistryFoldOf(Range(commits))
    BY <1>1 DEF RegistryOf, RegistryFoldOf
  <1>3. AreUsers(Verify!Users(s)) /\ AreGroups(Verify!Groups(s))
    BY <1>2, ChainEvents, RegistryEvents
  <1>4. ASSUME NEW name
        PROVE  ResolveToEmail(s, name) \in Nat
    <2>1. CASE name \in DOMAIN Verify!Users(s) /\ Verify!Users(s)[name].emails # {}
      <3>1. PICK S : S = Verify!Users(s)[name].emails
        OBVIOUS
      <3>2. S \subseteq Nat \ {0} /\ S # {}
        BY <1>3, <2>1, <3>1 DEF AreUsers, IsUser
      <3>3. Min(S) \in S
        BY <3>2, Smallest
      <3>4. ResolveToEmail(s, name) = Min(S)
        BY <2>1, <3>1 DEF ResolveToEmail
      <3>5. QED
        BY <3>2, <3>3, <3>4
    <2>2. CASE ~(name \in DOMAIN Verify!Users(s) /\ Verify!Users(s)[name].emails # {})
      BY <2>2 DEF ResolveToEmail, NoEmail
    <2>3. QED
      BY <2>1, <2>2
  <1>5. ASSUME NEW name
        PROVE  IsList(Given(Verify!Groups(s), name, <<>>))
    BY <1>3, EmptyList DEF AreGroups, Given
  <1>6. QED
    BY <1>1, <1>3, <1>4, <1>5

\* What commands find in a task
LEMMA TaskNow ==
    ASSUME NEW commits, IsChain(commits)
    PROVE  LET s == TaskOf(commits) IN
           /\ TaskState(s)
           /\ Created(s) <=> HasCreate(commits, "task.create")
           /\ Created(s) => s.meta.created_by \in Nat \ {0}
  <1>1. PICK s : s = TaskOf(commits)
    OBVIOUS
  <1>2. s = TaskFoldOf(Range(commits))
    BY <1>1 DEF TaskOf, TaskFoldOf
  <1>3. /\ IsEvents(Range(commits))
        /\ \A e \in Range(commits) : e.actor \in Nat \ {0}
    BY ChainEvents
  <1>4. /\ TaskState(s) /\ (Created(s) <=> HasKind(Range(commits), "task.create"))
        /\ Created(s) => s.meta.created_by \in Nat \ {0}
    BY <1>2, <1>3, TaskEvents
  <1>5. QED
    BY <1>1, <1>4 DEF HasKind, HasCreate

\* and in an issue.
LEMMA IssueNow ==
    ASSUME NEW commits, IsChain(commits)
    PROVE  LET s == IssueOf(commits) IN
           /\ IssueState(s)
           /\ Created(s) <=> HasCreate(commits, "issue.create")
           /\ \A i \in DOMAIN Comments(s) : Comments(s)[i].author \in Nat \ {0}
  <1>1. PICK s : s = IssueOf(commits)
    OBVIOUS
  <1>2. s = IssueFoldOf(Range(commits))
    BY <1>1 DEF IssueOf, IssueFoldOf
  <1>3. /\ IsEvents(Range(commits))
        /\ \A e \in Range(commits) : e.actor \in Nat \ {0}
    BY ChainEvents
  <1>4. /\ IssueState(s) /\ (Created(s) <=> HasKind(Range(commits), "issue.create"))
        /\ \A i \in DOMAIN Comments(s) : Comments(s)[i].author \in Nat \ {0}
    BY <1>2, <1>3, IssueEvents
  <1>5. QED
    BY <1>1, <1>4 DEF HasKind, HasCreate

\* Readings.
LEMMA TaskShowMoves ==
    ASSUME Typed, NEW p \in Proc, TaskShow(p)
    PROVE  \E j : Moves(p, j) /\ Stays
  <1>1. PICK owner \in menu.people :
          job' = [job EXCEPT ![p] =
                   [at |-> "change", ref |-> "task", kind |-> "task.reassign",
                    data |-> [owner |-> owner], new |-> {owner},
                    before |-> {TaskOf(chain["task"]).meta.owner},
                    seen |-> Len(chain["task"])]]
    BY DEF TaskShow
  <1>2. PICK j : j = [at |-> "change", ref |-> "task", kind |-> "task.reassign",
                      data |-> [owner |-> owner], new |-> {owner},
                      before |-> {TaskOf(chain["task"]).meta.owner},
                      seen |-> Len(chain["task"])]
    OBVIOUS
  <1>3. /\ DOMAIN j = {"at", "ref", "kind", "data", "new", "before", "seen"}
        /\ j.at = "change" /\ j.ref = "task" /\ j.kind = "task.reassign" /\ j.new = {owner}
    BY <1>2
  <1>4. owner \in Nat \ {0}
    BY MenuIs DEF Typed, ChainsTyped
  <1>5. JobOk(j, Me(p), DOMAIN notice')
    BY <1>3, <1>4 DEF JobOk
  <1>6. QED
    BY <1>1, <1>2, <1>5 DEF TaskShow, Moves, Stays, Typed, FilesTyped

\* issue assign, up to its write.
LEMMA IssueShowMoves ==
    ASSUME Typed, NEW p \in Proc, IssueShow(p)
    PROVE  \E j : Moves(p, j) /\ Stays
  <1>1. PICK add, remove, twice \in SUBSET menu.people :
          job' = [job EXCEPT ![p] =
                   [at |-> "change", ref |-> "issue", kind |-> "issue.assign",
                    data |-> [add |-> add, remove |-> remove, twice |-> twice],
                    new |-> add,
                    before |-> IssueOf(chain["issue"]).meta.assignees,
                    seen |-> Len(chain["issue"])]]
    BY DEF IssueShow
  <1>2. PICK j : j = [at |-> "change", ref |-> "issue", kind |-> "issue.assign",
                      data |-> [add |-> add, remove |-> remove, twice |-> twice],
                    new |-> add,
                      before |-> IssueOf(chain["issue"]).meta.assignees,
                      seen |-> Len(chain["issue"])]
    OBVIOUS
  <1>3. /\ DOMAIN j = {"at", "ref", "kind", "data", "new", "before", "seen"}
        /\ j.at = "change" /\ j.ref = "issue" /\ j.kind = "issue.assign" /\ j.new = add
    BY <1>2
  <1>4. add \subseteq Nat \ {0}
    BY MenuIs DEF Typed, ChainsTyped
  <1>5. JobOk(j, Me(p), DOMAIN notice')
    BY <1>3, <1>4 DEF JobOk
  <1>6. QED
    BY <1>1, <1>2, <1>5 DEF IssueShow, Moves, Stays, Typed, FilesTyped

\* A reading of the registry for a mention.
LEMMA ReadsMoves ==
    ASSUME Typed, NEW p \in Proc, NEW j, Reads(p, j), JobOk(j, Me(p), DOMAIN notice)
    PROVE  Moves(p, j) /\ Stays
  <1>1. DOMAIN notice' = DOMAIN notice
    BY DEF Reads
  <1>2. QED
    BY <1>1 DEF Reads, Moves, Stays, Typed, FilesTyped

\* A name of a message is looked up,
LEMMA ResolveNameMoves ==
    ASSUME Typed, NEW p \in Proc, ResolveName(p)
    PROVE  \E j : Moves(p, j) /\ Stays
  <1>1. PICK j, email : /\ j = job[p]
                        /\ email = ResolveToEmail(RegistryOf(chain["registry"]), Head(j.names))
    OBVIOUS
  <1>2. /\ j.at = "names" /\ j.names # <<>> /\ j.members = <<>>
        /\ Reads(p, IF email # NoEmail
                    THEN [Found(j, email) EXCEPT !.names = Tail(@)]
                    ELSE [j EXCEPT !.at = "group"])
    BY <1>1 DEF ResolveName
  <1>3. JobOk(j, Me(p), DOMAIN notice)
    BY <1>1 DEF Typed, JobsTyped
  <1>4. email \in Nat
    BY <1>1, RegistryNow DEF Typed, ChainsTyped, Ref
  <1>5. IsList(Tail(j.names))
    BY <1>2, <1>3, ListParts DEF JobOk
  <1>6. PICK k, g : /\ k = [Found(j, email) EXCEPT !.names = Tail(@)]
                    /\ g = [j EXCEPT !.at = "group"]
    OBVIOUS
  <1>7. /\ DOMAIN k = DOMAIN j /\ k.at = j.at /\ k.cause = j.cause
        /\ k.names = Tail(j.names) /\ k.members = j.members
        /\ k.found = (j.found \cup {email}) \ {NoEmail}
    BY <1>2, <1>3, <1>6 DEF JobOk, Found
  <1>8. /\ DOMAIN g = DOMAIN j /\ g.at = "group" /\ g.cause = j.cause
        /\ g.names = j.names /\ g.members = j.members /\ g.found = j.found
    BY <1>2, <1>3, <1>6 DEF JobOk
  <1>9. JobOk(k, Me(p), DOMAIN notice)
    BY <1>2, <1>3, <1>4, <1>5, <1>7 DEF JobOk, NoEmail
  <1>10. JobOk(g, Me(p), DOMAIN notice)
    BY <1>2, <1>3, <1>8 DEF JobOk
  <1>11. QED
    BY <1>2, <1>6, <1>9, <1>10, ReadsMoves

\* the group of that name,
LEMMA ResolveGroupMoves ==
    ASSUME Typed, NEW p \in Proc, ResolveGroup(p)
    PROVE  \E j : Moves(p, j) /\ Stays
  <1>1. PICK j, l : /\ j = job[p]
                    /\ l = Given(Verify!Groups(RegistryOf(chain["registry"])), Head(j.names), <<>>)
    OBVIOUS
  <1>2. PICK k : k = [j EXCEPT !.at = "names", !.names = Tail(@), !.members = l]
    OBVIOUS
  <1>3. j.at = "group" /\ Reads(p, k)
    BY <1>1, <1>2 DEF ResolveGroup
  <1>4. JobOk(j, Me(p), DOMAIN notice)
    BY <1>1 DEF Typed, JobsTyped
  <1>5. IsList(l)
    BY <1>1, RegistryNow DEF Typed, ChainsTyped, Ref
  <1>6. IsList(Tail(j.names))
    BY <1>3, <1>4, ListParts DEF JobOk
  <1>7. /\ DOMAIN k = DOMAIN j /\ k.at = "names" /\ k.cause = j.cause
        /\ k.names = Tail(j.names) /\ k.members = l /\ k.found = j.found
    BY <1>2, <1>3, <1>4 DEF JobOk
  <1>8. JobOk(k, Me(p), DOMAIN notice)
    BY <1>3, <1>4, <1>5, <1>6, <1>7 DEF JobOk
  <1>9. QED
    BY <1>3, <1>8, ReadsMoves

\* and its members,
LEMMA ResolveMemberMoves ==
    ASSUME Typed, NEW p \in Proc, ResolveMember(p)
    PROVE  \E j : Moves(p, j) /\ Stays
  <1>1. PICK j, email :
          /\ j = job[p]
          /\ email = ResolveToEmail(RegistryOf(chain["registry"]), Head(j.members))
    OBVIOUS
  <1>2. PICK k : k = [Found(j, email) EXCEPT !.members = Tail(@)]
    OBVIOUS
  <1>3. j.at = "names" /\ j.members # <<>> /\ Reads(p, k)
    BY <1>1, <1>2 DEF ResolveMember
  <1>4. JobOk(j, Me(p), DOMAIN notice)
    BY <1>1 DEF Typed, JobsTyped
  <1>5. email \in Nat
    BY <1>1, RegistryNow DEF Typed, ChainsTyped, Ref
  <1>6. IsList(Tail(j.members))
    BY <1>3, <1>4, ListParts DEF JobOk
  <1>7. /\ DOMAIN k = DOMAIN j /\ k.at = j.at /\ k.cause = j.cause
        /\ k.names = j.names /\ k.members = Tail(j.members)
        /\ k.found = (j.found \cup {email}) \ {NoEmail}
    BY <1>2, <1>3, <1>4 DEF JobOk, Found
  <1>8. JobOk(k, Me(p), DOMAIN notice)
    BY <1>3, <1>4, <1>5, <1>6, <1>7 DEF JobOk, NoEmail
  <1>9. QED
    BY <1>3, <1>8, ReadsMoves

\* and what was found is told.
LEMMA SendMentionsMoves ==
    ASSUME Typed, NEW p \in Proc, SendMentions(p)
    PROVE  \E j : Moves(p, j) /\ Stays
  <1>1. PICK k, j : k = job[p] /\ j = ToTell(p, "chat", k.cause, k.found, {})
    OBVIOUS
  <1>2. k.at = "names" /\ job' = [job EXCEPT ![p] = j]
    BY <1>1 DEF SendMentions
  <1>3. JobOk(k, Me(p), DOMAIN notice)
    BY <1>1 DEF Typed, JobsTyped
  <1>4. JobOk(j, Me(p), DOMAIN notice)
    <2>1. k.found \subseteq Nat \ {0} /\ k.cause \in DOMAIN notice
      BY <1>2, <1>3 DEF JobOk
    <2>2. QED
      BY <1>1, <2>1, ToTellOk
  <1>5. QED
    BY <1>2, <1>4 DEF SendMentions, Moves, Stays, Typed, FilesTyped

\* Who is left after one more was told, or was not.
LEMMA ToldMoves ==
    ASSUME Typed, NEW p \in Proc, job[p].at = "tell", NEW e, Told(p, e),
           DOMAIN notice' = DOMAIN notice
    PROVE  \E j : job' = [job EXCEPT ![p] = j] /\ JobOk(j, Me(p), DOMAIN notice')
  <1>1. PICK k, left, j : /\ k = job[p] /\ left = k.todo \ ({e} \ k.again)
                          /\ j = ToTell(p, k.ref, k.cause, left, k.again \ {e})
    OBVIOUS
  <1>2. JobOk(k, Me(p), DOMAIN notice)
    BY <1>1 DEF Typed, JobsTyped
  <1>3. JobOk(j, Me(p), DOMAIN notice)
    <2>1. left \subseteq Nat \ {0} /\ k.cause \in DOMAIN notice
      BY <1>1, <1>2 DEF JobOk
    <2>2. QED
      BY <1>1, <2>1, ToTellOk
  <1>4. QED
    BY <1>1, <1>3 DEF Told

\* A notification that fails.
LEMMA TellFailsMoves ==
    ASSUME Typed, NEW p \in Proc, TellFails(p)
    PROVE  \E j : Moves(p, j) /\ Stays
  <1>1. PICK e \in job[p].todo :
          notice' = [notice EXCEPT ![job[p].cause].lost = @ \cup {e}] /\ Told(p, e)
    BY DEF TellFails
  <1>2. DOMAIN notice' = DOMAIN notice
    BY <1>1
  <1>3. PICK j : job' = [job EXCEPT ![p] = j] /\ JobOk(j, Me(p), DOMAIN notice')
    BY <1>1, <1>2, ToldMoves DEF TellFails
  <1>4. QED
    BY <1>2, <1>3 DEF TellFails, Moves, Stays, Typed, FilesTyped

\* A command that is stopped.
LEMMA StopMoves ==
    ASSUME Typed, NEW p \in Proc, Stop(p)
    PROVE  \E j : Moves(p, j) /\ Stays
  <1>1. DOMAIN notice' = DOMAIN notice
    BY DEF Stop
  <1>2. JobOk(Idle, Me(p), DOMAIN notice')
    BY IdleOk
  <1>3. QED
    BY <1>1, <1>2 DEF Stop, Moves, Stays, Typed, FilesTyped

\* A write whose ID has no notice, or gets one.
LEMMA WriteGrows ==
    ASSUME Typed, NEW p \in Proc, NEW ref \in Ref, NEW i, NEW kind,
           NEW data, Write(p, ref, i, kind, data), i \in FreshIds, menu' = menu,
           kind = "users.user_set" =>
             /\ data.username \in Name
             /\ Given(data.fields, "emails", {}) \subseteq Nat \ {0},
           kind = "users.group_set" => IsList(data.members),
           \/ notice' = notice
           \/ \E stale : notice' = NewNotice(i, stale)
    PROVE  /\ Grows
           /\ (\E stale : notice' = NewNotice(i, stale)) => i \in DOMAIN notice'
  <1>1. PICK c : c = Commit(p, i, kind, data)
    OBVIOUS
  <1>2. Appends(ref, c)
    BY <1>1, WriteAppends DEF Typed
  <1>3. c.id = i
    BY <1>1 DEF Commit
  <1>4. ASSUME NEW stale, notice' = NewNotice(i, stale)
        PROVE  DOMAIN notice' = DOMAIN notice \cup {i}
    BY <1>4 DEF NewNotice, Put
  <1>5. /\ DOMAIN notice \subseteq DOMAIN notice'
        /\ DOMAIN notice' \subseteq DOMAIN notice \cup {c.id}
    BY <1>3, <1>4
  <1>6. QED
    BY <1>2, <1>4, <1>5 DEF Grows

\* The write of task reassign and issue assign.
LEMMA ChangeMoves ==
    ASSUME Typed, NEW p \in Proc, Change(p)
    PROVE  \E j : Moves(p, j) /\ Grows
  <1>1. PICK k : k = job[p]
    OBVIOUS
  <1>2. PICK i \in NewIds :
          /\ Write(p, k.ref, i, k.kind, k.data)
          /\ notice' = NewNotice(i, k.seen # Len(chain[k.ref]))
          /\ job' = [job EXCEPT ![p] = Announce(p, k.ref, i, Newcomers(k),
                                               Given(k.data, "twice", {}))]
    BY <1>1 DEF Change
  <1>3. k.at = "change" /\ JobOk(k, Me(p), DOMAIN notice)
    BY <1>1 DEF Change, Typed, JobsTyped
  <1>4. /\ k.ref \in Ref /\ k.kind \notin {"users.user_set", "users.group_set"}
        /\ Newcomers(k) \subseteq Nat \ {0}
    BY <1>3 DEF JobOk, Ref, Newcomers
  <1>5. Grows /\ i \in DOMAIN notice'
    BY <1>2, <1>4, WriteGrows, NewIdIsFresh DEF Change
  <1>6. JobOk(Announce(p, k.ref, i, Newcomers(k), Given(k.data, "twice", {})), Me(p),
              DOMAIN notice')
    BY <1>4, <1>5, ToTellOk
  <1>7. QED
    BY <1>2, <1>5, <1>6 DEF Change, Moves, Typed, FilesTyped

\* task status.
LEMMA TaskStatusMoves ==
    ASSUME Typed, NEW p \in Proc, TaskStatus(p)
    PROVE  \E j : Moves(p, j) /\ Grows
  <1>1. PICK to \in {"todo", "done"}, i \in NewIds :
          /\ Write(p, "task", i, "task.status", [to |-> to, note |-> FALSE])
          /\ notice' = NewNotice(i, FALSE)
          /\ job' = [job EXCEPT ![p] =
                       Announce(p, "task", i, DoneFor(chain'["task"], to), {})]
    BY DEF TaskStatus
  <1>2. Grows /\ i \in DOMAIN notice'
    BY <1>1, WriteGrows, NewIdIsFresh DEF TaskStatus, Ref
  <1>3. DoneFor(chain'["task"], to) \subseteq Nat \ {0}
    <2>1. ChainsTyped' /\ ChainsTyped
      BY <1>2, GrowsIs DEF TaskStatus, Typed
    <2>2. HasCreate(chain["task"], "task.create")
      BY <1>1 DEF Typed, ChainsTyped, Populated, Write
    <2>3. PICK P, q : P = chain["task"] /\ q = chain'["task"]
      OBVIOUS
    <2>4. Range(P) \subseteq Range(q)
      <3>1. PICK c : c = Commit(p, i, "task.status", [to |-> to, note |-> FALSE])
        OBVIOUS
      <3>2. q = Append(P, c)
        BY <1>1, <2>1, <2>3, <3>1 DEF Write, ChainsTyped, Ref
      <3>3. IsList(P)
        BY <2>1, <2>3 DEF ChainsTyped, IsChain, Ref
      <3>4. QED
        BY <3>2, <3>3, Appended
    <2>5. IsChain(q) /\ HasCreate(q, "task.create")
      BY <2>1, <2>2, <2>3, <2>4 DEF ChainsTyped, Ref, HasCreate
    <2>6. PICK s : s = TaskOf(q)
      OBVIOUS
    <2>7. s.meta.created_by \in Nat \ {0}
      BY <2>5, <2>6, TaskNow
    <2>8. QED
      BY <2>3, <2>6, <2>7 DEF DoneFor
  <1>4. JobOk(Announce(p, "task", i, DoneFor(chain'["task"], to), {}), Me(p), DOMAIN notice')
    BY <1>2, <1>3, ToTellOk
  <1>5. QED
    BY <1>1, <1>2, <1>4 DEF TaskStatus, Moves, Typed, FilesTyped

\* issue comment.
LEMMA IssueCommentMoves ==
    ASSUME Typed, NEW p \in Proc, IssueComment(p)
    PROVE  \E j : Moves(p, j) /\ Grows
  <1>1. PICK s, comments : s = IssueOf(chain["issue"]) /\ comments = Comments(s)
    OBVIOUS
  <1>2. PICK prior \in DOMAIN comments, i \in NewIds :
          /\ Write(p, "issue", i, "issue.comment", [reply_to |-> prior])
          /\ notice' = NewNotice(i, FALSE)
          /\ job' = [job EXCEPT ![p] =
                       Announce(p, "issue", i, {comments[prior].author}, {})]
    BY <1>1 DEF IssueComment, Comments
  <1>3. Grows /\ i \in DOMAIN notice'
    BY <1>2, WriteGrows, NewIdIsFresh DEF IssueComment, Ref
  <1>4. IsChain(chain["issue"])
    BY DEF Typed, ChainsTyped, Ref
  <1>5. comments[prior].author \in Nat \ {0}
    BY <1>1, <1>2, <1>4, IssueNow
  <1>6. JobOk(Announce(p, "issue", i, {comments[prior].author}, {}), Me(p), DOMAIN notice')
    BY <1>3, <1>5, ToTellOk
  <1>7. QED
    BY <1>2, <1>3, <1>6 DEF IssueComment, Moves, Typed, FilesTyped

\* chat post.
LEMMA ChatPostMoves ==
    ASSUME Typed, NEW p \in Proc, ChatPost(p)
    PROVE  \E j : Moves(p, j) /\ Grows
  <1>1. PICK names, i, j :
          /\ names \in menu.mentions /\ i \in NewIds
          /\ Write(p, "chat", i, "chat.post", [names |-> names])
          /\ notice' = NewNotice(i, FALSE)
          /\ job' = [job EXCEPT ![p] = j]
          /\ j = IF "mentions" \in menu.on
                 THEN [at |-> "names", cause |-> i, names |-> names,
                       members |-> <<>>, found |-> {}]
                 ELSE Idle
    BY DEF ChatPost
  <1>2. Grows /\ i \in DOMAIN notice'
    BY <1>1, WriteGrows, NewIdIsFresh DEF ChatPost, Ref
  <1>3. IsList(names)
    BY <1>1, MenuIs DEF Typed, ChainsTyped
  <1>4. JobOk(j, Me(p), DOMAIN notice')
    <2>1. CASE "mentions" \in menu.on
      <3>1. /\ DOMAIN j = {"at", "cause", "names", "members", "found"} /\ j.at = "names"
            /\ j.names = names /\ j.members = <<>> /\ j.found = {} /\ j.cause = i
        BY <1>1, <2>1
      <3>2. QED
        BY <1>2, <1>3, <3>1, EmptyList DEF JobOk
    <2>2. CASE "mentions" \notin menu.on
      BY <1>1, <2>2, IdleOk
    <2>3. QED
      BY <2>1, <2>2
  <1>5. QED
    BY <1>1, <1>2, <1>4 DEF ChatPost, Moves, Typed, FilesTyped

\* One notification.
LEMMA TellMoves ==
    ASSUME Typed, NEW p \in Proc, Tell(p)
    PROVE  \E j : Moves(p, j) /\ Grows
  <1>1. PICK e \in job[p].todo :
          /\ chain' = [chain EXCEPT !["stream"] =
                Append(@, Commit(p, menu.ids + Len(@) + 1, "notify.post",
                                 [targets |-> {<<"user", e>>},
                                  source |-> job[p].ref]))]
          /\ notice' = [notice EXCEPT ![job[p].cause].told = @ \cup {e}]
          /\ Told(p, e)
    BY DEF Tell
  <1>2. PICK i, c :
          /\ i = menu.ids + Len(chain["stream"]) + 1
          /\ c = Commit(p, i, "notify.post", [targets |-> {<<"user", e>>},
                                              source |-> job[p].ref])
    OBVIOUS
  <1>3. "stream" \in Ref /\ chain = [r \in Ref |-> chain[r]]
    BY DEF Ref, Typed, ChainsTyped
  <1>4. chain' = [chain EXCEPT !["stream"] = Append(@, c)]
    BY <1>1, <1>2
  <1>5. i \in Nat \ {0} /\ i \notin UsedIds
    <2>1. i \in Nat \ UsedIds
      BY <1>2, UsedIs DEF Typed
    <2>2. PICK m, n \in Nat : m = menu.ids /\ n = Len(chain["stream"])
      BY <1>3, MenuIs, ListParts DEF Typed, ChainsTyped, IsChain
    <2>3. i = m + n + 1
      BY <1>2, <2>2
    <2>4. QED
      BY <2>1, <2>2, <2>3
  <1>6. Me(p) \in Nat \ {0} /\ config[p].key \in Nat
    BY DEF Typed, ConfigTyped, Me
  <1>7. /\ DOMAIN c = {"id", "kind", "actor", "data", "key"}
        /\ c.id = i /\ c.kind = "notify.post" /\ c.actor = Me(p)
        /\ c.key = config[p].key
    BY <1>2 DEF Commit
  <1>8. WellFormed(c)
    BY <1>5, <1>6, <1>7 DEF WellFormed
  <1>9. Appends("stream", c)
    BY <1>2, <1>4, <1>5, <1>7, <1>8 DEF Appends
  <1>10. DOMAIN notice' = DOMAIN notice
    BY <1>1
  <1>11. Grows
    BY <1>3, <1>9, <1>10 DEF Grows
  <1>12. PICK j : job' = [job EXCEPT ![p] = j] /\ JobOk(j, Me(p), DOMAIN notice')
    BY <1>1, <1>10, ToldMoves DEF Tell
  <1>13. QED
    BY <1>11, <1>12 DEF Tell, Moves, Typed, FilesTyped

\* The commands of the registry.
LEMMA ManageMoves ==
    ASSUME Typed, NEW p \in Proc, Manage(p)
    PROVE  Moves(p, job[p]) /\ Grows
  <1>1. PICK known, i :
         /\ i \in NewIds
         /\ known = DOMAIN Verify!Users(RegistryOf(chain["registry"]))
         /\ \/ \E n \in Name, e \in menu.people :
                 Write(p, "registry", i, "users.user_set",
                       [username |-> n, fields |-> [emails |-> {e}]])
            \/ \E n \in known, k \in menu.keys :
                 \/ Write(p, "registry", i, "users.key_add",
                          [username |-> n, pub |-> k])
                 \/ Write(p, "registry", i, "users.key_revoke",
                          [username |-> n, pub |-> k])
            \/ \E members \in menu.groups :
                 Write(p, "registry", i, "users.group_set",
                       [name |-> "team", members |-> members])
            \/ Write(p, "registry", i, "users.group_remove", [name |-> "team"])
    BY DEF Manage
  <1>2. i \in FreshIds /\ "registry" \in Ref /\ menu' = menu /\ notice' = notice
    BY <1>1, NewIdIsFresh DEF Manage, Ref
  <1>3. /\ menu.people \subseteq Nat \ {0}
        /\ \A s \in menu.groups : IsList(s)
    BY MenuIs DEF Typed, ChainsTyped
  <1>4. Grows
    <2>1. CASE \E n \in Name, e \in menu.people :
                 Write(p, "registry", i, "users.user_set",
                       [username |-> n, fields |-> [emails |-> {e}]])
      <3>1. PICK n, e, d :
              /\ n \in Name /\ e \in menu.people
              /\ d = [username |-> n, fields |-> [emails |-> {e}]]
              /\ Write(p, "registry", i, "users.user_set", d)
        BY <2>1
      <3>2. d.username \in Name /\ Given(d.fields, "emails", {}) = {e}
        BY <3>1 DEF Given
      <3>3. QED
        BY <1>2, <1>3, <3>1, <3>2, WriteGrows
    <2>2. CASE \E n \in known, k \in menu.keys :
                 \/ Write(p, "registry", i, "users.key_add", [username |-> n, pub |-> k])
                 \/ Write(p, "registry", i, "users.key_revoke", [username |-> n, pub |-> k])
      BY <1>2, <2>2, WriteGrows
    <2>3. CASE \E members \in menu.groups :
                 Write(p, "registry", i, "users.group_set",
                       [name |-> "team", members |-> members])
      <3>1. PICK members, d :
              /\ members \in menu.groups /\ d = [name |-> "team", members |-> members]
              /\ Write(p, "registry", i, "users.group_set", d)
        BY <2>3
      <3>2. IsList(d.members)
        BY <1>3, <3>1
      <3>3. QED
        BY <1>2, <3>1, <3>2, WriteGrows
    <2>4. CASE Write(p, "registry", i, "users.group_remove", [name |-> "team"])
      BY <1>2, <2>4, WriteGrows
    <2>5. QED
      BY <1>1, <2>1, <2>2, <2>3, <2>4
  <1>5. JobOk(job[p], Me(p), DOMAIN notice') /\ job' = [job EXCEPT ![p] = job[p]]
    BY <1>2 DEF Manage, Typed, JobsTyped
  <1>6. QED
    BY <1>4, <1>5 DEF Manage, Moves, Typed, FilesTyped

\* The public key of a pair made now.
NewPub(pub) ==
    /\ "agent" \in menu.kinds
    /\ pub = Max(menu.keys) + 1 + Cardinality({m \in Name : keyFile[m] # NoFile})

\* A key that is generated is a key.
LEMMA NewPubIs ==
    ASSUME Typed, NEW pub, NewPub(pub)
    PROVE  pub \in Nat /\ pub # NoFile
  <1>1. Max(menu.keys) \in Nat
    <2>1. \E k \in menu.keys : \A l \in menu.keys : k >= l
      BY MenuIs DEF Typed, ChainsTyped, NewPub
    <2>2. Max(menu.keys) \in menu.keys
      BY <2>1, Zenon DEF Max
    <2>3. QED
      BY <2>2, MenuIs DEF Typed, ChainsTyped
  <1>2. Cardinality({m \in Name : keyFile[m] # NoFile}) \in Nat
    <2>1. IsFiniteSet({m \in Name : keyFile[m] # NoFile})
      BY FS_Subset, CommandsAssumption DEF Name
    <2>2. QED
      BY <2>1, FS_CardinalityType
  <1>3. PICK k, n \in Nat :
          k = Max(menu.keys) /\ n = Cardinality({m \in Name : keyFile[m] # NoFile})
    BY <1>1, <1>2
  <1>4. pub = k + 1 + n
    BY <1>3 DEF NewPub
  <1>5. QED
    BY <1>4 DEF NoFile

\* users add --agent: the key file,
LEMMA AgentKeygenMoves ==
    ASSUME Typed, NEW p \in Proc, AgentKeygen(p)
    PROVE  \E pub : \E n \in Name :
             /\ NewPub(pub) /\ keyFile[n] = NoFile
             /\ keyFile' = [keyFile EXCEPT ![n] = pub]
             /\ Moves(p, [at |-> "user", name |-> n, pub |-> pub]) /\ Stays
  <1>1. PICK n, pub :
          /\ n \in Name /\ keyFile[n] = NoFile /\ NewPub(pub)
          /\ keyFile' = [keyFile EXCEPT ![n] = pub]
          /\ job' = [job EXCEPT ![p] = [at |-> "user", name |-> n, pub |-> pub]]
    BY DEF AgentKeygen, MayGenerate, NewPub
  <1>2. pub \in Nat
    BY <1>1, NewPubIs
  <1>3. FilesTyped'
    BY <1>1, <1>2 DEF AgentKeygen, Typed, FilesTyped
  <1>4. PICK j : j = [at |-> "user", name |-> n, pub |-> pub]
    OBVIOUS
  <1>5. DOMAIN j = {"at", "name", "pub"} /\ j.at = "user" /\ j.name = n
    BY <1>4
  <1>6. JobOk(j, Me(p), DOMAIN notice')
    BY <1>1, <1>5 DEF JobOk
  <1>7. Moves(p, j) /\ Stays
    BY <1>1, <1>3, <1>4, <1>6 DEF AgentKeygen, Moves, Stays
  <1>8. QED
    BY <1>1, <1>4, <1>7

\* the user,
LEMMA AgentUserMoves ==
    ASSUME Typed, NEW p \in Proc, AgentUser(p)
    PROVE  \E j : Moves(p, j) /\ Grows
  <1>1. PICK k, i, d :
          /\ i \in NewIds /\ k = job[p] /\ k.at = "user"
          /\ d = [username |-> k.name, fields |-> [emails |-> {AgentEmail[k.name]}]]
          /\ Write(p, "registry", i, "users.user_set", d)
          /\ job' = [job EXCEPT ![p] = [at |-> "key", name |-> k.name,
                                       pub |-> k.pub, after |-> i]]
    BY DEF AgentUser
  <1>2. k.name \in Name
    BY <1>1 DEF Typed, JobsTyped, JobOk
  <1>3. AgentEmail[k.name] \in Nat \ {0}
    BY <1>2, CommandsAssumption DEF Name
  <1>4. d.username \in Name /\ Given(d.fields, "emails", {}) \subseteq Nat \ {0}
    BY <1>1, <1>2, <1>3 DEF Given
  <1>5. i \in FreshIds /\ "registry" \in Ref /\ menu' = menu /\ notice' = notice
    BY <1>1, NewIdIsFresh DEF AgentUser, Ref
  <1>6. Grows
    BY <1>1, <1>4, <1>5, WriteGrows
  <1>7. PICK j : j = [at |-> "key", name |-> k.name, pub |-> k.pub, after |-> i]
    OBVIOUS
  <1>8. /\ DOMAIN j = {"at", "name", "pub", "after"} /\ j.at = "key"
        /\ j.name = k.name /\ j.after = i
    BY <1>7
  <1>9. i \in Nat
    <2>1. menu.ids \in Nat
      BY MenuIs DEF Typed, ChainsTyped
    <2>2. QED
      BY <1>5, <2>1 DEF FreshIds
  <1>10. JobOk(j, Me(p), DOMAIN notice')
    BY <1>2, <1>8, <1>9 DEF JobOk
  <1>11. QED
    BY <1>1, <1>6, <1>7, <1>10 DEF AgentUser, Moves, Typed, FilesTyped

\* and the key.
LEMMA AgentKeyMoves ==
    ASSUME Typed, NEW p \in Proc, AgentKey(p)
    PROVE  \E j : Moves(p, j) /\ Grows
  <1>1. PICK k, now, i, d :
          /\ i \in NewUlid(k.after, now) /\ k = job[p] /\ k.at = "key"
          /\ setups' = setups \cup {[name |-> k.name, pub |-> k.pub,
                                     stepped |-> now < Ms(k.after)]}
          /\ d = [username |-> k.name, pub |-> k.pub]
          /\ Write(p, "registry", i, "users.key_add", d)
    BY DEF AgentKey
  <1>2. k.name \in Name
    BY <1>1 DEF Typed, JobsTyped, JobOk
  <1>3. i \in FreshIds /\ "registry" \in Ref /\ menu' = menu /\ notice' = notice
    BY <1>1, NewIdIsFresh DEF AgentKey, Ref, NewUlid
  <1>4. Grows
    BY <1>1, <1>3, WriteGrows
  <1>5. FilesTyped'
    BY <1>1, <1>2 DEF AgentKey, Typed, FilesTyped
  <1>6. JobOk(Idle, Me(p), DOMAIN notice')
    BY IdleOk
  <1>7. QED
    BY <1>4, <1>5, <1>6 DEF AgentKey, Moves

\* Another configuration, of an idle process.
LEMMA ConfigureTyped ==
    ASSUME Typed, NEW p \in Proc, Configure(p)
    PROVE  Typed' /\ Stays
  <1>1. PICK v : /\ config' = [config EXCEPT ![p] = v]
                 /\ v \in [email : Nat \ {0}, key : Nat]
    <2>1. CASE \E k \in menu.keys \cup {Verify!NoKey} : config' = [config EXCEPT ![p].key = k]
      <3>1. PICK k, v :
              /\ k \in menu.keys \cup {Verify!NoKey}
              /\ v = [config[p] EXCEPT !.key = k]
              /\ config' = [config EXCEPT ![p] = v]
        BY <2>1
      <3>2. k \in Nat
        <4>1. menu.keys \subseteq Nat
          BY MenuIs DEF Typed, ChainsTyped
        <4>2. QED
          BY <3>1, <4>1 DEF Verify!NoKey
      <3>3. v \in [email : Nat \ {0}, key : Nat]
        BY <3>1, <3>2 DEF Typed, ConfigTyped
      <3>4. QED
        BY <3>1, <3>3
    <2>2. CASE \E s \in setups :
                 config' = [config EXCEPT ![p] = [email |-> AgentEmail[s.name],
                                                  key |-> keyFile[s.name]]]
      <3>1. PICK s, v :
              /\ s \in setups
              /\ v = [email |-> AgentEmail[s.name], key |-> keyFile[s.name]]
              /\ config' = [config EXCEPT ![p] = v]
        BY <2>2
      <3>2. AgentEmail[s.name] \in Nat \ {0} /\ keyFile[s.name] \in Nat
        BY <3>1, CommandsAssumption DEF Typed, FilesTyped, Name
      <3>3. v \in [email : Nat \ {0}, key : Nat]
        BY <3>1, <3>2
      <3>4. QED
        BY <3>1, <3>3
    <2>3. QED
      BY <2>1, <2>2 DEF Configure
  <1>2. ConfigTyped'
    BY <1>1 DEF Typed, ConfigTyped
  <1>3. job' = job /\ notice' = notice /\ chain' = chain /\ menu' = menu /\ job[p] = Idle
    BY DEF Configure
  <1>4. Stays
    BY <1>3 DEF Stays
  <1>5. ChainsTyped' /\ NoticesTyped'
    BY <1>3, <1>4, GrowsIs
  <1>6. FilesTyped'
    BY DEF Typed, FilesTyped, Configure
  <1>7. ASSUME NEW q \in Proc
        PROVE  JobOk(job'[q], Me(q)', DOMAIN notice')
    <2>1. CASE q = p
      BY <1>3, <2>1, IdleOk
    <2>2. CASE q # p
      <3>1. Me(q)' = Me(q)
        BY <1>1, <2>2 DEF Me, Typed, ConfigTyped
      <3>2. QED
        BY <1>3, <3>1 DEF Typed, JobsTyped
    <2>3. QED
      BY <2>1, <2>2
  <1>8. QED
    BY <1>2, <1>3, <1>4, <1>5, <1>6, <1>7 DEF Typed, JobsTyped

\* Writes that leave the job alone, or go on with a list of acknowledgements.
LEMMA TaskNoteMoves ==
    ASSUME Typed, NEW p \in Proc, TaskNote(p)
    PROVE  Moves(p, job[p]) /\ Grows
  <1>1. PICK i \in NewIds : Write(p, "task", i, "task.note", [body |-> 0])
    BY DEF TaskNote
  <1>2. Grows
    BY <1>1, WriteGrows, NewIdIsFresh DEF TaskNote, Ref
  <1>3. JobOk(job[p], Me(p), DOMAIN notice') /\ job' = [job EXCEPT ![p] = job[p]]
    BY DEF TaskNote, Typed, JobsTyped
  <1>4. QED
    BY <1>2, <1>3 DEF TaskNote, Moves, Typed, FilesTyped

\* notify_post.
LEMMA NotifyPostMoves ==
    ASSUME Typed, NEW p \in Proc, NotifyPost(p)
    PROVE  Moves(p, job[p]) /\ Grows
  <1>1. PICK i, e :
          /\ i \in FreshIds
          /\ Write(p, "stream", i, "notify.post",
                [targets |-> {<<"user", e>>}, source |-> "none"])
    BY DEF NotifyPost
  <1>2. Grows
    BY <1>1, WriteGrows DEF NotifyPost, Ref
  <1>3. JobOk(job[p], Me(p), DOMAIN notice') /\ job' = [job EXCEPT ![p] = job[p]]
    BY DEF NotifyPost, Typed, JobsTyped
  <1>4. QED
    BY <1>2, <1>3 DEF NotifyPost, Moves, Typed, FilesTyped

\* notify_ack, its first ID
LEMMA NotifyAckMoves ==
    ASSUME Typed, NEW p \in Proc, NotifyAck(p)
    PROVE  \E j : Moves(p, j) /\ Stays
  <1>1. PICK todo, j : j = [at |-> "ack", todo |-> todo] /\ job' = [job EXCEPT ![p] = j]
    BY DEF NotifyAck
  <1>2. DOMAIN j = {"at", "todo"} /\ j.at = "ack"
    BY <1>1
  <1>3. JobOk(j, Me(p), DOMAIN notice')
    BY <1>2 DEF JobOk
  <1>4. QED
    BY <1>1, <1>3 DEF NotifyAck, Moves, Stays, Typed, FilesTyped

\* and the next.
LEMMA AckNextMoves ==
    ASSUME Typed, NEW p \in Proc, AckNext(p)
    PROVE  \E j : Moves(p, j) /\ Grows
  <1>1. PICK i, todo, k :
          /\ i \in FreshIds /\ todo = job[p].todo /\ k = job[p]
          /\ Write(p, "stream", i, "notify.ack", [ack_of |-> Head(todo)])
          /\ job' = [job EXCEPT ![p] =
                       IF Len(todo) = 1 THEN Idle ELSE [k EXCEPT !.todo = Tail(todo)]]
    BY DEF AckNext
  <1>2. Grows
    BY <1>1, WriteGrows DEF AckNext, Ref
  <1>3. k.at = "ack" /\ DOMAIN k = {"at", "todo"}
    BY <1>1 DEF AckNext, Typed, JobsTyped, JobOk
  <1>4. PICK j : j = [k EXCEPT !.todo = Tail(todo)]
    OBVIOUS
  <1>5. DOMAIN j = {"at", "todo"} /\ j.at = "ack"
    BY <1>3, <1>4
  <1>6. JobOk(j, Me(p), DOMAIN notice') /\ JobOk(Idle, Me(p), DOMAIN notice')
    BY <1>5, IdleOk DEF JobOk
  <1>7. QED
    BY <1>1, <1>2, <1>4, <1>6 DEF AckNext, Moves, Typed, FilesTyped

-----------------------------------------------------------------------------
(* Typed in all states.                                                    *)

\* The chains, configuration and jobs that a menu starts with.
LEMMA InitTyped ==
    ASSUME Init
    PROVE  Typed
  <1>1. menu \in Menus /\ notice = <<>> /\ setups = {} /\ config = Config
    BY DEF Init
  <1>2. PICK start : start = menu.start
    OBVIOUS
  <1>3. /\ menu.ids \in Nat /\ DOMAIN start \subseteq Ref
        /\ \A r \in DOMAIN start :
             IsChain(start[r]) /\ \A c \in Range(start[r]) : c.id <= menu.ids
        /\ StartsWith(menu, "task", "task.create", {"task.reassign", "task.status", "task.note"})
        /\ StartsWith(menu, "issue", "issue.create", {"issue.assign", "issue.comment"})
    BY <1>1, <1>2, MenuIs
  <1>4. /\ chain = [r \in Ref |-> chain[r]]
        /\ \A r \in Ref : chain[r] = IF r \in DOMAIN start THEN start[r] ELSE <<>>
    BY <1>2 DEF Init, Given
  <1>5. IsChain(<<>>) /\ Range(<<>>) = {}
    BY EmptyList DEF IsChain
  <1>6. ASSUME NEW r \in Ref
        PROVE  IsChain(chain[r]) /\ \A c \in Range(chain[r]) : c.id <= IdBound(r)
    <2>1. CASE r \notin DOMAIN start
      BY <1>4, <1>5, <2>1
    <2>2. CASE r \in DOMAIN start
      <3>1. chain[r] = start[r] /\ IsChain(chain[r])
        BY <1>3, <1>4, <2>2
      <3>2. PICK m, n \in Nat : m = menu.ids /\ n = Len(chain[r])
        BY <1>3, <3>1, ListParts DEF IsChain
      <3>3. IdBound(r) = m + n \/ IdBound(r) = m + 0
        BY <3>2 DEF IdBound
      <3>4. ASSUME NEW c \in Range(chain[r])
            PROVE  c.id <= IdBound(r)
        <4>1. c.id \in Nat
          BY <3>1, ChainEvents
        <4>2. c.id <= m
          BY <1>3, <2>2, <3>1, <3>2
        <4>3. QED
          BY <3>3, <4>1, <4>2
      <3>5. QED
        BY <3>1, <3>4
    <2>3. QED
      BY <2>1, <2>2
  <1>7. /\ Populated("task", "task.create", {"task.reassign", "task.status", "task.note"})
        /\ Populated("issue", "issue.create", {"issue.assign", "issue.comment"})
    BY <1>2, <1>3, <1>4 DEF Populated, StartsWith, Ref
  <1>8. ChainsTyped
    BY <1>1, <1>4, <1>6, <1>7 DEF ChainsTyped
  <1>9. ConfigTyped
    BY <1>1, CommandsAssumption DEF ConfigTyped
  <1>10. NoticesTyped
    BY <1>1, EmptyList DEF NoticesTyped
  <1>11. FilesTyped
    BY <1>1 DEF Init, FilesTyped, NoFile
  <1>12. JobsTyped
    BY IdleOk DEF Init, JobsTyped
  <1>13. QED
    BY <1>8, <1>9, <1>10, <1>11, <1>12 DEF Typed

\* Each kind of step leaves everything well formed, and chains only grow.
LEMMA StepTyped ==
    ASSUME Typed, [ServerNext]_serverVars
    PROVE  Typed' /\ menu' = menu /\ (Stays \/ Grows)
  <1>1. ASSUME NEW p \in Proc, NEW j, Moves(p, j), Stays \/ Grows
        PROVE  Typed' /\ menu' = menu /\ (Stays \/ Grows)
    BY <1>1, MovesTyped DEF Moves
  <1>2. ASSUME UNCHANGED vars
        PROVE  Typed' /\ menu' = menu /\ (Stays \/ Grows)
    <2>1. Stays
      BY <1>2 DEF vars, Stays
    <2>2. ChainsTyped' /\ NoticesTyped' /\ menu' = menu
      BY <1>2, <2>1, GrowsIs DEF vars
    <2>3. ConfigTyped' /\ FilesTyped' /\ JobsTyped'
      BY <1>2 DEF vars, Typed, ConfigTyped, FilesTyped, JobsTyped, Me
    <2>4. QED
      BY <2>1, <2>2, <2>3 DEF Typed
  <1>3. CASE UNCHANGED serverVars
    BY <1>2, <1>3 DEF serverVars
  <1>4. CASE \E p \in Proc : \E list \in menu.lists, limit \in menu.limits : Page(p, list, limit)
    BY <1>2, <1>4 DEF Page
  <1>5. CASE \E p \in Proc : NotifyPost(p) \/ NotifyAck(p) \/ AckNext(p)
    BY <1>1, <1>5, NotifyPostMoves, NotifyAckMoves, AckNextMoves
  <1>6. CASE Next
    <2>1. PICK p \in Proc :
            \/ TaskShow(p) \/ IssueShow(p) \/ Change(p)
            \/ TaskStatus(p) \/ IssueComment(p)
            \/ ChatPost(p) \/ ResolveName(p) \/ ResolveGroup(p)
            \/ ResolveMember(p) \/ SendMentions(p)
            \/ Tell(p) \/ TellFails(p) \/ Stop(p)
            \/ Manage(p) \/ AgentKeygen(p) \/ AgentUser(p) \/ AgentKey(p)
            \/ Configure(p) \/ TaskNote(p)
      BY <1>6 DEF Next
    <2>2. CASE TaskShow(p) \/ IssueShow(p) \/ Change(p) \/ TaskStatus(p) \/ IssueComment(p)
      BY <1>1, <2>2, TaskShowMoves, IssueShowMoves, ChangeMoves, TaskStatusMoves,
         IssueCommentMoves
    <2>3. CASE ChatPost(p) \/ ResolveName(p) \/ ResolveGroup(p) \/ ResolveMember(p)
               \/ SendMentions(p)
      BY <1>1, <2>3, ChatPostMoves, ResolveNameMoves, ResolveGroupMoves,
         ResolveMemberMoves, SendMentionsMoves
    <2>4. CASE Tell(p) \/ TellFails(p) \/ Stop(p)
      BY <1>1, <2>4, TellMoves, TellFailsMoves, StopMoves
    <2>5. CASE Manage(p) \/ AgentKeygen(p) \/ AgentUser(p) \/ AgentKey(p) \/ TaskNote(p)
      BY <1>1, <2>5, ManageMoves, AgentKeygenMoves, AgentUserMoves, AgentKeyMoves,
         TaskNoteMoves
    <2>6. CASE Configure(p)
      BY <2>6, ConfigureTyped DEF Configure
    <2>7. QED
      BY <2>1, <2>2, <2>3, <2>4, <2>5, <2>6
  <1>7. QED
    BY <1>3, <1>4, <1>5, <1>6 DEF ServerNext

(***************************************************************************)
(* Whatever commands and calls of the server run at once, chains hold      *)
(* well-formed commits with IDs of their own, a notice belongs to a commit *)
(* of a chain, and a command that has people to tell never has its own     *)
(* user among them.                                                        *)
(***************************************************************************)
LEMMA TypedHolds == ServerSpec => []Typed
  <1>1. ServerInit => Typed
    BY InitTyped DEF ServerInit
  <1>2. Typed /\ [ServerNext]_serverVars => Typed'
    BY StepTyped
  <1>3. QED
    BY <1>1, <1>2, PTL DEF ServerSpec

\* Typed says what TypeOK does, and more.
LEMMA TypedGivesTypeOK ==
    ASSUME Typed
    PROVE  TypeOK
  <1>1. menu \in Menus /\ \A r \in Ref : IsChain(chain[r])
    BY DEF Typed, ChainsTyped
  <1>2. \A p \in Proc : config[p].email \in Nat \ {0} /\ config[p].key \in Nat
    BY DEF Typed, ConfigTyped
  <1>3. ASSUME NEW p \in Proc
        PROVE  /\ "cause" \in DOMAIN job[p] => job[p].cause \in DOMAIN notice
               /\ job[p].at = "tell" =>
                    /\ job[p].todo # {} /\ job[p].todo \subseteq Nat \ {0, Me(p)}
                    /\ job[p].again \subseteq job[p].todo
    <2>1. JobOk(job[p], Me(p), DOMAIN notice)
      BY DEF Typed, JobsTyped
    <2>2. QED
      BY <2>1 DEF JobOk, Idle
  <1>4. \A i \in DOMAIN notice : i \in UsedIds
    BY DEF Typed, NoticesTyped
  <1>5. QED
    BY <1>1, <1>2, <1>3, <1>4 DEF TypeOK

(***************************************************************************)
(* Every chain is one of well-formed events with IDs of their own, whoever *)
(* appends at what time; whatever interrupts a command, its next step finds *)
(* what it needs, and a notification never goes to the one who caused it.  *)
(***************************************************************************)
THEOREM TypeOKHolds == ServerSpec => []TypeOK
  BY TypedHolds, TypedGivesTypeOK, PTL

-----------------------------------------------------------------------------
(* Lists that are read page by page.                                       *)

\* The IDs of a chain are finitely many numbers.
LEMMA IdsOfChain ==
    ASSUME NEW s, IsChain(s)
    PROVE  /\ IsFiniteSet({c.id : c \in Range(s)})
           /\ {c.id : c \in Range(s)} \subseteq Nat \ {0}
  <1>1. IsFiniteSet(Range(s))
    BY ListParts DEF IsChain
  <1>2. PICK f : f = [c \in Range(s) |-> c.id]
    OBVIOUS
  <1>3. f \in Surjection(Range(s), {c.id : c \in Range(s)})
    BY <1>2 DEF Surjection
  <1>4. IsFiniteSet({c.id : c \in Range(s)})
    BY <1>1, <1>3, FS_Surjection
  <1>5. \A c \in Range(s) : c.id \in Nat \ {0}
    BY ChainEvents
  <1>6. QED
    BY <1>4, <1>5

\* What is in a list.
LEMMA ItemsAre ==
    ASSUME Typed, NEW p \in Proc, NEW list \in {"notify", "notify unread", "log"}
    PROVE  IsFiniteSet(Items(p, list)) /\ Items(p, list) \subseteq Nat \ {0}
  <1>1. ASSUME NEW r \in Ref
        PROVE  /\ IsFiniteSet({c.id : c \in Range(chain[r])})
               /\ {c.id : c \in Range(chain[r])} \subseteq Nat \ {0}
    BY IdsOfChain DEF Typed, ChainsTyped
  <1>2. PICK A : A = {c.id : c \in Range(chain["stream"])}
    OBVIOUS
  <1>3. IsFiniteSet(A) /\ A \subseteq Nat \ {0}
    BY <1>1, <1>2 DEF Ref
  <1>4. CASE list = "notify"
    <2>1. Items(p, list) \subseteq A
      BY <1>2, <1>4 DEF Items, Of
    <2>2. QED
      BY <1>3, <2>1, FS_Subset
  <1>5. CASE list = "notify unread"
    <2>1. PICK s : s = FoldFrom(Notify!Apply, NewState, Range(chain["stream"]))
      OBVIOUS
    <2>2. IsEvents(Range(chain["stream"]))
      BY ChainEvents DEF Typed, ChainsTyped, Ref
    <2>3. DOMAIN Posts(s) \subseteq A
      BY <1>2, <2>1, <2>2, StreamEvents DEF StreamFoldOf
    <2>4. Items(p, list) = Notify!Unread(s, Me(p))
      BY <1>5, <2>1 DEF Items, Unread
    <2>5. Notify!Unread(s, Me(p)) \subseteq DOMAIN Posts(s)
      BY DEF Notify!Unread, Posts, Notify!Given, Given
    <2>6. QED
      BY <1>3, <2>3, <2>4, <2>5, FS_Subset
  <1>6. CASE list = "log"
    <2>1. PICK f : f = [r \in Ref |-> {c.id : c \in Range(chain[r])}]
      OBVIOUS
    <2>2. Items(p, list) = UNION {f[r] : r \in Ref}
      BY <1>6, <2>1 DEF Items
    <2>3. Items(p, list) =
            f["registry"] \cup f["task"] \cup f["issue"] \cup f["chat"] \cup f["stream"]
      BY <2>2 DEF Ref
    <2>4. \A r \in Ref : IsFiniteSet(f[r]) /\ f[r] \subseteq Nat \ {0}
      BY <1>1, <2>1
    <2>5. IsFiniteSet(f["registry"] \cup f["task"])
      BY <2>4, FS_Union DEF Ref
    <2>6. IsFiniteSet(f["registry"] \cup f["task"] \cup f["issue"])
      BY <2>4, <2>5, FS_Union DEF Ref
    <2>7. IsFiniteSet(f["registry"] \cup f["task"] \cup f["issue"] \cup f["chat"])
      BY <2>4, <2>6, FS_Union DEF Ref
    <2>8. IsFiniteSet(f["registry"] \cup f["task"] \cup f["issue"] \cup f["chat"]
                        \cup f["stream"])
      BY <2>4, <2>7, FS_Union DEF Ref
    <2>9. QED
      BY <2>3, <2>4, <2>8 DEF Ref
  <1>7. QED
    BY <1>4, <1>5, <1>6

\* A list of a set is one of a larger set.
LEMMA ListOfLarger ==
    ASSUME NEW T, NEW S \in SUBSET T, NEW s \in Seq(S)
    PROVE  s \in Seq(T)
  <1>1. PICK n \in Nat : n = Len(s)
    OBVIOUS
  <1>2. s = [m \in 1 .. n |-> s[m]]
    BY <1>1
  <1>3. \A m \in 1 .. n : s[m] \in S
    BY <1>1
  <1>4. [m \in 1 .. n |-> s[m]] \in Seq(T)
    BY <1>3
  <1>5. QED
    BY <1>2, <1>4

\* One ascending list after another, of larger numbers.
LEMMA Concatenated ==
    ASSUME NEW s \in Seq(Nat), NEW t \in Seq(Nat), Ascending(s), Ascending(t),
           \A i \in Range(s), j \in Range(t) : i < j
    PROVE  /\ s \o t \in Seq(Nat) /\ Ascending(s \o t)
           /\ Range(s \o t) = Range(s) \cup Range(t)
  <1>1. PICK k, l \in Nat : k = Len(s) /\ l = Len(t)
    OBVIOUS
  <1>2. PICK u : u = s \o t
    OBVIOUS
  <1>3. /\ u \in Seq(Nat) /\ DOMAIN u = 1 .. k + l
        /\ DOMAIN s = 1 .. k /\ DOMAIN t = 1 .. l
        /\ \A n \in 1 .. k : u[n] = s[n]
        /\ \A n \in k + 1 .. k + l : u[n] = t[n - k]
    BY <1>1, <1>2
  <1>4. /\ \A n \in 1 .. k : s[n] \in Range(s) /\ s[n] \in Nat
        /\ \A n \in 1 .. l : t[n] \in Range(t) /\ t[n] \in Nat
    <2>1. (\A n \in 1 .. k : s[n] \in Nat) /\ (\A n \in 1 .. l : t[n] \in Nat)
      BY <1>1
    <2>2. (\A n \in 1 .. k : s[n] \in Range(s)) /\ (\A n \in 1 .. l : t[n] \in Range(t))
      BY <1>3 DEF Range
    <2>3. QED
      BY <2>1, <2>2
  <1>5. ASSUME NEW m \in 1 .. k + l, NEW n \in 1 .. k + l, m < n
        PROVE  u[m] < u[n]
    <2>1. CASE n <= k
      <3>1. m \in 1 .. k /\ n \in 1 .. k
        BY <1>5, <2>1
      <3>2. QED
        BY <1>3, <1>5, <3>1 DEF Ascending
    <2>2. CASE m > k
      <3>1. m \in k + 1 .. k + l /\ n \in k + 1 .. k + l
        BY <1>5, <2>2
      <3>2. m - k \in 1 .. l /\ n - k \in 1 .. l /\ m - k < n - k
        BY <1>5, <3>1
      <3>3. QED
        BY <1>3, <3>1, <3>2 DEF Ascending
    <2>3. CASE m <= k /\ n > k
      <3>1. m \in 1 .. k /\ n \in k + 1 .. k + l /\ n - k \in 1 .. l
        BY <2>3
      <3>2. QED
        BY <1>3, <1>4, <3>1
    <2>4. QED
      BY <2>1, <2>2, <2>3
  <1>6. ASSUME NEW x
        PROVE  x \in Range(u) <=> x \in Range(s) \/ x \in Range(t)
    <2>1. ASSUME NEW n \in 1 .. k + l, u[n] = x
          PROVE  x \in Range(s) \/ x \in Range(t)
      <3>1. n \in 1 .. k \/ (n \in k + 1 .. k + l /\ n - k \in 1 .. l)
        OBVIOUS
      <3>2. QED
        BY <1>3, <1>4, <2>1, <3>1
    <2>2. ASSUME NEW n \in 1 .. k
          PROVE  s[n] \in Range(u)
      <3>1. n \in 1 .. k + l
        OBVIOUS
      <3>2. QED
        BY <1>3, <3>1 DEF Range
    <2>3. ASSUME NEW n \in 1 .. l
          PROVE  t[n] \in Range(u)
      <3>1. n + k \in 1 .. k + l /\ n + k \in k + 1 .. k + l /\ (n + k) - k = n
        OBVIOUS
      <3>2. QED
        BY <1>3, <3>1 DEF Range
    <2>4. QED
      BY <1>3, <2>1, <2>2, <2>3 DEF Range
  <1>7. QED
    BY <1>2, <1>3, <1>5, <1>6 DEF Ascending

\* What a client has of the list it reads.
PageOk(seen) ==
    /\ DOMAIN seen = {"list", "cursor", "shown", "always"}
    /\ seen.cursor \in Nat /\ seen.always \subseteq Nat \ {0}
    /\ seen.shown \in Seq(Nat) /\ Ascending(seen.shown)
    /\ seen.list = "none" => seen.cursor = 0 /\ seen.shown = <<>>
    /\ seen.cursor # 0 => \A i \in Range(seen.shown) : i <= seen.cursor
    /\ \A i \in seen.always : seen.cursor = 0 \/ i <= seen.cursor =>
                                i \in Range(seen.shown)

PagingOk ==
    /\ paging = [p \in Proc |-> paging[p]]
    /\ \A p \in Proc : PageOk(paging[p])

\* One more page.
LEMMA NextPageOk ==
    ASSUME NEW seen, PageOk(seen), NEW now \in SUBSET (Nat \ {0}), IsFiniteSet(now),
           NEW limit \in Int, NEW list, list # "none",
           seen.list = "none" \/ seen.cursor # 0
    PROVE  LET result == PageOf(Ordered(now), seen.cursor, limit) IN
           PageOk([list   |-> list,
                   cursor |-> result.next,
                   shown  |-> seen.shown \o result.page,
                   always |-> IF seen.list = "none" THEN now ELSE seen.always \cap now])
  <1>1. PICK c \in Nat, s \in Seq(Nat) : c = seen.cursor /\ s = seen.shown
    BY DEF PageOk
  <1>2. PICK r : r = PageOf(Ordered(now), c, limit)
    OBVIOUS
  <1>3. /\ r.page \in Seq(now) /\ Ascending(r.page) /\ r.next \in Nat
        /\ r.next # 0 => c < r.next
        /\ Range(r.page) = {i \in now : i > c /\ (r.next = 0 \/ i <= r.next)}
    <2>1. LET result == PageOf(Ordered(now), c, limit) IN
          /\ result.page \in Seq(now) /\ Ascending(result.page) /\ result.next \in Nat
          /\ result.next # 0 => c < result.next
          /\ Range(result.page) =
               {i \in now : i > c /\ (result.next = 0 \/ i <= result.next)}
      BY PageIs, Zenon
    <2>2. QED
      BY <1>2, <2>1, Zenon
  <1>4. PICK d \in Nat, t \in Seq(Nat) : d = r.next /\ t = r.page
    <2>1. PICK t : t = r.page
      OBVIOUS
    <2>2. t \in Seq(now) /\ now \subseteq Nat
      BY <1>3, <2>1
    <2>3. t \in Seq(Nat)
      BY <2>2, ListOfLarger
    <2>4. QED
      BY <1>3, <2>1, <2>3
  <1>5. PICK always : always = IF seen.list = "none" THEN now ELSE seen.always \cap now
    OBVIOUS
  <1>6. PICK new : new = [list |-> list, cursor |-> d, shown |-> s \o t, always |-> always]
    OBVIOUS
  <1>7. /\ DOMAIN new = {"list", "cursor", "shown", "always"} /\ new.list = list
        /\ new.cursor = d /\ new.shown = s \o t /\ new.always = always
    BY <1>6
  <1>8. Ascending(s) /\ (c # 0 => \A i \in Range(s) : i <= c)
    BY <1>1 DEF PageOk
  <1>9. s = <<>> => Range(s) = {}
    BY EmptyList
  <1>10. seen.list = "none" => s = <<>> /\ c = 0
    BY <1>1 DEF PageOk
  <1>11. Range(s) \subseteq Nat /\ Range(t) = {i \in now : i > c /\ (d = 0 \/ i <= d)}
    BY <1>3, <1>4 DEF Range
  <1>12. ASSUME NEW i \in Range(s), NEW j \in Range(t)
         PROVE  i < j
    <2>1. c # 0
      BY <1>1, <1>9, <1>10
    <2>2. i <= c /\ i \in Nat /\ j > c /\ j \in Nat
      BY <1>8, <1>11, <2>1
    <2>3. QED
      BY <2>2
  <1>13. /\ s \o t \in Seq(Nat) /\ Ascending(s \o t)
         /\ Range(s \o t) = Range(s) \cup Range(t)
    BY <1>3, <1>4, <1>8, <1>12, Concatenated
  <1>14. d # 0 => \A i \in Range(s \o t) : i <= d
    <2> SUFFICES ASSUME d # 0, NEW i \in Range(s \o t) PROVE i <= d
      OBVIOUS
    <2>1. CASE i \in Range(t)
      BY <1>11, <2>1
    <2>2. CASE i \in Range(s)
      <3>1. c # 0
        BY <1>1, <1>9, <1>10, <2>2
      <3>2. i \in Nat /\ i <= c
        BY <1>8, <1>11, <2>2, <3>1
      <3>3. c < d
        BY <1>3, <1>4
      <3>4. QED
        BY <3>2, <3>3
    <2>3. QED
      BY <1>13, <2>1, <2>2
  <1>15. always \subseteq now
    BY <1>5
  <1>16. ASSUME NEW i \in always, d = 0 \/ i <= d
         PROVE  i \in Range(s \o t)
    <2>1. i \in now /\ i \in Nat /\ i # 0
      BY <1>15
    <2>2. CASE i > c
      BY <1>11, <1>13, <1>16, <2>1, <2>2
    <2>3. CASE ~(i > c)
      <3>1. i <= c
        BY <2>1, <2>3
      <3>2. c # 0
        BY <2>1, <3>1
      <3>3. i \in seen.always
        BY <1>5, <1>10, <3>2
      <3>4. i \in Range(s)
        BY <1>1, <3>1, <3>3 DEF PageOk
      <3>5. QED
        BY <1>13, <3>4
    <2>4. QED
      BY <2>2, <2>3
  <1>17. PageOk(new)
    BY <1>7, <1>13, <1>14, <1>15, <1>16 DEF PageOk
  <1>18. new = [list   |-> list,
                cursor |-> r.next,
                shown  |-> seen.shown \o r.page,
                always |-> IF seen.list = "none" THEN now ELSE seen.always \cap now]
    BY <1>1, <1>4, <1>5, <1>6
  <1>19. QED
    BY <1>1, <1>2, <1>17, <1>18

\* What clients hold stays so: only a call of their own changes it, and what
\* others post or acknowledge changes only the list.
LEMMA PagingStep ==
    ASSUME Typed, PagingOk, [ServerNext]_serverVars
    PROVE  PagingOk'
  <1>1. CASE paging' = paging
    BY <1>1 DEF PagingOk
  <1>2. CASE \E p \in Proc : \E list \in menu.lists, limit \in menu.limits : Page(p, list, limit)
    <2>1. PICK p \in Proc, list \in menu.lists, limit \in menu.limits : Page(p, list, limit)
      BY <1>2
    <2>2. PICK now, seen : now = Items(p, list) /\ seen = paging[p]
      OBVIOUS
    <2>3. PICK result, new :
            /\ result = PageOf(Ordered(now), seen.cursor, limit)
            /\ new = [list   |-> list,
                      cursor |-> result.next,
                      shown  |-> seen.shown \o result.page,
                      always |-> IF seen.list = "none" THEN now ELSE seen.always \cap now]
            /\ seen.list = "none" \/ (seen.list = list /\ seen.cursor # 0)
            /\ paging' = [paging EXCEPT ![p] = new]
      BY <2>1, <2>2 DEF Page
    <2>4. list \in {"notify", "notify unread", "log"} /\ limit \in Int
      BY <2>1, MenuIs DEF Typed, ChainsTyped
    <2>5. IsFiniteSet(now) /\ now \subseteq Nat \ {0}
      BY <2>2, <2>4, ItemsAre
    <2>6. PageOk(new)
      BY <2>2, <2>3, <2>4, <2>5, NextPageOk DEF PagingOk
    <2>7. QED
      BY <2>3, <2>6 DEF PagingOk
  <1>3. QED
    BY <1>1, <1>2 DEF ServerNext, serverVars, NotifyPost, NotifyAck, AckNext

(***************************************************************************)
(* A client that follows next_cursor sees no item twice, and every item    *)
(* that was there at all of its calls, whatever page sizes it asks for and *)
(* whatever is posted, merged in or acknowledged meanwhile.                *)
(***************************************************************************)
THEOREM PagesAreCompleteHolds == ServerSpec => []PagesAreComplete
  <1>1. ServerInit => PagingOk
    <2> SUFFICES ASSUME ServerInit PROVE PagingOk
      OBVIOUS
    <2>1. PICK n : n = NoPaging
      OBVIOUS
    <2>2. /\ DOMAIN n = {"list", "cursor", "shown", "always"} /\ n.cursor = 0
          /\ n.shown = <<>> /\ n.always = {}
      BY <2>1 DEF NoPaging
    <2>3. Ascending(<<>>)
      BY EmptyList DEF Ascending
    <2>4. PageOk(n)
      BY <2>2, <2>3 DEF PageOk
    <2>5. QED
      BY <2>1, <2>4 DEF ServerInit, PagingOk
  <1>2. Typed /\ PagingOk /\ [ServerNext]_serverVars => PagingOk'
    BY PagingStep
  <1>3. PagingOk => PagesAreComplete
    BY DEF PagingOk, PageOk, PagesAreComplete
  <1>4. QED
    BY <1>1, <1>2, <1>3, TypedHolds, PTL DEF ServerSpec

-----------------------------------------------------------------------------
(* Agents and their keys.                                                  *)

RegistryCommits == Range(chain["registry"])

\* A user, and a key added to the user later.
SetUp(s) ==
    \E u, a \in RegistryCommits :
        /\ u.kind = "users.user_set" /\ a.kind = "users.key_add"
        /\ u.data.username = s.name /\ a.data.username = s.name
        /\ a.data.pub = s.pub /\ u.id < a.id

\* The file of an agent being set up holds its key, the agent is there before
\* the key, and all of it stays.
AgentOk(j) ==
    /\ j.at \in {"user", "key"} => keyFile[j.name] = j.pub /\ j.pub # NoFile
    /\ j.at = "key" =>
         \E u \in RegistryCommits :
            u.kind = "users.user_set" /\ u.data.username = j.name /\ u.id = j.after
SetupOk(s) ==
    keyFile[s.name] = s.pub /\ s.pub # NoFile /\ (~s.stepped => SetUp(s))

AgentsOk ==
    /\ \A p \in Proc : AgentOk(job[p])
    /\ \A s \in setups : SetupOk(s)

KeepsAgents ==
    /\ keyFile' = keyFile /\ setups' = setups
    /\ \A q \in Proc : job'[q] = job[q] \/ job'[q].at \notin {"user", "key"}

\* What is at once announced is no part of a setup.
LEMMA ToTellAt ==
    ASSUME NEW p, NEW ref, NEW i, NEW people, NEW again
    PROVE  /\ ToTell(p, ref, i, people, again).at \notin {"user", "key"}
           /\ Announce(p, ref, i, people, again).at \notin {"user", "key"}
  BY DEF ToTell, Announce, Idle

\* Only add --agent begins and goes on with an agent.
LEMMA OthersKeepAgents ==
    ASSUME Typed, NEW p \in Proc,
           \/ TaskShow(p) \/ IssueShow(p) \/ Change(p) \/ TaskStatus(p) \/ IssueComment(p)
           \/ ChatPost(p) \/ ResolveName(p) \/ ResolveGroup(p) \/ ResolveMember(p)
           \/ SendMentions(p) \/ Tell(p) \/ TellFails(p) \/ Stop(p) \/ Manage(p)
           \/ Configure(p) \/ TaskNote(p) \/ NotifyPost(p) \/ NotifyAck(p) \/ AckNext(p)
    PROVE  KeepsAgents
  <1>1. ASSUME NEW j, job' = [job EXCEPT ![p] = j], j.at \notin {"user", "key"},
               keyFile' = keyFile, setups' = setups
        PROVE  KeepsAgents
    BY <1>1 DEF KeepsAgents, Typed, JobsTyped
  <1>2. PICK k : k = job[p] /\ JobOk(k, Me(p), DOMAIN notice)
    BY DEF Typed, JobsTyped
  <1>3. CASE TaskShow(p) \/ IssueShow(p) \/ ChatPost(p) \/ NotifyAck(p) \/ Stop(p)
    BY <1>1, <1>3 DEF TaskShow, IssueShow, ChatPost, NotifyAck, Stop, Idle
  <1>4. CASE Change(p) \/ TaskStatus(p) \/ IssueComment(p)
    BY <1>1, <1>4, ToTellAt DEF Change, TaskStatus, IssueComment
  <1>5. CASE SendMentions(p) \/ Tell(p) \/ TellFails(p)
    BY <1>1, <1>5, ToTellAt DEF SendMentions, Tell, TellFails, Told
  <1>6. CASE Manage(p) \/ Configure(p) \/ TaskNote(p) \/ NotifyPost(p)
    BY <1>6 DEF Manage, Configure, TaskNote, NotifyPost, KeepsAgents
  <1>7. CASE ResolveName(p)
    <2>1. PICK email, l, m :
            /\ l = [Found(k, email) EXCEPT !.names = Tail(@)]
            /\ m = [k EXCEPT !.at = "group"]
            /\ k.at = "names" /\ Reads(p, IF email # NoEmail THEN l ELSE m)
      BY <1>2, <1>7 DEF ResolveName
    <2>2. l.at = "names" /\ m.at = "group"
      BY <1>2, <2>1 DEF JobOk, Found
    <2>3. QED
      BY <1>1, <2>1, <2>2 DEF Reads
  <1>8. CASE ResolveGroup(p)
    <2>1. PICK s, l :
            /\ l = [k EXCEPT !.at = "names", !.names = Tail(@), !.members = s]
            /\ k.at = "group" /\ Reads(p, l)
      BY <1>2, <1>8 DEF ResolveGroup
    <2>2. l.at = "names"
      BY <1>2, <2>1 DEF JobOk
    <2>3. QED
      BY <1>1, <2>1, <2>2 DEF Reads
  <1>9. CASE ResolveMember(p)
    <2>1. PICK email, l :
            /\ l = [Found(k, email) EXCEPT !.members = Tail(@)]
            /\ k.at = "names" /\ Reads(p, l)
      BY <1>2, <1>9 DEF ResolveMember
    <2>2. l.at = "names"
      BY <1>2, <2>1 DEF JobOk, Found
    <2>3. QED
      BY <1>1, <2>1, <2>2 DEF Reads
  <1>10. CASE AckNext(p)
    <2>1. PICK todo, l :
            /\ l = [k EXCEPT !.todo = Tail(todo)] /\ k.at = "ack"
            /\ job' = [job EXCEPT ![p] = IF Len(todo) = 1 THEN Idle ELSE l]
      BY <1>2, <1>10 DEF AckNext
    <2>2. l.at = "ack"
      BY <1>2, <2>1 DEF JobOk
    <2>3. QED
      BY <1>1, <1>10, <2>1, <2>2 DEF AckNext, Idle
  <1>11. QED
    BY <1>3, <1>4, <1>5, <1>6, <1>7, <1>8, <1>9, <1>10

\* The registry only grows.
LEMMA RegistryGrows ==
    ASSUME Typed, menu' = menu, Stays \/ Grows
    PROVE  RegistryCommits \subseteq RegistryCommits'
  <1>1. CASE Stays
    BY <1>1 DEF Stays, RegistryCommits
  <1>2. CASE Grows
    <2>1. PICK ref, c : ref \in Ref /\ Appends(ref, c)
      BY <1>2 DEF Grows
    <2>2. \A r \in Ref : Range(chain'[r]) = IF r = ref THEN Range(chain[ref]) \cup {c}
                                            ELSE Range(chain[r])
      BY <2>1, AppendsIs DEF Typed
    <2>3. QED
      BY <2>2 DEF RegistryCommits, Ref
  <1>3. QED
    BY <1>1, <1>2

\* A write to the registry.
LEMMA RegistryWritten ==
    ASSUME Typed, NEW p \in Proc, NEW i, NEW kind, NEW data,
           Write(p, "registry", i, kind, data)
    PROVE  \E c \in RegistryCommits' : c.id = i /\ c.kind = kind /\ c.data = data
  <1>1. PICK c : c = Commit(p, i, kind, data)
    OBVIOUS
  <1>2. c.id = i /\ c.kind = kind /\ c.data = data
    BY <1>1 DEF Commit
  <1>3. PICK s : s = chain["registry"] /\ IsList(s)
    BY DEF Typed, ChainsTyped, IsChain, Ref
  <1>4. chain'["registry"] = Append(s, c)
    BY <1>1, <1>3 DEF Write, Typed, ChainsTyped, Ref
  <1>5. c \in RegistryCommits'
    BY <1>3, <1>4, Appended DEF RegistryCommits
  <1>6. QED
    BY <1>2, <1>5

\* What was right stays right while files keep their keys.
LEMMA AgentsKept ==
    ASSUME RegistryCommits \subseteq RegistryCommits',
           \A n \in Name : keyFile[n] # NoFile => keyFile'[n] = keyFile[n]
    PROVE  /\ \A j : AgentOk(j) /\ (j.at \in {"user", "key"} => j.name \in Name) => AgentOk(j)'
           /\ \A s : SetupOk(s) /\ s.name \in Name => SetupOk(s)'
  <1>1. ASSUME NEW j, AgentOk(j), j.at \in {"user", "key"} => j.name \in Name
        PROVE  /\ j.at \in {"user", "key"} => keyFile'[j.name] = j.pub /\ j.pub # NoFile
               /\ j.at = "key" =>
                    \E u \in RegistryCommits' :
                       u.kind = "users.user_set" /\ u.data.username = j.name /\ u.id = j.after
    BY <1>1 DEF AgentOk
  <1>2. ASSUME NEW s, SetupOk(s), s.name \in Name
        PROVE  /\ keyFile'[s.name] = s.pub /\ s.pub # NoFile
               /\ ~s.stepped => SetUp(s)'
    BY <1>2 DEF SetupOk, SetUp
  <1>3. QED
    BY <1>1, <1>2 DEF AgentOk, SetupOk

\* A later millisecond, or the next number in the same one, is a larger ID.
LEMMA UlidsAscend ==
    ASSUME NEW i \in Nat, NEW last \in Nat, NEW now, i \in NewUlid(last, now),
           ~(now < Ms(last))
    PROVE  last < i
  <1>1. Ms(i) = now /\ (Ms(last) = now => i > last)
    BY DEF NewUlid
  <1>2. PICK a, b \in Nat : a = Ms(i) /\ b = Ms(last)
    BY DEF Ms
  <1>3. a = b \/ b < a
    BY <1>1, <1>2
  <1>4. b < a => last < i
    BY <1>2 DEF Ms
  <1>5. QED
    BY <1>1, <1>2, <1>3, <1>4

\* What setups have found and left stays so.
LEMMA AgentsStep ==
    ASSUME Typed, AgentsOk, [ServerNext]_serverVars
    PROVE  AgentsOk'
  <1>1. Typed' /\ RegistryCommits \subseteq RegistryCommits'
    BY StepTyped, RegistryGrows
  <1>2. /\ \A q \in Proc : job[q].at \in {"user", "key"} => job[q].name \in Name
        /\ \A s \in setups : s.name \in Name
    BY DEF Typed, JobsTyped, JobOk, FilesTyped
  <1>3. ASSUME KeepsAgents
        PROVE  AgentsOk'
    <2>1. /\ \A j : AgentOk(j) /\ (j.at \in {"user", "key"} => j.name \in Name) => AgentOk(j)'
          /\ \A s : SetupOk(s) /\ s.name \in Name => SetupOk(s)'
      BY <1>1, <1>3, AgentsKept DEF KeepsAgents
    <2>2. ASSUME NEW q \in Proc
          PROVE  AgentOk(job[q])'
      <3>1. CASE job'[q] = job[q]
        BY <1>2, <2>1, <3>1 DEF AgentsOk
      <3>2. CASE job'[q].at \notin {"user", "key"}
        BY <3>2 DEF AgentOk
      <3>3. QED
        BY <1>3, <3>1, <3>2 DEF KeepsAgents
    <2>3. \A s \in setups' : SetupOk(s)'
      BY <1>2, <1>3, <2>1 DEF KeepsAgents, AgentsOk
    <2>4. QED
      BY <2>2, <2>3 DEF AgentsOk
  <1>4. ASSUME UNCHANGED vars
        PROVE  AgentsOk'
    BY <1>3, <1>4 DEF vars, KeepsAgents
  <1>5. ASSUME NEW p \in Proc, AgentKeygen(p)
        PROVE  AgentsOk'
    <2>1. PICK pub, n, k :
            /\ n \in Name /\ NewPub(pub) /\ keyFile[n] = NoFile
            /\ keyFile' = [keyFile EXCEPT ![n] = pub]
            /\ k = [at |-> "user", name |-> n, pub |-> pub] /\ Moves(p, k)
      BY <1>5, AgentKeygenMoves
    <2>2. pub # NoFile
      BY <2>1, NewPubIs
    <2>3. \A m \in Name : keyFile'[m] = IF m = n THEN pub ELSE keyFile[m]
      BY <2>1 DEF Typed, FilesTyped
    <2>4. /\ \A j : AgentOk(j) /\ (j.at \in {"user", "key"} => j.name \in Name) => AgentOk(j)'
          /\ \A s : SetupOk(s) /\ s.name \in Name => SetupOk(s)'
      BY <1>1, <2>1, <2>3, AgentsKept
    <2>5. k.at = "user" /\ k.name = n /\ k.pub = pub
      BY <2>1
    <2>6. AgentOk(k)'
      BY <2>1, <2>2, <2>3, <2>5 DEF AgentOk
    <2>7. \A q \in Proc : job'[q] = IF q = p THEN k ELSE job[q]
      BY <2>1 DEF Moves, Typed, JobsTyped
    <2>8. \A q \in Proc : AgentOk(job[q])'
      BY <1>2, <2>4, <2>6, <2>7 DEF AgentsOk
    <2>9. \A s \in setups' : SetupOk(s)'
      BY <1>2, <1>5, <2>4 DEF AgentKeygen, AgentsOk
    <2>10. QED
      BY <2>8, <2>9 DEF AgentsOk
  <1>6. ASSUME NEW p \in Proc, AgentUser(p)
        PROVE  AgentsOk'
    <2>1. PICK j, i, d, k :
            /\ j = job[p] /\ j.at = "user"
            /\ d = [username |-> j.name, fields |-> [emails |-> {AgentEmail[j.name]}]]
            /\ Write(p, "registry", i, "users.user_set", d)
            /\ k = [at |-> "key", name |-> j.name, pub |-> j.pub, after |-> i]
            /\ job' = [job EXCEPT ![p] = k]
      BY <1>6 DEF AgentUser
    <2>2. keyFile' = keyFile /\ setups' = setups
      BY <1>6 DEF AgentUser
    <2>3. /\ \A l : AgentOk(l) /\ (l.at \in {"user", "key"} => l.name \in Name) => AgentOk(l)'
          /\ \A s : SetupOk(s) /\ s.name \in Name => SetupOk(s)'
      BY <1>1, <2>2, AgentsKept
    <2>4. d.username = j.name
      BY <2>1
    <2>5. \E c \in RegistryCommits' : /\ c.id = i /\ c.kind = "users.user_set"
                                      /\ c.data.username = j.name
      BY <2>1, <2>4, RegistryWritten
    <2>6. k.at = "key" /\ k.name = j.name /\ k.pub = j.pub /\ k.after = i
      BY <2>1
    <2>7. keyFile[j.name] = j.pub /\ j.pub # NoFile
      BY <2>1 DEF AgentsOk, AgentOk
    <2>8. AgentOk(k)'
      BY <2>2, <2>5, <2>6, <2>7 DEF AgentOk
    <2>9. \A q \in Proc : job'[q] = IF q = p THEN k ELSE job[q]
      BY <2>1 DEF Typed, JobsTyped
    <2>10. \A q \in Proc : AgentOk(job[q])'
      BY <1>2, <2>3, <2>8, <2>9 DEF AgentsOk
    <2>11. QED
      BY <1>2, <2>2, <2>3, <2>10 DEF AgentsOk
  <1>7. ASSUME NEW p \in Proc, AgentKey(p)
        PROVE  AgentsOk'
    <2>1. PICK j, now, i, d, t :
            /\ i \in NewUlid(j.after, now) /\ j = job[p] /\ j.at = "key"
            /\ t = [name |-> j.name, pub |-> j.pub, stepped |-> now < Ms(j.after)]
            /\ setups' = setups \cup {t}
            /\ d = [username |-> j.name, pub |-> j.pub]
            /\ Write(p, "registry", i, "users.key_add", d)
            /\ job' = [job EXCEPT ![p] = Idle]
      BY <1>7 DEF AgentKey
    <2>2. keyFile' = keyFile
      BY <1>7 DEF AgentKey
    <2>3. /\ \A l : AgentOk(l) /\ (l.at \in {"user", "key"} => l.name \in Name) => AgentOk(l)'
          /\ \A s : SetupOk(s) /\ s.name \in Name => SetupOk(s)'
      BY <1>1, <2>2, AgentsKept
    <2>4. d.username = j.name /\ d.pub = j.pub
      BY <2>1
    <2>5. PICK a \in RegistryCommits' : /\ a.id = i /\ a.kind = "users.key_add"
                                        /\ a.data.username = j.name /\ a.data.pub = j.pub
      BY <2>1, <2>4, RegistryWritten
    <2>6. /\ keyFile[j.name] = j.pub /\ j.pub # NoFile
          /\ \E u \in RegistryCommits :
               u.kind = "users.user_set" /\ u.data.username = j.name /\ u.id = j.after
      BY <2>1 DEF AgentsOk, AgentOk
    <2>7. PICK u \in RegistryCommits :
            u.kind = "users.user_set" /\ u.data.username = j.name /\ u.id = j.after
      BY <2>6
    <2>8. t.name = j.name /\ t.pub = j.pub /\ t.stepped = (now < Ms(j.after))
      BY <2>1
    <2>9. i \in Nat /\ j.after \in Nat
      <3>1. menu.ids \in Nat
        BY MenuIs DEF Typed, ChainsTyped
      <3>2. i \in Nat
        BY <2>1, <3>1 DEF NewUlid, NewIds
      <3>3. QED
        BY <2>1, <3>2 DEF Typed, JobsTyped, JobOk
    <2>10. ~t.stepped => SetUp(t)'
      <3> SUFFICES ASSUME ~t.stepped PROVE SetUp(t)'
        OBVIOUS
      <3>1. u.id < a.id
        BY <2>1, <2>5, <2>7, <2>8, <2>9, UlidsAscend
      <3>2. u \in RegistryCommits'
        BY <1>1, <2>7
      <3>3. QED
        BY <2>5, <2>7, <2>8, <3>1, <3>2 DEF SetUp
    <2>11. SetupOk(t)'
      BY <2>2, <2>6, <2>8, <2>10 DEF SetupOk
    <2>12. \A s \in setups' : SetupOk(s)'
      BY <1>2, <2>1, <2>3, <2>11 DEF AgentsOk
    <2>13. AgentOk(Idle)'
      BY DEF AgentOk, Idle
    <2>14. \A q \in Proc : job'[q] = IF q = p THEN Idle ELSE job[q]
      BY <2>1 DEF Typed, JobsTyped
    <2>15. \A q \in Proc : AgentOk(job[q])'
      BY <1>2, <2>3, <2>13, <2>14 DEF AgentsOk
    <2>16. QED
      BY <2>12, <2>15 DEF AgentsOk
  <1>8. CASE UNCHANGED serverVars
    BY <1>4, <1>8 DEF serverVars
  <1>9. CASE \E p \in Proc : \E list \in menu.lists, limit \in menu.limits : Page(p, list, limit)
    BY <1>4, <1>9 DEF Page
  <1>10. CASE \E p \in Proc : NotifyPost(p) \/ NotifyAck(p) \/ AckNext(p)
    BY <1>3, <1>10, OthersKeepAgents
  <1>11. CASE Next
    BY <1>3, <1>5, <1>6, <1>7, <1>11, OthersKeepAgents DEF Next
  <1>12. QED
    BY <1>8, <1>9, <1>10, <1>11 DEF ServerNext

(***************************************************************************)
(* A key that users add --agent reported is in its file ever after, and    *)
(* unless the clock stepped back between the command's two writes it is    *)
(* registered for the agent, whatever other commands add, revoke, or leave *)
(* half done.                                                              *)
(***************************************************************************)
THEOREM SetupsWorkHolds == ServerSpec => []SetupsWork
  <1>1. ServerInit => AgentsOk
    BY DEF ServerInit, Init, AgentsOk, AgentOk, Idle
  <1>2. Typed /\ AgentsOk /\ [ServerNext]_serverVars => AgentsOk'
    BY AgentsStep
  <1>3. Typed /\ AgentsOk => SetupsWork
    <2> SUFFICES ASSUME Typed, AgentsOk, NEW s \in setups
                 PROVE  /\ keyFile[s.name] = s.pub
                        /\ ~s.stepped =>
                             \E k \in
                               Range(Verify!Users(RegistryOf(chain["registry"]))[s.name].keys) :
                               k.pub = s.pub
      BY DEF SetupsWork
    <2>1. SetupOk(s)
      BY DEF AgentsOk
    <2>2. ASSUME ~s.stepped
          PROVE  HasPub(Verify!Users(RegistryOf(chain["registry"])), s.name, s.pub)
      <3>1. PICK u \in RegistryCommits, a \in RegistryCommits :
              /\ u.kind = "users.user_set" /\ a.kind = "users.key_add"
              /\ u.data.username = s.name /\ a.data.username = s.name
              /\ a.data.pub = s.pub /\ u.id < a.id
        BY <2>1, <2>2 DEF SetupOk, SetUp
      <3>2. /\ IsEvents(RegistryCommits) /\ \A e \in RegistryCommits : WellFormed(e)
        BY ChainEvents DEF Typed, ChainsTyped, RegistryCommits, Ref
      <3>3. HasPub(Verify!Users(RegistryFoldOf(RegistryCommits)), a.data.username, a.data.pub)
        BY <3>1, <3>2, RegistryEvents
      <3>4. QED
        BY <3>1, <3>3 DEF RegistryOf, RegistryFoldOf, RegistryCommits
    <2>3. QED
      BY <2>1, <2>2 DEF HasPub, SetupOk
  <1>4. QED
    BY <1>1, <1>2, <1>3, TypedHolds, PTL DEF ServerSpec

-----------------------------------------------------------------------------
(* Keys and emails of a registry, in terms of its events.                  *)

SetsOf(F, n) == {u \in F : u.kind = "users.user_set" /\ u.data.username = n}
AddsOf(F, n, key) ==
    {a \in F : /\ a.kind = "users.key_add" /\ a.data.username = n /\ a.data.pub = key
               /\ \E u \in SetsOf(F, n) : u.id < a.id}
RevokesOf(F, n, key) ==
    {r \in F : /\ r.kind = "users.key_revoke" /\ r.data.username = n /\ r.data.pub = key
               /\ \E a \in AddsOf(F, n, key) : a.id < r.id}

MailsFit(F, n, emails) ==
    \/ emails = {} /\ \A u \in SetsOf(F, n) : "emails" \notin DOMAIN u.data.fields
    \/ \E u \in SetsOf(F, n) :
         /\ "emails" \in DOMAIN u.data.fields /\ emails = u.data.fields.emails
         /\ \A v \in SetsOf(F, n) : "emails" \in DOMAIN v.data.fields => v.id <= u.id
KeyFits(F, n, k) ==
    /\ AddsOf(F, n, k.pub) # {}
    /\ \/ k.revoked_at = Never /\ RevokesOf(F, n, k.pub) = {}
       \/ \E r \in RevokesOf(F, n, k.pub) :
            k.revoked_at = r.id /\ \A q \in RevokesOf(F, n, k.pub) : r.id <= q.id
KeysFit(F, n, keys) ==
    /\ \A k \in Range(keys) : KeyFits(F, n, k)
    /\ \A key : AddsOf(F, n, key) # {} => \E k \in Range(keys) : k.pub = key
UsersFit(F, users) ==
    \A n : /\ n \in DOMAIN users <=> SetsOf(F, n) # {}
           /\ n \in DOMAIN users => /\ MailsFit(F, n, users[n].emails)
                                    /\ KeysFit(F, n, users[n].keys)

IsLater(F, e) ==
    /\ e.id \in Nat \ {Never}
    /\ \A d \in F : d.id \in Nat \ {Never} /\ d.id < e.id

\* What a later event adds to these.
Later(F, e, n, key) ==
    /\ SetsOf(F \cup {e}, n) =
         IF e.kind = "users.user_set" /\ e.data.username = n
         THEN SetsOf(F, n) \cup {e} ELSE SetsOf(F, n)
    /\ AddsOf(F \cup {e}, n, key) =
         IF /\ e.kind = "users.key_add" /\ e.data.username = n
            /\ e.data.pub = key /\ SetsOf(F, n) # {}
         THEN AddsOf(F, n, key) \cup {e} ELSE AddsOf(F, n, key)
    /\ RevokesOf(F \cup {e}, n, key) =
         IF /\ e.kind = "users.key_revoke" /\ e.data.username = n
            /\ e.data.pub = key /\ AddsOf(F, n, key) # {}
         THEN RevokesOf(F, n, key) \cup {e} ELSE RevokesOf(F, n, key)

\* What a later event adds to them.
LEMMA EventsLater ==
    ASSUME NEW F, NEW e, IsLater(F, e), NEW n, NEW key
    PROVE  Later(F, e, n, key)
  <1> DEFINE G == F \cup {e}
  <1>1. \A d \in F : d.id < e.id /\ ~(e.id < d.id) /\ d # e
    BY DEF IsLater
  <1>2. ~(e.id < e.id)
    BY DEF IsLater
  <1>3. SetsOf(G, n) = IF e.kind = "users.user_set" /\ e.data.username = n
                       THEN SetsOf(F, n) \cup {e} ELSE SetsOf(F, n)
    BY DEF SetsOf
  <1>4. ASSUME NEW a \in G
        PROVE  (\E u \in SetsOf(G, n) : u.id < a.id) <=>
                 IF a = e THEN SetsOf(F, n) # {} ELSE \E u \in SetsOf(F, n) : u.id < a.id
    BY <1>1, <1>2, <1>3 DEF SetsOf
  <1>5. AddsOf(G, n, key) =
          IF /\ e.kind = "users.key_add" /\ e.data.username = n
             /\ e.data.pub = key /\ SetsOf(F, n) # {}
          THEN AddsOf(F, n, key) \cup {e} ELSE AddsOf(F, n, key)
    BY <1>1, <1>4 DEF AddsOf
  <1>6. ASSUME NEW r \in G
        PROVE  (\E a \in AddsOf(G, n, key) : a.id < r.id) <=>
                 IF r = e THEN AddsOf(F, n, key) # {}
                 ELSE \E a \in AddsOf(F, n, key) : a.id < r.id
    BY <1>1, <1>2, <1>5 DEF AddsOf
  <1>7. RevokesOf(G, n, key) =
          IF /\ e.kind = "users.key_revoke" /\ e.data.username = n
             /\ e.data.pub = key /\ AddsOf(F, n, key) # {}
          THEN RevokesOf(F, n, key) \cup {e} ELSE RevokesOf(F, n, key)
    BY <1>1, <1>6 DEF RevokesOf
  <1>8. QED
    BY <1>3, <1>5, <1>7 DEF Later

\* The user of an event of another user, or of another kind.
LEMMA OtherEvents ==
    ASSUME NEW F, NEW e, IsLater(F, e), NEW n,
           \/ e.kind \notin {"users.user_set", "users.key_add", "users.key_revoke"}
           \/ e.data.username # n
           \/ SetsOf(F, n) = {} /\ e.kind # "users.user_set"
    PROVE  /\ SetsOf(F \cup {e}, n) = SetsOf(F, n)
           /\ \A emails : MailsFit(F, n, emails) => MailsFit(F \cup {e}, n, emails)
           /\ \A keys : KeysFit(F, n, keys) => KeysFit(F \cup {e}, n, keys)
  <1> DEFINE G == F \cup {e}
  <1>1. ASSUME NEW key
        PROVE  /\ SetsOf(G, n) = SetsOf(F, n) /\ AddsOf(G, n, key) = AddsOf(F, n, key)
               /\ RevokesOf(G, n, key) = RevokesOf(F, n, key)
    <2>1. SetsOf(F, n) = {} => AddsOf(F, n, key) = {}
      BY DEF AddsOf
    <2>2. Later(F, e, n, key)
      BY EventsLater
    <2>3. QED
      BY <2>1, <2>2 DEF Later
  <1> HIDE DEF G
  <1>2. SetsOf(G, n) = SetsOf(F, n)
    BY <1>1
  <1>3. \A emails : MailsFit(F, n, emails) => MailsFit(G, n, emails)
    BY <1>2 DEF MailsFit
  <1>4. \A keys : KeysFit(F, n, keys) => KeysFit(G, n, keys)
    BY <1>1 DEF KeysFit, KeyFits
  <1>5. QED
    BY <1>2, <1>3, <1>4 DEF G

\* A user is set.
LEMMA UserSetFits ==
    ASSUME NEW F, NEW e, IsLater(F, e), NEW users, UsersFit(F, users), AreUsers(users),
           WellFormed(e), e.kind = "users.user_set", NEW n, n = e.data.username,
           NEW user, user = UsersAfter(users, e)[n]
    PROVE  /\ SetsOf(F \cup {e}, n) # {}
           /\ MailsFit(F \cup {e}, n, user.emails) /\ KeysFit(F \cup {e}, n, user.keys)
  <1>1. PICK old, fields : old = Given(users, n, Verify!NewUser) /\ fields = e.data.fields
    OBVIOUS
  <1>2. user = Over(Fields(fields, {"emails", "roles"}), old)
    BY <1>1 DEF UsersAfter, Put
  <1>3. PICK new : new = [emails |-> {}, roles |-> {}, keys |-> <<>>]
    OBVIOUS
  <1>4. DOMAIN new = {"emails", "roles", "keys"} /\ new.emails = {} /\ new.keys = <<>>
    BY <1>3
  <1>5. /\ old = IF n \in DOMAIN users THEN users[n] ELSE new
        /\ DOMAIN old = {"emails", "roles", "keys"}
    BY <1>1, <1>3, <1>4 DEF Given, Verify!NewUser, AreUsers, IsUser
  <1>6. /\ user.keys = old.keys
        /\ user.emails = IF "emails" \in DOMAIN fields THEN fields.emails ELSE old.emails
    BY <1>2, <1>5 DEF Over, Fields
  <1>7. PICK G : G = F \cup {e}
    OBVIOUS
  <1>8. /\ SetsOf(G, n) = SetsOf(F, n) \cup {e}
        /\ \A key : AddsOf(G, n, key) = AddsOf(F, n, key)
                    /\ RevokesOf(G, n, key) = RevokesOf(F, n, key)
    <2>1. ASSUME NEW key
          PROVE  /\ SetsOf(G, n) = SetsOf(F, n) \cup {e}
                 /\ AddsOf(G, n, key) = AddsOf(F, n, key)
                 /\ RevokesOf(G, n, key) = RevokesOf(F, n, key)
      <3>1. Later(F, e, n, key)
        BY EventsLater
      <3>2. QED
        BY <1>7, <3>1 DEF Later
    <2>2. QED
      BY <2>1
  <1>9. KeysFit(G, n, user.keys)
    <2>1. CASE n \in DOMAIN users
      <3>1. KeysFit(F, n, user.keys)
        BY <1>5, <1>6, <2>1 DEF UsersFit
      <3>2. QED
        BY <1>8, <3>1 DEF KeysFit, KeyFits
    <2>2. CASE n \notin DOMAIN users
      <3>1. user.keys = <<>> /\ Range(<<>>) = {}
        BY <1>4, <1>5, <1>6, <2>2, EmptyList
      <3>2. \A key : AddsOf(F, n, key) = {}
        BY <2>2 DEF UsersFit, AddsOf
      <3>3. QED
        BY <1>8, <3>1, <3>2 DEF KeysFit
    <2>3. QED
      BY <2>1, <2>2
  <1>10. MailsFit(G, n, user.emails)
    <2>1. CASE "emails" \in DOMAIN fields
      <3>1. \A v \in SetsOf(G, n) : v.id <= e.id
        BY <1>8 DEF SetsOf, IsLater
      <3>2. QED
        BY <1>1, <1>6, <1>8, <2>1, <3>1 DEF MailsFit
    <2>2. CASE "emails" \notin DOMAIN fields /\ n \in DOMAIN users
      <3>1. MailsFit(F, n, user.emails)
        BY <1>5, <1>6, <2>2 DEF UsersFit
      <3>2. QED
        BY <1>1, <1>8, <2>2, <3>1 DEF MailsFit
    <2>3. CASE "emails" \notin DOMAIN fields /\ n \notin DOMAIN users
      <3>1. user.emails = {} /\ SetsOf(F, n) = {}
        BY <1>4, <1>5, <1>6, <2>3 DEF UsersFit
      <3>2. QED
        BY <1>1, <1>8, <2>3, <3>1 DEF MailsFit
    <2>4. QED
      BY <2>1, <2>2, <2>3
  <1>11. QED
    BY <1>7, <1>8, <1>9, <1>10

\* A key is added to a user, or revoked.
LEMMA KeysAfterFit ==
    ASSUME NEW F, NEW e, IsLater(F, e), NEW n, SetsOf(F, n) # {}, NEW keys,
           IsList(keys), \A k \in Range(keys) : IsKey(k), KeysFit(F, n, keys),
           e.kind \in {"users.key_add", "users.key_revoke"}, e.data.username = n
    PROVE  KeysFit(F \cup {e}, n, KeysAfter(keys, e))
  <1>1. PICK G, pub : G = F \cup {e} /\ pub = e.data.pub
    OBVIOUS
  <1>2. ASSUME NEW key
        PROVE  /\ AddsOf(G, n, key) = IF e.kind = "users.key_add" /\ pub = key
                                      THEN AddsOf(F, n, key) \cup {e} ELSE AddsOf(F, n, key)
               /\ RevokesOf(G, n, key) =
                    IF e.kind = "users.key_revoke" /\ pub = key /\ AddsOf(F, n, key) # {}
                    THEN RevokesOf(F, n, key) \cup {e} ELSE RevokesOf(F, n, key)
    <2>1. Later(F, e, n, key)
      BY EventsLater
    <2>2. QED
      BY <1>1, <2>1 DEF Later
  <1>3. CASE e.kind = "users.key_add"
    <2>1. \A key : RevokesOf(G, n, key) = RevokesOf(F, n, key)
      BY <1>2, <1>3
    <2>2. ASSUME NEW k \in Range(keys)
          PROVE  KeyFits(G, n, k)
      <3>1. KeyFits(F, n, k) /\ AddsOf(F, n, k.pub) \subseteq AddsOf(G, n, k.pub)
        BY <1>2 DEF KeysFit
      <3>2. QED
        BY <2>1, <3>1 DEF KeyFits
    <2>3. CASE \E k \in Range(keys) : k.pub = pub
      <3>1. KeysAfter(keys, e) = keys
        BY <1>1, <1>3, <2>3 DEF KeysAfter
      <3>2. \A key : AddsOf(G, n, key) # {} => \E k \in Range(keys) : k.pub = key
        BY <1>2, <1>3, <2>3 DEF KeysFit
      <3>3. QED
        BY <1>1, <2>2, <3>1, <3>2 DEF KeysFit
    <2>4. CASE ~\E k \in Range(keys) : k.pub = pub
      <3>1. PICK new : new = Verify!NewKey(e)
        OBVIOUS
      <3>2. new.pub = pub /\ new.revoked_at = Never
        BY <1>1, <3>1 DEF Verify!NewKey, Verify!Never, Never
      <3>3. PICK after : after = KeysAfter(keys, e)
        OBVIOUS
      <3>4. Range(after) = Range(keys) \cup {new}
        <4>1. after = Append(keys, new)
          BY <1>1, <1>3, <2>4, <3>1, <3>3 DEF KeysAfter
        <4>2. QED
          BY <4>1, Appended
      <3>5. AddsOf(F, n, pub) = {}
        BY <2>4 DEF KeysFit
      <3>6. RevokesOf(G, n, pub) = {} /\ AddsOf(G, n, pub) # {}
        BY <1>2, <1>3, <2>1, <3>5 DEF RevokesOf
      <3>7. KeyFits(G, n, new)
        BY <3>2, <3>6 DEF KeyFits
      <3>8. ASSUME NEW key, AddsOf(G, n, key) # {}
            PROVE  \E k \in Range(after) : k.pub = key
        <4>1. CASE key = pub
          BY <3>2, <3>4, <4>1
        <4>2. CASE key # pub
          <5>1. AddsOf(F, n, key) # {}
            BY <1>2, <3>8, <4>2
          <5>2. QED
            BY <3>4, <5>1 DEF KeysFit
        <4>3. QED
          BY <4>1, <4>2
      <3>9. QED
        BY <1>1, <2>2, <3>3, <3>4, <3>7, <3>8 DEF KeysFit
    <2>5. QED
      BY <2>3, <2>4
  <1>4. CASE e.kind = "users.key_revoke"
    <2>1. PICK after : after = KeysAfter(keys, e)
      OBVIOUS
    <2>2. PICK l \in Nat : l = Len(keys) /\ DOMAIN keys = 1 .. l
      BY ListParts
    <2>3. after = [m \in 1 .. l |-> Verify!Revoked(keys[m], e)]
      BY <1>4, <2>1, <2>2 DEF KeysAfter
    <2>4. \A key : AddsOf(G, n, key) = AddsOf(F, n, key)
      BY <1>2, <1>4
    <2>5. \A m \in 1 .. l : keys[m] \in Range(keys)
      BY <2>2 DEF Range
    <2>6. ASSUME NEW m \in 1 .. l
          PROVE  after[m].pub = keys[m].pub /\ KeyFits(G, n, after[m])
      <3>1. PICK k, a : k = keys[m] /\ a = Verify!Revoked(k, e)
        OBVIOUS
      <3>2. after[m] = a
        BY <2>3, <3>1
      <3>3. IsKey(k) /\ KeyFits(F, n, k)
        BY <2>5, <3>1 DEF KeysFit
      <3>4. /\ a.pub = k.pub
            /\ a.revoked_at = IF k.pub = pub /\ k.revoked_at = Never THEN e.id
                              ELSE k.revoked_at
        BY <1>1, <3>1, <3>3 DEF Verify!Revoked, IsKey, Verify!Never, Never
      <3>5. AddsOf(G, n, a.pub) # {} /\ AddsOf(F, n, k.pub) # {}
        BY <2>4, <3>3, <3>4 DEF KeyFits
      <3>6. RevokesOf(G, n, k.pub) = IF pub = k.pub THEN RevokesOf(F, n, k.pub) \cup {e}
                                     ELSE RevokesOf(F, n, k.pub)
        BY <1>2, <1>4, <3>5
      <3>7. CASE k.pub # pub
        <4>1. RevokesOf(G, n, a.pub) = RevokesOf(F, n, k.pub) /\ a.revoked_at = k.revoked_at
          BY <3>4, <3>6, <3>7
        <4>2. QED
          BY <3>1, <3>2, <3>3, <3>4, <3>5, <4>1 DEF KeyFits
      <3>8. CASE k.pub = pub /\ k.revoked_at = Never
        <4>1. RevokesOf(F, n, k.pub) = {}
          <5>1. \A r \in RevokesOf(F, n, k.pub) : r.id # Never
            BY DEF RevokesOf, IsLater
          <5>2. QED
            BY <3>3, <3>8, <5>1 DEF KeyFits
        <4>2. RevokesOf(G, n, a.pub) = {e} /\ e.id <= e.id
          BY <3>4, <3>6, <3>8, <4>1 DEF IsLater
        <4>3. QED
          <5>1. e \in RevokesOf(G, n, a.pub) /\ a.revoked_at = e.id
            BY <3>4, <3>8, <4>2
          <5>2. \A q \in RevokesOf(G, n, a.pub) : e.id <= q.id
            BY <4>2
          <5>3. QED
            BY <3>1, <3>2, <3>4, <3>5, <5>1, <5>2 DEF KeyFits
      <3>9. CASE k.pub = pub /\ k.revoked_at # Never
        <4>1. PICK r \in RevokesOf(F, n, k.pub) :
                k.revoked_at = r.id /\ \A q \in RevokesOf(F, n, k.pub) : r.id <= q.id
          BY <3>3, <3>9 DEF KeyFits
        <4>2. r.id <= e.id
          BY <4>1 DEF RevokesOf, IsLater
        <4>3. \A q \in RevokesOf(G, n, a.pub) : r.id <= q.id
          BY <3>4, <3>6, <4>1, <4>2
        <4>4. QED
          <5>1. r \in RevokesOf(G, n, a.pub) /\ a.revoked_at = r.id
            BY <3>4, <3>6, <3>9, <4>1
          <5>2. QED
            BY <3>1, <3>2, <3>4, <3>5, <4>3, <5>1 DEF KeyFits
      <3>10. QED
        BY <3>7, <3>8, <3>9
    <2>7. DOMAIN after = 1 .. l
      BY <2>3
    <2>8. \A k \in Range(after) : KeyFits(G, n, k)
      BY <2>6, <2>7 DEF Range
    <2>9. ASSUME NEW key, AddsOf(G, n, key) # {}
          PROVE  \E k \in Range(after) : k.pub = key
      <3>1. PICK k \in Range(keys) : k.pub = key
        BY <2>4, <2>9 DEF KeysFit
      <3>2. PICK m \in 1 .. l : keys[m] = k
        BY <2>2, <3>1 DEF Range
      <3>3. after[m] \in Range(after)
        BY <2>7 DEF Range
      <3>4. QED
        BY <2>6, <3>1, <3>2, <3>3
    <2>10. QED
      BY <1>1, <2>1, <2>8, <2>9 DEF KeysFit
  <1>5. QED
    BY <1>3, <1>4

\* The users after an event, whatever it is.
LEMMA UsersAfterFit ==
    ASSUME NEW F, NEW e, IsLater(F, e), NEW users, UsersFit(F, users), AreUsers(users),
           WellFormed(e)
    PROVE  UsersFit(F \cup {e}, UsersAfter(users, e))
  <1>1. PICK G, after, m : G = F \cup {e} /\ after = UsersAfter(users, e) /\ m = e.data.username
    OBVIOUS
  <1>2. ASSUME NEW n, SetsOf(G, n) = SetsOf(F, n), n \in DOMAIN after <=> n \in DOMAIN users,
               n \in DOMAIN users => after[n] = users[n],
               \A emails : MailsFit(F, n, emails) => MailsFit(G, n, emails),
               \A keys : KeysFit(F, n, keys) => KeysFit(G, n, keys)
        PROVE  /\ n \in DOMAIN after <=> SetsOf(G, n) # {}
               /\ n \in DOMAIN after => /\ MailsFit(G, n, after[n].emails)
                                        /\ KeysFit(G, n, after[n].keys)
    BY <1>2 DEF UsersFit
  <1>3. CASE e.kind = "users.user_set"
    <2>1. PICK user : after = Put(users, m, user)
      BY <1>1, <1>3 DEF UsersAfter
    <2>2. /\ DOMAIN after = DOMAIN users \cup {m}
          /\ \A n \in DOMAIN users : n # m => after[n] = users[n]
      BY <2>1 DEF Put
    <2>3. ASSUME NEW n
          PROVE  /\ n \in DOMAIN after <=> SetsOf(G, n) # {}
                 /\ n \in DOMAIN after => /\ MailsFit(G, n, after[n].emails)
                                          /\ KeysFit(G, n, after[n].keys)
      <3>1. CASE n = m
        <4>1. PICK u : u = after[n]
          OBVIOUS
        <4>2. /\ SetsOf(G, n) # {}
              /\ MailsFit(G, n, u.emails) /\ KeysFit(G, n, u.keys)
          BY <1>1, <1>3, <3>1, <4>1, UserSetFits
        <4>3. QED
          BY <2>2, <3>1, <4>1, <4>2
      <3>2. CASE n # m
        <4>1. /\ SetsOf(G, n) = SetsOf(F, n)
              /\ \A emails : MailsFit(F, n, emails) => MailsFit(G, n, emails)
              /\ \A keys : KeysFit(F, n, keys) => KeysFit(G, n, keys)
          BY <1>1, <3>2, OtherEvents
        <4>2. QED
          BY <1>2, <2>2, <3>2, <4>1
      <3>3. QED
        BY <3>1, <3>2
    <2>4. QED
      BY <1>1, <2>3 DEF UsersFit
  <1>4. CASE e.kind \in {"users.key_add", "users.key_revoke"} /\ m \in DOMAIN users
    <2>1. PICK keys, new : keys = users[m].keys /\ new = KeysAfter(keys, e)
      OBVIOUS
    <2>2. PICK user : user = Put(users[m], "keys", new)
      OBVIOUS
    <2>3. after = Put(users, m, user)
      BY <1>1, <1>4, <2>1, <2>2 DEF UsersAfter
    <2>4. DOMAIN after = DOMAIN users /\ \A n \in DOMAIN users :
                                            after[n] = IF n = m THEN user ELSE users[n]
      BY <1>4, <2>3 DEF Put
    <2>5. user.keys = new /\ user.emails = users[m].emails
      BY <1>4, <2>2 DEF Put, AreUsers, IsUser
    <2>6. /\ SetsOf(F, m) # {} /\ KeysFit(F, m, keys) /\ MailsFit(F, m, user.emails)
          /\ IsList(keys) /\ \A k \in Range(keys) : IsKey(k)
      BY <1>4, <2>1, <2>5 DEF UsersFit, AreUsers, IsUser
    <2>7. KeysFit(G, m, new)
      BY <1>1, <1>4, <2>1, <2>6, KeysAfterFit
    <2>8. SetsOf(G, m) = SetsOf(F, m)
      <3>1. Later(F, e, m, 0)
        BY EventsLater
      <3>2. QED
        BY <1>1, <1>4, <3>1 DEF Later
    <2>9. MailsFit(G, m, user.emails)
      BY <2>6, <2>8 DEF MailsFit
    <2>10. ASSUME NEW n
           PROVE  /\ n \in DOMAIN after <=> SetsOf(G, n) # {}
                  /\ n \in DOMAIN after => /\ MailsFit(G, n, after[n].emails)
                                           /\ KeysFit(G, n, after[n].keys)
      <3>1. CASE n = m
        BY <1>4, <2>4, <2>5, <2>6, <2>7, <2>8, <2>9, <3>1
      <3>2. CASE n # m
        <4>1. /\ SetsOf(G, n) = SetsOf(F, n)
              /\ \A emails : MailsFit(F, n, emails) => MailsFit(G, n, emails)
              /\ \A keys_1 : KeysFit(F, n, keys_1) => KeysFit(G, n, keys_1)
          BY <1>1, <3>2, OtherEvents
        <4>2. QED
          BY <1>2, <2>4, <3>2, <4>1
      <3>3. QED
        BY <3>1, <3>2
    <2>11. QED
      BY <1>1, <2>10 DEF UsersFit
  <1>5. CASE /\ e.kind # "users.user_set"
             /\ ~(e.kind \in {"users.key_add", "users.key_revoke"} /\ m \in DOMAIN users)
    <2>1. after = users
      BY <1>1, <1>5 DEF UsersAfter
    <2>2. ASSUME NEW n
          PROVE  /\ n \in DOMAIN after <=> SetsOf(G, n) # {}
                 /\ n \in DOMAIN after => /\ MailsFit(G, n, after[n].emails)
                                          /\ KeysFit(G, n, after[n].keys)
      <3>1. /\ SetsOf(G, n) = SetsOf(F, n)
            /\ \A emails : MailsFit(F, n, emails) => MailsFit(G, n, emails)
            /\ \A keys : KeysFit(F, n, keys) => KeysFit(G, n, keys)
        <4>1. \/ e.kind \notin {"users.user_set", "users.key_add", "users.key_revoke"}
              \/ e.data.username # n
              \/ SetsOf(F, n) = {} /\ e.kind # "users.user_set"
          BY <1>1, <1>5 DEF UsersFit
        <4>2. QED
          BY <1>1, <4>1, OtherEvents
      <3>2. QED
        BY <1>2, <2>1, <3>1
    <2>3. QED
      BY <1>1, <2>2 DEF UsersFit
  <1>6. QED
    BY <1>3, <1>4, <1>5

\* The users of a registry are what its events say.
LEMMA RegistryFits ==
    ASSUME NEW E, IsEvents(E), \A e \in E : WellFormed(e)
    PROVE  /\ UsersFit(E, Verify!Users(RegistryFoldOf(E)))
           /\ AreUsers(Verify!Users(RegistryFoldOf(E)))
  <1> DEFINE Good == {F \in SUBSET E : UsersFit(F, Verify!Users(RegistryFoldOf(F)))}
  <1>1. {} \in Good
    <2>1. DOMAIN <<>> = {}
      OBVIOUS
    <2>2. RegistryFoldOf({}) = NewState /\ Verify!Users(NewState) = <<>>
      BY RegistryFold, NewRegistry DEF RegistryFoldOf
    <2>3. UsersFit({}, <<>>)
      BY <2>1 DEF UsersFit, SetsOf
    <2>4. QED
      BY <2>2, <2>3
  <1>2. ASSUME NEW e \in E, NEW F \in SUBSET E, F \in Good, IsEvents(F),
               F = {d \in E : d.id < e.id}
        PROVE  F \cup {e} \in Good
    <2>1. WellFormed(e) /\ \A d \in F : WellFormed(d)
      OBVIOUS
    <2>2. IsLater(F, e)
      BY <1>2, <2>1 DEF IsLater, WellFormed, Never
    <2>3. RegistryFoldOf(F \cup {e}) = IF IsCheckpoint(e) THEN RegistryFoldOf(F)
                                       ELSE Verify!Apply(RegistryFoldOf(F), e)
      <3>1. e.id \in Nat /\ \A d \in F : d.id < e.id
        BY <2>2 DEF IsLater
      <3>2. QED
        BY <1>2, <3>1, RegistryFold DEF RegistryFoldOf
    <2>4. PICK s, t : s = RegistryFoldOf(F) /\ t = RegistryFoldOf(F \cup {e})
      OBVIOUS
    <2>5. PICK U : U = Verify!Users(s)
      OBVIOUS
    <2>6. UsersFit(F, U) /\ IsState(s) /\ AreUsers(U)
      <3>1. UsersFit(F, U)
        BY <1>2, <2>4, <2>5
      <3>2. IsState(s) /\ AreUsers(U)
        BY <1>2, <2>1, <2>4, <2>5, RegistryEvents
      <3>3. QED
        BY <3>1, <3>2
    <2>7. UsersFit(F \cup {e}, UsersAfter(U, e))
      BY <2>1, <2>2, <2>6, UsersAfterFit
    <2>8. Verify!Users(t) = UsersAfter(U, e)
      <3>1. CASE IsCheckpoint(e)
        <4>1. t = s /\ e.kind = "checkpoint"
          BY <2>3, <2>4, <3>1 DEF IsCheckpoint
        <4>2. UsersAfter(U, e) = U
          BY <4>1 DEF UsersAfter
        <4>3. QED
          BY <2>5, <4>1, <4>2
      <3>2. CASE ~IsCheckpoint(e)
        <4>1. t = Verify!Apply(s, e)
          BY <2>3, <2>4, <3>2
        <4>2. QED
          BY <2>5, <2>6, <4>1, RegistryStep
      <3>3. QED
        BY <3>1, <3>2
    <2>9. QED
      BY <2>4, <2>7, <2>8
  <1>3. E \in Good
    <2> HIDE DEF Good
    <2> QED
      BY <1>1, <1>2, EventInduction
  <1>4. AreUsers(Verify!Users(RegistryFoldOf(E)))
    BY RegistryEvents
  <1>5. QED
    BY <1>3, <1>4

-----------------------------------------------------------------------------
(* Verdicts.                                                               *)

\* The registry as verify finds it, in the words of the rules.
Rules(users, n) ==
    /\ n \in DOMAIN users =>
         /\ n \in Name /\ IsUser(users[n]) /\ users[n].emails = Emails(n)
         /\ \A k \in Range(users[n].keys) :
              /\ Additions(n, k.pub) # {}
              /\ \/ k.revoked_at = Never /\ Revocations(n, k.pub) = {}
                 \/ \E r \in Revocations(n, k.pub) :
                      k.revoked_at = r.id /\ \A q \in Revocations(n, k.pub) : r.id <= q.id
    /\ \A key : Additions(n, key) # {} =>
         n \in DOMAIN users /\ \E k \in Range(users[n].keys) : k.pub = key
    /\ n \notin DOMAIN users => Emails(n) = {}

\* The registry as verify folds it is what the rules say of its events.
LEMMA RulesOfRegistry ==
    ASSUME Typed, NEW users, users = Verify!Users(RegistryOf(chain["registry"])), NEW n
    PROVE  Rules(users, n)
  <1>1. PICK E : E = Range(chain["registry"])
    OBVIOUS
  <1>2. IsEvents(E) /\ \A e \in E : WellFormed(e)
    BY <1>1, ChainEvents DEF Typed, ChainsTyped, Ref
  <1>3. UsersFit(E, users) /\ AreUsers(users)
    BY <1>1, <1>2, RegistryFits DEF RegistryOf, RegistryFoldOf
  <1>4. EventsOf("users.user_set", n) = SetsOf(E, n)
    BY <1>1 DEF EventsOf, SetsOf
  <1>5. ASSUME NEW key
        PROVE  Additions(n, key) = AddsOf(E, n, key)
    BY <1>1, <1>4 DEF EventsOf, Additions, AddsOf
  <1>6. ASSUME NEW key
        PROVE  Revocations(n, key) = RevokesOf(E, n, key)
    BY <1>1, <1>5 DEF EventsOf, Revocations, RevokesOf
  <1>7. PICK L : L = {u \in SetsOf(E, n) : "emails" \in DOMAIN u.data.fields}
    OBVIOUS
  <1>8. Emails(n) = IF L = {} THEN {} ELSE Latest(L).data.fields.emails
    BY <1>4, <1>7 DEF Emails
  <1>9. n \in DOMAIN users => users[n].emails = Emails(n)
    <2> SUFFICES ASSUME n \in DOMAIN users PROVE users[n].emails = Emails(n)
      OBVIOUS
    <2>1. PICK emails : emails = users[n].emails /\ MailsFit(E, n, emails)
      BY <1>3 DEF UsersFit
    <2>2. CASE L = {}
      BY <1>7, <1>8, <2>1, <2>2 DEF MailsFit
    <2>3. CASE L # {}
      <3>1. PICK u \in L : emails = u.data.fields.emails /\ \A v \in L : v.id <= u.id
        BY <1>7, <2>1, <2>3 DEF MailsFit
      <3>2. PICK l : l = Latest(L)
        OBVIOUS
      <3>3. l \in L /\ \A d \in L : d.id <= l.id
        BY <3>1, <3>2, Zenon DEF Latest
      <3>4. l \in E /\ u \in E
        BY <1>7, <3>1, <3>3 DEF SetsOf
      <3>5. l.id = u.id
        BY <1>2, <3>1, <3>3, <3>4 DEF IsEvents
      <3>6. l = u
        BY <1>2, <3>4, <3>5 DEF IsEvents
      <3>7. QED
        BY <1>8, <2>1, <2>3, <3>1, <3>2, <3>6
    <2>4. QED
      BY <2>2, <2>3
  <1>10. n \notin DOMAIN users => Emails(n) = {}
    <2>1. n \notin DOMAIN users => SetsOf(E, n) = {}
      BY <1>3 DEF UsersFit
    <2>2. QED
      BY <1>7, <1>8, <2>1
  <1>11. n \in DOMAIN users => n \in Name /\ IsUser(users[n]) /\ KeysFit(E, n, users[n].keys)
    BY <1>3 DEF UsersFit, AreUsers
  <1>12. \A key : AddsOf(E, n, key) # {} => n \in DOMAIN users
    BY <1>3 DEF UsersFit, AddsOf
  <1>13. ASSUME n \in DOMAIN users, NEW k \in Range(users[n].keys)
         PROVE  /\ Additions(n, k.pub) # {}
                /\ \/ k.revoked_at = Never /\ Revocations(n, k.pub) = {}
                   \/ \E r \in Revocations(n, k.pub) :
                        k.revoked_at = r.id /\ \A q \in Revocations(n, k.pub) : r.id <= q.id
    <2>1. KeyFits(E, n, k)
      BY <1>11, <1>13 DEF KeysFit
    <2>2. QED
      BY <1>5, <1>6, <2>1 DEF KeyFits
  <1>14. \A key : Additions(n, key) # {} =>
           n \in DOMAIN users /\ \E k \in Range(users[n].keys) : k.pub = key
    BY <1>5, <1>11, <1>12 DEF KeysFit
  <1>15. QED
    BY <1>9, <1>10, <1>11, <1>13, <1>14 DEF Rules

\* The lines of the file of allowed signers.
LEMMA Signers ==
    ASSUME NEW s
    PROVE  \A e : e \in Verify!AllowedSigners(s) <=>
             \E n \in DOMAIN Verify!Users(s) :
               \E k \in Range(Verify!Users(s)[n].keys), email \in Verify!Users(s)[n].emails :
                 e = [email |-> email, pub |-> k.pub, revoked_at |-> k.revoked_at]
  <1>1. PICK users : users = Verify!Users(s)
    OBVIOUS
  <1>2. Verify!AllowedSigners(s) =
          UNION {UNION {[email : u.emails, pub : {k.pub}, revoked_at : {k.revoked_at}] :
                          k \in Range(u.keys)} :
                   u \in Range(users)}
    BY <1>1 DEF Verify!AllowedSigners, Verify!Range, Range
  <1>3. \A u : u \in Range(users) <=> \E n \in DOMAIN users : users[n] = u
    BY DEF Range
  <1>4. ASSUME NEW A, NEW p, NEW r, NEW e
        PROVE  e \in [email : A, pub : {p}, revoked_at : {r}] <=>
                 \E email \in A : e = [email |-> email, pub |-> p, revoked_at |-> r]
    OBVIOUS
  <1>5. ASSUME NEW e
        PROVE  e \in Verify!AllowedSigners(s) <=>
                 \E u \in Range(users) : \E k \in Range(u.keys) :
                   e \in [email : u.emails, pub : {k.pub}, revoked_at : {k.revoked_at}]
    BY <1>2
  <1>6. QED
    BY <1>1, <1>3, <1>4, <1>5

\* git verify-commit and what VerifyCommit asks beyond it, in the words of the rules.
LEMMA ValidIs ==
    ASSUME Typed, NEW s, s = RegistryOf(chain["registry"]), NEW c, c.id \in Nat
    PROVE  Verify!ValidSignature(s, c) <=>
             /\ EmailsWith(c.key) # {} /\ Min(EmailsWith(c.key)) = c.actor
             /\ \E n \in Name : \E key :
                  /\ c.actor \in Emails(n) /\ Additions(n, key) # {}
                  /\ \A r \in Revocations(n, key) : Verify!GitTime(c.id) < r.id
  <1>1. PICK users, entries : users = Verify!Users(s) /\ entries = Verify!AllowedSigners(s)
    OBVIOUS
  <1>2. \A e : e \in entries <=>
          \E n \in DOMAIN users :
            \E k \in Range(users[n].keys), email \in users[n].emails :
              e = [email |-> email, pub |-> k.pub, revoked_at |-> k.revoked_at]
    BY <1>1, Signers
  <1>3. ASSUME NEW n
        PROVE  /\ n \in DOMAIN users =>
                    /\ n \in Name /\ IsUser(users[n]) /\ users[n].emails = Emails(n)
                    /\ \A k \in Range(users[n].keys) :
                         /\ Additions(n, k.pub) # {}
                         /\ \/ k.revoked_at = Never /\ Revocations(n, k.pub) = {}
                            \/ \E r \in Revocations(n, k.pub) :
                                 /\ k.revoked_at = r.id
                                 /\ \A q \in Revocations(n, k.pub) : r.id <= q.id
               /\ \A key : Additions(n, key) # {} =>
                    n \in DOMAIN users /\ \E k \in Range(users[n].keys) : k.pub = key
    <2>1. Rules(users, n)
      BY <1>1, RulesOfRegistry
    <2>2. QED
      BY <2>1 DEF Rules
  <1>4. PICK P : P = Verify!Principals(entries, c)
    OBVIOUS
  <1>5. \A e : e \in P <=> \E x \in entries : x.pub = c.key /\ x.email = e
    BY <1>4 DEF Verify!Principals
  <1>6. \A e : e \in EmailsWith(c.key) <=>
                 \E n \in Name : Additions(n, c.key) # {} /\ e \in Emails(n)
    BY DEF EmailsWith, Owners
  <1>7. ASSUME NEW e \in P
        PROVE  e \in EmailsWith(c.key)
    <2>1. PICK x \in entries : x.pub = c.key /\ x.email = e
      BY <1>5
    <2>2. PICK n, k, email :
            /\ n \in DOMAIN users /\ k \in Range(users[n].keys) /\ email \in users[n].emails
            /\ x = [email |-> email, pub |-> k.pub, revoked_at |-> k.revoked_at]
      BY <1>2
    <2>3. k.pub = c.key /\ email = e
      BY <2>1, <2>2
    <2>4. QED
      BY <1>3, <1>6, <2>2, <2>3
  <1>8. ASSUME NEW e \in EmailsWith(c.key)
        PROVE  e \in P
    <2>1. PICK n \in Name : Additions(n, c.key) # {} /\ e \in Emails(n)
      BY <1>6
    <2>2. n \in DOMAIN users /\ e \in users[n].emails
      BY <1>3, <2>1
    <2>3. PICK k \in Range(users[n].keys) : k.pub = c.key
      BY <1>3, <2>1
    <2>4. PICK x : x = [email |-> e, pub |-> k.pub, revoked_at |-> k.revoked_at]
      OBVIOUS
    <2>5. x \in entries
      BY <1>2, <2>2, <2>3, <2>4
    <2>6. x.pub = c.key /\ x.email = e
      BY <2>3, <2>4
    <2>7. QED
      BY <1>5, <2>5, <2>6
  <1>9. P = EmailsWith(c.key)
    BY <1>7, <1>8
  <1>10. PICK time \in Int : time = Verify!GitTime(c.id)
    BY DEF Verify!GitTime, Verify!Second
  <1>11. \A n, key : \A r \in Revocations(n, key) : r.id \in Nat /\ r.id # Never
    <2>1. \A e \in Range(chain["registry"]) : e.id \in Nat \ {0}
      BY ChainEvents DEF Typed, ChainsTyped, Ref
    <2>2. QED
      BY <2>1 DEF Revocations, EventsOf, Never
  <1>12. Verify!Timely(entries, c.actor, time) <=>
           \E x \in entries : x.email = c.actor /\ (x.revoked_at = Never \/ time < x.revoked_at)
    BY DEF Verify!Timely, Verify!Never, Never
  <1>13. ASSUME Verify!Timely(entries, c.actor, time)
         PROVE  \E n \in Name : \E key :
                  /\ c.actor \in Emails(n) /\ Additions(n, key) # {}
                  /\ \A r \in Revocations(n, key) : time < r.id
    <2>1. PICK x \in entries :
            x.email = c.actor /\ (x.revoked_at = Never \/ time < x.revoked_at)
      BY <1>12, <1>13
    <2>2. PICK n, k, email :
            /\ n \in DOMAIN users /\ k \in Range(users[n].keys) /\ email \in users[n].emails
            /\ x = [email |-> email, pub |-> k.pub, revoked_at |-> k.revoked_at]
      BY <1>2
    <2>3. x.email = email /\ x.revoked_at = k.revoked_at
      BY <2>2
    <2>4. n \in Name /\ c.actor \in Emails(n) /\ Additions(n, k.pub) # {}
      BY <1>3, <2>1, <2>2, <2>3
    <2>5. \A r \in Revocations(n, k.pub) : time < r.id
      <3>1. CASE Revocations(n, k.pub) = {}
        BY <3>1
      <3>2. CASE Revocations(n, k.pub) # {}
        <4>1. PICK r \in Revocations(n, k.pub) :
                k.revoked_at = r.id /\ \A q \in Revocations(n, k.pub) : r.id <= q.id
          BY <1>3, <2>2, <3>2
        <4>2. time < r.id /\ r.id \in Nat
          BY <1>11, <2>1, <2>3, <4>1
        <4>3. \A q \in Revocations(n, k.pub) : q.id \in Nat /\ r.id <= q.id
          BY <1>11, <4>1
        <4>4. QED
          BY <4>2, <4>3
      <3>3. QED
        BY <3>1, <3>2
    <2>6. QED
      BY <2>4, <2>5
  <1>14. ASSUME NEW n \in Name, NEW key, c.actor \in Emails(n), Additions(n, key) # {},
                \A r \in Revocations(n, key) : time < r.id
         PROVE  Verify!Timely(entries, c.actor, time)
    <2>1. n \in DOMAIN users /\ c.actor \in users[n].emails
      BY <1>3, <1>14
    <2>2. PICK k \in Range(users[n].keys) : k.pub = key
      BY <1>3, <1>14
    <2>3. k.revoked_at = Never \/ time < k.revoked_at
      BY <1>3, <1>14, <2>1, <2>2
    <2>4. PICK x : x = [email |-> c.actor, pub |-> k.pub, revoked_at |-> k.revoked_at]
      OBVIOUS
    <2>5. x \in entries
      BY <1>2, <2>1, <2>2, <2>4
    <2>6. x.email = c.actor /\ x.revoked_at = k.revoked_at
      BY <2>4
    <2>7. QED
      BY <1>12, <2>3, <2>5, <2>6
  <1>15. Verify!Min(P) = Min(P)
    BY Zenon DEF Verify!Min, Min
  <1>16. Verify!ValidSignature(s, c) <=>
           P # {} /\ Min(P) = c.actor /\ Verify!Timely(entries, c.actor, time)
    BY <1>1, <1>4, <1>10, <1>15 DEF Verify!ValidSignature
  <1>17. Verify!Timely(entries, c.actor, time) <=>
           \E n \in Name : \E key :
             /\ c.actor \in Emails(n) /\ Additions(n, key) # {}
             /\ \A r \in Revocations(n, key) : time < r.id
    BY <1>13, <1>14
  <1>18. QED
    BY <1>9, <1>10, <1>16, <1>17

\* A commit is refused for its signature only if that is not valid.
LEMMA RefusedIs ==
    ASSUME Typed, NEW r \in Ref, NEW c \in Range(chain[r]), NEW s, NEW registry, NEW pin
    PROVE  <<c.id, "invalid_or_missing_signature">>
             \in Verify!VerifyRef(chain[r], s, registry, pin) <=> ~Verify!ValidSignature(s, c)
  <1>1. \A d \in Range(chain[r]) : d.id = c.id => d = c
    BY ChainEvents DEF Typed, ChainsTyped, IsEvents
  <1>2. Verify!Range(chain[r]) = Range(chain[r])
    BY DEF Verify!Range, Range
  <1>3. PICK A, B, C :
          /\ A = {d \in Range(chain[r]) : ~Verify!ValidSignature(s, d)}
          /\ B = {d \in Range(chain[r]) : registry /\ ~Verify!IsAdmin(s, d.actor)}
          /\ C = {d \in Range(chain[r]) : /\ registry /\ d = chain[r][1]
                                          /\ pin \notin {Verify!NoPin, d.id}}
    OBVIOUS
  <1>4. Verify!VerifyRef(chain[r], s, registry, pin) =
          {<<d.id, "invalid_or_missing_signature">> : d \in A}
          \cup {<<d.id, "registry_change_without_admin">> : d \in B}
          \cup {<<d.id, "trust_root_mismatch">> : d \in C}
    BY <1>2, <1>3 DEF Verify!VerifyRef
  <1>5. \A i, j : /\ <<i, "invalid_or_missing_signature">> # <<j, "registry_change_without_admin">>
                  /\ <<i, "invalid_or_missing_signature">> # <<j, "trust_root_mismatch">>
                  /\ <<i, "invalid_or_missing_signature">> =
                       <<j, "invalid_or_missing_signature">> => i = j
    OBVIOUS
  <1>6. <<c.id, "invalid_or_missing_signature">>
          \in Verify!VerifyRef(chain[r], s, registry, pin) <=> \E d \in A : d.id = c.id
    BY <1>4, <1>5
  <1>7. QED
    BY <1>1, <1>3, <1>6

\* The second a commit's time is cut to.
LEMMA GitTimeIs ==
    ASSUME NEW i \in Nat
    PROVE  /\ Verify!GitTime(i) \in Int /\ Verify!GitTime(i) <= i
           /\ i < Verify!GitTime(i) + Verify!Second
  BY DEF Verify!GitTime, Verify!Second

\* A key that is added to a user with an email is one of the email's.
LEMMA KeyOfEmail ==
    ASSUME NEW n \in Name, NEW email \in Emails(n), NEW key, Additions(n, key) # {}
    PROVE  key \in KeysOf(email)
  <1>1. PICK a \in EventsOf("users.key_add", n) : a.data.pub = key
    BY DEF Additions
  <1>2. QED
    BY <1>1 DEF KeysOf

\* The verdict on one signature, and the rules.
LEMMA VerdictIs ==
    ASSUME Typed, NEW s, s = RegistryOf(chain["registry"]), NEW c, c.id \in Nat
    PROVE  /\ FollowsRules(c, 0) /\ AtMostOne(EmailsWith(c.key)) => Verify!ValidSignature(s, c)
           /\ Verify!ValidSignature(s, c) /\ AtMostOne(KeysOf(c.actor)) =>
                FollowsRules(c, Verify!Second)
  <1>1. PICK t \in Int : t = Verify!GitTime(c.id)
    BY GitTimeIs
  <1>2. t <= c.id /\ c.id < t + Verify!Second
    BY <1>1, GitTimeIs
  <1>3. Verify!ValidSignature(s, c) <=>
          /\ EmailsWith(c.key) # {} /\ Min(EmailsWith(c.key)) = c.actor
          /\ \E n \in Name : \E key :
               /\ c.actor \in Emails(n) /\ Additions(n, key) # {}
               /\ \A r \in Revocations(n, key) : t < r.id
    BY <1>1, ValidIs
  <1>4. \A e : e \in EmailsWith(c.key) <=>
                 \E n \in Name : Additions(n, c.key) # {} /\ e \in Emails(n)
    BY DEF EmailsWith, Owners
  <1>5. \A n, key : \A r \in Revocations(n, key) : r.id \in Nat
    <2>1. \A e \in Range(chain["registry"]) : e.id \in Nat \ {0}
      BY ChainEvents DEF Typed, ChainsTyped, Ref
    <2>2. QED
      BY <2>1 DEF Revocations, EventsOf
  <1>6. ASSUME NEW n \in Name
        PROVE  Emails(n) \subseteq Nat
    <2>1. PICK users : users = Verify!Users(RegistryOf(chain["registry"]))
      OBVIOUS
    <2>2. Rules(users, n)
      BY <2>1, RulesOfRegistry
    <2>3. QED
      BY <2>2 DEF Rules, IsUser
  <1>7. ASSUME FollowsRules(c, 0), AtMostOne(EmailsWith(c.key))
        PROVE  Verify!ValidSignature(s, c)
    <2>1. PICK n \in Name : /\ Additions(n, c.key) # {} /\ c.actor \in Emails(n)
                            /\ \A r \in Revocations(n, c.key) : c.id < r.id + 0
      BY <1>7 DEF FollowsRules, Owners
    <2>2. \A r \in Revocations(n, c.key) : t < r.id
      BY <1>2, <1>5, <2>1
    <2>3. EmailsWith(c.key) = {c.actor}
      BY <1>4, <1>7, <2>1 DEF AtMostOne
    <2>4. Min({c.actor}) = c.actor
      <3>1. {c.actor} \in SUBSET Nat
        BY <1>6, <2>1
      <3>2. Min({c.actor}) \in {c.actor}
        BY <3>1, Smallest
      <3>3. QED
        BY <3>2
    <2>5. QED
      BY <1>3, <2>1, <2>2, <2>3, <2>4
  <1>8. ASSUME Verify!ValidSignature(s, c), AtMostOne(KeysOf(c.actor))
        PROVE  FollowsRules(c, Verify!Second)
    <2>1. PICK n \in Name, key \in KeysOf(c.actor) :
            /\ c.actor \in Emails(n) /\ Additions(n, key) # {}
            /\ \A r \in Revocations(n, key) : t < r.id
      BY <1>3, <1>8, KeyOfEmail
    <2>2. c.key \in KeysOf(c.actor)
      <3>1. EmailsWith(c.key) \in SUBSET Nat /\ EmailsWith(c.key) # {}
        BY <1>3, <1>4, <1>6, <1>8
      <3>2. c.actor \in EmailsWith(c.key)
        BY <1>3, <1>8, <3>1, Smallest
      <3>3. QED
        BY <1>4, <3>2, KeyOfEmail
    <2>3. key = c.key
      BY <1>8, <2>1, <2>2 DEF AtMostOne
    <2>4. \A r \in Revocations(n, c.key) : c.id < r.id + Verify!Second
      BY <1>2, <1>5, <2>1, <2>3 DEF Verify!Second
    <2>5. QED
      BY <2>1, <2>3, <2>4 DEF FollowsRules, Owners
  <1>9. QED
    BY <1>7, <1>8

(***************************************************************************)
(* Whatever keys are added to whomever and revoked, by clocks that differ, *)
(* verify refuses no commit that follows the rules and that is signed with *)
(* the key of one email, and of an email with one key it accepts no        *)
(* other, but for those of the second before the revocation.               *)
(***************************************************************************)
THEOREM VerdictsFollowRulesHolds == ServerSpec => []VerdictsFollowRules
  <1>1. Typed => VerdictsFollowRules
    <2>1. ASSUME Typed, NEW r \in {"registry", "task"}, NEW c \in Range(chain[r])
          PROVE  LET refused == <<c.id, "invalid_or_missing_signature">> \in
                                  Verify!VerifyRef(chain[r], RegistryOf(chain["registry"]),
                                                   r = "registry", Verify!NoPin)
                 IN  /\ FollowsRules(c, 0) /\ AtMostOne(EmailsWith(c.key)) => ~refused
                     /\ ~refused /\ AtMostOne(KeysOf(c.actor)) =>
                          FollowsRules(c, Verify!Second)
      <3>1. PICK s : s = RegistryOf(chain["registry"])
        OBVIOUS
      <3>2. r \in Ref /\ c.id \in Nat
        BY <2>1, ChainEvents DEF Ref, Typed, ChainsTyped
      <3>3. <<c.id, "invalid_or_missing_signature">> \in
              Verify!VerifyRef(chain[r], s, r = "registry", Verify!NoPin)
              <=> ~Verify!ValidSignature(s, c)
        BY <2>1, <3>1, <3>2, RefusedIs
      <3>4. /\ FollowsRules(c, 0) /\ AtMostOne(EmailsWith(c.key)) => Verify!ValidSignature(s, c)
            /\ Verify!ValidSignature(s, c) /\ AtMostOne(KeysOf(c.actor)) =>
                 FollowsRules(c, Verify!Second)
        BY <2>1, <3>1, <3>2, VerdictIs
      <3>5. QED
        BY <3>1, <3>3, <3>4, Zenon
    <2>2. QED
      BY <2>1, Zenon DEF VerdictsFollowRules
  <1>2. QED
    BY <1>1, TypedHolds, PTL

=============================================================================
