---------------------------- MODULE EntityProofs ----------------------------
(***************************************************************************)
(* The tree at a tip is the fold of the chain's events, however they came  *)
(* there: for any number of clones, events, checkpoints and merges.        *)
(*                                                                         *)
(* An Append on a checkpoint folds only what came after it.  That this is  *)
(* the full fold needs that folds compose (FoldLaws), that the snapshot is *)
(* restored as it was saved (which holds because no reducer keeps a scratch *)
(* key that its decoder does not know), and that the checkpoint holds the  *)
(* fold of exactly the events it lists, which is the invariant.            *)
(*                                                                         *)
(* Then what the trees of a feature say, in terms of the events alone, and *)
(* what follows for every clone and after every merge.  First, for each    *)
(* feature, by induction on the events that count (those from the create on) *)
(* in the order of their IDs: what the reducers leave fits those events    *)
(* (IssueFits, TaskFits, ChatFits, NotifyFits and UsersFits).  Then that the *)
(* commands append nothing but the events that the reducers were proved for, *)
(* with one create at most (HistInv).  The properties of Entity follow, and *)
(* since the events of a tip only grow, that nothing is taken back.        *)
(***************************************************************************)
EXTENDS Entity, FiniteSetTheorems, TLAPS

Laws == INSTANCE FoldLaws WITH Step <- Apply

-----------------------------------------------------------------------------
(* The laws of a fold, for Entity's reducers.                              *)

IsEvents(E) ==
    /\ IsFiniteSet(E)
    /\ \A e \in E : e.id \in Nat /\ \A d \in E : d.id = e.id => d = e

\* The instance's finite sets are this module's.
LEMMA SameSets ==
    ASSUME NEW S
    PROVE  /\ Laws!IsFiniteSet(S) <=> IsFiniteSet(S)
           /\ Laws!Cardinality(S) = Cardinality(S)
           /\ Laws!IsEvents(S) <=> IsEvents(S)
  <1>1. Laws!IsFiniteSet(S) <=> IsFiniteSet(S)
    BY DEF IsFiniteSet, Laws!IsFiniteSet
  <1>2. Laws!Cardinality(S) = Cardinality(S)
    BY DEF Cardinality, Laws!Cardinality
  <1>3. QED
    BY <1>1, <1>2 DEF IsEvents, Laws!IsEvents

\* The instance's fold is this module's.
LEMMA SameFold ==
    ASSUME NEW s, NEW E
    PROVE  FoldFrom(Apply, s, E) = Laws!FoldFrom(Apply, s, E)
  <1> DEFINE F == {e \in E : ~IsCheckpoint(e)}
  <1>1. F = {e \in E : ~Laws!IsCheckpoint(e)}
    BY DEF IsCheckpoint, Laws!IsCheckpoint
  <1>2. SortEvents(F) = Laws!SortEvents(F)
    BY Zenon DEF SortEvents, Laws!SortEvents, Cardinality, Laws!Cardinality
  <1>3. Laws!FoldFrom(Apply, s, E) = Laws!FoldLeft(Apply, s, Laws!SortEvents(F))
    BY <1>1, Zenon DEF Laws!FoldFrom
  <1>4. FoldFrom(Apply, s, E) = FoldLeft(Apply, s, SortEvents(F))
    BY Zenon DEF FoldFrom
  <1> DEFINE q == SortEvents(F)
  <1>5. Laws!FoldLeft(Apply, s, q) = FoldLeft(Apply, s, q)
    BY Zenon DEF Laws!FoldLeft, FoldLeft, Laws!MapThenFoldSet, MapThenFoldSet,
                 Laws!Max, Max
  <1>6. QED
    BY <1>2, <1>3, <1>4, <1>5

\* FoldFrom over no event returns the state it was given.
LEMMA FoldOfNothing ==
    ASSUME NEW s
    PROVE  FoldFrom(Apply, s, {}) = s
  BY SameFold, Laws!FoldOfNothing

\* FoldFrom skips a checkpoint.
LEMMA FoldOfCheckpoint ==
    ASSUME NEW E, NEW s, NEW c, IsCheckpoint(c)
    PROVE  FoldFrom(Apply, s, E \cup {c}) = FoldFrom(Apply, s, E)
  BY SameFold, Laws!FoldOfCheckpoint DEF IsCheckpoint, Laws!IsCheckpoint

\* An event after all others is folded last.
LEMMA FoldOfLatest ==
    ASSUME NEW E, IsEvents(E), NEW s, NEW e, ~IsCheckpoint(e),
           e.id \in Nat, \A d \in E : d.id < e.id
    PROVE  FoldFrom(Apply, s, E \cup {e}) = Apply(FoldFrom(Apply, s, E), e)
  <1>1. Laws!IsEvents(E) /\ ~Laws!IsCheckpoint(e)
    BY SameSets DEF IsCheckpoint, Laws!IsCheckpoint
  <1>2. Laws!FoldFrom(Apply, s, E \cup {e}) = Apply(Laws!FoldFrom(Apply, s, E), e)
    BY <1>1, Laws!FoldOfLatest
  <1>3. QED
    BY <1>2, SameFold

\* A fold of later events on top of a fold of earlier ones is the fold of all: why
\* Append may start from a checkpoint.
LEMMA FoldOfLater ==
    ASSUME NEW A, IsEvents(A), NEW B, IsEvents(B), NEW s,
           \A a \in A, b \in B : a.id < b.id
    PROVE  FoldFrom(Apply, FoldFrom(Apply, s, A), B) = FoldFrom(Apply, s, A \cup B)
  BY SMTT(30), SameFold, SameSets, Laws!FoldOfLater

\* What holds of no events, and of the events up to one if it holds of those
\* before it, holds of all.
LEMMA EventInduction ==
    ASSUME NEW E, IsEvents(E), NEW Good, {} \in Good,
           ASSUME NEW e \in E, NEW F \in SUBSET E, F \in Good,
                  F = {d \in E : d.id < e.id}
           PROVE  F \cup {e} \in Good
    PROVE  E \in Good
  BY SameSets, Laws!EventInduction

\* One of finitely many events is the latest.
LEMMA LatestExists ==
    ASSUME NEW E, IsEvents(E), E # {}
    PROVE  \E e \in E : \A d \in E : d.id <= e.id
  <1> DEFINE Good == {F \in SUBSET E :
                        F # {} => \E e \in F : \A d \in F : d.id <= e.id}
  <1>1. {} \in Good
    OBVIOUS
  <1>2. ASSUME NEW e \in E, NEW F \in SUBSET E, F \in Good,
               F = {d \in E : d.id < e.id}
        PROVE  F \cup {e} \in Good
    <2>1. \A d \in F \cup {e} : d.id <= e.id
      BY <1>2 DEF IsEvents
    <2>2. QED
      BY <2>1
  <1>3. E \in Good
    <2> HIDE DEF Good
    <2> QED
      BY <1>1, <1>2, EventInduction
  <1>4. QED
    BY <1>3

-----------------------------------------------------------------------------
(* Trees.                                                                  *)

\* What every state of a fold is: a record of the three parts, whose scratch is
\* a map with keys that the feature's decoder knows.
IsTree(s, keys) ==
    /\ s = [meta |-> s.meta, coll |-> s.coll, scratch |-> s.scratch]
    /\ s.scratch = [k \in DOMAIN s.scratch |-> s.scratch[k]]
    /\ DOMAIN s.scratch \subseteq keys

\* NewState is a tree of every feature.
LEMMA NewTree ==
    ASSUME NEW keys
    PROVE  IsTree(NewState, keys)
  BY DEF IsTree, NewState

\* The issue reducers keep the parts and the scratch keys.
LEMMA IssueTree ==
    ASSUME NEW s, NEW e, IsTree(s, Issue!ScratchKeys)
    PROVE  IsTree(Issue!Apply(s, e), Issue!ScratchKeys)
  BY ZenonT(60) DEF IsTree, Issue!Apply, Issue!Create, Issue!Edit, Issue!Status,
         Issue!Comment, Issue!Label, Issue!Assign, Issue!Link, Issue!Set,
         Issue!SetBoth, Issue!Put, Issue!ScratchKeys

\* The task reducers keep the parts and the scratch keys.
LEMMA TaskTree ==
    ASSUME NEW s, NEW e, IsTree(s, Task!ScratchKeys)
    PROVE  IsTree(Task!Apply(s, e), Task!ScratchKeys)
  <1>1. ASSUME NEW t, IsTree(t, Task!ScratchKeys), NEW to
        PROVE  IsTree(Task!AppendHistory(t, e, to), Task!ScratchKeys)
    BY <1>1 DEF IsTree, Task!AppendHistory, Task!Put, Task!ScratchKeys
  <1>2. ASSUME NEW t, IsTree(t, Task!ScratchKeys)
        PROVE  IsTree(Task!PutNote(t, e), Task!ScratchKeys)
    BY <1>2 DEF IsTree, Task!PutNote
  <1>3. IsTree(Task!Create(s, e), Task!ScratchKeys)
    <2> DEFINE m == [title |-> e.data.title, status |-> "todo",
                     owner |-> Task!Given(e.data, "owner", e.actor),
                     created_by |-> e.actor, created_at |-> e.id,
                     updated_at |-> e.id, links |-> <<>>]
               t == [meta |-> m, coll |-> [notes |-> <<>>], scratch |-> s.scratch]
    <2>1. Task!Create(s, e) = IF Task!Created(s) THEN s
                              ELSE Task!AppendHistory(t, e, "todo")
      BY DEF Task!Create
    <2>2. IsTree(t, Task!ScratchKeys)
      BY DEF IsTree
    <2>3. QED
      BY <1>1, <2>1, <2>2
  <1>4. IsTree(Task!Status(s, e), Task!ScratchKeys)
    <2> DEFINE t == [s EXCEPT !.meta =
                       Task!Over([status |-> e.data.to, updated_at |-> e.id], @)]
               u == Task!AppendHistory(t, e, e.data.to)
    <2>1. Task!Status(s, e) = IF ~Task!ValidTransition(s.meta.status, e.data.to)
                              THEN s
                              ELSE IF e.data.note THEN Task!PutNote(u, e) ELSE u
      BY DEF Task!Status
    <2>2. IsTree(t, Task!ScratchKeys)
      BY DEF IsTree
    <2>3. QED
      BY <1>1, <1>2, <2>1, <2>2
  <1>5. /\ IsTree(Task!Edit(s, e), Task!ScratchKeys)
        /\ IsTree(Task!Reassign(s, e), Task!ScratchKeys)
        /\ IsTree(Task!Link(s, e), Task!ScratchKeys)
    BY DEF IsTree, Task!Edit, Task!Reassign, Task!Link, Task!Put,
           Task!ScratchKeys
  <1>6. IsTree(Task!Note(s, e), Task!ScratchKeys)
    BY <1>2 DEF IsTree, Task!Note
  <1>7. QED
    BY <1>3, <1>4, <1>5, <1>6 DEF Task!Apply

\* The chat reducers keep the parts and the scratch keys.
LEMMA ChatTree ==
    ASSUME NEW s, NEW e, IsTree(s, Chat!ScratchKeys)
    PROVE  IsTree(Chat!Apply(s, e), Chat!ScratchKeys)
  <1>1. ASSUME NEW t, IsTree(t, Chat!ScratchKeys)
        PROVE  /\ IsTree(Chat!AddParticipant(t, e.actor), Chat!ScratchKeys)
               /\ IsTree(Chat!PutMessage(t, e), Chat!ScratchKeys)
    BY <1>1 DEF IsTree, Chat!AddParticipant, Chat!PutMessage, Chat!Put,
                Chat!ScratchKeys
  <1>2. IsTree(Chat!Create(s, e), Chat!ScratchKeys)
    <2> DEFINE m == [title |-> e.data.title, status |-> "open",
                     created_by |-> e.actor, created_at |-> e.id,
                     updated_at |-> e.id, message_count |-> 0,
                     participants |-> {}]
               t == [meta |-> m, coll |-> [messages |-> <<>>],
                     scratch |-> s.scratch]
               u == Chat!AddParticipant(t, e.actor)
    <2>1. Chat!Create(s, e) = IF Chat!Created(s) THEN s
                              ELSE IF e.data.body THEN Chat!PutMessage(u, e) ELSE u
      BY DEF Chat!Create
    <2>2. IsTree(t, Chat!ScratchKeys)
      BY DEF IsTree
    <2>3. QED
      BY <1>1, <2>1, <2>2
  <1>3. IsTree(Chat!Post(s, e), Chat!ScratchKeys)
    <2> DEFINE u == Chat!AddParticipant(Chat!PutMessage(s, e), e.actor)
    <2>1. IsTree(u, Chat!ScratchKeys)
      BY <1>1
    <2>2. Chat!Post(s, e) = [u EXCEPT !.meta = Chat!Put(u.meta, "updated_at", e.id)]
      BY DEF Chat!Post
    <2> HIDE DEF u
    <2>3. QED
      BY <2>1, <2>2 DEF IsTree
  <1>4. IsTree(Chat!EditMeta(s, e), Chat!ScratchKeys)
    <2>1. PICK m : Chat!EditMeta(s, e) = [s EXCEPT !.meta = m]
      BY Zenon DEF Chat!EditMeta
    <2>2. QED
      BY <2>1 DEF IsTree
  <1>5. QED
    BY <1>2, <1>3, <1>4 DEF Chat!Apply

\* The notify reducers keep the parts and the scratch keys.
LEMMA NotifyTree ==
    ASSUME NEW s, NEW e, IsTree(s, Notify!ScratchKeys)
    PROVE  IsTree(Notify!Apply(s, e), Notify!ScratchKeys)
  BY DEF IsTree, Notify!Apply, Notify!Post, Notify!Ack, Notify!Ensure,
         Notify!Put, Notify!ScratchKeys

\* The users reducers keep the parts and the scratch keys.
LEMMA UsersTree ==
    ASSUME NEW s, NEW e, IsTree(s, Users!ScratchKeys)
    PROVE  IsTree(Users!Apply(s, e), Users!ScratchKeys)
  BY DEF IsTree, Users!Apply, Users!UserSet, Users!KeyAdd, Users!KeyRevoke,
         Users!GroupSet, Users!GroupRemove, Users!PolicySet, Users!Ensure,
         Users!SetUser, Users!SetKeys, Users!Put, Users!ScratchKeys

\* The kinds that a menu allows are those of one feature.
IsEdit(e) == e.kind \in menu.kinds \ {"checkpoint", "legacy"}

\* The reducers of the entity's feature keep what its decoder knows.
LEMMA ApplyTree ==
    ASSUME menu \in Menus, NEW s, NEW e, IsEdit(e), IsTree(s, ScratchKeys)
    PROVE  IsTree(Apply(s, e), ScratchKeys)
  <1>1. PICK K \in {Issue!Kinds, Task!Kinds, Chat!Kinds, Notify!Kinds,
                    Users!Kinds} : menu.kinds \subseteq K \cup {"checkpoint", "legacy"}
    BY EntityAssumption
  <1>2. e.kind \in K /\ e.kind \in menu.kinds
    BY <1>1 DEF IsEdit
  <1> USE DEF Issue!Kinds, Task!Kinds, Chat!Kinds, Notify!Kinds, Users!Kinds
  <1>3. CASE K = Issue!Kinds
    <2>1. Apply(s, e) = Issue!Apply(s, e) /\ ScratchKeys = Issue!ScratchKeys
      BY <1>1, <1>2, <1>3 DEF Apply, ScratchKeys
    <2>2. QED
      BY <2>1, IssueTree
  <1>4. CASE K = Task!Kinds
    <2>1. Apply(s, e) = Task!Apply(s, e) /\ ScratchKeys = Task!ScratchKeys
      BY <1>1, <1>2, <1>4 DEF Apply, ScratchKeys
    <2>2. QED
      BY <2>1, TaskTree
  <1>5. CASE K = Chat!Kinds
    <2>1. Apply(s, e) = Chat!Apply(s, e) /\ ScratchKeys = Chat!ScratchKeys
      BY <1>1, <1>2, <1>5 DEF Apply, ScratchKeys
    <2>2. QED
      BY <2>1, ChatTree
  <1>6. CASE K = Notify!Kinds
    <2>1. Apply(s, e) = Notify!Apply(s, e) /\ ScratchKeys = Notify!ScratchKeys
      BY <1>1, <1>2, <1>6 DEF Apply, ScratchKeys
    <2>2. QED
      BY <2>1, NotifyTree
  <1>7. CASE K = Users!Kinds
    <2>1. Apply(s, e) = Users!Apply(s, e) /\ ScratchKeys = Users!ScratchKeys
      BY <1>1, <1>2, <1>7 DEF Apply, ScratchKeys
    <2>2. QED
      BY <2>1, UsersTree
  <1>8. QED
    BY <1>3, <1>4, <1>5, <1>6, <1>7

\* A chain holds edits and checkpoints.
IsChain(E) == IsEvents(E) /\ \A e \in E : IsEdit(e) \/ IsCheckpoint(e)

\* A fold of a chain is a tree that its decoder can restore.
LEMMA FoldTree ==
    ASSUME menu \in Menus, NEW E, IsChain(E)
    PROVE  IsTree(FullFold(E), ScratchKeys)
  <1> DEFINE Good == {F \in SUBSET E : IsTree(FullFold(F), ScratchKeys)}
  <1>1. {} \in Good
    BY NewTree, FoldOfNothing DEF FullFold
  <1>2. ASSUME NEW e \in E, NEW F \in SUBSET E, F \in Good,
               F = {d \in E : d.id < e.id}
        PROVE  F \cup {e} \in Good
    <2>1. IsEvents(F) /\ e.id \in Nat /\ \A d \in F : d.id < e.id
      BY <1>2, FS_Subset DEF IsChain, IsEvents
    <2>2. IsTree(FullFold(F), ScratchKeys)
      BY <1>2
    <2>3. CASE IsCheckpoint(e)
      <3>1. FullFold(F \cup {e}) = FullFold(F)
        BY <2>3, FoldOfCheckpoint DEF FullFold
      <3>2. QED
        BY <2>2, <3>1
    <2>4. CASE ~IsCheckpoint(e)
      <3>1. FullFold(F \cup {e}) = Apply(FullFold(F), e)
        BY <2>1, <2>4, FoldOfLatest DEF FullFold
      <3>2. IsEdit(e)
        BY <2>4 DEF IsChain
      <3>3. QED
        BY <2>2, <3>1, <3>2, ApplyTree
    <2>5. QED
      BY <2>3, <2>4
  <1>3. E \in Good
    <2> HIDE DEF Good
    <2> QED
      BY <1>1, <1>2, EventInduction DEF IsChain
  <1>4. QED
    BY <1>3

\* What StateFromMap restores is what StateToMap saved.
LEMMA RestoredIsSaved ==
    ASSUME NEW s, NEW keys, IsTree(s, keys)
    PROVE  StateFromMap(StateToMap(s)) = s
  <1> DEFINE m == StateToMap(s)
  <1>1. /\ m.meta = s.meta /\ m.collections = s.coll
        /\ m.scratch = [k \in DOMAIN s.scratch |->
                          IF k \in StringSets THEN [x \in s.scratch[k] |-> TRUE]
                                              ELSE s.scratch[k]]
    BY DEF StateToMap
  <1>2. DOMAIN m.scratch = DOMAIN s.scratch
    BY <1>1
  <1>3. ASSUME NEW k \in DOMAIN s.scratch
        PROVE  IF k \in StringSets
               THEN {x \in DOMAIN m.scratch[k] : m.scratch[k][x]} = s.scratch[k]
               ELSE m.scratch[k] = s.scratch[k]
    <2>1. CASE k \in StringSets
      <3>1. m.scratch[k] = [x \in s.scratch[k] |-> TRUE]
        BY <1>1, <2>1
      <3>2. QED
        BY <2>1, <3>1
    <2>2. CASE k \notin StringSets
      BY <1>1, <2>2
    <2>3. QED
      BY <2>1, <2>2
  <1> HIDE DEF m
  <1>4. StateFromMap(m).scratch = [k \in DOMAIN s.scratch |-> s.scratch[k]]
    BY <1>2, <1>3 DEF StateFromMap
  <1>5. StateFromMap(m) = [meta |-> s.meta, coll |-> s.coll, scratch |-> s.scratch]
    BY <1>1, <1>4 DEF StateFromMap, IsTree
  <1>6. QED
    BY <1>5 DEF IsTree, m

-----------------------------------------------------------------------------
(* Tips.                                                                   *)

Places == Clone \cup {Remote}

EventTyped(e) == /\ e.id \in 1 .. menu.ids /\ e.actor \in Clone
                 /\ e.kind \in menu.kinds
                 /\ IsEdit(e) \/ IsCheckpoint(e)

\* A checkpoint holds the fold of the events it lists, or what an old tool kept
\* of it.
IsSnapshot(ck, E) ==
    \E B \in SUBSET E :
        /\ ck.data.behind = {e.id : e \in B}
        /\ ck.data.max_event_id \in Nat
        /\ \A e \in B : e.id <= ck.data.max_event_id
        /\ ck.data.state \in {StateToMap(FullFold(B)), LegacyStateToMap(FullFold(B))}

BaseHolds(t) ==
    t.base # Never =>
        \E ck \in t.events : /\ ck.id = t.base /\ IsCheckpoint(ck)
                             /\ IsSnapshot(ck, t.events)

TipHolds(t) ==
    /\ IsEvents(t.events)
    /\ \A e \in t.events : EventTyped(e)
    /\ BaseHolds(t)
    /\ t.tree = FullFold(t.events)

\* An ID is one event's, wherever that event went.
IdsAreUnique ==
    \A r, q \in Places : \A e \in tip[r].events, d \in tip[q].events :
        e.id = d.id => e = d

IndInv ==
    /\ menu \in Menus
    /\ tip = [r \in Places |-> tip[r]]
    /\ \A r \in Places : TipHolds(tip[r])
    /\ IdsAreUnique

\* Events that are typed are a chain.
LEMMA TypedChain ==
    ASSUME NEW E, IsEvents(E), \A e \in E : EventTyped(e)
    PROVE  IsChain(E)
  BY DEF IsChain, EventTyped

\* An append on a checkpoint that is a legitimate start, and any other, leaves
\* the fold of the whole chain.
LEMMA InputsFold ==
    ASSUME menu \in Menus, NEW t, TipHolds(t), NEW new, EventTyped(new),
           IsEvents(t.events \cup {new}), new \notin t.events
    PROVE  FoldInputs(t, new) = FullFold(t.events \cup {new})
  <1> DEFINE cks == {e \in t.events : e.id = t.base}
             ck == CHOOSE e \in cks : TRUE
             after == {e \in t.events \ {ck} : e.id \notin ck.data.behind} \cup {new}
             all == t.events \cup {new}
  <1>1. CASE cks = {}
    BY <1>1 DEF FoldInputs
  <1>2. CASE cks # {} /\ ~CheckpointBase(ck, after)
    BY <1>2 DEF FoldInputs
  <1>3. CASE cks # {} /\ CheckpointBase(ck, after)
    <2>1. FoldInputs(t, new) = FoldFrom(Apply, StateFromMap(ck.data.state), after)
      BY <1>3 DEF FoldInputs
    <2>2. ck \in t.events /\ ck.id = t.base
      BY <1>3
    <2>3. t.base # Never
      BY <2>2 DEF TipHolds, EventTyped, Never
    <2>4. IsCheckpoint(ck) /\ IsSnapshot(ck, t.events)
      <3>1. PICK k \in t.events : k.id = t.base /\ IsCheckpoint(k)
                                  /\ IsSnapshot(k, t.events)
        BY <2>3 DEF TipHolds, BaseHolds
      <3>2. k = ck
        BY <2>2, <3>1 DEF TipHolds, IsEvents
      <3>3. QED
        BY <3>1, <3>2
    <2> HIDE DEF ck
    <2>5. PICK B \in SUBSET t.events :
            /\ ck.data.behind = {e.id : e \in B}
            /\ ck.data.max_event_id \in Nat
            /\ \A e \in B : e.id <= ck.data.max_event_id
            /\ ck.data.state \in {StateToMap(FullFold(B)),
                                  LegacyStateToMap(FullFold(B))}
      BY <2>4 DEF IsSnapshot
    <2>6. ck.data.state = StateToMap(FullFold(B))
      <3>1. "scratch" \in DOMAIN ck.data.state
        BY <1>3 DEF CheckpointBase, Restorable
      <3>2. "scratch" \notin DOMAIN LegacyStateToMap(FullFold(B))
        BY DEF LegacyStateToMap
      <3>3. QED
        BY <2>5, <3>1, <3>2
    <2>7. IsChain(B) /\ IsEvents(after) /\ IsEvents(all)
      <3>1. IsEvents(B) /\ IsEvents(after)
        BY FS_Subset DEF IsEvents
      <3>2. QED
        BY <3>1, TypedChain DEF TipHolds
    <2>8. StateFromMap(ck.data.state) = FullFold(B)
      <3>1. IsTree(FullFold(B), ScratchKeys)
        BY <2>7, FoldTree
      <3>2. QED
        BY <2>6, <3>1, RestoredIsSaved
    <2>9. \A a \in B, b \in after : a.id < b.id
      <3>1. \A b \in after : b.id > ck.data.max_event_id /\ b.id \in Nat
        BY <1>3, <2>7 DEF CheckpointBase, IsEvents
      <3>2. \A a \in B : a.id <= ck.data.max_event_id /\ a.id \in Nat
        BY <2>5, <2>7 DEF IsChain, IsEvents
      <3>3. QED
        BY <2>5, <3>1, <3>2
    <2>10. FoldInputs(t, new) = FullFold(B \cup after)
      <3>1. FoldFrom(Apply, FullFold(B), after) = FullFold(B \cup after)
        BY <2>7, <2>9, FoldOfLater DEF FullFold, IsChain
      <3>2. QED
        BY <2>1, <2>8, <3>1
    <2>11. (B \cup after) \cup {ck} = all
      <3>1. \A e \in t.events : e.id \in ck.data.behind <=> e \in B
        BY <2>5 DEF TipHolds, IsEvents
      <3>2. QED
        BY <2>2, <3>1
    <2>12. FullFold((B \cup after) \cup {ck}) = FullFold(B \cup after)
      BY <2>4, FoldOfCheckpoint DEF FullFold
    <2>13. QED
      BY <2>10, <2>11, <2>12
  <1>4. QED
    BY <1>1, <1>2, <1>3

-----------------------------------------------------------------------------
(* Steps.                                                                  *)

EditKinds == Issue!Kinds \cup Task!Kinds \cup Chat!Kinds \cup Notify!Kinds
                \cup Users!Kinds

\* Every command appends one event of a feature's kind.
LEMMA NextIs ==
    ASSUME Next
    PROVE  \E c \in Clone : \/ \E kind \in EditKinds : \E data : Mutate(c, kind, data)
                            \/ Compact(c) \/ Sync(c)
  <1> SUFFICES ASSUME NEW c \in Clone,
                      \/ IssueNew(c) \/ IssueEdit(c) \/ IssueStatus(c) \/ IssueComment(c)
                      \/ IssueLabel(c) \/ IssueAssign(c) \/ IssueLink(c)
                      \/ TaskNew(c) \/ TaskEdit(c) \/ TaskStatus(c) \/ TaskReassign(c)
                      \/ TaskNote(c) \/ TaskLink(c)
                      \/ ChatNew(c) \/ ChatPost(c) \/ ChatArchive(c) \/ ChatEditMeta(c)
                      \/ NotifyPost(c) \/ NotifyAck(c)
                      \/ UserAdd(c) \/ UserKeyAdd(c) \/ UserKeyRevoke(c)
                      \/ GroupSet(c) \/ GroupRemove(c) \/ PolicySet(c)
               PROVE  \E kind \in EditKinds : \E data : Mutate(c, kind, data)
    BY Zenon DEF Next
  <1> USE DEF EditKinds, Issue!Kinds, Task!Kinds, Chat!Kinds, Notify!Kinds, Users!Kinds
  <1>1. CASE \/ IssueNew(c) \/ IssueEdit(c) \/ IssueStatus(c) \/ IssueComment(c)
             \/ IssueLabel(c) \/ IssueAssign(c) \/ IssueLink(c)
    BY <1>1 DEF IssueNew, IssueEdit, IssueStatus, IssueComment, IssueLabel,
                IssueAssign, IssueLink
  <1>2. CASE \/ TaskNew(c) \/ TaskEdit(c) \/ TaskStatus(c) \/ TaskReassign(c)
             \/ TaskNote(c) \/ TaskLink(c)
    BY <1>2 DEF TaskNew, TaskEdit, TaskStatus, TaskReassign, TaskNote, TaskLink
  <1>3. CASE \/ ChatNew(c) \/ ChatPost(c) \/ ChatArchive(c) \/ ChatEditMeta(c)
             \/ NotifyPost(c) \/ NotifyAck(c)
    BY <1>3 DEF ChatNew, ChatPost, ChatArchive, ChatEditMeta, NotifyPost, NotifyAck
  <1>4. CASE \/ UserAdd(c) \/ UserKeyAdd(c) \/ UserKeyRevoke(c)
             \/ GroupSet(c) \/ GroupRemove(c) \/ PolicySet(c)
    BY <1>4 DEF UserAdd, UserKeyAdd, UserKeyRevoke, GroupSet, GroupRemove, PolicySet
  <1>5. QED
    BY <1>1, <1>2, <1>3, <1>4

\* Every ref starts without a chain.
LEMMA InitHolds == Init => IndInv
  <1> SUFFICES ASSUME Init PROVE IndInv
    OBVIOUS
  <1>1. IsEvents({}) /\ FullFold({}) = NewState
    BY FS_EmptySet, FoldOfNothing DEF IsEvents, FullFold
  <1>2. TipHolds(NoTip)
    BY <1>1 DEF TipHolds, BaseHolds, NoTip
  <1>3. /\ menu \in Menus /\ tip = [r \in Places |-> NoTip]
        /\ NoTip.events = {}
    BY DEF Init, NoTip, Places
  <1>4. QED
    BY <1>2, <1>3 DEF IndInv, IdsAreUnique

\* A fresh event joins the events of one tip.
LEMMA AddHolds ==
    ASSUME IndInv, NEW c \in Places, NEW e, EventTyped(e), e.id \notin UsedIds,
           NEW t, t.events = tip[c].events \cup {e}, t.tree = FoldInputs(tip[c], e),
           t.base = tip[c].base \/ (t.base = e.id /\ IsCheckpoint(e)
                                    /\ IsSnapshot(e, tip[c].events)),
           tip' = [tip EXCEPT ![c] = t], menu' = menu
    PROVE  IndInv'
  <1>1. /\ DOMAIN tip = Places /\ TipHolds(tip[c]) /\ menu \in Menus
        /\ tip' = [r \in Places |-> IF r = c THEN t ELSE tip[r]]
    BY DEF IndInv
  <1>2. \A r \in Places : \A d \in tip[r].events : d.id # e.id
    BY <1>1 DEF UsedIds
  <1>3. e \notin tip[c].events /\ IsEvents(t.events)
    <2>1. e.id \in Nat
      BY DEF EventTyped
    <2>2. QED
      BY <1>1, <1>2, <2>1, FS_AddElement DEF TipHolds, IsEvents
  <1>4. t.tree = FullFold(t.events)
    BY <1>1, <1>3, InputsFold
  <1>5. BaseHolds(t)
    <2>1. \A ck : IsSnapshot(ck, tip[c].events) => IsSnapshot(ck, t.events)
      BY DEF IsSnapshot
    <2>2. QED
      BY <1>1, <2>1 DEF TipHolds, BaseHolds
  <1>6. TipHolds(t)
    BY <1>1, <1>3, <1>4, <1>5 DEF TipHolds
  <1>7. \A r \in Places : TipHolds(tip'[r])
    BY <1>1, <1>6 DEF IndInv
  <1>8. \A r \in Places : TipHolds(tip[r])'
    BY <1>7 DEF TipHolds, EventTyped, IsEdit, BaseHolds, IsSnapshot, FullFold
  <1>9. IdsAreUnique'
    BY <1>1, <1>2 DEF IdsAreUnique, IndInv
  <1>10. QED
    BY <1>1, <1>8, <1>9 DEF IndInv

\* A command keeps the invariant.
LEMMA MutateHolds ==
    ASSUME IndInv, NEW c \in Clone, NEW kind \in EditKinds, NEW data,
           Mutate(c, kind, data)
    PROVE  IndInv'
  <1>1. PICK i \in NewIds(c) :
          tip' = [tip EXCEPT ![c] =
                    [events |-> @.events \cup {[id |-> i, kind |-> kind,
                                                actor |-> c, data |-> data]},
                     tree |-> FoldInputs(@, [id |-> i, kind |-> kind,
                                             actor |-> c, data |-> data]),
                     base |-> @.base]]
    BY DEF Mutate
  <1> DEFINE e == [id |-> i, kind |-> kind, actor |-> c, data |-> data]
             t == [events |-> tip[c].events \cup {e},
                   tree |-> FoldInputs(tip[c], e),
                   base |-> tip[c].base]
  <1>2. i \in 1 .. menu.ids /\ i \notin UsedIds /\ kind \in menu.kinds /\ menu' = menu
    BY DEF NewIds, Mutate
  <1>3. kind \notin {"checkpoint", "legacy"}
    BY DEF EditKinds, Issue!Kinds, Task!Kinds, Chat!Kinds, Notify!Kinds, Users!Kinds
  <1>4. EventTyped(e) /\ e.id = i
    BY <1>2, <1>3 DEF EventTyped, IsEdit
  <1>5. c \in Places /\ tip' = [tip EXCEPT ![c] = t]
    BY <1>1 DEF Places
  <1>6. /\ t.events = tip[c].events \cup {e} /\ t.tree = FoldInputs(tip[c], e)
        /\ t.base = tip[c].base
    OBVIOUS
  <1> HIDE DEF e, t
  <1>7. QED
    BY <1>2, <1>4, <1>5, <1>6, AddHolds

\* A compaction keeps the invariant: its checkpoint holds the fold of what it lists.
LEMMA CompactHolds ==
    ASSUME IndInv, NEW c \in Clone, Compact(c)
    PROVE  IndInv'
  <1> DEFINE s == FullFold(tip[c].events)
             ids == {e.id : e \in tip[c].events}
             ck(i, state) == [id |-> i, kind |-> "checkpoint", actor |-> c,
                              data |-> [state |-> state, max_event_id |-> Max(ids),
                                        behind |-> ids]]
  <1>1. PICK state \in {StateToMap(s)} \cup
                       {LegacyStateToMap(s) : k \in menu.kinds \cap {"legacy"}},
             i \in NewIds(c) :
          tip' = [tip EXCEPT ![c] = [events |-> tip[c].events \cup {ck(i, state)},
                                     tree |-> FoldInputs(tip[c], ck(i, state)),
                                     base |-> i]]
    BY Zenon DEF Compact
  <1> DEFINE e == ck(i, state)
             t == [events |-> tip[c].events \cup {e},
                   tree |-> FoldInputs(tip[c], e),
                   base |-> i]
  <1>2. /\ i \in 1 .. menu.ids /\ i \notin UsedIds /\ menu' = menu
        /\ "checkpoint" \in menu.kinds /\ tip[c].events # {}
    BY DEF NewIds, Compact
  <1>3. EventTyped(e) /\ e.id = i /\ IsCheckpoint(e)
    BY <1>2 DEF EventTyped, IsCheckpoint
  <1>4. c \in Places /\ TipHolds(tip[c])
    BY DEF Places, IndInv
  <1>5. Max(ids) \in Nat /\ \A d \in tip[c].events : d.id <= Max(ids)
    <2>1. \A d \in tip[c].events : d.id \in Nat
      BY <1>4 DEF TipHolds, IsEvents
    <2>2. \E m \in ids : \A j \in ids : m >= j
      <3>1. PICK m \in tip[c].events : \A d \in tip[c].events : d.id <= m.id
        BY <1>2, <1>4, LatestExists DEF TipHolds
      <3>2. QED
        BY <2>1, <3>1
    <2>3. Max(ids) \in ids /\ \A j \in ids : Max(ids) >= j
      BY <2>2, Zenon DEF Max
    <2>4. QED
      BY <2>1, <2>3
  <1>6. IsSnapshot(e, tip[c].events)
    <2>1. state \in {StateToMap(s), LegacyStateToMap(s)}
      OBVIOUS
    <2>2. /\ e.data.behind = {d.id : d \in tip[c].events}
          /\ e.data.max_event_id = Max(ids) /\ e.data.state = state
      OBVIOUS
    <2> HIDE DEF e
    <2>3. QED
      BY <1>5, <2>1, <2>2 DEF IsSnapshot
  <1>7. tip' = [tip EXCEPT ![c] = t]
    BY <1>1
  <1>8. /\ t.events = tip[c].events \cup {e} /\ t.tree = FoldInputs(tip[c], e)
        /\ t.base = e.id
    OBVIOUS
  <1> HIDE DEF e, t
  <1>9. QED
    BY <1>2, <1>3, <1>4, <1>6, <1>7, <1>8, AddHolds

\* What a sync leaves on a ref is a good tip of events that were there.
LEMMA JoinedHolds ==
    ASSUME IndInv, NEW r \in Places, NEW q \in Places
    PROVE  /\ TipHolds(Joined(tip[r], tip[q]))
           /\ Joined(tip[r], tip[q]).events \subseteq tip[r].events \cup tip[q].events
  <1> DEFINE E == tip[r].events \cup tip[q].events
             t == [events |-> E, tree |-> FullFold(E), base |-> Never]
  <1>1. TipHolds(tip[r]) /\ TipHolds(tip[q])
    BY DEF IndInv
  <1>2. IsEvents(E)
    BY <1>1, FS_Union DEF TipHolds, IsEvents, IndInv, IdsAreUnique
  <1>3. TipHolds(t)
    BY <1>1, <1>2 DEF TipHolds, BaseHolds
  <1>4. Joined(tip[r], tip[q]) \in {tip[r], tip[q], t}
    BY Zenon DEF Joined
  <1>5. QED
    BY <1>1, <1>3, <1>4

\* A sync keeps the invariant.
LEMMA SyncHolds ==
    ASSUME IndInv, NEW c \in Clone, Sync(c)
    PROVE  IndInv'
  <1> DEFINE t == Joined(tip[c], tip[Remote])
  <1>1. c \in Places /\ Remote \in Places /\ DOMAIN tip = Places /\ menu' = menu
    BY DEF Places, IndInv, Sync
  <1>2. tip' = [r \in Places |-> IF r \in {c, Remote} THEN t ELSE tip[r]]
    <2>1. tip' = [tip EXCEPT ![c] = t, ![Remote] = t]
      BY DEF Sync
    <2> HIDE DEF t
    <2>2. QED
      BY <1>1, <2>1
  <1>3. TipHolds(t) /\ t.events \subseteq tip[c].events \cup tip[Remote].events
    BY <1>1, JoinedHolds
  <1> HIDE DEF t
  <1>4. \A r \in Places : TipHolds(tip'[r])
    BY <1>2, <1>3 DEF IndInv
  <1>5. \A r \in Places : TipHolds(tip[r])'
    BY <1>1, <1>4 DEF TipHolds, EventTyped, IsEdit, BaseHolds, IsSnapshot, FullFold
  <1>6. IdsAreUnique'
    BY <1>1, <1>2, <1>3 DEF IdsAreUnique, IndInv
  <1>7. QED
    BY <1>1, <1>2, <1>5, <1>6 DEF IndInv

\* Every step keeps the invariant.
LEMMA StepHolds == IndInv /\ [Next]_vars => IndInv'
  <1> SUFFICES ASSUME IndInv, [Next]_vars PROVE IndInv'
    OBVIOUS
  <1>1. CASE Next
    BY <1>1, NextIs, MutateHolds, CompactHolds, SyncHolds
  <1>2. CASE UNCHANGED vars
    <2>1. tip' = tip /\ menu' = menu
      BY <1>2 DEF vars
    <2>2. \A r \in Places : TipHolds(tip[r])'
      <3>1. \A r \in Places : TipHolds(tip'[r])
        BY <2>1 DEF IndInv
      <3>2. QED
        BY <2>1, <3>1 DEF TipHolds, EventTyped, IsEdit, BaseHolds, IsSnapshot,
                          FullFold
    <2>3. QED
      BY <2>1, <2>2 DEF IndInv, IdsAreUnique
  <1>3. QED
    BY <1>1, <1>2

\* At every ref the tree is the fold of the events, IDs are unique, and a
\* checkpoint that an Append may start from holds the fold of what it lists.
THEOREM Invariance == Spec => []IndInv
  BY InitHolds, StepHolds, PTL DEF Spec

\* Whatever checkpoints, fast-forwards and merges a chain went through, in any
\* number of clones and events, the tree at its tip is the full fold
\* (Writer.foldInputs, StateToMap, StateFromMap, planRef).
THEOREM TreesAreFoldsHolds == Spec => []TreesAreFolds
  <1>1. IndInv => TreesAreFolds
    BY DEF IndInv, TreesAreFolds, Tips, TipHolds
  <1>2. QED
    BY <1>1, Invariance, PTL

\* Events, trees and bases stay in their types, and no tree has a scratch key
\* that the decoder of its feature rejects.
THEOREM TypeOKHolds == Spec => []TypeOK
  <1>1. IndInv => TypeOK
    <2> SUFFICES ASSUME IndInv PROVE TypeOK
      OBVIOUS
    <2>1. ASSUME NEW t \in Tips
          PROVE  TipHolds(t)
      BY DEF IndInv, Tips
    <2>2. ASSUME NEW t \in Tips
          PROVE  IsTree(t.tree, ScratchKeys)
      BY <2>1, FoldTree, TypedChain DEF IndInv, TipHolds
    <2>3. ASSUME NEW t \in Tips
          PROVE  /\ DOMAIN t.tree = {"meta", "coll", "scratch"}
                 /\ DOMAIN t.tree.scratch \subseteq ScratchKeys
      <3>1. IsTree(t.tree, ScratchKeys)
        BY <2>2
      <3>2. QED
        BY <3>1 DEF IsTree
    <2>4. ASSUME NEW t \in Tips
          PROVE  /\ \A e \in t.events : e.id \in 1 .. menu.ids /\ e.actor \in Clone
                                        /\ e.kind \in menu.kinds
                 /\ t.base \in {Never} \cup {e.id : e \in {e \in t.events : IsCheckpoint(e)}}
      <3>1. TipHolds(t)
        BY <2>1
      <3>2. t.base # Never => \E ck \in t.events : ck.id = t.base /\ IsCheckpoint(ck)
        BY <3>1 DEF TipHolds, BaseHolds
      <3>3. \A e \in t.events : e.id \in 1 .. menu.ids /\ e.actor \in Clone
                                /\ e.kind \in menu.kinds
        BY <3>1 DEF TipHolds, EventTyped
      <3>4. QED
        BY <3>2, <3>3
    <2>5. QED
      BY <2>3, <2>4 DEF TypeOK, IndInv
  <1>2. QED
    BY <1>1, Invariance, PTL

-----------------------------------------------------------------------------
(* The events that the commands append.                                    *)

\* What is in an event of each kind.
Shaped(e) ==
    LET given == DOMAIN e.data IN
    /\ e.kind = "issue.create" => given = {"title", "assignees"}
    /\ e.kind = "task.create" => given \in {{"title"}, {"title", "owner"}}
    /\ e.kind = "chat.create" => given = {"title", "body"} /\ e.data.body \in BOOLEAN
    /\ e.kind \in {"issue.edit", "task.edit"} => given = {"title"}
    /\ e.kind = "issue.status" => given = {"to"}
    /\ e.kind = "task.status" => given = {"to", "note"} /\ e.data.note \in BOOLEAN
    /\ e.kind = "task.reassign" => given = {"owner"}
    /\ e.kind = "task.note" => given = {"body"}
    /\ e.kind = "chat.edit_meta" =>
         \/ given = {"title"}
         \/ given = {"status"} /\ e.data.status \in {"open", "archived"}
    /\ e.kind \in {"issue.comment", "chat.post"} => given = {"supersedes"}
    /\ e.kind \in {"issue.label", "issue.assign"} => given \subseteq {"add", "remove"}
    /\ e.kind \in {"issue.link", "task.link"} =>
         given = {"link", "remove"} /\ e.data.link = 1 /\ e.data.remove \in BOOLEAN
    /\ e.kind = "notify.post" => given = {"targets"}
    /\ e.kind = "notify.ack" => given = {"ack_of"}
    /\ e.kind = "users.user_set" =>
         /\ e.data.username = 1
         /\ e.data.fields = [f \in DOMAIN e.data.fields |-> e.data.fields[f]]
         /\ DOMAIN e.data.fields \subseteq {"emails", "roles"}
    /\ e.kind \in {"users.key_add", "users.key_revoke"} =>
         e.data.username = 1 /\ e.data.pub = 1
    /\ e.kind \in {"users.group_set", "users.group_remove"} => e.data.name = 1

\* A chain of such events, with one create at most.
IsHistory(E) ==
    /\ IsChain(E)
    /\ \A e \in E : e.id # Never /\ e.actor \in Clone /\ (IsEdit(e) => Shaped(e))
    /\ \A e, d \in E : e.kind \in Creates /\ d.kind \in Creates => e = d

\* The kinds that a menu allows are those of one feature.
LEMMA OneFeature ==
    ASSUME menu \in Menus
    PROVE  \E K \in {Issue!Kinds, Task!Kinds, Chat!Kinds, Notify!Kinds, Users!Kinds} :
             menu.kinds \subseteq K \cup {"checkpoint", "legacy"}
  BY EntityAssumption

\* Every edit of an entity goes to its feature's reducers.
LEMMA FeatureApply ==
    ASSUME menu \in Menus, NEW s, NEW e, IsEdit(e)
    PROVE  /\ HasKind(Issue!Kinds) =>
                e.kind \in Issue!Kinds /\ Apply(s, e) = Issue!Apply(s, e)
           /\ HasKind(Task!Kinds) =>
                e.kind \in Task!Kinds /\ Apply(s, e) = Task!Apply(s, e)
           /\ HasKind(Chat!Kinds) =>
                e.kind \in Chat!Kinds /\ Apply(s, e) = Chat!Apply(s, e)
           /\ HasKind(Notify!Kinds) =>
                e.kind \in Notify!Kinds /\ Apply(s, e) = Notify!Apply(s, e)
           /\ HasKind(Users!Kinds) =>
                e.kind \in Users!Kinds /\ Apply(s, e) = Users!Apply(s, e)
  <1> USE DEF Issue!Kinds, Task!Kinds, Chat!Kinds, Notify!Kinds, Users!Kinds
  <1>1. PICK K \in {Issue!Kinds, Task!Kinds, Chat!Kinds, Notify!Kinds, Users!Kinds} :
              menu.kinds \subseteq K \cup {"checkpoint", "legacy"}
    BY OneFeature
  <1>2. e.kind \in K /\ e.kind \in menu.kinds
    BY <1>1 DEF IsEdit
  <1>3. CASE K = Issue!Kinds
    BY <1>1, <1>2, <1>3 DEF HasKind, Apply
  <1>4. CASE K = Task!Kinds
    BY <1>1, <1>2, <1>4 DEF HasKind, Apply
  <1>5. CASE K = Chat!Kinds
    BY <1>1, <1>2, <1>5 DEF HasKind, Apply
  <1>6. CASE K = Notify!Kinds
    BY <1>1, <1>2, <1>6 DEF HasKind, Apply
  <1>7. CASE K = Users!Kinds
    BY <1>1, <1>2, <1>7 DEF HasKind, Apply
  <1>8. QED
    BY <1>1, <1>3, <1>4, <1>5, <1>6, <1>7

-----------------------------------------------------------------------------
(* Folds of the events that count.                                         *)

At(E) == [events |-> E, tree |-> FullFold(E), base |-> Never]

\* The features whose entities begin with a create.
HasEntities == HasKind(Issue!Kinds) \/ HasKind(Task!Kinds) \/ HasKind(Chat!Kinds)

\* Only issues, tasks and chats begin with a create.
LEMMA CreatesOfEntities == HasKind(Creates) => HasEntities
  BY DEF HasEntities, HasKind, Creates, Issue!Kinds, Task!Kinds, Chat!Kinds

\* An event before the create does nothing.
LEMMA NothingYet ==
    ASSUME menu \in Menus, HasEntities, NEW e, IsEdit(e), e.kind \notin Creates
    PROVE  Apply(NewState, e) = NewState
  <1> USE DEF Creates, Issue!Kinds, Task!Kinds, Chat!Kinds, NewState, NoMeta
  <1>1. HasKind(Issue!Kinds) \/ HasKind(Task!Kinds) \/ HasKind(Chat!Kinds)
    BY DEF HasEntities
  <1>2. CASE HasKind(Issue!Kinds)
    <2>1. Apply(NewState, e) = Issue!Apply(NewState, e)
      BY <1>2, FeatureApply
    <2>2. QED
      BY <2>1 DEF Issue!Apply, Issue!Created, Issue!NoMeta
  <1>3. CASE HasKind(Task!Kinds)
    <2>1. Apply(NewState, e) = Task!Apply(NewState, e)
      BY <1>3, FeatureApply
    <2>2. QED
      BY <2>1 DEF Task!Apply, Task!Created, Task!NoMeta
  <1>4. CASE HasKind(Chat!Kinds)
    <2>1. Apply(NewState, e) = Chat!Apply(NewState, e)
      BY <1>4, FeatureApply
    <2>2. QED
      BY <2>1 DEF Chat!Apply, Chat!Created, Chat!NoMeta
  <1>5. QED
    BY <1>1, <1>2, <1>3, <1>4

\* What the next event does to the events that count.
LEMMA CountedGrows ==
    ASSUME NEW F, IsEvents(F), NEW e, e.id \in Nat, \A d \in F : d.id < e.id
    PROVE  Counted(At(F \cup {e})) =
             IF IsCheckpoint(e) \/ (HasKind(Creates) /\ e.kind \notin Creates
                                    /\ \A d \in F : d.kind \notin Creates)
             THEN Counted(At(F)) ELSE Counted(At(F)) \cup {e}
  <1>1. At(F \cup {e}).events = F \cup {e} /\ At(F).events = F
    BY DEF At
  <1>2. \A d \in F : d.id \in Nat /\ ~(e.id <= d.id) /\ d.id <= e.id
    BY DEF IsEvents
  <1>3. "checkpoint" \notin Creates
    BY DEF Creates
  <1>4. ASSUME NEW d \in F
        PROVE  d \in Counted(At(F \cup {e})) <=> d \in Counted(At(F))
    BY <1>1, <1>2 DEF Counted
  <1>5. e \notin F /\ (e \in Counted(At(F \cup {e})) <=>
          ~(IsCheckpoint(e) \/ (HasKind(Creates) /\ e.kind \notin Creates
                                /\ \A d \in F : d.kind \notin Creates)))
    BY <1>1, <1>2, <1>3 DEF Counted, HasKind
  <1>6. /\ Counted(At(F \cup {e})) \subseteq F \cup {e}
        /\ Counted(At(F)) \subseteq F
    BY <1>1 DEF Counted
  <1> DEFINE new == Counted(At(F \cup {e}))
             old == Counted(At(F))
             left == IsCheckpoint(e) \/ (HasKind(Creates) /\ e.kind \notin Creates
                                         /\ \A d \in F : d.kind \notin Creates)
  <1> HIDE DEF new, old, left
  <1>7. new = IF left THEN old ELSE old \cup {e}
    <2>1. /\ \A d \in F : d \in new <=> d \in old
          /\ e \notin F /\ (e \in new <=> ~left)
          /\ new \subseteq F \cup {e} /\ old \subseteq F
      BY <1>4, <1>5, <1>6 DEF new, old, left
    <2>2. QED
      BY <2>1
  <1>8. QED
    BY <1>7 DEF new, old, left

\* Without a create nothing counts.
LEMMA CountedIfCreated ==
    ASSUME NEW F, IsEvents(F), HasKind(Creates)
    PROVE  /\ Counted(At(F)) = {} => \A d \in F : d.kind \notin Creates
           /\ (\A d \in F : d.kind \notin Creates) => Counted(At(F)) = {}
  BY DEF Counted, At, HasKind, IsEvents, Creates, IsCheckpoint

\* What holds of no events, and stays true when an event that counts is added to
\* earlier ones that do, holds of all that count; and they are all that the fold
\* depends on.
LEMMA CountedInduction ==
    ASSUME menu \in Menus, NEW E, IsHistory(E), NEW Good, {} \in Good,
           ASSUME NEW e \in E, NEW C \in SUBSET E, C \in Good,
                  IsEvents(C), IsEdit(e), Shaped(e), e.id \in Nat \ {0},
                  \A d \in C : IsEdit(d) /\ Shaped(d) /\ d.id \in Nat \ {0} /\ d.id < e.id,
                  HasKind(Creates) => (e.kind \in Creates <=> C = {}),
                  FullFold(C \cup {e}) = Apply(FullFold(C), e)
           PROVE  C \cup {e} \in Good
    PROVE  /\ Counted(At(E)) \in Good
           /\ FullFold(Counted(At(E))) = FullFold(E)
  <1> DEFINE Goods == {F \in SUBSET E : /\ Counted(At(F)) \in Good
                                        /\ FullFold(Counted(At(F))) = FullFold(F)}
  <1>1. {} \in Goods
    <2>1. Counted(At({})) = {}
      BY DEF Counted, At
    <2>2. QED
      BY <2>1
  <1>2. ASSUME NEW e \in E, NEW F \in SUBSET E, F \in Goods,
               F = {d \in E : d.id < e.id}
        PROVE  F \cup {e} \in Goods
    <2> DEFINE C == Counted(At(F))
    <2>1. /\ IsEvents(F) /\ e.id \in Nat \ {0}
          /\ \A d \in F : d.id \in Nat \ {0} /\ d.id < e.id
          /\ e \notin F
      BY <1>2, FS_Subset DEF IsHistory, IsChain, IsEvents, Never
    <2>2. C \in Good /\ FullFold(C) = FullFold(F) /\ C \in SUBSET F
      BY <1>2 DEF Counted, At
    <2>3. IsEvents(C) /\ \A d \in C : IsEdit(d) /\ Shaped(d)
      <3>1. \A d \in C : ~IsCheckpoint(d)
        BY DEF Counted
      <3>2. IsEvents(C)
        BY <2>1, <2>2, FS_Subset DEF IsEvents
      <3>3. QED
        BY <2>2, <3>1, <3>2 DEF IsHistory, IsChain
    <2> HIDE DEF C, Goods
    <2>4. CASE IsCheckpoint(e)
      <3>1. Counted(At(F \cup {e})) = C
        BY <2>1, <2>4, CountedGrows DEF C
      <3>2. FullFold(F \cup {e}) = FullFold(F)
        BY <2>4, FoldOfCheckpoint DEF FullFold
      <3>3. QED
        BY <2>2, <3>1, <3>2 DEF Goods
    <2>5. CASE ~IsCheckpoint(e)
      <3>1. IsEdit(e) /\ Shaped(e)
        BY <2>5 DEF IsHistory, IsChain
      <3>2. FullFold(F \cup {e}) = Apply(FullFold(F), e)
        BY <2>1, <2>5, FoldOfLatest DEF FullFold
      <3>3. FullFold(C \cup {e}) = Apply(FullFold(C), e)
        BY <2>1, <2>2, <2>3, <2>5, FoldOfLatest DEF FullFold
      <3>4. CASE HasKind(Creates) /\ e.kind \notin Creates
                 /\ \A d \in F : d.kind \notin Creates
        <4>1. Counted(At(F \cup {e})) = C
          BY <2>1, <3>4, CountedGrows DEF C
        <4>2. C = {}
          BY <2>1, <3>4, CountedIfCreated DEF C
        <4>3. FullFold(F) = NewState
          BY <2>2, <4>2, FoldOfNothing DEF FullFold
        <4>4. FullFold(F \cup {e}) = FullFold(F)
          BY <3>1, <3>2, <3>4, <4>3, NothingYet, CreatesOfEntities
        <4>5. QED
          BY <2>2, <4>1, <4>4 DEF Goods
      <3>5. CASE ~(HasKind(Creates) /\ e.kind \notin Creates
                   /\ \A d \in F : d.kind \notin Creates)
        <4>1. Counted(At(F \cup {e})) = C \cup {e}
          BY <2>1, <2>5, <3>5, CountedGrows DEF C
        <4>2. HasKind(Creates) => (e.kind \in Creates <=> C = {})
          <5> SUFFICES ASSUME HasKind(Creates) PROVE e.kind \in Creates <=> C = {}
            OBVIOUS
          <5>1. C = {} <=> \A d \in F : d.kind \notin Creates
            BY <2>1, CountedIfCreated DEF C
          <5>2. e.kind \in Creates => \A d \in F : d.kind \notin Creates
            BY <2>1 DEF IsHistory
          <5>3. QED
            BY <3>5, <5>1, <5>2
        <4>3. C \cup {e} \in Good
          BY <1>2, <2>1, <2>2, <2>3, <3>1, <3>3, <4>2
        <4>4. FullFold(C \cup {e}) = FullFold(F \cup {e})
          BY <2>2, <3>2, <3>3
        <4>5. QED
          BY <4>1, <4>3, <4>4 DEF Goods
      <3>6. QED
        BY <3>4, <3>5
    <2>6. QED
      BY <2>4, <2>5
  <1>3. E \in Goods
    <2> HIDE DEF Goods
    <2> QED
      BY <1>1, <1>2, EventInduction DEF IsHistory, IsChain
  <1>4. QED
    BY <1>3

-----------------------------------------------------------------------------
(* The latest and the earliest of some events.                             *)

\* Latest chooses the one event that no other follows.
LEMMA LatestIs ==
    ASSUME NEW E, IsEvents(E), E # {}
    PROVE  /\ Latest(E) \in E /\ \A d \in E : d.id <= Latest(E).id
           /\ \A e \in E : (\A d \in E : d.id <= e.id) => e = Latest(E)
  <1>1. \E e \in E : \A d \in E : d.id <= e.id
    BY LatestExists
  <1>2. Latest(E) \in E /\ \A d \in E : d.id <= Latest(E).id
    BY <1>1, Zenon DEF Latest
  <1>3. ASSUME NEW e \in E, \A d \in E : d.id <= e.id
        PROVE  e = Latest(E)
    <2>1. e.id <= Latest(E).id /\ Latest(E).id <= e.id
      BY <1>2, <1>3
    <2>2. e.id \in Nat /\ Latest(E).id \in Nat
      BY <1>2 DEF IsEvents
    <2>3. QED
      BY <1>2, <2>1, <2>2 DEF IsEvents
  <1>4. QED
    BY <1>2, <1>3

\* An event after the others is the latest.
LEMMA LatestAdded ==
    ASSUME NEW C, IsEvents(C), NEW e, e.id \in Nat, \A d \in C : d.id < e.id,
           NEW S \in SUBSET C
    PROVE  Latest(S \cup {e}) = e
  <1>1. IsEvents(S) /\ \A d \in S : d.id < e.id /\ d.id \in Nat
    BY FS_Subset DEF IsEvents
  <1>2. IsEvents(S \cup {e})
    BY <1>1, FS_AddElement DEF IsEvents
  <1>3. e \in S \cup {e} /\ \A d \in S \cup {e} : d.id <= e.id
    BY <1>1
  <1>4. QED
    BY <1>2, <1>3, LatestIs

-----------------------------------------------------------------------------
(* Issues.                                                                 *)

IssueMeta == {"title", "status", "labels", "assignees", "created_by", "created_at",
              "updated_at", "closed_at", "comment_count", "links"}

IssueRecord(s) ==
    /\ IsTree(s, Issue!ScratchKeys)
    /\ DOMAIN s.meta = IssueMeta /\ DOMAIN s.coll = {"comments"}
    /\ s.meta.labels = Issue!Labels(s) /\ s.meta.links = Issue!Links(s)
    /\ s.meta.assignees = Issue!Assignees(s)

\* What issue.create makes.
LEMMA IssueCreated ==
    ASSUME NEW e, e.kind = "issue.create", Shaped(e)
    PROVE  LET s == Issue!Apply(NewState, e) IN
           /\ IssueRecord(s)
           /\ s.meta.title = e.data.title
           /\ s.meta.status = "open" /\ s.meta.closed_at = Never
           /\ s.meta.labels = {} /\ s.meta.links = <<>>
           /\ s.meta.assignees = e.data.assignees
           /\ s.coll.comments = <<>> /\ s.meta.comment_count = 0
  <1> DEFINE s == Issue!Apply(NewState, e)
  <1>1. s = Issue!Create(NewState, e) /\ ~Issue!Created(NewState)
    BY DEF Issue!Apply, Issue!Created, Issue!NoMeta, NewState, NoMeta
  <1>2. DOMAIN e.data = {"title", "assignees"}
    BY DEF Shaped
  <1>3. PICK a : /\ a = e.data.assignees
                 /\ s = [meta |-> [title |-> e.data.title, status |-> "open",
                    labels |-> {}, assignees |-> a,
                    created_by |-> e.actor, created_at |-> e.id,
                    updated_at |-> e.id, closed_at |-> Never,
                    comment_count |-> 0, links |-> <<>>],
                  coll |-> [comments |-> <<>>],
                  scratch |-> [labels |-> {}, assignees |-> a]]
    BY <1>1, <1>2 DEF Issue!Create, Issue!Given, Issue!Never, Never
  <1> HIDE DEF s
  <1>4. /\ DOMAIN s.meta = IssueMeta /\ DOMAIN s.coll = {"comments"}
        /\ s.meta.title = e.data.title
        /\ s.meta.status = "open" /\ s.meta.closed_at = Never
        /\ s.meta.labels = {} /\ s.meta.links = <<>>
        /\ s.meta.assignees = e.data.assignees /\ s.meta.assignees = a
        /\ s.coll.comments = <<>> /\ s.meta.comment_count = 0
    BY <1>3 DEF IssueMeta
  <1>5. s.scratch = [labels |-> {}, assignees |-> a]
    BY <1>3
  <1>6. Issue!Labels(s) = {} /\ Issue!Links(s) = <<>> /\ Issue!Assignees(s) = a
    BY <1>5 DEF Issue!Labels, Issue!Links, Issue!Assignees, Issue!Given
  <1>7. IsTree(s, Issue!ScratchKeys)
    BY NewTree, IssueTree DEF s
  <1>8. QED
    BY <1>4, <1>6, <1>7 DEF IssueRecord, s

\* What each reducer of an issue does to what a reader is shown.
LEMMA IssueSteps ==
    ASSUME NEW s, IssueRecord(s), NEW e, Shaped(e),
           e.kind \in Issue!Kinds \ {"issue.create"}
    PROVE  LET t == Issue!Apply(s, e)
               valid == e.kind = "issue.status"
                           /\ Issue!ValidTransition(s.meta.status, e.data.to) IN
           /\ IssueRecord(t)
           /\ t.meta.title = IF e.kind = "issue.edit" THEN e.data.title
                             ELSE s.meta.title
           /\ t.meta.status = IF valid THEN e.data.to ELSE s.meta.status
           /\ t.meta.closed_at = IF valid THEN Issue!ClosedAt(s, e)
                                 ELSE s.meta.closed_at
           /\ t.meta.labels = IF e.kind = "issue.label"
                              THEN AddRemove(s.meta.labels, e.data)
                              ELSE s.meta.labels
           /\ t.meta.assignees = IF e.kind = "issue.assign"
                                 THEN AddRemove(s.meta.assignees, e.data)
                                 ELSE s.meta.assignees
           /\ t.meta.links = IF e.kind = "issue.link"
                             THEN LinkEvent(s.meta.links, e.data)
                             ELSE s.meta.links
           /\ t.coll.comments = IF e.kind = "issue.comment"
                                THEN PutItem(s.coll.comments, e)
                                ELSE s.coll.comments
           /\ t.meta.comment_count = IF e.kind = "issue.comment"
                                     THEN Cardinality(DOMAIN t.coll.comments)
                                     ELSE s.meta.comment_count
  <1> DEFINE t == Issue!Apply(s, e)
  <1>1. Issue!Created(s)
    BY DEF IssueRecord, IssueMeta, Issue!Created, Issue!NoMeta
  <1>2. IsTree(t, Issue!ScratchKeys)
    BY IssueTree DEF IssueRecord
  <1> USE DEF Issue!Put, Issue!Over, Issue!Fields, Issue!Given, IssueMeta,
              Issue!Labels, Issue!Links, Issue!Assignees
  <1>3. CASE e.kind = "issue.edit"
    <2>1. t = Issue!Edit(s, e) /\ DOMAIN e.data = {"title"}
      BY <1>1, <1>3 DEF Issue!Apply, Shaped
    <2>2. PICK m : m = Issue!Put(Issue!Over(Issue!Fields(e.data, {"title"}), s.meta),
                                 "updated_at", e.id)
      OBVIOUS
    <2>3. t = [s EXCEPT !.meta = m]
      BY <2>1, <2>2 DEF Issue!Edit
    <2>4. DOMAIN m = DOMAIN s.meta
          /\ m.title = e.data.title
          /\ \A f \in IssueMeta \ {"title", "updated_at"} : m[f] = s.meta[f]
      BY <2>1, <2>2 DEF IssueRecord
    <2>5. t.meta = m /\ t.coll = s.coll /\ t.scratch = s.scratch
      BY <2>3 DEF IssueRecord, IsTree
    <2> HIDE DEF t
    <2>6. QED
      BY <1>2, <1>3, <2>4, <2>5 DEF IssueRecord, t
  <1>4. CASE e.kind = "issue.status"
    <2>1. t = IF ~Issue!ValidTransition(s.meta.status, e.data.to) THEN s
              ELSE [s EXCEPT !.meta =
                      Issue!Over([status |-> e.data.to, updated_at |-> e.id,
                                  closed_at |-> Issue!ClosedAt(s, e)], s.meta)]
      BY <1>1, <1>4 DEF Issue!Apply, Issue!Status
    <2>2. PICK m : m = Issue!Over([status |-> e.data.to, updated_at |-> e.id,
                                   closed_at |-> Issue!ClosedAt(s, e)], s.meta)
      OBVIOUS
    <2>3. /\ DOMAIN m = DOMAIN s.meta
          /\ m.status = e.data.to /\ m.closed_at = Issue!ClosedAt(s, e)
          /\ \A f \in IssueMeta \ {"status", "closed_at", "updated_at"} :
               m[f] = s.meta[f]
      BY <2>2 DEF IssueRecord
    <2>4. CASE ~Issue!ValidTransition(s.meta.status, e.data.to)
      BY <1>4, <2>1, <2>4
    <2>5. CASE Issue!ValidTransition(s.meta.status, e.data.to)
      <3>1. t = [s EXCEPT !.meta = m]
        BY <2>1, <2>2, <2>5
      <3>2. t.meta = m /\ t.coll = s.coll /\ t.scratch = s.scratch
        BY <3>1 DEF IssueRecord, IsTree
      <3> HIDE DEF t
      <3>3. QED
        BY <1>2, <1>4, <2>3, <2>5, <3>2 DEF IssueRecord, t
    <2>6. QED
      BY <2>4, <2>5
  <1>5. CASE e.kind = "issue.comment"
    <2>1. t = Issue!Comment(s, e)
      BY <1>1, <1>5 DEF Issue!Apply
    <2>2. PICK comments : comments = Issue!PutItem(s.coll.comments, e)
      OBVIOUS
    <2>3. PICK count : count = Issue!Cardinality(DOMAIN comments)
      OBVIOUS
    <2>4. PICK m : m = Issue!Put(Issue!Put(s.meta, "comment_count", count),
                                 "updated_at", e.id)
      OBVIOUS
    <2>5. /\ DOMAIN m = DOMAIN s.meta /\ m.comment_count = count
          /\ \A f \in IssueMeta \ {"comment_count", "updated_at"} : m[f] = s.meta[f]
      BY <2>4 DEF IssueRecord
    <2>6. Issue!Set(s, e, "comment_count", count).meta = m
      BY <2>4 DEF Issue!Set, IssueRecord, IsTree
    <2>7. t = [meta |-> m, coll |-> Issue!Put(s.coll, "comments", comments),
               scratch |-> s.scratch]
      BY <2>1, <2>2, <2>3, <2>6, Zenon DEF Issue!Comment
    <2>8. /\ t.meta = m /\ t.scratch = s.scratch
          /\ DOMAIN t.coll = {"comments"} /\ t.coll.comments = comments
      BY <2>7 DEF IssueRecord
    <2>9. comments = PutItem(s.coll.comments, e)
          /\ count = Cardinality(DOMAIN comments)
      BY <2>2, <2>3, Zenon DEF Issue!PutItem, PutItem, Issue!Put, Put, Issue!Given,
                               Given, Issue!Never, Never, Issue!Cardinality, Cardinality
    <2> HIDE DEF t
    <2>10. QED
      BY <1>2, <1>5, <2>5, <2>8, <2>9 DEF IssueRecord, t
  <1>6. CASE e.kind \in {"issue.label", "issue.assign", "issue.link"}
    <2>1. PICK field, v :
            /\ field \in {"labels", "assignees", "links"}
            /\ t = Issue!SetBoth(s, e, field, v)
            /\ e.kind = "issue.label" => /\ field = "labels"
                                         /\ v = AddRemove(s.meta.labels, e.data)
            /\ e.kind = "issue.assign" =>
                 field = "assignees" /\ v = AddRemove(s.meta.assignees, e.data)
            /\ e.kind = "issue.link" => /\ field = "links"
                                        /\ v = LinkEvent(s.meta.links, e.data)
      <3>1. CASE e.kind = "issue.label"
        <4>1. t = Issue!SetBoth(s, e, "labels",
                                Issue!AddRemove(Issue!Labels(s), e.data))
          BY <1>1, <3>1 DEF Issue!Apply, Issue!Label
        <4>2. Issue!AddRemove(Issue!Labels(s), e.data) = AddRemove(s.meta.labels, e.data)
          BY DEF Issue!AddRemove, AddRemove, Issue!Given, Given, IssueRecord
        <4>3. QED
          BY <3>1, <4>1, <4>2
      <3>2. CASE e.kind = "issue.assign"
        <4>1. t = Issue!SetBoth(s, e, "assignees",
                                Issue!AddRemove(Issue!Assignees(s), e.data))
          BY <1>1, <3>2 DEF Issue!Apply, Issue!Assign
        <4>2. Issue!AddRemove(Issue!Assignees(s), e.data)
                = AddRemove(s.meta.assignees, e.data)
          BY DEF Issue!AddRemove, AddRemove, Issue!Given, Given, IssueRecord
        <4>3. QED
          BY <3>2, <4>1, <4>2
      <3>3. CASE e.kind = "issue.link"
        <4>1. t = Issue!SetBoth(s, e, "links", Issue!LinkEvent(Issue!Links(s), e.data))
          BY <1>1, <3>3 DEF Issue!Apply, Issue!Link
        <4>2. Issue!LinkEvent(s.meta.links, e.data) = LinkEvent(s.meta.links, e.data)
          BY Zenon DEF Issue!LinkEvent, LinkEvent, Issue!Without, Without,
                       Issue!Ordered, Ordered, Issue!Range, Range,
                       Issue!Cardinality, Cardinality
        <4>3. QED
          BY <3>3, <4>1, <4>2 DEF IssueRecord
      <3>4. QED
        BY <1>6, <3>1, <3>2, <3>3
    <2>2. PICK m : m = Issue!Put(Issue!Put(s.meta, field, v), "updated_at", e.id)
      OBVIOUS
    <2>3. /\ DOMAIN m = DOMAIN s.meta /\ m[field] = v
          /\ \A f \in IssueMeta \ {field, "updated_at"} : m[f] = s.meta[f]
      <3>1. field \in {"labels", "assignees", "links"}
        BY <2>1
      <3>2. QED
        BY <2>2, <3>1 DEF IssueRecord
    <2>4. Issue!Set(s, e, field, v).meta = m
      BY <2>2 DEF Issue!Set, IssueRecord, IsTree
    <2>5. t = [meta |-> m, coll |-> s.coll, scratch |-> Issue!Put(s.scratch, field, v)]
      BY <2>1, <2>4, Zenon DEF Issue!SetBoth
    <2>6. /\ t.meta = m /\ t.coll = s.coll
          /\ t.scratch = Issue!Put(s.scratch, field, v)
      BY <2>5
    <2>7. /\ Issue!Labels(t) = IF field = "labels" THEN v ELSE Issue!Labels(s)
          /\ Issue!Links(t) = IF field = "links" THEN v ELSE Issue!Links(s)
          /\ Issue!Assignees(t) = IF field = "assignees" THEN v ELSE Issue!Assignees(s)
      BY <2>6
    <2> HIDE DEF t
    <2>8. QED
      BY <1>2, <1>6, <2>1, <2>3, <2>6, <2>7 DEF IssueRecord, t
  <1>7. QED
    BY <1>3, <1>4, <1>5, <1>6 DEF Issue!Kinds

-----------------------------------------------------------------------------
(* Comments and messages.                                                  *)

IsPost(e) == e.kind \in {"issue.comment", "chat.post"}
IsItem(e) == IsPost(e) \/ (e.kind = "chat.create" /\ e.data.body)

\* The later events that supersede an item.
Superseding(C, i) == {e \in C : IsPost(e) /\ e.data.supersedes = i /\ e.id > i}

ItemsFit(C, items) ==
    /\ DOMAIN items = {e.id : e \in {e \in C : IsItem(e)}}
    /\ \A i \in DOMAIN items :
         /\ items[i] = [author |-> items[i].author, supersedes |-> items[i].supersedes,
                        superseded_by |-> items[i].superseded_by]
         /\ items[i].superseded_by = IF Superseding(C, i) = {} THEN Never
                                     ELSE Latest(Superseding(C, i)).id

\* An event after all of those in a set.
IsNext(e, C) == /\ IsEvents(C) /\ e.id \in Nat \ {0}
                /\ \A d \in C : d.id \in Nat \ {0} /\ d.id < e.id

\* An event of another kind changes no item.
LEMMA ItemsKept ==
    ASSUME NEW C, NEW items, ItemsFit(C, items), NEW e, ~IsItem(e)
    PROVE  ItemsFit(C \cup {e}, items)
  <1>1. \A i : Superseding(C \cup {e}, i) = Superseding(C, i)
    BY DEF Superseding, IsItem
  <1>2. {d \in C \cup {e} : IsItem(d)} = {d \in C : IsItem(d)}
    OBVIOUS
  <1>3. QED
    BY <1>1, <1>2 DEF ItemsFit

\* A post adds its item and marks the one it supersedes.
LEMMA ItemsGrow ==
    ASSUME NEW C, NEW items, ItemsFit(C, items), NEW e, IsNext(e, C),
           IsItem(e), Shaped(e)
    PROVE  ItemsFit(C \cup {e}, PutItem(items, e))
  <1> DEFINE prior == Given(e.data, "supersedes", Never)
             new == PutItem(items, e)
  <1>1. IsPost(e) => prior = e.data.supersedes
    BY DEF Shaped, IsPost, Given
  <1>2. ~IsPost(e) => prior = Never
    BY DEF Shaped, IsItem, Given
  <1>3. \A i \in DOMAIN items : i \in Nat \ {0} /\ i < e.id
    BY DEF ItemsFit, IsNext
  <1> HIDE DEF prior
  <1>4. /\ DOMAIN new = DOMAIN items \cup {e.id}
        /\ new[e.id] = [author |-> e.actor, supersedes |-> prior,
                        superseded_by |-> Never]
        /\ \A i \in DOMAIN items :
             new[i] = IF i = prior THEN [items[i] EXCEPT !.superseded_by = e.id]
                      ELSE items[i]
    <2>1. e.id \notin DOMAIN items
      BY <1>3
    <2>2. CASE prior \in DOMAIN items
      <3>1. new = Put([items EXCEPT ![prior] = [@ EXCEPT !.superseded_by = e.id]], e.id,
                      [author |-> e.actor, supersedes |-> prior,
                       superseded_by |-> Never])
        BY <2>2 DEF PutItem, prior
      <3> HIDE DEF new
      <3>2. QED
        BY <2>1, <2>2, <3>1 DEF Put
    <2>3. CASE prior \notin DOMAIN items
      <3>1. new = Put(items, e.id, [author |-> e.actor, supersedes |-> prior,
                                    superseded_by |-> Never])
        BY <2>3 DEF PutItem, prior
      <3> HIDE DEF new
      <3>2. QED
        BY <2>1, <2>3, <3>1 DEF Put
    <2>4. QED
      BY <2>2, <2>3
  <1> HIDE DEF new
  <1>5. DOMAIN new = {d.id : d \in {d \in C \cup {e} : IsItem(d)}}
    BY <1>4 DEF ItemsFit
  <1>6. ASSUME NEW i \in DOMAIN items
        PROVE  /\ new[i] = [author |-> new[i].author, supersedes |-> new[i].supersedes,
                            superseded_by |-> new[i].superseded_by]
               /\ new[i].superseded_by = IF Superseding(C \cup {e}, i) = {} THEN Never
                                         ELSE Latest(Superseding(C \cup {e}, i)).id
    <2>1. /\ items[i] = [author |-> items[i].author, supersedes |-> items[i].supersedes,
                         superseded_by |-> items[i].superseded_by]
          /\ items[i].superseded_by = IF Superseding(C, i) = {} THEN Never
                                      ELSE Latest(Superseding(C, i)).id
      BY DEF ItemsFit
    <2>2. CASE i = prior
      <3>1. IsPost(e) /\ e.data.supersedes = i /\ e.id > i
        BY <1>1, <1>2, <1>3, <2>2 DEF Never
      <3>2. Superseding(C \cup {e}, i) = Superseding(C, i) \cup {e}
        BY <3>1 DEF Superseding
      <3>3. Latest(Superseding(C, i) \cup {e}) = e
        BY LatestAdded DEF IsNext, Superseding
      <3>4. new[i] = [items[i] EXCEPT !.superseded_by = e.id]
        BY <1>4, <2>2
      <3>5. /\ new[i] = [author |-> items[i].author, supersedes |-> items[i].supersedes,
                         superseded_by |-> e.id]
        BY <2>1, <3>4
      <3>6. QED
        BY <3>2, <3>3, <3>5
    <2>3. CASE i # prior
      <3>1. Superseding(C \cup {e}, i) = Superseding(C, i)
        BY <1>1, <2>3 DEF Superseding
      <3>2. QED
        BY <1>4, <2>1, <2>3, <3>1
    <2>4. QED
      BY <2>2, <2>3
  <1>7. Superseding(C \cup {e}, e.id) = {}
    BY DEF Superseding, IsNext
  <1>8. QED
    <2>1. \A i \in DOMAIN new : i \in DOMAIN items \/ i = e.id
      BY <1>4
    <2>2. /\ new[e.id] = [author |-> new[e.id].author,
                          supersedes |-> new[e.id].supersedes,
                          superseded_by |-> new[e.id].superseded_by]
          /\ new[e.id].superseded_by = Never
      BY <1>4
    <2>3. ASSUME NEW i \in DOMAIN new
          PROVE  /\ new[i] = [author |-> new[i].author, supersedes |-> new[i].supersedes,
                              superseded_by |-> new[i].superseded_by]
                 /\ new[i].superseded_by = IF Superseding(C \cup {e}, i) = {} THEN Never
                                           ELSE Latest(Superseding(C \cup {e}, i)).id
      <3>1. CASE i \in DOMAIN items
        BY <1>6, <3>1
      <3>2. CASE i = e.id
        BY <1>7, <2>2, <3>2
      <3>3. QED
        BY <2>1, <3>1, <3>2
    <2>4. QED
      BY <1>5, <2>3 DEF ItemsFit, new

-----------------------------------------------------------------------------
(* What an issue shows.                                                    *)

WithField(C, field) == {e \in C : field \in DOMAIN e.data}
LatestShown(C, record, field) ==
    WithField(C, field) # {} => record[field] = Latest(WithField(C, field)).data[field]

WithKind(C, kinds) == {e \in C : e.kind \in kinds}

LinksFit(C, links) ==
    LET E == WithKind(C, {"issue.link", "task.link"}) IN
    links = IF E = {} \/ Latest(E).data.remove THEN <<>> ELSE <<1>>

\* The assignees of the create.
AssignedFirst(C) == UNION {e.data.assignees : e \in WithKind(C, {"issue.create"})}

IssueFits(C, s) ==
    /\ IssueRecord(s)
    /\ LatestShown(C, s.meta, "title")
    /\ ClosedAtFits(s)
    /\ \A x \in Members :
         /\ HoldsLatest(WithKind(C, {"issue.label"}), {}, s.meta.labels, x)
         /\ HoldsLatest(WithKind(C, {"issue.assign"}), AssignedFirst(C),
                        s.meta.assignees, x)
    /\ LinksFit(C, s.meta.links)
    /\ ItemsFit(C, s.coll.comments)
    /\ s.meta.comment_count = Cardinality(DOMAIN s.coll.comments)

\* A field that is overwritten by those who give it shows the last of them.
LEMMA ShownNext ==
    ASSUME NEW C, NEW e, IsNext(e, C), NEW r, NEW q, NEW field,
           IF field \in DOMAIN e.data THEN q[field] = e.data[field]
           ELSE q[field] = r[field] /\ LatestShown(C, r, field)
    PROVE  LatestShown(C \cup {e}, q, field)
  <1>1. CASE field \in DOMAIN e.data
    <2>1. WithField(C \cup {e}, field) = WithField(C, field) \cup {e}
      BY <1>1 DEF WithField
    <2>2. Latest(WithField(C, field) \cup {e}) = e
      BY LatestAdded DEF IsNext, WithField
    <2>3. QED
      BY <1>1, <2>1, <2>2 DEF LatestShown
  <1>2. CASE field \notin DOMAIN e.data
    <2>1. WithField(C \cup {e}, field) = WithField(C, field)
      BY <1>2 DEF WithField
    <2>2. QED
      BY <1>2, <2>1 DEF LatestShown
  <1>3. QED
    BY <1>1, <1>2

\* The latest event of some kinds, after one more.
LEMMA KindNext ==
    ASSUME NEW C, NEW e, IsNext(e, C), NEW kinds
    PROVE  IF e.kind \in kinds
           THEN /\ WithKind(C \cup {e}, kinds) = WithKind(C, kinds) \cup {e}
                /\ Latest(WithKind(C \cup {e}, kinds)) = e
           ELSE WithKind(C \cup {e}, kinds) = WithKind(C, kinds)
  <1>1. CASE e.kind \in kinds
    <2>1. WithKind(C \cup {e}, kinds) = WithKind(C, kinds) \cup {e}
      BY <1>1 DEF WithKind
    <2>2. Latest(WithKind(C, kinds) \cup {e}) = e
      BY LatestAdded DEF IsNext, WithKind
    <2>3. QED
      BY <1>1, <2>1, <2>2
  <1>2. CASE e.kind \notin kinds
    BY <1>2 DEF WithKind
  <1>3. QED
    BY <1>1, <1>2

\* Remove first, then add: the last event that mentions a member decides.
LEMMA HoldsNext ==
    ASSUME NEW C, NEW e, IsNext(e, C), NEW kind, NEW given, NEW set, NEW x,
           HoldsLatest(WithKind(C, {kind}), given, set, x),
           NEW new, new = IF e.kind = kind THEN AddRemove(set, e.data) ELSE set
    PROVE  HoldsLatest(WithKind(C \cup {e}, {kind}), given, new, x)
  <1> DEFINE E == WithKind(C, {kind})
             Touches(d) == x \in Given(d.data, "add", {}) \cup Given(d.data, "remove", {})
             M == {d \in E : Touches(d)}
  <1>1. CASE e.kind # kind
    BY <1>1, KindNext
  <1>2. CASE e.kind = kind
    <2>1. WithKind(C \cup {e}, {kind}) = E \cup {e}
      BY <1>2, KindNext
    <2>2. CASE Touches(e)
      <3>1. {d \in E \cup {e} : Touches(d)} = M \cup {e}
        BY <2>2
      <3>2. Latest(M \cup {e}) = e
        BY LatestAdded DEF IsNext, WithKind
      <3>3. x \in new <=> x \in Given(e.data, "add", {})
        BY <1>2, <2>2 DEF AddRemove
      <3>4. QED
        BY <2>1, <3>1, <3>2, <3>3 DEF HoldsLatest
    <2>3. CASE ~Touches(e)
      <3>1. {d \in E \cup {e} : Touches(d)} = M
        BY <2>3
      <3>2. x \in new <=> x \in set
        BY <1>2, <2>3 DEF AddRemove
      <3>3. QED
        BY <2>1, <3>1, <3>2 DEF HoldsLatest
    <2>4. QED
      BY <2>2, <2>3
  <1>3. QED
    BY <1>1, <1>2

\* No numbers in a sorted list of none.
LEMMA OrderedNothing == Ordered({}) = <<>>
  BY FS_EmptySet DEF Ordered

\* Nothing is left of a list of which nothing is kept.
LEMMA WithoutNothing ==
    ASSUME NEW list, NEW x, Ordered({n \in DOMAIN list : list[n] # x}) = <<>>
    PROVE  Without(list, x) = <<>>
  <1> DEFINE kept == Ordered({n \in DOMAIN list : list[n] # x})
  <1>1. Without(list, x) = [n \in DOMAIN kept |-> list[kept[n]]]
    BY Zenon DEF Without
  <1>2. DOMAIN kept = {}
    OBVIOUS
  <1>3. Without(list, x) = [n \in {} |-> list[kept[n]]]
    BY <1>1, <1>2, Zenon
  <1>4. QED
    BY <1>3

\* One link, added and removed: the last event decides, and it is listed once.
LEMMA LinksNext ==
    ASSUME NEW C, NEW e, IsNext(e, C), Shaped(e), NEW links, LinksFit(C, links),
           NEW new, new = IF e.kind \in {"issue.link", "task.link"}
                          THEN LinkEvent(links, e.data) ELSE links
    PROVE  LinksFit(C \cup {e}, new)
  <1> DEFINE kinds == {"issue.link", "task.link"}
  <1>1. CASE e.kind \notin kinds
    BY <1>1, KindNext DEF LinksFit
  <1>2. CASE e.kind \in kinds
    <2>1. /\ WithKind(C \cup {e}, kinds) # {} /\ Latest(WithKind(C \cup {e}, kinds)) = e
      <3>1. e \in WithKind(C \cup {e}, kinds)
        BY <1>2 DEF WithKind
      <3>2. QED
        BY <1>2, <3>1, KindNext
    <2>2. e.data.link = 1 /\ e.data.remove \in BOOLEAN /\ links \in {<<>>, <<1>>}
      BY <1>2 DEF Shaped, LinksFit
    <2>3. Without(links, 1) = <<>>
      <3>1. {n \in DOMAIN links : links[n] # 1} = {}
        BY <2>2
      <3>2. QED
        BY <3>1, OrderedNothing, WithoutNothing
    <2>4. LinkEvent(links, e.data) = IF e.data.remove THEN <<>> ELSE <<1>>
      <3>1. CASE links = <<>>
        BY <2>2, <2>3, <3>1 DEF LinkEvent, Range
      <3>2. CASE links = <<1>>
        BY <2>2, <2>3, <3>2 DEF LinkEvent, Range
      <3>3. QED
        BY <2>2, <3>1, <3>2
    <2>5. QED
      BY <1>2, <2>1, <2>4 DEF LinksFit
  <1>3. QED
    BY <1>1, <1>2

\* closed_at follows the status.
LEMMA ClosedNext ==
    ASSUME NEW s, NEW t, ClosedAtFits(s), NEW e, e.id \in Nat \ {0},
           LET valid == e.kind = "issue.status"
                           /\ Issue!ValidTransition(s.meta.status, e.data.to) IN
           /\ t.meta.status = IF valid THEN e.data.to ELSE s.meta.status
           /\ t.meta.closed_at = IF valid THEN Issue!ClosedAt(s, e)
                                 ELSE s.meta.closed_at
    PROVE  ClosedAtFits(t)
  <1>1. CASE e.kind = "issue.status" /\ Issue!ValidTransition(s.meta.status, e.data.to)
    <2>1. /\ t.meta.status = e.data.to
          /\ t.meta.closed_at = Issue!ClosedAt(s, e)
      BY <1>1
    <2>2. \/ e.data.to \in {"open", "closed"}
          \/ <<s.meta.status, e.data.to>> \in Issue!AllowedTransitions
      BY <1>1 DEF Issue!ValidTransition
    <2>3. \/ e.data.to \in {"open", "closed"}
          \/ s.meta.status = "open" /\ e.data.to = "in_progress"
          \/ s.meta.status = "in_progress" /\ e.data.to = "resolved"
          \/ s.meta.status = "closed" /\ e.data.to = "archived"
      BY <2>2 DEF Issue!AllowedTransitions
    <2>4. Issue!ClosedAt(s, e) = IF e.data.to = "closed" THEN e.id
                                 ELSE IF e.data.to = "open" THEN Never
                                 ELSE s.meta.closed_at
      BY DEF Issue!ClosedAt, Issue!Never, Never
    <2>5. QED
      BY <2>1, <2>3, <2>4 DEF ClosedAtFits, Never
  <1>2. CASE ~(e.kind = "issue.status" /\ Issue!ValidTransition(s.meta.status, e.data.to))
    BY <1>2 DEF ClosedAtFits
  <1>3. QED
    BY <1>1, <1>2

\* An issue after its create.
LEMMA IssueFirst ==
    ASSUME NEW e, e.kind = "issue.create", Shaped(e), IsNext(e, {})
    PROVE  IssueFits({e}, Issue!Apply(NewState, e))
  <1> DEFINE s == Issue!Apply(NewState, e)
  <1>1. /\ IssueRecord(s)
        /\ s.meta.title = e.data.title
        /\ s.meta.status = "open" /\ s.meta.closed_at = Never
        /\ s.meta.labels = {} /\ s.meta.links = <<>>
        /\ s.meta.assignees = e.data.assignees
        /\ s.coll.comments = <<>> /\ s.meta.comment_count = 0
    BY IssueCreated
  <1> HIDE DEF s
  <1>2. LatestShown({} \cup {e}, s.meta, "title")
    <2>1. "title" \in DOMAIN e.data
      BY DEF Shaped
    <2>2. QED
      BY <1>1, <2>1, ShownNext
  <1>3. ClosedAtFits(s)
    BY <1>1 DEF ClosedAtFits
  <1>4. /\ WithKind({e}, {"issue.label"}) = {}
        /\ WithKind({e}, {"issue.assign"}) = {}
        /\ WithKind({e}, {"issue.link", "task.link"}) = {}
        /\ {d \in {e} : IsItem(d)} = {}
    BY DEF WithKind, IsItem, IsPost
  <1>5. ASSUME NEW x \in Members
        PROVE  /\ HoldsLatest(WithKind({e}, {"issue.label"}), {}, s.meta.labels, x)
               /\ HoldsLatest(WithKind({e}, {"issue.assign"}), AssignedFirst({e}),
                              s.meta.assignees, x)
    <2>1. WithKind({e}, {"issue.create"}) = {e}
      BY DEF WithKind
    <2>2. AssignedFirst({e}) = e.data.assignees
      BY <2>1 DEF AssignedFirst
    <2>3. QED
      BY <1>1, <1>4, <2>2 DEF HoldsLatest
  <1>6. LinksFit({e}, s.meta.links)
    BY <1>1, <1>4 DEF LinksFit
  <1>7. ItemsFit({e}, s.coll.comments) /\ DOMAIN s.coll.comments = {}
    BY <1>1, <1>4 DEF ItemsFit
  <1>8. {} \cup {e} = {e}
    OBVIOUS
  <1>9. QED
    BY <1>1, <1>2, <1>3, <1>5, <1>6, <1>7, <1>8, FS_EmptySet DEF IssueFits, s

\* An issue after each further event.
LEMMA IssueNext ==
    ASSUME NEW C, NEW s, IssueFits(C, s), NEW e, IsNext(e, C), Shaped(e),
           e.kind \in Issue!Kinds \ {"issue.create"}
    PROVE  IssueFits(C \cup {e}, Issue!Apply(s, e))
  <1> DEFINE t == Issue!Apply(s, e)
  <1> DEFINE valid == e.kind = "issue.status"
                        /\ Issue!ValidTransition(s.meta.status, e.data.to)
  <1>1. /\ IssueRecord(t)
        /\ t.meta.title = IF e.kind = "issue.edit" THEN e.data.title ELSE s.meta.title
        /\ t.meta.status = IF valid THEN e.data.to ELSE s.meta.status
        /\ t.meta.closed_at = IF valid THEN Issue!ClosedAt(s, e) ELSE s.meta.closed_at
        /\ t.meta.labels = IF e.kind = "issue.label"
                           THEN AddRemove(s.meta.labels, e.data) ELSE s.meta.labels
        /\ t.meta.assignees = IF e.kind = "issue.assign"
                              THEN AddRemove(s.meta.assignees, e.data)
                              ELSE s.meta.assignees
        /\ t.meta.links = IF e.kind = "issue.link"
                          THEN LinkEvent(s.meta.links, e.data) ELSE s.meta.links
        /\ t.coll.comments = IF e.kind = "issue.comment"
                             THEN PutItem(s.coll.comments, e) ELSE s.coll.comments
        /\ t.meta.comment_count = IF e.kind = "issue.comment"
                                  THEN Cardinality(DOMAIN t.coll.comments)
                                  ELSE s.meta.comment_count
    BY IssueSteps DEF IssueFits
  <1> HIDE DEF t
  <1>2. LatestShown(C \cup {e}, t.meta, "title")
    <2>1. "title" \in DOMAIN e.data <=> e.kind = "issue.edit"
      BY DEF Shaped, Issue!Kinds
    <2>2. QED
      BY <1>1, <2>1, ShownNext DEF IssueFits
  <1>3. ClosedAtFits(t)
    BY <1>1, ClosedNext DEF IssueFits, IsNext
  <1>4. ASSUME NEW x \in Members
        PROVE  /\ HoldsLatest(WithKind(C \cup {e}, {"issue.label"}), {}, t.meta.labels, x)
               /\ HoldsLatest(WithKind(C \cup {e}, {"issue.assign"}),
                              AssignedFirst(C \cup {e}), t.meta.assignees, x)
    <2>1. HoldsLatest(WithKind(C \cup {e}, {"issue.label"}), {}, t.meta.labels, x)
      BY <1>1, HoldsNext DEF IssueFits
    <2>2. HoldsLatest(WithKind(C \cup {e}, {"issue.assign"}), AssignedFirst(C),
                      t.meta.assignees, x)
      BY <1>1, HoldsNext DEF IssueFits
    <2>3. WithKind(C \cup {e}, {"issue.create"}) = WithKind(C, {"issue.create"})
      BY DEF WithKind
    <2>4. AssignedFirst(C \cup {e}) = AssignedFirst(C)
      BY <2>3, Zenon DEF AssignedFirst
    <2>5. QED
      BY <2>1, <2>2, <2>4
  <1>5. LinksFit(C \cup {e}, t.meta.links)
    <2>1. e.kind = "issue.link" <=> e.kind \in {"issue.link", "task.link"}
      BY DEF Issue!Kinds
    <2>2. QED
      BY <1>1, <2>1, LinksNext DEF IssueFits
  <1>6. /\ ItemsFit(C \cup {e}, t.coll.comments)
        /\ t.meta.comment_count = Cardinality(DOMAIN t.coll.comments)
    <2>1. e.kind = "issue.comment" <=> IsItem(e)
      BY DEF IsItem, IsPost, Issue!Kinds
    <2>2. QED
      BY <1>1, <2>1, ItemsKept, ItemsGrow DEF IssueFits
  <1>7. QED
    BY <1>1, <1>2, <1>3, <1>4, <1>5, <1>6 DEF IssueFits, t

\* What every issue shows is what its counted events say.
LEMMA IssueShows ==
    ASSUME menu \in Menus, HasKind({"issue.create"}), NEW E, IsHistory(E)
    PROVE  LET C == Counted(At(E)) IN
           IF C = {} THEN FullFold(E) = NewState ELSE IssueFits(C, FullFold(E))
  <1> DEFINE Good == {C \in SUBSET E : C # {} => IssueFits(C, FullFold(C))}
  <1>1. FullFold({}) = NewState
    BY FoldOfNothing DEF FullFold
  <1>2. HasKind(Creates) /\ HasKind(Issue!Kinds)
    BY DEF HasKind, Creates, Issue!Kinds
  <1>3. ASSUME NEW e \in E, NEW C \in SUBSET E, C \in Good,
               IsEvents(C), IsEdit(e), Shaped(e), e.id \in Nat \ {0},
               \A d \in C : IsEdit(d) /\ Shaped(d) /\ d.id \in Nat \ {0} /\ d.id < e.id,
               HasKind(Creates) => (e.kind \in Creates <=> C = {}),
               FullFold(C \cup {e}) = Apply(FullFold(C), e)
        PROVE  C \cup {e} \in Good
    <2>1. e.kind \in Issue!Kinds /\ FullFold(C \cup {e}) = Issue!Apply(FullFold(C), e)
      BY <1>2, <1>3, FeatureApply
    <2>2. IsNext(e, C)
      BY <1>3 DEF IsNext
    <2>3. CASE C = {}
      <3>1. e.kind = "issue.create"
        BY <1>2, <1>3, <2>1, <2>3 DEF Creates, Issue!Kinds
      <3>2. FullFold(C) = NewState /\ C \cup {e} = {e}
        BY <1>1, <2>3
      <3>3. IssueFits({e}, Issue!Apply(NewState, e))
        BY <1>3, <2>2, <2>3, <3>1, IssueFirst
      <3>4. QED
        BY <2>1, <3>2, <3>3
    <2>4. CASE C # {}
      <3>1. e.kind # "issue.create"
        BY <1>2, <1>3, <2>4 DEF Creates
      <3>2. QED
        BY <1>3, <2>1, <2>2, <2>4, <3>1, IssueNext
    <2>5. QED
      BY <2>3, <2>4
  <1>4. QED
    <2> HIDE DEF Good
    <2>1. {} \in Good
      BY DEF Good
    <2>2. Counted(At(E)) \in Good /\ FullFold(Counted(At(E))) = FullFold(E)
      BY <1>3, <2>1, CountedInduction
    <2>3. QED
      BY <1>1, <2>2 DEF Good

-----------------------------------------------------------------------------
(* Tasks.                                                                  *)

TaskMeta == {"title", "status", "owner", "created_by", "created_at", "updated_at",
             "links", "status_history"}

TaskRecord(s) ==
    /\ IsTree(s, Task!ScratchKeys)
    /\ DOMAIN s.meta = TaskMeta /\ DOMAIN s.coll = {"notes"}
    /\ s.meta.links = Task!Links(s)
    /\ s.meta.status_history = Task!StatusHistory(s)

Entry(e, to) == [to |-> to, by |-> e.actor, ts |-> e.id]

\* appendTaskStatusHistory adds one entry, in the meta and in the scratch.
LEMMA HistoryAppended ==
    ASSUME NEW s, NEW e, NEW to,
           s = [meta |-> s.meta, coll |-> s.coll, scratch |-> s.scratch]
    PROVE  LET t == Task!AppendHistory(s, e, to)
               h == Append(Task!StatusHistory(s), Entry(e, to)) IN
           /\ DOMAIN t.meta = DOMAIN s.meta \cup {"status_history"}
           /\ t.meta.status_history = h /\ Task!StatusHistory(t) = h
           /\ \A f \in DOMAIN s.meta \ {"status_history"} : t.meta[f] = s.meta[f]
           /\ t.coll = s.coll /\ Task!Links(t) = Task!Links(s)
           /\ t = [meta |-> t.meta, coll |-> t.coll, scratch |-> t.scratch]
  <1> DEFINE t == Task!AppendHistory(s, e, to)
  <1>1. PICK h : h = Append(Task!StatusHistory(s), Entry(e, to))
    OBVIOUS
  <1>2. t = [meta |-> Task!Put(s.meta, "status_history", h), coll |-> s.coll,
             scratch |-> Task!Put(s.scratch, "status_history", h)]
    BY <1>1 DEF Task!AppendHistory, Entry
  <1>3. /\ t.meta = Task!Put(s.meta, "status_history", h) /\ t.coll = s.coll
        /\ t.scratch = Task!Put(s.scratch, "status_history", h)
        /\ t = [meta |-> t.meta, coll |-> t.coll, scratch |-> t.scratch]
    BY <1>2
  <1> HIDE DEF t
  <1>4. Task!StatusHistory(t) = h /\ Task!Links(t) = Task!Links(s)
    BY <1>3 DEF Task!StatusHistory, Task!Links, Task!Given, Task!Put
  <1>5. QED
    BY <1>1, <1>3, <1>4 DEF Task!Put, t

\* A note goes in under the ID of its event.
LEMMA NotePut ==
    ASSUME NEW s, NEW e, s = [meta |-> s.meta, coll |-> s.coll, scratch |-> s.scratch],
           DOMAIN s.coll = {"notes"}
    PROVE  LET t == Task!PutNote(s, e) IN
           /\ t.meta = s.meta /\ t.scratch = s.scratch
           /\ DOMAIN t.coll = {"notes"}
           /\ DOMAIN t.coll.notes = DOMAIN s.coll.notes \cup {e.id}
           /\ t = [meta |-> t.meta, coll |-> t.coll, scratch |-> t.scratch]
  <1> DEFINE t == Task!PutNote(s, e)
  <1>1. PICK c : c = Task!Put(s.coll, "notes",
                              Task!Put(s.coll.notes, e.id, [author |-> e.actor]))
    OBVIOUS
  <1>2. t = [s EXCEPT !.coll = c]
    BY <1>1 DEF Task!PutNote
  <1>3. t.meta = s.meta /\ t.scratch = s.scratch /\ t.coll = c
        /\ t = [meta |-> t.meta, coll |-> t.coll, scratch |-> t.scratch]
    BY <1>2
  <1> HIDE DEF t
  <1>4. QED
    BY <1>1, <1>3 DEF Task!Put, t

\* What task.create makes.
LEMMA TaskCreated ==
    ASSUME NEW e, e.kind = "task.create", Shaped(e)
    PROVE  LET s == Task!Apply(NewState, e) IN
           /\ TaskRecord(s)
           /\ s.meta.title = e.data.title /\ s.meta.status = "todo"
           /\ "owner" \in DOMAIN e.data => s.meta.owner = e.data.owner
           /\ s.meta.links = <<>> /\ s.coll.notes = <<>>
           /\ s.meta.status_history = <<Entry(e, "todo")>>
  <1> DEFINE s == Task!Apply(NewState, e)
  <1>1. s = Task!Create(NewState, e) /\ ~Task!Created(NewState)
    BY DEF Task!Apply, Task!Created, Task!NoMeta, NewState, NoMeta
  <1>2. DOMAIN e.data \in {{"title"}, {"title", "owner"}}
    BY DEF Shaped
  <1> DEFINE o == Task!Given(e.data, "owner", e.actor)
             n == [meta |-> [title |-> e.data.title, status |-> "todo", owner |-> o,
                             created_by |-> e.actor, created_at |-> e.id,
                             updated_at |-> e.id, links |-> <<>>],
                   coll |-> [notes |-> <<>>],
                   scratch |-> <<>>]
  <1>3. s = Task!AppendHistory(n, e, "todo")
    BY <1>1 DEF Task!Create, NewState
  <1>4. /\ n = [meta |-> n.meta, coll |-> n.coll, scratch |-> n.scratch]
        /\ DOMAIN n.meta = TaskMeta \ {"status_history"}
        /\ n.meta.title = e.data.title /\ n.meta.status = "todo" /\ n.meta.owner = o
        /\ n.meta.links = <<>> /\ n.coll.notes = <<>> /\ DOMAIN n.coll = {"notes"}
        /\ n.scratch = <<>>
    BY DEF TaskMeta
  <1>5. Task!StatusHistory(n) = <<>> /\ Task!Links(n) = <<>>
    BY <1>4 DEF Task!StatusHistory, Task!Links, Task!Given
  <1>6. "owner" \in DOMAIN e.data => o = e.data.owner
    BY DEF Task!Given
  <1>7. IsTree(s, Task!ScratchKeys)
    BY NewTree, TaskTree
  <1> HIDE DEF s, n, o
  <1> DEFINE h == Append(Task!StatusHistory(n), Entry(e, "todo"))
  <1>8. /\ DOMAIN s.meta = DOMAIN n.meta \cup {"status_history"}
        /\ s.meta.status_history = h /\ Task!StatusHistory(s) = h
        /\ \A f \in DOMAIN n.meta \ {"status_history"} : s.meta[f] = n.meta[f]
        /\ s.coll = n.coll /\ Task!Links(s) = Task!Links(n)
    BY <1>3, <1>4, HistoryAppended
  <1>9. h = <<Entry(e, "todo")>>
    BY <1>5
  <1> HIDE DEF h
  <1>10. QED
    BY <1>4, <1>5, <1>6, <1>7, <1>8, <1>9 DEF TaskRecord, TaskMeta, s

\* What each reducer of a task does to what a reader is shown.
LEMMA TaskSteps ==
    ASSUME NEW s, TaskRecord(s), NEW e, Shaped(e),
           e.kind \in Task!Kinds \ {"task.create"}
    PROVE  LET t == Task!Apply(s, e)
               valid == e.kind = "task.status"
                           /\ Task!ValidTransition(s.meta.status, e.data.to) IN
           /\ TaskRecord(t)
           /\ t.meta.title = IF e.kind = "task.edit" THEN e.data.title
                             ELSE s.meta.title
           /\ t.meta.owner = IF e.kind = "task.reassign" THEN e.data.owner
                             ELSE s.meta.owner
           /\ t.meta.status = IF valid THEN e.data.to ELSE s.meta.status
           /\ t.meta.status_history =
                IF valid THEN Append(s.meta.status_history, Entry(e, e.data.to))
                ELSE s.meta.status_history
           /\ t.meta.links = IF e.kind = "task.link"
                             THEN LinkEvent(s.meta.links, e.data) ELSE s.meta.links
           /\ DOMAIN t.coll.notes =
                IF e.kind = "task.note" \/ (valid /\ e.data.note)
                THEN DOMAIN s.coll.notes \cup {e.id} ELSE DOMAIN s.coll.notes
  <1> DEFINE t == Task!Apply(s, e)
  <1>1. Task!Created(s)
    BY DEF TaskRecord, TaskMeta, Task!Created, Task!NoMeta
  <1>2. IsTree(t, Task!ScratchKeys)
    BY TaskTree DEF TaskRecord
  <1>3. s = [meta |-> s.meta, coll |-> s.coll, scratch |-> s.scratch]
    BY DEF TaskRecord, IsTree
  <1>4. CASE e.kind = "task.edit"
    <2>1. t = Task!Edit(s, e) /\ DOMAIN e.data = {"title"}
      BY <1>1, <1>4 DEF Task!Apply, Shaped
    <2>2. PICK m : m = Task!Put(Task!Over(Task!Fields(e.data, {"title"}), s.meta),
                                "updated_at", e.id)
      OBVIOUS
    <2>3. t = [s EXCEPT !.meta = m]
      BY <2>1, <2>2 DEF Task!Edit
    <2>4. /\ DOMAIN m = DOMAIN s.meta /\ m.title = e.data.title
          /\ \A f \in TaskMeta \ {"title", "updated_at"} : m[f] = s.meta[f]
      BY <2>1, <2>2 DEF TaskRecord, TaskMeta, Task!Put, Task!Over, Task!Fields
    <2>5. t.meta = m /\ t.coll = s.coll /\ t.scratch = s.scratch
      BY <1>3, <2>3
    <2> HIDE DEF t
    <2>6. Task!Links(t) = Task!Links(s) /\ Task!StatusHistory(t) = Task!StatusHistory(s)
      BY <2>5 DEF Task!Links, Task!StatusHistory
    <2>7. QED
      BY <1>2, <1>4, <2>4, <2>5, <2>6 DEF TaskRecord, TaskMeta, t
  <1>5. CASE e.kind = "task.reassign"
    <2>1. t = Task!Reassign(s, e)
      BY <1>1, <1>5 DEF Task!Apply
    <2>2. PICK m : m = Task!Over([owner |-> e.data.owner, updated_at |-> e.id], s.meta)
      OBVIOUS
    <2>3. t = [s EXCEPT !.meta = m]
      BY <2>1, <2>2 DEF Task!Reassign
    <2>4. /\ DOMAIN m = DOMAIN s.meta /\ m.owner = e.data.owner
          /\ \A f \in TaskMeta \ {"owner", "updated_at"} : m[f] = s.meta[f]
      BY <2>2 DEF TaskRecord, TaskMeta, Task!Over
    <2>5. t.meta = m /\ t.coll = s.coll /\ t.scratch = s.scratch
      BY <1>3, <2>3
    <2> HIDE DEF t
    <2>6. Task!Links(t) = Task!Links(s) /\ Task!StatusHistory(t) = Task!StatusHistory(s)
      BY <2>5 DEF Task!Links, Task!StatusHistory
    <2>7. QED
      BY <1>2, <1>5, <2>4, <2>5, <2>6 DEF TaskRecord, TaskMeta, t
  <1>6. CASE e.kind = "task.note"
    <2> DEFINE n == Task!PutNote(s, e)
    <2>1. t = Task!Note(s, e)
      BY <1>1, <1>6 DEF Task!Apply
    <2>2. /\ n.meta = s.meta /\ n.scratch = s.scratch
          /\ DOMAIN n.coll = {"notes"}
          /\ DOMAIN n.coll.notes = DOMAIN s.coll.notes \cup {e.id}
          /\ n = [meta |-> n.meta, coll |-> n.coll, scratch |-> n.scratch]
      BY <1>3, NotePut DEF TaskRecord
    <2>3. PICK m : m = Task!Put(n.meta, "updated_at", e.id)
      OBVIOUS
    <2>4. t = [n EXCEPT !.meta = m]
      BY <2>1, <2>3 DEF Task!Note
    <2> HIDE DEF n
    <2>5. t.meta = m /\ t.coll = n.coll /\ t.scratch = s.scratch
      BY <2>2, <2>4
    <2>6. DOMAIN m = DOMAIN s.meta /\ \A f \in TaskMeta \ {"updated_at"} : m[f] = s.meta[f]
      BY <2>2, <2>3 DEF TaskRecord, TaskMeta, Task!Put
    <2> HIDE DEF t
    <2>7. Task!Links(t) = Task!Links(s) /\ Task!StatusHistory(t) = Task!StatusHistory(s)
      BY <2>5 DEF Task!Links, Task!StatusHistory
    <2>8. QED
      BY <1>2, <1>6, <2>2, <2>5, <2>6, <2>7 DEF TaskRecord, TaskMeta, t
  <1>7. CASE e.kind = "task.link"
    <2>1. t = Task!Link(s, e)
      BY <1>1, <1>7 DEF Task!Apply
    <2>2. PICK v : v = LinkEvent(s.meta.links, e.data)
      OBVIOUS
    <2>3. Task!LinkEvent(Task!Links(s), e.data) = v
      <3>1. Task!LinkEvent(s.meta.links, e.data) = LinkEvent(s.meta.links, e.data)
        BY Zenon DEF Task!LinkEvent, LinkEvent, Task!Without, Without, Task!Ordered,
                     Ordered, Task!Range, Range, Task!Cardinality, Cardinality
      <3>2. QED
        BY <2>2, <3>1 DEF TaskRecord
    <2>4. PICK m : m = Task!Over([links |-> v, updated_at |-> e.id], s.meta)
      OBVIOUS
    <2>5. t = [meta |-> m, coll |-> s.coll, scratch |-> Task!Put(s.scratch, "links", v)]
      BY <2>1, <2>3, <2>4, Zenon DEF Task!Link
    <2>6. /\ t.meta = m /\ t.coll = s.coll
          /\ t.scratch = Task!Put(s.scratch, "links", v)
      BY <2>5
    <2>7. /\ DOMAIN m = DOMAIN s.meta /\ m.links = v
          /\ \A f \in TaskMeta \ {"links", "updated_at"} : m[f] = s.meta[f]
      BY <2>4 DEF TaskRecord, TaskMeta, Task!Over
    <2> HIDE DEF t
    <2>8. Task!Links(t) = v /\ Task!StatusHistory(t) = Task!StatusHistory(s)
      BY <2>6 DEF Task!Links, Task!StatusHistory, Task!Given, Task!Put
    <2>9. QED
      BY <1>2, <1>7, <2>2, <2>6, <2>7, <2>8 DEF TaskRecord, TaskMeta, t
  <1>8. CASE e.kind = "task.status"
    <2> DEFINE m == Task!Over([status |-> e.data.to, updated_at |-> e.id], s.meta)
               n == [s EXCEPT !.meta = m]
               u == Task!AppendHistory(n, e, e.data.to)
    <2>1. t = IF ~Task!ValidTransition(s.meta.status, e.data.to) THEN s
              ELSE IF e.data.note THEN Task!PutNote(u, e) ELSE u
      BY <1>1, <1>8 DEF Task!Apply, Task!Status
    <2>2. CASE ~Task!ValidTransition(s.meta.status, e.data.to)
      <3>1. t = s
        BY <2>1, <2>2
      <3> HIDE DEF t
      <3>2. QED
        BY <1>8, <2>2, <3>1 DEF t
    <2>3. CASE Task!ValidTransition(s.meta.status, e.data.to)
      <3>1. /\ DOMAIN m = DOMAIN s.meta /\ m.status = e.data.to
            /\ \A f \in TaskMeta \ {"status", "updated_at"} : m[f] = s.meta[f]
        BY DEF TaskRecord, TaskMeta, Task!Over
      <3> HIDE DEF m
      <3>2. /\ n.meta = m /\ n.coll = s.coll /\ n.scratch = s.scratch
            /\ n = [meta |-> n.meta, coll |-> n.coll, scratch |-> n.scratch]
        BY <1>3
      <3> HIDE DEF n
      <3>3. Task!Links(n) = Task!Links(s) /\ Task!StatusHistory(n) = Task!StatusHistory(s)
        BY <3>2 DEF Task!Links, Task!StatusHistory
      <3>4. PICK h : h = Append(s.meta.status_history, Entry(e, e.data.to))
        OBVIOUS
      <3>5. h = Append(Task!StatusHistory(n), Entry(e, e.data.to))
        BY <3>3, <3>4 DEF TaskRecord
      <3>6. /\ DOMAIN u.meta = DOMAIN n.meta \cup {"status_history"}
            /\ u.meta.status_history = h /\ Task!StatusHistory(u) = h
            /\ \A f \in DOMAIN n.meta \ {"status_history"} : u.meta[f] = n.meta[f]
            /\ u.coll = n.coll /\ Task!Links(u) = Task!Links(n)
            /\ u = [meta |-> u.meta, coll |-> u.coll, scratch |-> u.scratch]
        BY <3>2, <3>5, HistoryAppended
      <3> HIDE DEF u
      <3>7. /\ t.meta = u.meta /\ t.scratch = u.scratch /\ DOMAIN t.coll = {"notes"}
            /\ DOMAIN t.coll.notes = IF e.data.note THEN DOMAIN s.coll.notes \cup {e.id}
                                     ELSE DOMAIN s.coll.notes
        <4>1. DOMAIN u.coll = {"notes"} /\ u.coll = s.coll
          BY <3>2, <3>6 DEF TaskRecord
        <4>2. CASE e.data.note
          <5>1. t = Task!PutNote(u, e)
            BY <2>1, <2>3, <4>2
          <5> HIDE DEF t
          <5>2. QED
            BY <3>6, <4>1, <4>2, <5>1, NotePut
        <4>3. CASE ~e.data.note
          <5>1. t = u
            BY <2>1, <2>3, <4>3
          <5> HIDE DEF t
          <5>2. QED
            BY <4>1, <4>3, <5>1
        <4>4. QED
          BY <4>2, <4>3
      <3> HIDE DEF t
      <3>8. Task!Links(t) = Task!Links(s) /\ Task!StatusHistory(t) = h
        BY <3>3, <3>6, <3>7 DEF Task!Links, Task!StatusHistory
      <3>9. /\ DOMAIN t.meta = TaskMeta
            /\ t.meta.status = e.data.to /\ t.meta.status_history = h
            /\ \A f \in {"title", "owner", "links"} : t.meta[f] = s.meta[f]
        BY <3>1, <3>2, <3>6, <3>7 DEF TaskRecord, TaskMeta
      <3>10. QED
        BY <1>2, <1>8, <2>3, <3>4, <3>7, <3>8, <3>9 DEF TaskRecord, t
    <2>4. QED
      BY <2>2, <2>3
  <1>9. QED
    BY <1>4, <1>5, <1>6, <1>7, <1>8 DEF Task!Kinds

-----------------------------------------------------------------------------
(* What a task shows.                                                      *)

\* A history that fits has only entries of counted events.
HistoryOf(E, C, s) ==
    LET h == s.meta.status_history IN
    /\ h \in Seq({Entry(d, to) : d \in E, to \in Task!Statuses})
    /\ Len(h) >= 1 /\ HistoryFits(s)
    /\ \A n \in 1 .. Len(h) : \E d \in C : h[n].ts = d.id

NotesFit(C, notes) ==
    /\ {e.id : e \in WithKind(C, {"task.note"})} \subseteq DOMAIN notes
    /\ DOMAIN notes \subseteq {e.id : e \in C}

TaskFits(E, C, s) ==
    /\ TaskRecord(s)
    /\ LatestShown(C, s.meta, "title")
    /\ LatestShown(C, s.meta, "owner")
    /\ LinksFit(C, s.meta.links)
    /\ HistoryOf(E, C, s)
    /\ NotesFit(C, s.coll.notes)

\* A valid transition extends the path.
LEMMA HistoryNext ==
    ASSUME NEW E, NEW C, NEW s, HistoryOf(E, C, s), NEW e \in E, IsNext(e, C), NEW t,
           Task!ValidTransition(s.meta.status, e.data.to),
           t.meta.status = e.data.to,
           t.meta.status_history = Append(s.meta.status_history, Entry(e, e.data.to))
    PROVE  HistoryOf(E, C \cup {e}, t)
  <1> DEFINE S == {Entry(d, to) : d \in E, to \in Task!Statuses}
             h == s.meta.status_history
             g == t.meta.status_history
             x == Entry(e, e.data.to)
  <1>1. /\ h \in Seq(S) /\ Len(h) \in Nat /\ Len(h) >= 1
        /\ \A n \in 1 .. Len(h) : \E d \in C : h[n].ts = d.id
        /\ h[1].to = "todo" /\ h[Len(h)].to = s.meta.status
        /\ \A n \in 1 .. Len(h) - 1 :
             /\ h[n].ts < h[n + 1].ts
             /\ h[n + 1].to \notin {"todo", "cancelled"} =>
                  <<h[n].to, h[n + 1].to>> \in Task!AllowedTransitions
             /\ h[n].to \in {"done", "cancelled"} => h[n + 1].to = "todo"
    BY DEF HistoryOf, HistoryFits, Last
  <1>2. e.data.to \in Task!Statuses /\ x \in S /\ x.ts = e.id /\ x.to = e.data.to
    BY DEF Task!ValidTransition, Entry
  <1> HIDE DEF S, x
  <1>3. g = Append(h, x)
    BY DEF x
  <1> HIDE DEF g, h
  <1>4. /\ g \in Seq(S) /\ Len(g) = Len(h) + 1 /\ g[Len(h) + 1] = x
        /\ \A n \in 1 .. Len(h) : g[n] = h[n]
    BY <1>1, <1>2, <1>3
  <1>5. ASSUME NEW n \in 1 .. Len(g)
        PROVE  \E d \in C \cup {e} : g[n].ts = d.id
    BY <1>1, <1>2, <1>4
  <1>6. ASSUME NEW n \in 1 .. Len(g) - 1
        PROVE  /\ g[n].ts < g[n + 1].ts
               /\ g[n + 1].to \notin {"todo", "cancelled"} =>
                    <<g[n].to, g[n + 1].to>> \in Task!AllowedTransitions
               /\ g[n].to \in {"done", "cancelled"} => g[n + 1].to = "todo"
    <2>1. CASE n < Len(h)
      <3>1. n \in 1 .. Len(h) - 1 /\ g[n] = h[n] /\ g[n + 1] = h[n + 1]
        BY <1>1, <1>4, <2>1
      <3>2. QED
        BY <1>1, <3>1
    <2>2. CASE n = Len(h)
      <3>1. g[n] = h[n] /\ g[n + 1] = x /\ h[n].to = s.meta.status
        BY <1>1, <1>4, <2>2
      <3>2. \E d \in C : h[n].ts = d.id
        BY <1>1, <2>2
      <3>3. h[n].ts < e.id
        BY <3>2 DEF IsNext
      <3>4. /\ e.data.to \notin {"todo", "cancelled"} =>
                 <<s.meta.status, e.data.to>> \in Task!AllowedTransitions
            /\ s.meta.status \in {"done", "cancelled"} => e.data.to = "todo"
        BY DEF Task!ValidTransition, Task!AllowedTransitions, Task!TerminalStatuses
      <3>5. QED
        BY <1>2, <3>1, <3>3, <3>4
    <2>3. QED
      BY <1>1, <1>4, <2>1, <2>2
  <1>7. g[1].to = "todo" /\ g[Len(g)].to = t.meta.status
    BY <1>1, <1>2, <1>4
  <1>8. QED
    BY <1>1, <1>4, <1>5, <1>6, <1>7 DEF HistoryOf, HistoryFits, Last, S, g, h

\* A task after its create.
LEMMA TaskFirst ==
    ASSUME NEW E, NEW e \in E, e.kind = "task.create", Shaped(e), IsNext(e, {})
    PROVE  TaskFits(E, {e}, Task!Apply(NewState, e))
  <1> DEFINE s == Task!Apply(NewState, e)
             x == Entry(e, "todo")
  <1>1. /\ TaskRecord(s)
        /\ s.meta.title = e.data.title /\ s.meta.status = "todo"
        /\ "owner" \in DOMAIN e.data => s.meta.owner = e.data.owner
        /\ s.meta.links = <<>> /\ s.coll.notes = <<>>
        /\ s.meta.status_history = <<x>>
    BY TaskCreated
  <1> HIDE DEF s
  <1>2. /\ LatestShown({e}, s.meta, "title") /\ LatestShown({e}, s.meta, "owner")
    <2>1. {} \cup {e} = {e} /\ \A f : LatestShown({}, s.meta, f)
      BY DEF LatestShown, WithField
    <2>2. "title" \in DOMAIN e.data
      BY DEF Shaped
    <2>3. LatestShown({} \cup {e}, s.meta, "title")
      BY <1>1, <2>2, ShownNext
    <2>4. LatestShown({} \cup {e}, s.meta, "owner")
      BY <1>1, <2>1, ShownNext
    <2>5. QED
      BY <2>1, <2>3, <2>4
  <1>3. /\ WithKind({e}, {"task.note"}) = {}
        /\ WithKind({e}, {"issue.link", "task.link"}) = {}
    BY DEF WithKind
  <1>4. LinksFit({e}, s.meta.links) /\ NotesFit({e}, s.coll.notes)
    <2>1. LinksFit({e}, s.meta.links)
      BY <1>1, <1>3 DEF LinksFit
    <2>2. DOMAIN s.coll.notes = {}
      BY <1>1
    <2>3. QED
      BY <1>3, <2>1, <2>2 DEF NotesFit
  <1>5. HistoryOf(E, {e}, s)
    <2>1. x \in {Entry(d, to) : d \in E, to \in Task!Statuses}
      BY DEF Task!Statuses
    <2>2. x.ts = e.id /\ x.to = "todo"
      BY DEF Entry
    <2> HIDE DEF x
    <2>3. QED
      BY <1>1, <2>1, <2>2 DEF HistoryOf, HistoryFits, Last
  <1>6. QED
    BY <1>1, <1>2, <1>4, <1>5 DEF TaskFits, s

\* A task after each further event.
LEMMA TaskNext ==
    ASSUME NEW E, NEW C, NEW s, TaskFits(E, C, s), NEW e \in E, IsNext(e, C), Shaped(e),
           e.kind \in Task!Kinds \ {"task.create"}
    PROVE  TaskFits(E, C \cup {e}, Task!Apply(s, e))
  <1> DEFINE t == Task!Apply(s, e)
  <1> DEFINE valid == e.kind = "task.status"
                        /\ Task!ValidTransition(s.meta.status, e.data.to)
  <1>1. /\ TaskRecord(t)
        /\ t.meta.title = IF e.kind = "task.edit" THEN e.data.title ELSE s.meta.title
        /\ t.meta.owner = IF e.kind = "task.reassign" THEN e.data.owner
                          ELSE s.meta.owner
        /\ t.meta.status = IF valid THEN e.data.to ELSE s.meta.status
        /\ t.meta.status_history =
             IF valid THEN Append(s.meta.status_history, Entry(e, e.data.to))
             ELSE s.meta.status_history
        /\ t.meta.links = IF e.kind = "task.link"
                          THEN LinkEvent(s.meta.links, e.data) ELSE s.meta.links
        /\ DOMAIN t.coll.notes =
             IF e.kind = "task.note" \/ (valid /\ e.data.note)
             THEN DOMAIN s.coll.notes \cup {e.id} ELSE DOMAIN s.coll.notes
    BY TaskSteps DEF TaskFits
  <1> HIDE DEF t
  <1>2. /\ LatestShown(C \cup {e}, t.meta, "title")
        /\ LatestShown(C \cup {e}, t.meta, "owner")
    <2>1. /\ "title" \in DOMAIN e.data <=> e.kind = "task.edit"
          /\ "owner" \in DOMAIN e.data <=> e.kind = "task.reassign"
      BY DEF Shaped, Task!Kinds
    <2>2. QED
      BY <1>1, <2>1, ShownNext DEF TaskFits
  <1>3. LinksFit(C \cup {e}, t.meta.links)
    <2>1. e.kind = "task.link" <=> e.kind \in {"issue.link", "task.link"}
      BY DEF Task!Kinds
    <2>2. QED
      BY <1>1, <2>1, LinksNext DEF TaskFits
  <1>4. HistoryOf(E, C \cup {e}, t)
    <2>1. CASE valid
      BY <1>1, <2>1, HistoryNext DEF TaskFits
    <2>2. CASE ~valid
      BY <1>1, <2>2 DEF TaskFits, HistoryOf, HistoryFits
    <2>3. QED
      BY <2>1, <2>2
  <1>5. NotesFit(C \cup {e}, t.coll.notes)
    <2>1. WithKind(C \cup {e}, {"task.note"}) =
            IF e.kind = "task.note" THEN WithKind(C, {"task.note"}) \cup {e}
            ELSE WithKind(C, {"task.note"})
      BY DEF WithKind
    <2>2. QED
      BY <1>1, <2>1 DEF TaskFits, NotesFit
  <1>6. QED
    BY <1>1, <1>2, <1>3, <1>4, <1>5 DEF TaskFits, t

\* What every task shows is what its counted events say.
LEMMA TaskShows ==
    ASSUME menu \in Menus, HasKind({"task.create"}), NEW E, IsHistory(E)
    PROVE  LET C == Counted(At(E)) IN
           IF C = {} THEN FullFold(E) = NewState ELSE TaskFits(E, C, FullFold(E))
  <1> DEFINE Good == {C \in SUBSET E : C # {} => TaskFits(E, C, FullFold(C))}
  <1>1. FullFold({}) = NewState
    BY FoldOfNothing DEF FullFold
  <1>2. HasKind(Creates) /\ HasKind(Task!Kinds)
    BY DEF HasKind, Creates, Task!Kinds
  <1>3. ASSUME NEW e \in E, NEW C \in SUBSET E, C \in Good,
               IsEvents(C), IsEdit(e), Shaped(e), e.id \in Nat \ {0},
               \A d \in C : IsEdit(d) /\ Shaped(d) /\ d.id \in Nat \ {0} /\ d.id < e.id,
               HasKind(Creates) => (e.kind \in Creates <=> C = {}),
               FullFold(C \cup {e}) = Apply(FullFold(C), e)
        PROVE  C \cup {e} \in Good
    <2>1. e.kind \in Task!Kinds /\ FullFold(C \cup {e}) = Task!Apply(FullFold(C), e)
      BY <1>2, <1>3, FeatureApply
    <2>2. IsNext(e, C)
      BY <1>3 DEF IsNext
    <2>3. CASE C = {}
      <3>1. e.kind = "task.create"
        BY <1>2, <1>3, <2>1, <2>3 DEF Creates, Task!Kinds
      <3>2. FullFold(C) = NewState /\ C \cup {e} = {e}
        BY <1>1, <2>3
      <3>3. TaskFits(E, {e}, Task!Apply(NewState, e))
        BY <1>3, <2>2, <2>3, <3>1, TaskFirst
      <3>4. QED
        BY <2>1, <3>2, <3>3
    <2>4. CASE C # {}
      <3>1. e.kind # "task.create"
        BY <1>2, <1>3, <2>4 DEF Creates
      <3>2. QED
        BY <1>3, <2>1, <2>2, <2>4, <3>1, TaskNext
    <2>5. QED
      BY <2>3, <2>4
  <1>4. QED
    <2> HIDE DEF Good
    <2>1. {} \in Good
      BY DEF Good
    <2>2. Counted(At(E)) \in Good /\ FullFold(Counted(At(E))) = FullFold(E)
      BY <1>3, <2>1, CountedInduction
    <2>3. QED
      BY <1>1, <2>2 DEF Good

-----------------------------------------------------------------------------
(* Chats.                                                                  *)

ChatMeta == {"title", "status", "created_by", "created_at", "updated_at",
             "message_count", "participants"}

Participants(s) == Chat!Given(s.scratch, "participants", {})

ChatRecord(s) ==
    /\ IsTree(s, Chat!ScratchKeys)
    /\ DOMAIN s.meta = ChatMeta /\ DOMAIN s.coll = {"messages"}
    /\ s.meta.participants = Participants(s)

\* addChatParticipant adds one, in the meta and in the scratch.
LEMMA ParticipantAdded ==
    ASSUME NEW s, NEW actor, s = [meta |-> s.meta, coll |-> s.coll, scratch |-> s.scratch]
    PROVE  LET t == Chat!AddParticipant(s, actor) IN
           /\ DOMAIN t.meta = DOMAIN s.meta \cup {"participants"}
           /\ t.meta.participants = Participants(s) \cup {actor}
           /\ Participants(t) = Participants(s) \cup {actor}
           /\ \A f \in DOMAIN s.meta \ {"participants"} : t.meta[f] = s.meta[f]
           /\ t.coll = s.coll
           /\ t = [meta |-> t.meta, coll |-> t.coll, scratch |-> t.scratch]
  <1> DEFINE t == Chat!AddParticipant(s, actor)
  <1>1. PICK ps : ps = Participants(s) \cup {actor}
    OBVIOUS
  <1>2. t = [meta |-> Chat!Put(s.meta, "participants", ps), coll |-> s.coll,
             scratch |-> Chat!Put(s.scratch, "participants", ps)]
    BY <1>1 DEF Chat!AddParticipant, Participants
  <1>3. /\ t.meta = Chat!Put(s.meta, "participants", ps) /\ t.coll = s.coll
        /\ t.scratch = Chat!Put(s.scratch, "participants", ps)
        /\ t = [meta |-> t.meta, coll |-> t.coll, scratch |-> t.scratch]
    BY <1>2
  <1> HIDE DEF t
  <1>4. Participants(t) = ps
    BY <1>3 DEF Participants, Chat!Given, Chat!Put
  <1>5. QED
    BY <1>1, <1>3, <1>4 DEF Chat!Put, t

\* A message goes in, and is counted.
LEMMA MessagePut ==
    ASSUME NEW s, NEW e, s = [meta |-> s.meta, coll |-> s.coll, scratch |-> s.scratch],
           DOMAIN s.coll = {"messages"}
    PROVE  LET t == Chat!PutMessage(s, e) IN
           /\ DOMAIN t.meta = DOMAIN s.meta \cup {"message_count"}
           /\ t.meta.message_count = Cardinality(DOMAIN t.coll.messages)
           /\ \A f \in DOMAIN s.meta \ {"message_count"} : t.meta[f] = s.meta[f]
           /\ DOMAIN t.coll = {"messages"}
           /\ t.coll.messages = PutItem(s.coll.messages, e)
           /\ t.scratch = s.scratch
           /\ t = [meta |-> t.meta, coll |-> t.coll, scratch |-> t.scratch]
  <1> DEFINE t == Chat!PutMessage(s, e)
  <1>1. PICK ms : ms = Chat!PutItem(s.coll.messages, e)
    OBVIOUS
  <1>2. PICK n : n = Chat!Cardinality(DOMAIN ms)
    OBVIOUS
  <1>3. t = [meta |-> Chat!Put(s.meta, "message_count", n),
             coll |-> Chat!Put(s.coll, "messages", ms), scratch |-> s.scratch]
    BY <1>1, <1>2, Zenon DEF Chat!PutMessage
  <1>4. /\ t.meta = Chat!Put(s.meta, "message_count", n)
        /\ t.coll = Chat!Put(s.coll, "messages", ms) /\ t.scratch = s.scratch
        /\ t = [meta |-> t.meta, coll |-> t.coll, scratch |-> t.scratch]
    BY <1>3
  <1>5. ms = PutItem(s.coll.messages, e) /\ n = Cardinality(DOMAIN ms)
    BY <1>1, <1>2, Zenon DEF Chat!PutItem, PutItem, Chat!Put, Put, Chat!Given, Given,
                             Chat!Never, Never, Chat!Cardinality, Cardinality
  <1> HIDE DEF t
  <1>6. QED
    BY <1>4, <1>5 DEF Chat!Put, t

\* What chat.create makes.
LEMMA ChatCreated ==
    ASSUME NEW e, e.kind = "chat.create", Shaped(e)
    PROVE  LET s == Chat!Apply(NewState, e) IN
           /\ ChatRecord(s)
           /\ s.meta.title = e.data.title /\ s.meta.status = "open"
           /\ s.meta.participants = {e.actor}
           /\ s.coll.messages = IF e.data.body THEN PutItem(<<>>, e) ELSE <<>>
           /\ s.meta.message_count = IF e.data.body THEN Cardinality(DOMAIN s.coll.messages)
                                     ELSE 0
  <1> DEFINE s == Chat!Apply(NewState, e)
             n == [meta |-> [title |-> e.data.title, status |-> "open",
                             created_by |-> e.actor, created_at |-> e.id,
                             updated_at |-> e.id, message_count |-> 0,
                             participants |-> {}],
                   coll |-> [messages |-> <<>>],
                   scratch |-> <<>>]
             u == Chat!AddParticipant(n, e.actor)
  <1>1. s = Chat!Create(NewState, e) /\ ~Chat!Created(NewState)
    BY DEF Chat!Apply, Chat!Created, Chat!NoMeta, NewState, NoMeta
  <1>2. s = IF e.data.body THEN Chat!PutMessage(u, e) ELSE u
    BY <1>1 DEF Chat!Create, NewState
  <1>3. IsTree(s, Chat!ScratchKeys)
    BY NewTree, ChatTree
  <1>4. /\ n = [meta |-> n.meta, coll |-> n.coll, scratch |-> n.scratch]
        /\ DOMAIN n.meta = ChatMeta /\ n.meta.title = e.data.title
        /\ n.meta.status = "open" /\ n.meta.message_count = 0
        /\ n.coll.messages = <<>> /\ DOMAIN n.coll = {"messages"} /\ n.scratch = <<>>
    BY DEF ChatMeta
  <1>5. Participants(n) = {}
    BY <1>4 DEF Participants, Chat!Given
  <1> HIDE DEF n
  <1>6. /\ DOMAIN u.meta = DOMAIN n.meta \cup {"participants"}
        /\ u.meta.participants = {e.actor} /\ Participants(u) = {e.actor}
        /\ \A f \in DOMAIN n.meta \ {"participants"} : u.meta[f] = n.meta[f]
        /\ u.coll = n.coll
        /\ u = [meta |-> u.meta, coll |-> u.coll, scratch |-> u.scratch]
    BY <1>4, <1>5, ParticipantAdded
  <1> HIDE DEF u
  <1>7. CASE ~e.data.body
    <2>1. s = u
      BY <1>2, <1>7
    <2> HIDE DEF s
    <2>2. QED
      BY <1>3, <1>4, <1>6, <1>7, <2>1 DEF ChatRecord, ChatMeta, s
  <1>8. CASE e.data.body
    <2>1. s = Chat!PutMessage(u, e)
      BY <1>2, <1>8
    <2> HIDE DEF s
    <2>2. /\ DOMAIN s.meta = DOMAIN u.meta \cup {"message_count"}
          /\ s.meta.message_count = Cardinality(DOMAIN s.coll.messages)
          /\ \A f \in DOMAIN u.meta \ {"message_count"} : s.meta[f] = u.meta[f]
          /\ DOMAIN s.coll = {"messages"}
          /\ s.coll.messages = PutItem(u.coll.messages, e)
          /\ s.scratch = u.scratch
      BY <1>4, <1>6, <2>1, MessagePut
    <2>3. Participants(s) = {e.actor}
      BY <1>6, <2>2 DEF Participants
    <2>4. QED
      BY <1>3, <1>4, <1>6, <1>8, <2>2, <2>3 DEF ChatRecord, ChatMeta, s
  <1>9. QED
    BY <1>7, <1>8

\* What each reducer of a chat does to what a reader is shown.
LEMMA ChatSteps ==
    ASSUME NEW s, ChatRecord(s), NEW e, Shaped(e),
           e.kind \in {"chat.post", "chat.edit_meta"}
    PROVE  LET t == Chat!Apply(s, e) IN
           /\ ChatRecord(t)
           /\ \A f \in {"title", "status"} :
                t.meta[f] = IF e.kind = "chat.edit_meta" /\ f \in DOMAIN e.data
                            THEN e.data[f] ELSE s.meta[f]
           /\ t.meta.participants =
                IF e.kind = "chat.post" THEN s.meta.participants \cup {e.actor}
                ELSE s.meta.participants
           /\ t.coll.messages = IF e.kind = "chat.post"
                                THEN PutItem(s.coll.messages, e) ELSE s.coll.messages
           /\ t.meta.message_count =
                IF e.kind = "chat.post" THEN Cardinality(DOMAIN t.coll.messages)
                ELSE s.meta.message_count
  <1> DEFINE t == Chat!Apply(s, e)
  <1>1. Chat!Created(s)
    BY DEF ChatRecord, ChatMeta, Chat!Created, Chat!NoMeta
  <1>2. IsTree(t, Chat!ScratchKeys)
    BY ChatTree DEF ChatRecord
  <1>3. s = [meta |-> s.meta, coll |-> s.coll, scratch |-> s.scratch]
    BY DEF ChatRecord, IsTree
  <1>4. CASE e.kind = "chat.post"
    <2> DEFINE p == Chat!PutMessage(s, e)
               u == Chat!AddParticipant(p, e.actor)
    <2>1. t = [u EXCEPT !.meta = Chat!Put(u.meta, "updated_at", e.id)]
      BY <1>1, <1>4 DEF Chat!Apply, Chat!Post
    <2>2. /\ DOMAIN p.meta = ChatMeta
          /\ p.meta.message_count = Cardinality(DOMAIN p.coll.messages)
          /\ \A f \in ChatMeta \ {"message_count"} : p.meta[f] = s.meta[f]
          /\ DOMAIN p.coll = {"messages"}
          /\ p.coll.messages = PutItem(s.coll.messages, e)
          /\ p.scratch = s.scratch
          /\ p = [meta |-> p.meta, coll |-> p.coll, scratch |-> p.scratch]
      <3>1. DOMAIN s.coll = {"messages"} /\ DOMAIN s.meta = ChatMeta
        BY DEF ChatRecord
      <3>2. /\ DOMAIN p.meta = DOMAIN s.meta \cup {"message_count"}
            /\ p.meta.message_count = Cardinality(DOMAIN p.coll.messages)
            /\ \A f \in DOMAIN s.meta \ {"message_count"} : p.meta[f] = s.meta[f]
            /\ DOMAIN p.coll = {"messages"}
            /\ p.coll.messages = PutItem(s.coll.messages, e)
            /\ p.scratch = s.scratch
            /\ p = [meta |-> p.meta, coll |-> p.coll, scratch |-> p.scratch]
        BY <1>3, <3>1, MessagePut
      <3> HIDE DEF p
      <3>3. QED
        BY <3>1, <3>2 DEF ChatMeta
    <2> HIDE DEF p
    <2>3. Participants(p) = s.meta.participants
      BY <2>2 DEF Participants, ChatRecord
    <2>4. /\ DOMAIN u.meta = ChatMeta
          /\ u.meta.participants = s.meta.participants \cup {e.actor}
          /\ Participants(u) = s.meta.participants \cup {e.actor}
          /\ \A f \in ChatMeta \ {"participants"} : u.meta[f] = p.meta[f]
          /\ u.coll = p.coll
          /\ u = [meta |-> u.meta, coll |-> u.coll, scratch |-> u.scratch]
      <3>1. /\ DOMAIN u.meta = DOMAIN p.meta \cup {"participants"}
            /\ u.meta.participants = Participants(p) \cup {e.actor}
            /\ Participants(u) = Participants(p) \cup {e.actor}
            /\ \A f \in DOMAIN p.meta \ {"participants"} : u.meta[f] = p.meta[f]
            /\ u.coll = p.coll
            /\ u = [meta |-> u.meta, coll |-> u.coll, scratch |-> u.scratch]
        BY <2>2, ParticipantAdded
      <3> HIDE DEF u
      <3>2. QED
        BY <2>2, <2>3, <3>1 DEF ChatMeta
    <2> HIDE DEF u
    <2>5. PICK m : m = Chat!Put(u.meta, "updated_at", e.id)
      OBVIOUS
    <2>6. t.meta = m /\ t.coll = u.coll /\ t.scratch = u.scratch
      BY <2>1, <2>4, <2>5
    <2>7. DOMAIN m = ChatMeta /\ \A f \in ChatMeta \ {"updated_at"} : m[f] = u.meta[f]
      BY <2>4, <2>5 DEF Chat!Put, ChatMeta
    <2> HIDE DEF t
    <2>8. Participants(t) = s.meta.participants \cup {e.actor}
      BY <2>4, <2>6 DEF Participants
    <2>9. QED
      BY <1>2, <1>4, <2>2, <2>4, <2>6, <2>7, <2>8 DEF ChatRecord, ChatMeta, t
  <1>5. CASE e.kind = "chat.edit_meta"
    <2>1. \/ DOMAIN e.data = {"title"}
          \/ DOMAIN e.data = {"status"} /\ e.data.status \in {"open", "archived"}
      BY <1>5 DEF Shaped
    <2>2. PICK names : /\ names \in {{"title", "status"}, {"title"}}
                       /\ "status" \in DOMAIN e.data => "status" \in names
                       /\ t = [s EXCEPT !.meta =
                                Chat!Put(Chat!Over(Chat!Fields(e.data, names), s.meta),
                                         "updated_at", e.id)]
      <3> DEFINE valid == Chat!Given(e.data, "status", "") \in {"open", "archived"}
      <3>1. t = Chat!EditMeta(s, e)
        BY <1>1, <1>5 DEF Chat!Apply
      <3>2. "status" \in DOMAIN e.data => valid
        BY <2>1 DEF Chat!Given
      <3> HIDE DEF valid
      <3>3. t = [s EXCEPT !.meta =
                   Chat!Put(Chat!Over(Chat!Fields(e.data,
                              IF valid THEN {"title", "status"} ELSE {"title"}), s.meta),
                            "updated_at", e.id)]
        BY <3>1, Zenon DEF Chat!EditMeta, valid
      <3>4. QED
        BY <3>2, <3>3
    <2>3. PICK m : m = Chat!Put(Chat!Over(Chat!Fields(e.data, names), s.meta),
                                "updated_at", e.id)
      OBVIOUS
    <2>4. t = [s EXCEPT !.meta = m]
      BY <2>2, <2>3
    <2>5. t.meta = m /\ t.coll = s.coll /\ t.scratch = s.scratch
      BY <1>3, <2>4
    <2>6. /\ DOMAIN m = ChatMeta
          /\ \A f \in ChatMeta \ {"updated_at"} :
               m[f] = IF f \in DOMAIN e.data THEN e.data[f] ELSE s.meta[f]
      BY <2>1, <2>2, <2>3 DEF ChatRecord, ChatMeta, Chat!Put, Chat!Over, Chat!Fields
    <2> HIDE DEF t
    <2>7. Participants(t) = Participants(s)
      BY <2>5 DEF Participants
    <2>8. QED
      BY <1>2, <1>5, <2>1, <2>5, <2>6, <2>7 DEF ChatRecord, ChatMeta, t
  <1>6. QED
    BY <1>4, <1>5

ActorsOf(E) == {e.actor : e \in E}

ChatFits(C, s) ==
    /\ ChatRecord(s)
    /\ LatestShown(C, s.meta, "title")
    /\ LatestShown(C, s.meta, "status")
    /\ ItemsFit(C, s.coll.messages)
    /\ s.meta.message_count = Cardinality(DOMAIN s.coll.messages)
    /\ s.meta.participants = ActorsOf(WithKind(C, {"chat.create", "chat.post"}))

\* A chat after its create.
LEMMA ChatFirst ==
    ASSUME NEW e, e.kind = "chat.create", Shaped(e), IsNext(e, {})
    PROVE  ChatFits({e}, Chat!Apply(NewState, e))
  <1> DEFINE s == Chat!Apply(NewState, e)
  <1>1. /\ ChatRecord(s)
        /\ s.meta.title = e.data.title /\ s.meta.status = "open"
        /\ s.meta.participants = {e.actor}
        /\ s.coll.messages = IF e.data.body THEN PutItem(<<>>, e) ELSE <<>>
        /\ s.meta.message_count = IF e.data.body THEN Cardinality(DOMAIN s.coll.messages)
                                  ELSE 0
    BY ChatCreated
  <1> HIDE DEF s
  <1>2. DOMAIN e.data = {"title", "body"} /\ e.data.body \in BOOLEAN
    BY DEF Shaped
  <1>3. {} \cup {e} = {e}
    OBVIOUS
  <1>4. LatestShown({} \cup {e}, s.meta, "title")
    BY <1>1, <1>2, ShownNext
  <1>5. LatestShown({e}, s.meta, "status")
    BY <1>2 DEF LatestShown, WithField
  <1>6. ItemsFit({}, <<>>)
    BY DEF ItemsFit
  <1>7. ItemsFit({} \cup {e}, s.coll.messages)
    <2>1. IsItem(e) <=> e.data.body
      BY DEF IsItem, IsPost
    <2>2. QED
      BY <1>1, <1>6, <2>1, ItemsGrow, ItemsKept
  <1>8. s.meta.message_count = Cardinality(DOMAIN s.coll.messages)
    BY <1>1, <1>2, FS_EmptySet
  <1>9. s.meta.participants = ActorsOf(WithKind({e}, {"chat.create", "chat.post"}))
    BY <1>1 DEF ActorsOf, WithKind
  <1>10. QED
    BY <1>1, <1>3, <1>4, <1>5, <1>7, <1>8, <1>9 DEF ChatFits, s

\* A chat after each further event.
LEMMA ChatNext ==
    ASSUME NEW C, NEW s, ChatFits(C, s), NEW e, IsNext(e, C), Shaped(e),
           e.kind \in {"chat.post", "chat.edit_meta"}
    PROVE  ChatFits(C \cup {e}, Chat!Apply(s, e))
  <1> DEFINE t == Chat!Apply(s, e)
  <1>1. /\ ChatRecord(t)
        /\ \A f \in {"title", "status"} :
             t.meta[f] = IF e.kind = "chat.edit_meta" /\ f \in DOMAIN e.data
                         THEN e.data[f] ELSE s.meta[f]
        /\ t.meta.participants =
             IF e.kind = "chat.post" THEN s.meta.participants \cup {e.actor}
             ELSE s.meta.participants
        /\ t.coll.messages = IF e.kind = "chat.post"
                             THEN PutItem(s.coll.messages, e) ELSE s.coll.messages
        /\ t.meta.message_count =
             IF e.kind = "chat.post" THEN Cardinality(DOMAIN t.coll.messages)
             ELSE s.meta.message_count
    BY ChatSteps DEF ChatFits
  <1> HIDE DEF t
  <1>2. ASSUME NEW f \in {"title", "status"}
        PROVE  LatestShown(C \cup {e}, t.meta, f)
    <2>1. f \in DOMAIN e.data => e.kind = "chat.edit_meta"
      BY DEF Shaped
    <2>2. LatestShown(C, s.meta, f)
      BY DEF ChatFits
    <2>3. QED
      BY <1>1, <2>1, <2>2, ShownNext
  <1>3. /\ ItemsFit(C \cup {e}, t.coll.messages)
        /\ t.meta.message_count = Cardinality(DOMAIN t.coll.messages)
    <2>1. e.kind = "chat.post" <=> IsItem(e)
      BY DEF IsItem, IsPost
    <2>2. QED
      BY <1>1, <2>1, ItemsKept, ItemsGrow DEF ChatFits
  <1>4. t.meta.participants = ActorsOf(WithKind(C \cup {e}, {"chat.create", "chat.post"}))
    BY <1>1 DEF ActorsOf, WithKind, ChatFits
  <1>5. QED
    BY <1>1, <1>2, <1>3, <1>4 DEF ChatFits, t

\* What every chat shows is what its counted events say.
LEMMA ChatShows ==
    ASSUME menu \in Menus, HasKind({"chat.create"}), NEW E, IsHistory(E)
    PROVE  LET C == Counted(At(E)) IN
           IF C = {} THEN FullFold(E) = NewState ELSE ChatFits(C, FullFold(E))
  <1> DEFINE Good == {C \in SUBSET E : C # {} => ChatFits(C, FullFold(C))}
  <1>1. FullFold({}) = NewState
    BY FoldOfNothing DEF FullFold
  <1>2. HasKind(Creates) /\ HasKind(Chat!Kinds)
    BY DEF HasKind, Creates, Chat!Kinds
  <1>3. ASSUME NEW e \in E, NEW C \in SUBSET E, C \in Good,
               IsEvents(C), IsEdit(e), Shaped(e), e.id \in Nat \ {0},
               \A d \in C : IsEdit(d) /\ Shaped(d) /\ d.id \in Nat \ {0} /\ d.id < e.id,
               HasKind(Creates) => (e.kind \in Creates <=> C = {}),
               FullFold(C \cup {e}) = Apply(FullFold(C), e)
        PROVE  C \cup {e} \in Good
    <2>1. e.kind \in Chat!Kinds /\ FullFold(C \cup {e}) = Chat!Apply(FullFold(C), e)
      BY <1>2, <1>3, FeatureApply
    <2>2. IsNext(e, C)
      BY <1>3 DEF IsNext
    <2>3. CASE C = {}
      <3>1. e.kind = "chat.create"
        BY <1>2, <1>3, <2>1, <2>3 DEF Creates, Chat!Kinds
      <3>2. FullFold(C) = NewState /\ C \cup {e} = {e}
        BY <1>1, <2>3
      <3>3. ChatFits({e}, Chat!Apply(NewState, e))
        BY <1>3, <2>2, <2>3, <3>1, ChatFirst
      <3>4. QED
        BY <2>1, <3>2, <3>3
    <2>4. CASE C # {}
      <3>1. e.kind \in {"chat.post", "chat.edit_meta"}
        BY <1>2, <1>3, <2>1, <2>4 DEF Creates, Chat!Kinds
      <3>2. QED
        BY <1>3, <2>1, <2>2, <2>4, <3>1, ChatNext
    <2>5. QED
      BY <2>3, <2>4
  <1>4. QED
    <2> HIDE DEF Good
    <2>1. {} \in Good
      BY DEF Good
    <2>2. Counted(At(E)) \in Good /\ FullFold(Counted(At(E))) = FullFold(E)
      BY <1>3, <2>1, CountedInduction
    <2>3. QED
      BY <1>1, <2>2 DEF Good

-----------------------------------------------------------------------------
(* Sorted lists.                                                           *)

\* A sorted list has the members of the set that was sorted.
LEMMA RangeOfOrdered ==
    ASSUME NEW S \in SUBSET Nat, IsFiniteSet(S)
    PROVE  Range(Ordered(S)) = S
  <1> DEFINE Below(i) == {j \in S : j < i}
             T == 1 .. Cardinality(S)
             place == [i \in S |-> Cardinality(Below(i)) + 1]
  <1>1. Cardinality(S) \in Nat
    BY FS_CardinalityType
  <1>2. ASSUME NEW A \in SUBSET S, NEW B \in SUBSET A, A # B
        PROVE  /\ Cardinality(A) \in Nat /\ Cardinality(B) \in Nat
               /\ Cardinality(B) < Cardinality(A)
    <2>1. IsFiniteSet(A) /\ IsFiniteSet(B)
      BY FS_Subset
    <2>2. Cardinality(B) <= Cardinality(A) /\ Cardinality(A) # Cardinality(B)
      BY <1>2, <2>1, FS_Subset
    <2>3. Cardinality(A) \in Nat /\ Cardinality(B) \in Nat
      BY <2>1, FS_CardinalityType
    <2>4. QED
      BY <2>2, <2>3
  <1>3. ASSUME NEW i \in S
        PROVE  Cardinality(Below(i)) \in Nat /\ place[i] \in T
    <2>1. Below(i) \in SUBSET S /\ i \in S /\ i \notin Below(i)
      OBVIOUS
    <2>2. /\ Cardinality(Below(i)) \in Nat
          /\ Cardinality(Below(i)) < Cardinality(S)
      BY <1>2, <2>1
    <2>3. QED
      BY <1>1, <2>2
  <1>4. ASSUME NEW i \in S, NEW j \in S, i < j
        PROVE  place[i] # place[j]
    <2>1. /\ Below(j) \in SUBSET S /\ Below(i) \in SUBSET Below(j)
          /\ i \in Below(j) /\ i \notin Below(i)
      <3>1. i \in Nat /\ j \in Nat /\ \A k \in S : k \in Nat
        OBVIOUS
      <3>2. \A k \in S : k < i => k < j
        BY <1>4, <3>1
      <3>3. Below(i) \in SUBSET Below(j)
        BY <3>2
      <3>4. i \in Below(j) /\ i \notin Below(i)
        BY <1>4, <3>1
      <3>5. QED
        BY <3>3, <3>4
    <2>2. Cardinality(Below(i)) < Cardinality(Below(j))
      BY <1>2, <2>1
    <2>3. QED
      BY <1>3, <2>2
  <1>5. \A i, j \in S : place[i] = place[j] => i = j
    <2> SUFFICES ASSUME NEW i \in S, NEW j \in S, i # j
                 PROVE  place[i] # place[j]
      OBVIOUS
    <2>1. i < j \/ j < i
      OBVIOUS
    <2>2. QED
      BY <1>4, <2>1
  <1>6. place \in Injection(S, T)
    BY <1>3, <1>5 DEF Injection, IsInjective
  <1>7. IsFiniteSet(T) /\ Cardinality(T) = Cardinality(S)
    BY <1>1, FS_Interval
  <1>8. place \in Surjection(S, T)
    BY <1>6, <1>7, FS_Injection
  <1>9. \A n \in T : \E i \in S : Cardinality(Below(i)) = n - 1
    <2> SUFFICES ASSUME NEW n \in T PROVE \E i \in S : Cardinality(Below(i)) = n - 1
      OBVIOUS
    <2>1. PICK i \in S : place[i] = n
      BY <1>8 DEF Surjection
    <2>2. Cardinality(Below(i)) = n - 1
      BY <1>3, <2>1
    <2>3. QED
      BY <2>2
  <1>10. /\ DOMAIN Ordered(S) = T
         /\ \A n \in T : Ordered(S)[n] = CHOOSE i \in S : Cardinality(Below(i)) = n - 1
    BY DEF Ordered
  <1>11. \A n \in T : Ordered(S)[n] \in S /\ Cardinality(Below(Ordered(S)[n])) = n - 1
    BY <1>9, <1>10
  <1>12. ASSUME NEW i \in S
         PROVE  \E n \in T : Ordered(S)[n] = i
    <2> DEFINE n == place[i]
    <2>1. n \in T /\ Cardinality(Below(i)) = n - 1
      BY <1>3
    <2>2. Ordered(S)[n] \in S /\ Cardinality(Below(Ordered(S)[n])) = n - 1
      BY <1>11, <2>1
    <2>3. place[Ordered(S)[n]] = place[i]
      BY <2>1, <2>2
    <2>4. Ordered(S)[n] = i
      BY <1>5, <2>2, <2>3
    <2>5. QED
      BY <2>1, <2>4
  <1>13. QED
    BY <1>10, <1>11, <1>12 DEF Range

-----------------------------------------------------------------------------
(* The stream of notifications.                                            *)

Posts(s) == Given(s.coll, "posts", <<>>)

AcksFor(C, post) == {e \in C : e.kind = "notify.ack" /\ e.data.ack_of = post}

NotifyFits(C, s) ==
    /\ IsTree(s, Notify!ScratchKeys)
    /\ DOMAIN s.coll = IF C = {} THEN {} ELSE {"posts"}
    /\ DOMAIN Posts(s) = {e.id : e \in WithKind(C, {"notify.post"})}
    /\ \A e \in WithKind(C, {"notify.post"}) :
         Posts(s)[e.id].targets = e.data.targets
    /\ \A post : Notify!AcksOf(s, post) = Ordered(ActorsOf(AcksFor(C, post)))

\* ensureNotifyMeta adds an empty collection where there is none.
LEMMA NotifyEnsured ==
    ASSUME NEW C, NEW s, NotifyFits(C, s)
    PROVE  LET t == Notify!Ensure(s) IN
           /\ t = [meta |-> t.meta, coll |-> t.coll, scratch |-> t.scratch]
           /\ DOMAIN t.coll = {"posts"} /\ t.coll.posts = Posts(s)
           /\ t.scratch = s.scratch
  <1> DEFINE t == Notify!Ensure(s)
  <1>1. PICK m : m = IF Notify!Created(s) THEN s.meta ELSE [seeded |-> TRUE]
    OBVIOUS
  <1>2. t = [meta |-> m, coll |-> Notify!Over(s.coll, [posts |-> <<>>]),
             scratch |-> s.scratch]
    BY <1>1 DEF Notify!Ensure
  <1>3. /\ t.coll = Notify!Over(s.coll, [posts |-> <<>>]) /\ t.scratch = s.scratch
        /\ t = [meta |-> t.meta, coll |-> t.coll, scratch |-> t.scratch]
    BY <1>2
  <1>4. DOMAIN s.coll \subseteq {"posts"}
    BY DEF NotifyFits
  <1> HIDE DEF t
  <1>5. QED
    BY <1>3, <1>4 DEF Notify!Over, Posts, Given, t

\* The stream before its first event.
LEMMA NotifyNothing == NotifyFits({}, NewState)
  <1>1. /\ NewState.coll = <<>> /\ DOMAIN NewState.coll = {}
        /\ NewState.scratch = <<>>
    BY DEF NewState
  <1>2. Posts(NewState) = <<>> /\ DOMAIN Posts(NewState) = {}
    BY <1>1 DEF Posts, Given
  <1>3. \A post : Notify!AcksOf(NewState, post) = <<>>
    BY <1>1 DEF Notify!AcksOf, Notify!Acks, Notify!Given
  <1>4. \A post : ActorsOf(AcksFor({}, post)) = {}
    BY DEF ActorsOf, AcksFor
  <1>5. WithKind({}, {"notify.post"}) = {}
    BY DEF WithKind
  <1>6. QED
    BY <1>1, <1>2, <1>3, <1>4, <1>5, NewTree, OrderedNothing DEF NotifyFits

\* The stream after each event: posts and acks in any order.
LEMMA NotifyNext ==
    ASSUME NEW C, NEW s, NotifyFits(C, s), NEW e, IsNext(e, C), Shaped(e),
           e.kind \in Notify!Kinds, \A d \in C \cup {e} : d.actor \in Nat
    PROVE  NotifyFits(C \cup {e}, Notify!Apply(s, e))
  <1> DEFINE t == Notify!Apply(s, e)
             u == Notify!Ensure(s)
  <1>1. IsTree(t, Notify!ScratchKeys)
    BY NotifyTree DEF NotifyFits
  <1>2. /\ u = [meta |-> u.meta, coll |-> u.coll, scratch |-> u.scratch]
        /\ DOMAIN u.coll = {"posts"} /\ u.coll.posts = Posts(s)
        /\ u.scratch = s.scratch
    BY NotifyEnsured
  <1>3. e.kind \in {"notify.post", "notify.ack"} /\ C \cup {e} # {}
    BY DEF Notify!Kinds
  <1>4. CASE e.kind = "notify.post"
    <2> DEFINE post == [actor |-> e.actor, targets |-> e.data.targets]
    <2>1. t = [u EXCEPT !.coll =
                 Notify!Put(u.coll, "posts", Notify!Put(u.coll.posts, e.id, post))]
      BY <1>4 DEF Notify!Apply, Notify!Post
    <2> HIDE DEF u, t
    <2>2. /\ t.coll = Notify!Put(u.coll, "posts", Notify!Put(u.coll.posts, e.id, post))
          /\ t.scratch = s.scratch
      BY <1>2, <2>1
    <2>3. /\ DOMAIN t.coll = {"posts"}
          /\ t.coll.posts = Notify!Put(Posts(s), e.id, post)
      BY <1>2, <2>2 DEF Notify!Put
    <2>4. Posts(t) = Notify!Put(Posts(s), e.id, post)
      BY <2>3 DEF Posts, Given
    <2>5. WithKind(C \cup {e}, {"notify.post"}) = WithKind(C, {"notify.post"}) \cup {e}
      BY <1>4, KindNext
    <2>6. DOMAIN Posts(t) = {d.id : d \in WithKind(C \cup {e}, {"notify.post"})}
      BY ZenonT(60), <2>4, <2>5 DEF NotifyFits, Notify!Put
    <2>7. ASSUME NEW d \in WithKind(C \cup {e}, {"notify.post"})
          PROVE  Posts(t)[d.id].targets = d.data.targets
      <3>1. CASE d = e
        <4>1. Posts(t)[e.id] = post
          BY <2>4 DEF Notify!Put
        <4>2. QED
          BY <3>1, <4>1
      <3>2. CASE d # e
        <4>1. d \in WithKind(C, {"notify.post"}) /\ d.id # e.id
          BY <2>5, <3>2 DEF WithKind, IsNext
        <4>2. d.id \in DOMAIN Posts(s)
          BY <4>1 DEF NotifyFits
        <4>3. Posts(t)[d.id] = Posts(s)[d.id]
          BY <2>4, <4>1, <4>2 DEF Notify!Put
        <4>4. QED
          BY <4>1, <4>3 DEF NotifyFits
      <3>3. QED
        BY <3>1, <3>2
    <2>8. ASSUME NEW p
          PROVE  Notify!AcksOf(t, p) = Ordered(ActorsOf(AcksFor(C \cup {e}, p)))
      <3>1. AcksFor(C \cup {e}, p) = AcksFor(C, p)
        BY <1>4 DEF AcksFor
      <3>2. Notify!AcksOf(t, p) = Notify!AcksOf(s, p)
        BY <2>2 DEF Notify!AcksOf, Notify!Acks
      <3>3. QED
        BY <3>1, <3>2 DEF NotifyFits
    <2>9. NotifyFits(C \cup {e}, t)
      BY <1>1, <1>3, <2>3, <2>6, <2>7, <2>8 DEF NotifyFits, t
    <2>10. QED
      BY <2>9 DEF t
  <1>5. CASE e.kind = "notify.ack"
    <2> DEFINE p == e.data.ack_of
               A(q) == ActorsOf(AcksFor(C, q))
               B(q) == ActorsOf(AcksFor(C \cup {e}, q))
    <2>1. /\ B(p) = A(p) \cup {e.actor}
          /\ \A q : q # p => B(q) = A(q)
      BY <1>5 DEF ActorsOf, AcksFor
    <2>2. A(p) \in SUBSET Nat /\ IsFiniteSet(A(p))
      <3>1. IsFiniteSet(AcksFor(C, p))
        BY FS_Subset DEF AcksFor, IsNext, IsEvents
      <3>2. IsFiniteSet(A(p))
        <4>1. [d \in AcksFor(C, p) |-> d.actor] \in Surjection(AcksFor(C, p), A(p))
          BY DEF Surjection, ActorsOf
        <4>2. QED
          BY <3>1, <4>1, FS_Surjection
      <3>3. QED
        BY <3>2 DEF ActorsOf, AcksFor
    <2>3. Notify!AcksOf(u, p) = Ordered(A(p)) /\ \A q : Notify!AcksOf(s, q) = Ordered(A(q))
      BY <1>2 DEF NotifyFits, Notify!AcksOf, Notify!Acks
    <2>4. Notify!Range(Notify!AcksOf(u, p)) = A(p)
      <3>1. Range(Ordered(A(p))) = A(p)
        BY <2>2, RangeOfOrdered
      <3>2. QED
        BY <2>3, <3>1 DEF Range, Notify!Range
    <2> HIDE DEF A, B
    <2>5. t = IF e.actor \in A(p) THEN u
              ELSE [u EXCEPT !.scratch =
                      Notify!Put(u.scratch, "acks",
                        Notify!Put(Notify!Acks(u), p,
                                   Notify!Ordered(A(p) \cup {e.actor})))]
      <3>1. t = Notify!Ack(s, e)
        BY <1>5 DEF Notify!Apply
      <3>2. t = IF e.actor \in Notify!Range(Notify!AcksOf(u, p)) THEN u
              ELSE [u EXCEPT !.scratch =
                      Notify!Put(u.scratch, "acks",
                        Notify!Put(Notify!Acks(u), p,
                            Notify!Ordered(Notify!Range(Notify!AcksOf(u, p))
                                             \cup {e.actor})))]
        BY <3>1, Zenon DEF Notify!Ack
      <3>3. QED
        BY <2>4, <3>2
    <2> HIDE DEF t, u
    <2>6. /\ t.coll = u.coll
          /\ \A q : Notify!AcksOf(t, q) = Ordered(B(q))
      <3>1. CASE e.actor \in A(p)
        <4>1. t = u /\ B(p) = A(p)
          BY <2>1, <2>5, <3>1
        <4>2. \A q : B(q) = A(q)
          BY <2>1, <4>1
        <4>3. \A q : Notify!AcksOf(t, q) = Notify!AcksOf(s, q)
          BY <1>2, <4>1 DEF Notify!AcksOf, Notify!Acks
        <4>4. QED
          BY <2>3, <4>1, <4>2, <4>3
      <3>2. CASE e.actor \notin A(p)
        <4>1. PICK acks : acks = Notify!Put(Notify!Acks(u), p,
                                            Notify!Ordered(A(p) \cup {e.actor}))
          OBVIOUS
        <4>2. t = [u EXCEPT !.scratch = Notify!Put(u.scratch, "acks", acks)]
          BY <2>5, <3>2, <4>1
        <4>3. t.coll = u.coll /\ t.scratch = Notify!Put(u.scratch, "acks", acks)
          BY <1>2, <4>2
        <4>4. Notify!Acks(t) = acks
          BY <4>3 DEF Notify!Acks, Notify!Given, Notify!Put
        <4>5. Notify!Ordered(A(p) \cup {e.actor}) = Ordered(B(p))
          <5>1. Notify!Ordered(B(p)) = Ordered(B(p))
            BY Zenon DEF Notify!Ordered, Ordered, Notify!Cardinality, Cardinality
          <5>2. QED
            BY <2>1, <5>1
        <4>6. Notify!AcksOf(t, p) = Ordered(B(p))
          BY <4>1, <4>4, <4>5 DEF Notify!AcksOf, Notify!Given, Notify!Put
        <4>7. \A q : q # p => Notify!AcksOf(t, q) = Notify!AcksOf(s, q)
          <5>1. Notify!Acks(u) = Notify!Acks(s)
            BY <1>2 DEF Notify!Acks
          <5>2. QED
            BY <4>1, <4>4, <5>1 DEF Notify!AcksOf, Notify!Given, Notify!Put
        <4>8. QED
          BY <2>1, <2>3, <4>3, <4>6, <4>7
      <3>3. QED
        BY <3>1, <3>2
    <2>7. Posts(t) = Posts(s) /\ DOMAIN t.coll = {"posts"}
      BY <1>2, <2>6 DEF Posts, Given
    <2>8. WithKind(C \cup {e}, {"notify.post"}) = WithKind(C, {"notify.post"})
      BY <1>5, KindNext
    <2>9. NotifyFits(C \cup {e}, t)
      BY <1>1, <1>3, <2>6, <2>7, <2>8 DEF NotifyFits, t, B
    <2>10. QED
      BY <2>9 DEF t
  <1>6. QED
    BY <1>3, <1>4, <1>5

\* What the stream shows is what its events say.
LEMMA NotifyShows ==
    ASSUME menu \in Menus, HasKind(Notify!Kinds), NEW E, IsHistory(E)
    PROVE  NotifyFits(Counted(At(E)), FullFold(E))
  <1> DEFINE Good == {C \in SUBSET E : NotifyFits(C, FullFold(C))}
  <1>1. {} \in Good
    BY FoldOfNothing, NotifyNothing DEF FullFold
  <1>2. ASSUME NEW e \in E, NEW C \in SUBSET E, C \in Good,
               IsEvents(C), IsEdit(e), Shaped(e), e.id \in Nat \ {0},
               \A d \in C : IsEdit(d) /\ Shaped(d) /\ d.id \in Nat \ {0} /\ d.id < e.id,
               HasKind(Creates) => (e.kind \in Creates <=> C = {}),
               FullFold(C \cup {e}) = Apply(FullFold(C), e)
        PROVE  C \cup {e} \in Good
    <2>1. e.kind \in Notify!Kinds /\ FullFold(C \cup {e}) = Notify!Apply(FullFold(C), e)
      BY <1>2, FeatureApply
    <2>2. IsNext(e, C)
      BY <1>2 DEF IsNext
    <2>3. \A d \in C \cup {e} : d.actor \in Nat
      BY EntityAssumption DEF IsHistory
    <2>4. QED
      BY <1>2, <2>1, <2>2, <2>3, NotifyNext
  <1>3. QED
    <2> HIDE DEF Good
    <2>1. Counted(At(E)) \in Good /\ FullFold(Counted(At(E))) = FullFold(E)
      BY <1>1, <1>2, CountedInduction
    <2>2. QED
      BY <2>1 DEF Good

-----------------------------------------------------------------------------
(* The users registry.                                                     *)

\* Earliest chooses the one event that no other precedes.
LEMMA EarliestIs ==
    ASSUME NEW E, IsEvents(E), E # {}
    PROVE  /\ Earliest(E) \in E /\ \A d \in E : Earliest(E).id <= d.id
           /\ \A e \in E : (\A d \in E : e.id <= d.id) => e = Earliest(E)
  <1> DEFINE Good == {F \in SUBSET E :
                        F # {} => \E e \in F : \A d \in F : e.id <= d.id}
  <1>1. {} \in Good
    OBVIOUS
  <1>2. ASSUME NEW e \in E, NEW F \in SUBSET E, F \in Good,
               F = {d \in E : d.id < e.id}
        PROVE  F \cup {e} \in Good
    <2>1. CASE F = {}
      <3>1. e.id <= e.id
        BY DEF IsEvents
      <3>2. QED
        BY <2>1, <3>1
    <2>2. CASE F # {}
      <3>1. PICK m \in F : \A d \in F : m.id <= d.id
        BY <1>2, <2>2
      <3>2. m.id <= e.id
        BY <1>2 DEF IsEvents
      <3>3. QED
        BY <3>1, <3>2
    <2>3. QED
      BY <2>1, <2>2
  <1>3. E \in Good
    <2> HIDE DEF Good
    <2> QED
      BY <1>1, <1>2, EventInduction
  <1>4. Earliest(E) \in E /\ \A d \in E : Earliest(E).id <= d.id
    BY <1>3, Zenon DEF Earliest
  <1>5. ASSUME NEW e \in E, \A d \in E : e.id <= d.id
        PROVE  e = Earliest(E)
    <2>1. e.id <= Earliest(E).id /\ Earliest(E).id <= e.id
      BY <1>4, <1>5
    <2>2. e.id \in Nat /\ Earliest(E).id \in Nat
      BY <1>4 DEF IsEvents
    <2>3. QED
      BY <1>4, <2>1, <2>2 DEF IsEvents
  <1>6. QED
    BY <1>4, <1>5

\* An event after the others is the earliest only if there are none.
LEMMA EarliestAdded ==
    ASSUME NEW C, NEW e, IsNext(e, C), NEW S \in SUBSET C
    PROVE  Earliest(S \cup {e}) = IF S = {} THEN e ELSE Earliest(S)
  <1>1. IsEvents(S) /\ \A d \in S : d.id < e.id /\ d.id \in Nat
    BY FS_Subset DEF IsNext, IsEvents
  <1>2. IsEvents(S \cup {e}) /\ e.id \in Nat
    BY <1>1, FS_AddElement DEF IsEvents, IsNext
  <1>3. CASE S = {}
    <2>1. e \in S \cup {e} /\ \A d \in S \cup {e} : e.id <= d.id
      BY <1>2, <1>3
    <2>2. QED
      BY <1>2, <1>3, <2>1, EarliestIs
  <1>4. CASE S # {}
    <2>1. Earliest(S) \in S /\ \A d \in S : Earliest(S).id <= d.id
      BY <1>1, <1>4, EarliestIs
    <2>2. \A d \in S \cup {e} : Earliest(S).id <= d.id
      BY <1>1, <1>2, <2>1
    <2>3. QED
      BY <1>2, <1>4, <2>1, <2>2, EarliestIs
  <1>5. QED
    BY <1>3, <1>4

Sets(C) == WithKind(C, {"users.user_set"})
Adds(C) == {e \in WithKind(C, {"users.key_add"}) : e.id > Earliest(Sets(C)).id}
Revokes(C) == {e \in WithKind(C, {"users.key_revoke"}) :
                 Adds(C) # {} /\ e.id > Earliest(Adds(C)).id}

TheKey(added, revoked) == [pub |-> 1, added_at |-> added, revoked_at |-> revoked]

KeyList(C) ==
    IF Adds(C) = {} THEN <<>>
    ELSE <<TheKey(Earliest(Adds(C)).id,
                  IF Revokes(C) = {} THEN Never ELSE Earliest(Revokes(C)).id)>>

\* The model has one user, with one key, and one group.
KeysFit(C, users) ==
    IF Sets(C) = {} THEN DOMAIN users = {}
    ELSE /\ DOMAIN users = {1} /\ DOMAIN users[1] = {"emails", "roles", "keys"}
         /\ users[1].keys = KeyList(C)

GroupsFit(C, groups) ==
    LET E == WithKind(C, {"users.group_set", "users.group_remove"}) IN
    groups = IF E = {} \/ Latest(E).kind = "users.group_remove" THEN <<>>
             ELSE Put(<<>>, 1, Latest(E).data.members)

PolicyFits(C, policy) ==
    LET E == WithKind(C, {"users.policy_set"}) IN
    policy = IF E = {} THEN Users!NoPolicy ELSE Latest(E).data.rules

UsersFits(C, s) ==
    /\ IsTree(s, Users!ScratchKeys)
    /\ DOMAIN s.coll = IF C = {} THEN {} ELSE {"users", "groups"}
    /\ KeysFit(C, Users!Users(s))
    /\ GroupsFit(C, Users!Groups(s))
    /\ PolicyFits(C, Users!Policy(s))

UsersRecord(s) ==
    /\ s = [meta |-> s.meta, coll |-> s.coll, scratch |-> s.scratch]
    /\ DOMAIN s.coll \subseteq {"users", "groups"}

\* ensureUsersCollections adds empty collections where there are none.
LEMMA UsersEnsured ==
    ASSUME NEW s, UsersRecord(s)
    PROVE  LET t == Users!Ensure(s) IN
           /\ t = [meta |-> t.meta, coll |-> t.coll, scratch |-> t.scratch]
           /\ DOMAIN t.coll = {"users", "groups"} /\ t.scratch = s.scratch
           /\ t.coll.users = Users!Users(s) /\ t.coll.groups = Users!Groups(s)
           /\ Users!Users(t) = Users!Users(s) /\ Users!Groups(t) = Users!Groups(s)
           /\ Users!Policy(t) = Users!Policy(s)
  <1> DEFINE t == Users!Ensure(s)
  <1>1. PICK c : c = Users!Over(s.coll, [users |-> <<>>, groups |-> <<>>])
    OBVIOUS
  <1>2. t = [s EXCEPT !.coll = c]
    BY <1>1 DEF Users!Ensure
  <1>3. /\ t.coll = c /\ t.scratch = s.scratch
        /\ t = [meta |-> t.meta, coll |-> t.coll, scratch |-> t.scratch]
    BY <1>2 DEF UsersRecord
  <1>4. /\ DOMAIN c = {"users", "groups"}
        /\ c.users = Users!Users(s) /\ c.groups = Users!Groups(s)
    BY <1>1 DEF UsersRecord, Users!Over, Users!Users, Users!Groups, Users!Given
  <1> HIDE DEF t
  <1>5. /\ Users!Users(t) = c.users /\ Users!Groups(t) = c.groups
        /\ Users!Policy(t) = Users!Policy(s)
    BY <1>3, <1>4 DEF Users!Users, Users!Groups, Users!Policy, Users!Given
  <1>6. QED
    BY <1>3, <1>4, <1>5 DEF t

\* A reducer that sets a user changes nothing else.
LEMMA UserWasSet ==
    ASSUME NEW s, UsersRecord(s), NEW name, NEW user
    PROVE  LET t == Users!SetUser(s, name, user) IN
           /\ DOMAIN t.coll = {"users", "groups"}
           /\ Users!Users(t) = Users!Put(Users!Users(s), name, user)
           /\ Users!Groups(t) = Users!Groups(s) /\ Users!Policy(t) = Users!Policy(s)
  <1> DEFINE t == Users!SetUser(s, name, user)
             u == Users!Ensure(s)
  <1>1. /\ u = [meta |-> u.meta, coll |-> u.coll, scratch |-> u.scratch]
        /\ DOMAIN u.coll = {"users", "groups"} /\ u.scratch = s.scratch
        /\ u.coll.users = Users!Users(s) /\ u.coll.groups = Users!Groups(s)
    BY UsersEnsured
  <1>2. PICK all : all = Users!Put(u.coll.users, name, user)
    OBVIOUS
  <1>3. t = [u EXCEPT !.coll = Users!Put(u.coll, "users", all)]
    BY <1>2 DEF Users!SetUser
  <1> HIDE DEF u
  <1>4. t.coll = Users!Put(u.coll, "users", all) /\ t.scratch = s.scratch
    BY <1>1, <1>3
  <1> HIDE DEF t
  <1>5. /\ DOMAIN t.coll = {"users", "groups"} /\ t.coll.users = all
        /\ t.coll.groups = Users!Groups(s)
    BY <1>1, <1>4 DEF Users!Put
  <1>6. /\ Users!Users(t) = all /\ Users!Groups(t) = Users!Groups(s)
        /\ Users!Policy(t) = Users!Policy(s)
    BY <1>4, <1>5 DEF Users!Users, Users!Groups, Users!Policy, Users!Given
  <1>7. QED
    BY <1>1, <1>2, <1>5, <1>6 DEF t

\* A reducer that sets the groups changes nothing else.
LEMMA GroupWasSet ==
    ASSUME NEW s, UsersRecord(s), NEW t, NEW groups,
           t = [Users!Ensure(s) EXCEPT !.coll =
                  Users!Put(Users!Ensure(s).coll, "groups", groups)]
    PROVE  /\ DOMAIN t.coll = {"users", "groups"}
           /\ Users!Users(t) = Users!Users(s) /\ Users!Groups(t) = groups
           /\ Users!Policy(t) = Users!Policy(s)
  <1> DEFINE u == Users!Ensure(s)
  <1>1. /\ u = [meta |-> u.meta, coll |-> u.coll, scratch |-> u.scratch]
        /\ DOMAIN u.coll = {"users", "groups"} /\ u.scratch = s.scratch
        /\ u.coll.users = Users!Users(s)
    BY UsersEnsured
  <1> HIDE DEF u
  <1>2. t.coll = Users!Put(u.coll, "groups", groups) /\ t.scratch = s.scratch
    BY <1>1 DEF u
  <1>3. /\ DOMAIN t.coll = {"users", "groups"} /\ t.coll.users = Users!Users(s)
        /\ t.coll.groups = groups
    BY <1>1, <1>2 DEF Users!Put
  <1>4. QED
    BY <1>2, <1>3 DEF Users!Users, Users!Groups, Users!Policy, Users!Given

\* The parts of the registry that an event is not about stay as they are.
LEMMA KeysKept ==
    ASSUME NEW C, NEW users, KeysFit(C, users), NEW e,
           e.kind \notin {"users.user_set", "users.key_add", "users.key_revoke"}
    PROVE  KeysFit(C \cup {e}, users)
  <1>1. Sets(C \cup {e}) = Sets(C)
    BY DEF Sets, WithKind
  <1>2. Adds(C \cup {e}) = Adds(C)
    BY <1>1 DEF Adds, WithKind
  <1>3. Revokes(C \cup {e}) = Revokes(C)
    BY <1>2 DEF Revokes, WithKind
  <1>4. QED
    BY <1>1, <1>2, <1>3 DEF KeysFit, KeyList

\* Events about users and policy change no group.
LEMMA GroupsKept ==
    ASSUME NEW C, NEW groups, GroupsFit(C, groups), NEW e,
           e.kind \notin {"users.group_set", "users.group_remove"}
    PROVE  GroupsFit(C \cup {e}, groups)
  <1>1. WithKind(C \cup {e}, {"users.group_set", "users.group_remove"}) =
          WithKind(C, {"users.group_set", "users.group_remove"})
    BY DEF WithKind
  <1>2. QED
    BY <1>1 DEF GroupsFit

\* Events about users and groups change no policy.
LEMMA PolicyKept ==
    ASSUME NEW C, NEW policy, PolicyFits(C, policy), NEW e,
           e.kind # "users.policy_set"
    PROVE  PolicyFits(C \cup {e}, policy)
  <1>1. WithKind(C \cup {e}, {"users.policy_set"}) = WithKind(C, {"users.policy_set"})
    BY DEF WithKind
  <1>2. QED
    BY <1>1 DEF PolicyFits

\* A user_set keeps the keys, and makes the user who has none.
LEMMA KeysAfterSet ==
    ASSUME NEW C, NEW users, KeysFit(C, users), NEW e, IsNext(e, C), Shaped(e),
           e.kind = "users.user_set",
           NEW user, user = Users!Over(Users!Fields(e.data.fields, {"emails", "roles"}),
                                       Users!Given(users, 1, Users!NewUser))
    PROVE  KeysFit(C \cup {e}, Users!Put(users, 1, user))
  <1> DEFINE new == Users!Put(users, 1, user)
  <1>1. DOMAIN users \subseteq {1}
    BY DEF KeysFit
  <1>2. DOMAIN new = {1} /\ new[1] = user
    BY <1>1 DEF Users!Put
  <1>3. Sets(C \cup {e}) = Sets(C) \cup {e}
    BY DEF Sets, WithKind
  <1>4. /\ WithKind(C \cup {e}, {"users.key_add"}) = WithKind(C, {"users.key_add"})
        /\ WithKind(C \cup {e}, {"users.key_revoke"}) = WithKind(C, {"users.key_revoke"})
    BY DEF WithKind
  <1>5. Earliest(Sets(C) \cup {e}) = IF Sets(C) = {} THEN e ELSE Earliest(Sets(C))
    BY EarliestAdded DEF Sets, WithKind
  <1>6. CASE Sets(C) = {}
    <2>1. Adds(C \cup {e}) = {}
      <3>1. \A d \in C : ~(d.id > e.id)
        BY DEF IsNext
      <3>2. QED
        BY <1>3, <1>4, <1>5, <1>6, <3>1 DEF Adds, WithKind
    <2>2. Users!Given(users, 1, Users!NewUser) = Users!NewUser
      BY <1>6 DEF KeysFit, Users!Given
    <2>3. /\ DOMAIN Users!NewUser = {"emails", "roles", "keys"}
          /\ Users!NewUser.keys = <<>>
      BY DEF Users!NewUser
    <2>4. DOMAIN user = {"emails", "roles", "keys"} /\ user.keys = <<>>
      BY <2>2, <2>3 DEF Users!Over, Users!Fields
    <2>5. QED
      BY <1>2, <1>3, <2>1, <2>4 DEF KeysFit, KeyList
  <1>7. CASE Sets(C) # {}
    <2>1. Adds(C \cup {e}) = Adds(C)
      BY <1>3, <1>4, <1>5, <1>7 DEF Adds
    <2>2. Revokes(C \cup {e}) = Revokes(C)
      BY <1>4, <2>1 DEF Revokes
    <2>3. /\ DOMAIN users = {1} /\ DOMAIN users[1] = {"emails", "roles", "keys"}
          /\ users[1].keys = KeyList(C)
      BY <1>7 DEF KeysFit
    <2>4. Users!Given(users, 1, Users!NewUser) = users[1]
      BY <2>3 DEF Users!Given
    <2>5. DOMAIN user = {"emails", "roles", "keys"} /\ user.keys = KeyList(C)
      BY <2>3, <2>4 DEF Users!Over, Users!Fields
    <2>6. KeyList(C \cup {e}) = KeyList(C)
      BY <2>1, <2>2 DEF KeyList
    <2>7. QED
      BY <1>2, <1>3, <2>5, <2>6 DEF KeysFit
  <1>8. QED
    BY <1>6, <1>7

\* An event about a user who was never set does nothing.
LEMMA KeysOfNobody ==
    ASSUME NEW C, NEW users, KeysFit(C, users), NEW e, 1 \notin DOMAIN users,
           e.kind \in {"users.key_add", "users.key_revoke"}
    PROVE  KeysFit(C \cup {e}, users)
  <1>1. Sets(C) = {} /\ Sets(C \cup {e}) = {}
    BY DEF KeysFit, Sets, WithKind
  <1>2. QED
    BY <1>1 DEF KeysFit

\* A user whose keys are replaced keeps the other fields.
LEMMA KeysReplaced ==
    ASSUME NEW users, DOMAIN users = {1}, DOMAIN users[1] = {"emails", "roles", "keys"},
           NEW keys
    PROVE  LET new == Users!Put(users, 1, Users!Put(users[1], "keys", keys)) IN
           /\ DOMAIN new = {1} /\ DOMAIN new[1] = {"emails", "roles", "keys"}
           /\ new[1].keys = keys
  <1> DEFINE user == Users!Put(users[1], "keys", keys)
             new == Users!Put(users, 1, user)
  <1>1. DOMAIN user = {"emails", "roles", "keys"} /\ user.keys = keys
    BY DEF Users!Put
  <1> HIDE DEF user
  <1>2. DOMAIN new = {1} /\ new[1] = user
    BY DEF Users!Put
  <1>3. QED
    BY <1>1, <1>2 DEF user

\* key_add lists a key once, from its first add on.
LEMMA KeysAfterAdd ==
    ASSUME NEW C, NEW e, IsNext(e, C), Shaped(e), Sets(C) # {},
           e.kind = "users.key_add",
           NEW keys, keys = KeyList(C)
    PROVE  KeyList(C \cup {e}) =
             IF \E k \in Users!Range(keys) : k.pub = e.data.pub THEN keys
             ELSE Append(keys, Users!NewKey(e))
  <1>1. e.data.pub = 1
    BY DEF Shaped
  <1>2. Sets(C \cup {e}) = Sets(C)
    BY DEF Sets, WithKind
  <1>3. Earliest(Sets(C)).id < e.id
    <2>1. IsEvents(Sets(C))
      BY FS_Subset DEF Sets, WithKind, IsNext, IsEvents
    <2>2. Earliest(Sets(C)) \in C
      BY <2>1, EarliestIs DEF Sets, WithKind
    <2>3. QED
      BY <2>2 DEF IsNext
  <1>4. Adds(C \cup {e}) = Adds(C) \cup {e}
    <2>1. e.id > Earliest(Sets(C)).id
      BY <1>3
    <2>2. QED
      BY <1>2, <2>1 DEF Adds, WithKind
  <1>5. Earliest(Adds(C) \cup {e}) = IF Adds(C) = {} THEN e ELSE Earliest(Adds(C))
    <2>1. Adds(C) \in SUBSET C
      BY DEF Adds, WithKind
    <2>2. QED
      BY <2>1, EarliestAdded
  <1>6. WithKind(C \cup {e}, {"users.key_revoke"}) = WithKind(C, {"users.key_revoke"})
    BY DEF WithKind
  <1>7. CASE Adds(C) = {}
    <2>1. Revokes(C \cup {e}) = {}
      <3>1. \A d \in C : ~(d.id > e.id)
        BY DEF IsNext
      <3>2. QED
        BY <1>4, <1>5, <1>6, <1>7, <3>1 DEF Revokes, WithKind
    <2>2. keys = <<>>
      BY <1>7 DEF KeyList
    <2>3. Users!Range(keys) = {}
      BY <2>2 DEF Users!Range
    <2>4. Append(keys, Users!NewKey(e)) = <<TheKey(e.id, Never)>>
      BY <1>1, <2>2 DEF Users!NewKey, TheKey, Users!Never, Never
    <2>5. KeyList(C \cup {e}) = <<TheKey(e.id, Never)>>
      BY <1>4, <1>5, <1>7, <2>1 DEF KeyList
    <2>6. QED
      BY <2>3, <2>4, <2>5
  <1>8. CASE Adds(C) # {}
    <2>1. Revokes(C \cup {e}) = Revokes(C)
      BY <1>4, <1>5, <1>6, <1>8 DEF Revokes
    <2>2. KeyList(C \cup {e}) = keys
      BY <1>4, <1>5, <1>8, <2>1 DEF KeyList
    <2>3. PICK k : keys = <<k>> /\ k.pub = 1
      <3> DEFINE x == TheKey(Earliest(Adds(C)).id,
                        IF Revokes(C) = {} THEN Never ELSE Earliest(Revokes(C)).id)
      <3>1. x.pub = 1
        BY DEF TheKey
      <3>2. keys = <<x>>
        BY <1>8 DEF KeyList
      <3>3. QED
        BY <3>1, <3>2
    <2>4. k \in Users!Range(keys)
      BY <2>3 DEF Users!Range
    <2>5. QED
      BY <1>1, <2>2, <2>3, <2>4
  <1>9. QED
    BY <1>7, <1>8

\* key_revoke ends a listed key, the first time.
LEMMA KeysAfterRevoke ==
    ASSUME NEW C, NEW e, IsNext(e, C), Shaped(e), e.kind = "users.key_revoke",
           NEW keys, keys = KeyList(C)
    PROVE  KeyList(C \cup {e}) = [n \in DOMAIN keys |-> Users!Revoked(keys[n], e)]
  <1>1. e.data.pub = 1
    BY DEF Shaped
  <1>2. Sets(C \cup {e}) = Sets(C)
    BY DEF Sets, WithKind
  <1>3. Adds(C \cup {e}) = Adds(C)
    BY <1>2 DEF Adds, WithKind
  <1>4. CASE Adds(C) = {}
    <2>1. keys = <<>> /\ KeyList(C \cup {e}) = <<>>
      BY <1>3, <1>4 DEF KeyList
    <2>2. QED
      BY <2>1
  <1>5. CASE Adds(C) # {}
    <2> DEFINE a == Earliest(Adds(C)).id
    <2>1. a < e.id
      <3>1. IsEvents(Adds(C))
        BY FS_Subset DEF Adds, WithKind, IsNext, IsEvents
      <3>2. Earliest(Adds(C)) \in C
        BY <1>5, <3>1, EarliestIs DEF Adds, WithKind
      <3>3. QED
        BY <3>2 DEF IsNext
    <2>2. Revokes(C \cup {e}) = Revokes(C) \cup {e}
      <3>1. e.id > a
        BY <2>1
      <3>2. QED
        BY <1>3, <1>5, <3>1 DEF Revokes, WithKind
    <2>3. Earliest(Revokes(C) \cup {e}) =
            IF Revokes(C) = {} THEN e ELSE Earliest(Revokes(C))
      BY EarliestAdded DEF Revokes, WithKind
    <2> HIDE DEF a
    <2>4. PICK r : r = IF Revokes(C) = {} THEN Never ELSE Earliest(Revokes(C)).id
      OBVIOUS
    <2>5. keys = <<TheKey(a, r)>>
      BY <1>5, <2>4 DEF KeyList, a
    <2>6. KeyList(C \cup {e}) = <<TheKey(a, IF r = Never THEN e.id ELSE r)>>
      <3>1. Revokes(C) # {} => r # Never
        <4>1. IsEvents(Revokes(C))
          BY FS_Subset DEF Revokes, WithKind, IsNext, IsEvents
        <4>2. Revokes(C) # {} => Earliest(Revokes(C)) \in C
          BY <4>1, EarliestIs DEF Revokes, WithKind
        <4>3. QED
          BY <2>4, <4>2 DEF IsNext, Never
      <3>2. QED
        BY <1>3, <1>5, <2>2, <2>3, <2>4, <3>1 DEF KeyList, a
    <2>7. Users!Revoked(TheKey(a, r), e) = TheKey(a, IF r = Never THEN e.id ELSE r)
      BY <1>1 DEF Users!Revoked, TheKey, Users!Never, Never
    <2>8. QED
      BY <2>5, <2>6, <2>7
  <1>6. QED
    BY <1>4, <1>5

\* The registry after each event.
LEMMA UsersNext ==
    ASSUME NEW C, NEW s, UsersFits(C, s), NEW e, IsNext(e, C), Shaped(e),
           e.kind \in Users!Kinds
    PROVE  UsersFits(C \cup {e}, Users!Apply(s, e))
  <1> DEFINE t == Users!Apply(s, e)
             us == Users!Users(s)
             u == Users!Ensure(s)
  <1>1. IsTree(t, Users!ScratchKeys)
    BY UsersTree DEF UsersFits
  <1>2. UsersRecord(s)
    BY DEF UsersFits, UsersRecord, IsTree
  <1>3. /\ KeysFit(C, us) /\ GroupsFit(C, Users!Groups(s))
        /\ PolicyFits(C, Users!Policy(s)) /\ C \cup {e} # {}
    BY DEF UsersFits
  <1>4. /\ u = [meta |-> u.meta, coll |-> u.coll, scratch |-> u.scratch]
        /\ DOMAIN u.coll = {"users", "groups"} /\ u.scratch = s.scratch
        /\ u.coll.groups = Users!Groups(s)
        /\ Users!Users(u) = us /\ Users!Groups(u) = Users!Groups(s)
        /\ Users!Policy(u) = Users!Policy(s)
    BY <1>2, UsersEnsured
  <1>5. SUFFICES /\ DOMAIN t.coll = {"users", "groups"}
                 /\ KeysFit(C \cup {e}, Users!Users(t))
                 /\ GroupsFit(C \cup {e}, Users!Groups(t))
                 /\ PolicyFits(C \cup {e}, Users!Policy(t))
    <2> HIDE DEF t
    <2> QED
      BY <1>1, <1>3 DEF UsersFits, t
  <1> HIDE DEF u, us
  <1>6. CASE e.kind = "users.user_set"
    <2>1. e.data.username = 1
      BY <1>6 DEF Shaped
    <2> DEFINE user == Users!Over(Users!Fields(e.data.fields, {"emails", "roles"}),
                                  Users!Given(us, 1, Users!NewUser))
    <2>2. t = Users!SetUser(s, 1, user)
      BY <1>6, <2>1 DEF Users!Apply, Users!UserSet, us
    <2>3. KeysFit(C \cup {e}, Users!Put(us, 1, user))
      BY <1>3, <1>6, KeysAfterSet
    <2> HIDE DEF t, user
    <2>4. /\ DOMAIN t.coll = {"users", "groups"} /\ Users!Users(t) = Users!Put(us, 1, user)
          /\ Users!Groups(t) = Users!Groups(s) /\ Users!Policy(t) = Users!Policy(s)
      BY <1>2, <2>2, UserWasSet DEF us
    <2>5. QED
      BY <1>3, <1>6, <2>3, <2>4, GroupsKept, PolicyKept
  <1>7. CASE e.kind \in {"users.key_add", "users.key_revoke"} /\ 1 \notin DOMAIN us
    <2>1. t = u
      BY <1>7 DEF Users!Apply, Users!KeyAdd, Users!KeyRevoke, Shaped, u, us
    <2> HIDE DEF t
    <2>2. QED
      BY <1>3, <1>4, <1>7, <2>1, KeysOfNobody, GroupsKept, PolicyKept
  <1>8. CASE e.kind \in {"users.key_add", "users.key_revoke"} /\ 1 \in DOMAIN us
    <2>1. /\ e.data.username = 1 /\ Sets(C) # {}
          /\ DOMAIN us = {1} /\ DOMAIN us[1] = {"emails", "roles", "keys"}
          /\ us[1].keys = KeyList(C)
      BY <1>3, <1>8 DEF Shaped, KeysFit
    <2>2. Sets(C \cup {e}) = Sets(C)
      BY <1>8 DEF Sets, WithKind
    <2>3. t = Users!SetKeys(s, 1, KeyList(C \cup {e}))
      <3> DEFINE keys == us[1].keys
      <3>1. CASE e.kind = "users.key_add"
        <4>1. t = Users!SetKeys(s, 1,
                    IF \E k \in Users!Range(keys) : k.pub = e.data.pub THEN keys
                    ELSE Append(keys, Users!NewKey(e)))
          BY <1>8, <2>1, <3>1 DEF Users!Apply, Users!KeyAdd, us
        <4> HIDE DEF keys
        <4>2. QED
          BY <2>1, <3>1, <4>1, KeysAfterAdd DEF keys
      <3>2. CASE e.kind = "users.key_revoke"
        <4>1. t = Users!SetKeys(s, 1, [n \in DOMAIN keys |-> Users!Revoked(keys[n], e)])
          BY <1>8, <2>1, <3>2 DEF Users!Apply, Users!KeyRevoke, us
        <4> HIDE DEF keys
        <4>2. QED
          BY <2>1, <3>2, <4>1, KeysAfterRevoke DEF keys
      <3>3. QED
        BY <1>8, <3>1, <3>2
    <2> DEFINE user == Users!Put(us[1], "keys", KeyList(C \cup {e}))
    <2>4. t = Users!SetUser(s, 1, user)
      BY <2>3 DEF Users!SetKeys, us
    <2>5. /\ DOMAIN Users!Put(us, 1, user) = {1}
          /\ DOMAIN Users!Put(us, 1, user)[1] = {"emails", "roles", "keys"}
          /\ Users!Put(us, 1, user)[1].keys = KeyList(C \cup {e})
      BY <2>1, KeysReplaced
    <2> HIDE DEF t, user
    <2>6. /\ DOMAIN t.coll = {"users", "groups"} /\ Users!Users(t) = Users!Put(us, 1, user)
          /\ Users!Groups(t) = Users!Groups(s) /\ Users!Policy(t) = Users!Policy(s)
      BY <1>2, <2>4, UserWasSet DEF us
    <2>7. KeysFit(C \cup {e}, Users!Put(us, 1, user))
      BY <2>1, <2>2, <2>5 DEF KeysFit
    <2>8. QED
      BY <1>3, <1>8, <2>6, <2>7, GroupsKept, PolicyKept
  <1>9. CASE e.kind \in {"users.group_set", "users.group_remove"}
    <2> DEFINE E == WithKind(C \cup {e}, {"users.group_set", "users.group_remove"})
               old == Users!Groups(s)
    <2>1. E # {} /\ Latest(E) = e
      <3>1. e \in E
        BY <1>9 DEF WithKind
      <3>2. QED
        BY <1>9, <3>1, KindNext
    <2>2. e.data.name = 1 /\ DOMAIN old \subseteq {1}
      BY <1>3, <1>9 DEF Shaped, GroupsFit, Put
    <2> HIDE DEF E
    <2>3. PICK groups : /\ t = [u EXCEPT !.coll = Users!Put(u.coll, "groups", groups)]
                        /\ GroupsFit(C \cup {e}, groups)
      <3>1. CASE e.kind = "users.group_set"
        <4>1. t = [u EXCEPT !.coll = Users!Put(u.coll, "groups",
                                               Users!Put(old, 1, e.data.members))]
          BY <1>4, <2>2, <3>1 DEF Users!Apply, Users!GroupSet, u
        <4> HIDE DEF old
        <4>2. Users!Put(old, 1, e.data.members) = Put(<<>>, 1, e.data.members)
          BY <2>2 DEF Users!Put, Put
        <4>3. GroupsFit(C \cup {e}, Put(<<>>, 1, e.data.members))
          BY <2>1, <3>1 DEF GroupsFit, E
        <4>4. QED
          BY <4>1, <4>2, <4>3
      <3>2. CASE e.kind = "users.group_remove"
        <4>1. t = [u EXCEPT !.coll = Users!Put(u.coll, "groups",
                                               [g \in DOMAIN old \ {1} |-> old[g]])]
          BY <1>4, <2>2, <3>2 DEF Users!Apply, Users!GroupRemove, u
        <4> HIDE DEF old
        <4>2. [g \in DOMAIN old \ {1} |-> old[g]] = <<>>
          BY <2>2
        <4>3. GroupsFit(C \cup {e}, <<>>)
          BY <2>1, <3>2 DEF GroupsFit, E
        <4>4. QED
          BY <4>1, <4>2, <4>3
      <3>3. QED
        BY <1>9, <3>1, <3>2
    <2> HIDE DEF t
    <2>4. /\ DOMAIN t.coll = {"users", "groups"} /\ Users!Users(t) = us
          /\ Users!Groups(t) = groups /\ Users!Policy(t) = Users!Policy(s)
      BY <1>2, <2>3, GroupWasSet DEF u, us
    <2>5. QED
      BY <1>3, <1>9, <2>3, <2>4, KeysKept, PolicyKept
  <1>10. CASE e.kind = "users.policy_set"
    <2>1. t = [u EXCEPT !.scratch = Users!Put(u.scratch, "policy", e.data.rules)]
      BY <1>10 DEF Users!Apply, Users!PolicySet, u
    <2> HIDE DEF t
    <2>2. t.coll = u.coll /\ t.scratch = Users!Put(u.scratch, "policy", e.data.rules)
      BY <1>4, <2>1
    <2>3. /\ Users!Users(t) = us /\ Users!Groups(t) = Users!Groups(s)
          /\ Users!Policy(t) = e.data.rules
      BY <1>4, <2>2 DEF Users!Users, Users!Groups, Users!Policy, Users!Given, Users!Put
    <2>4. PolicyFits(C \cup {e}, e.data.rules)
      <3>1. e \in WithKind(C \cup {e}, {"users.policy_set"})
        BY <1>10 DEF WithKind
      <3>2. Latest(WithKind(C \cup {e}, {"users.policy_set"})) = e
        BY <1>10, KindNext
      <3>3. QED
        BY <3>1, <3>2 DEF PolicyFits
    <2>5. QED
      BY <1>3, <1>4, <1>10, <2>2, <2>3, <2>4, KeysKept, GroupsKept
  <1>11. QED
    BY <1>6, <1>7, <1>8, <1>9, <1>10 DEF Users!Kinds

\* The registry before its first event.
LEMMA UsersNothing == UsersFits({}, NewState)
  <1>1. /\ NewState.coll = <<>> /\ DOMAIN NewState.coll = {}
        /\ NewState.scratch = <<>>
    BY DEF NewState
  <1>2. /\ Users!Users(NewState) = <<>> /\ Users!Groups(NewState) = <<>>
        /\ Users!Policy(NewState) = Users!NoPolicy
    BY <1>1 DEF Users!Users, Users!Groups, Users!Policy, Users!Given
  <1>3. \A kinds : WithKind({}, kinds) = {}
    BY DEF WithKind
  <1>4. DOMAIN Users!Users(NewState) = {}
    BY <1>2
  <1>5. KeysFit({}, Users!Users(NewState))
    BY <1>3, <1>4 DEF KeysFit, Sets
  <1>6. GroupsFit({}, Users!Groups(NewState)) /\ PolicyFits({}, Users!Policy(NewState))
    BY <1>2, <1>3 DEF GroupsFit, PolicyFits
  <1>7. QED
    BY <1>1, <1>5, <1>6, NewTree DEF UsersFits

\* What the registry shows is what its events say.
LEMMA UsersShows ==
    ASSUME menu \in Menus, HasKind(Users!Kinds), NEW E, IsHistory(E)
    PROVE  UsersFits(Counted(At(E)), FullFold(E))
  <1> DEFINE Good == {C \in SUBSET E : UsersFits(C, FullFold(C))}
  <1>1. {} \in Good
    BY FoldOfNothing, UsersNothing DEF FullFold
  <1>2. ASSUME NEW e \in E, NEW C \in SUBSET E, C \in Good,
               IsEvents(C), IsEdit(e), Shaped(e), e.id \in Nat \ {0},
               \A d \in C : IsEdit(d) /\ Shaped(d) /\ d.id \in Nat \ {0} /\ d.id < e.id,
               HasKind(Creates) => (e.kind \in Creates <=> C = {}),
               FullFold(C \cup {e}) = Apply(FullFold(C), e)
        PROVE  C \cup {e} \in Good
    <2>1. e.kind \in Users!Kinds /\ FullFold(C \cup {e}) = Users!Apply(FullFold(C), e)
      BY <1>2, FeatureApply
    <2>2. IsNext(e, C)
      BY <1>2 DEF IsNext
    <2>3. QED
      BY <1>2, <2>1, <2>2, UsersNext
  <1>3. QED
    <2> HIDE DEF Good
    <2>1. Counted(At(E)) \in Good /\ FullFold(Counted(At(E))) = FullFold(E)
      BY <1>1, <1>2, CountedInduction
    <2>2. QED
      BY <2>1 DEF Good

-----------------------------------------------------------------------------
(* What the commands append.                                               *)

\* Every edit has the fields of its kind.
ShapesHold ==
    \A r \in Places : \A e \in tip[r].events : IsEdit(e) => Shaped(e)

\* One create at most, wherever it went.
OneCreate ==
    \A r, q \in Places : \A e \in tip[r].events, d \in tip[q].events :
        e.kind \in Creates /\ d.kind \in Creates => e = d

HistInv == IndInv /\ ShapesHold /\ OneCreate

\* At every ref is a history of what the commands append.
LEMMA TipIsHistory ==
    ASSUME HistInv, NEW r \in Places
    PROVE  IsHistory(tip[r].events)
  <1>1. IsEvents(tip[r].events) /\ \A e \in tip[r].events : EventTyped(e)
    BY DEF HistInv, IndInv, TipHolds
  <1>2. IsChain(tip[r].events)
    BY <1>1, TypedChain
  <1>3. QED
    BY <1>1, <1>2 DEF HistInv, ShapesHold, OneCreate, IsHistory, EventTyped, Never

\* A user that a reader is shown is the one that the commands add.
LEMMA ShownUser ==
    ASSUME HistInv, NEW c \in Clone, HasKind(Users!Kinds), NEW u \in Shown(c, "users")
    PROVE  u = 1
  <1>1. c \in Places
    BY DEF Places
  <1>2. UsersFits(Counted(At(tip[c].events)), tip[c].tree)
    BY <1>1, TipIsHistory, UsersShows DEF HistInv, IndInv, TipHolds
  <1>3. DOMAIN Users!Users(tip[c].tree) \subseteq {1}
    BY <1>2 DEF UsersFits, KeysFit
  <1>4. Shown(c, "users") = DOMAIN Users!Users(tip[c].tree)
    BY Zenon DEF Shown, Users!Users, Given, Users!Given
  <1>5. QED
    BY <1>3, <1>4

\* An append of an event with the fields of its kind; a create is the first.
Appends(c) ==
    \E kind \in EditKinds : \E data :
        /\ Mutate(c, kind, data)
        /\ Shaped([kind |-> kind, data |-> data])
        /\ kind \in Creates => Fresh

\* How a command appends.
LEMMA AppendsIf ==
    ASSUME NEW c, NEW kind \in EditKinds, NEW data, Mutate(c, kind, data),
           Shaped([kind |-> kind, data |-> data]), kind \in Creates => Fresh
    PROVE  Appends(c)
  BY DEF Appends

\* What issueapp appends.
LEMMA IssueAppends ==
    ASSUME NEW c \in Clone,
           \/ IssueNew(c) \/ IssueEdit(c) \/ IssueStatus(c) \/ IssueComment(c)
           \/ IssueLabel(c) \/ IssueAssign(c) \/ IssueLink(c)
    PROVE  Appends(c)
  <1>1. CASE IssueNew(c)
    <2>1. PICK a :
            Mutate(c, "issue.create", [title |-> 0, assignees |-> a]) /\ Fresh
      BY <1>1 DEF IssueNew
    <2>2. Shaped([kind |-> "issue.create", data |-> [title |-> 0, assignees |-> a]])
      BY DEF Shaped
    <2>3. QED
      BY <2>1, <2>2, AppendsIf DEF EditKinds, Issue!Kinds, Creates
  <1>2. CASE IssueEdit(c)
    <2>1. Mutate(c, "issue.edit", [title |-> c])
      BY <1>2 DEF IssueEdit
    <2>2. Shaped([kind |-> "issue.edit", data |-> [title |-> c]])
      BY DEF Shaped
    <2>3. QED
      BY <2>1, <2>2, AppendsIf DEF EditKinds, Issue!Kinds, Creates
  <1>3. CASE IssueStatus(c)
    <2>1. PICK to :
            Mutate(c, "issue.status", [to |-> to])
      BY <1>3 DEF IssueStatus
    <2>2. Shaped([kind |-> "issue.status", data |-> [to |-> to]])
      BY DEF Shaped
    <2>3. QED
      BY <2>1, <2>2, AppendsIf DEF EditKinds, Issue!Kinds, Creates
  <1>4. CASE IssueComment(c)
    <2>1. PICK prior :
            Mutate(c, "issue.comment", [supersedes |-> prior])
      BY <1>4 DEF IssueComment
    <2>2. Shaped([kind |-> "issue.comment", data |-> [supersedes |-> prior]])
      BY DEF Shaped
    <2>3. QED
      BY <2>1, <2>2, AppendsIf DEF EditKinds, Issue!Kinds, Creates
  <1>5. CASE IssueLabel(c)
    <2>1. PICK data \in AddsAndRemoves :
            Mutate(c, "issue.label", data)
      BY <1>5 DEF IssueLabel
    <2>2. Shaped([kind |-> "issue.label", data |-> data])
      BY DEF Shaped, AddsAndRemoves
    <2>3. QED
      BY <2>1, <2>2, AppendsIf DEF EditKinds, Issue!Kinds, Creates
  <1>6. CASE IssueAssign(c)
    <2>1. PICK data \in AddsAndRemoves :
            Mutate(c, "issue.assign", data)
      BY <1>6 DEF IssueAssign
    <2>2. Shaped([kind |-> "issue.assign", data |-> data])
      BY DEF Shaped, AddsAndRemoves
    <2>3. QED
      BY <2>1, <2>2, AppendsIf DEF EditKinds, Issue!Kinds, Creates
  <1>7. CASE IssueLink(c)
    <2>1. PICK remove \in BOOLEAN :
            Mutate(c, "issue.link", [link |-> 1, remove |-> remove])
      BY <1>7 DEF IssueLink
    <2>2. Shaped([kind |-> "issue.link", data |-> [link |-> 1, remove |-> remove]])
      BY DEF Shaped
    <2>3. QED
      BY <2>1, <2>2, AppendsIf DEF EditKinds, Issue!Kinds, Creates
  <1>8. QED
    BY <1>1, <1>2, <1>3, <1>4, <1>5, <1>6, <1>7

\* What taskapp appends.
LEMMA TaskAppends ==
    ASSUME NEW c \in Clone,
           \/ TaskNew(c) \/ TaskEdit(c) \/ TaskStatus(c) \/ TaskReassign(c)
           \/ TaskNote(c) \/ TaskLink(c)
    PROVE  Appends(c)
  <1>1. CASE TaskNew(c)
    <2>1. PICK data \in {[title |-> 0], [title |-> 0, owner |-> 1]} :
            Mutate(c, "task.create", data) /\ Fresh
      BY <1>1 DEF TaskNew
    <2>2. Shaped([kind |-> "task.create", data |-> data])
      BY DEF Shaped
    <2>3. QED
      BY <2>1, <2>2, AppendsIf DEF EditKinds, Task!Kinds, Creates
  <1>2. CASE TaskEdit(c)
    <2>1. Mutate(c, "task.edit", [title |-> c])
      BY <1>2 DEF TaskEdit
    <2>2. Shaped([kind |-> "task.edit", data |-> [title |-> c]])
      BY DEF Shaped
    <2>3. QED
      BY <2>1, <2>2, AppendsIf DEF EditKinds, Task!Kinds, Creates
  <1>3. CASE TaskStatus(c)
    <2>1. PICK to \in Task!Statuses, note \in BOOLEAN :
            Mutate(c, "task.status", [to |-> to, note |-> note])
      BY <1>3 DEF TaskStatus
    <2>2. Shaped([kind |-> "task.status", data |-> [to |-> to, note |-> note]])
      BY DEF Shaped
    <2>3. QED
      BY <2>1, <2>2, AppendsIf DEF EditKinds, Task!Kinds, Creates
  <1>4. CASE TaskReassign(c)
    <2>1. PICK owner :
            Mutate(c, "task.reassign", [owner |-> owner])
      BY <1>4 DEF TaskReassign
    <2>2. Shaped([kind |-> "task.reassign", data |-> [owner |-> owner]])
      BY DEF Shaped
    <2>3. QED
      BY <2>1, <2>2, AppendsIf DEF EditKinds, Task!Kinds, Creates
  <1>5. CASE TaskNote(c)
    <2>1. Mutate(c, "task.note", [body |-> c])
      BY <1>5 DEF TaskNote
    <2>2. Shaped([kind |-> "task.note", data |-> [body |-> c]])
      BY DEF Shaped
    <2>3. QED
      BY <2>1, <2>2, AppendsIf DEF EditKinds, Task!Kinds, Creates
  <1>6. CASE TaskLink(c)
    <2>1. PICK remove \in BOOLEAN :
            Mutate(c, "task.link", [link |-> 1, remove |-> remove])
      BY <1>6 DEF TaskLink
    <2>2. Shaped([kind |-> "task.link", data |-> [link |-> 1, remove |-> remove]])
      BY DEF Shaped
    <2>3. QED
      BY <2>1, <2>2, AppendsIf DEF EditKinds, Task!Kinds, Creates
  <1>7. QED
    BY <1>1, <1>2, <1>3, <1>4, <1>5, <1>6

\* What chatapp and notifyapp append.
LEMMA ChatAppends ==
    ASSUME NEW c \in Clone,
           \/ ChatNew(c) \/ ChatPost(c) \/ ChatArchive(c) \/ ChatEditMeta(c)
           \/ NotifyPost(c) \/ NotifyAck(c)
    PROVE  Appends(c)
  <1>1. CASE ChatNew(c)
    <2>1. PICK body \in BOOLEAN :
            Mutate(c, "chat.create", [title |-> 0, body |-> body]) /\ Fresh
      BY <1>1 DEF ChatNew
    <2>2. Shaped([kind |-> "chat.create", data |-> [title |-> 0, body |-> body]])
      BY DEF Shaped
    <2>3. QED
      BY <2>1, <2>2, AppendsIf DEF EditKinds, Chat!Kinds, Creates
  <1>2. CASE ChatPost(c)
    <2>1. PICK prior :
            Mutate(c, "chat.post", [supersedes |-> prior])
      BY <1>2 DEF ChatPost
    <2>2. Shaped([kind |-> "chat.post", data |-> [supersedes |-> prior]])
      BY DEF Shaped
    <2>3. QED
      BY <2>1, <2>2, AppendsIf DEF EditKinds, Chat!Kinds, Creates
  <1>3. CASE ChatArchive(c)
    <2>1. Mutate(c, "chat.edit_meta", [status |-> "archived"])
      BY <1>3 DEF ChatArchive
    <2>2. Shaped([kind |-> "chat.edit_meta", data |-> [status |-> "archived"]])
      BY DEF Shaped
    <2>3. QED
      BY <2>1, <2>2, AppendsIf DEF EditKinds, Chat!Kinds, Creates
  <1>4. CASE ChatEditMeta(c)
    <2>1. PICK data \in {[title |-> c], [status |-> "open"]} :
            Mutate(c, "chat.edit_meta", data)
      BY <1>4 DEF ChatEditMeta
    <2>2. Shaped([kind |-> "chat.edit_meta", data |-> data])
      BY DEF Shaped
    <2>3. QED
      BY <2>1, <2>2, AppendsIf DEF EditKinds, Chat!Kinds, Creates
  <1>5. CASE NotifyPost(c)
    <2>1. PICK target :
            Mutate(c, "notify.post", [targets |-> {target}])
      BY <1>5 DEF NotifyPost
    <2>2. Shaped([kind |-> "notify.post", data |-> [targets |-> {target}]])
      BY DEF Shaped
    <2>3. QED
      BY <2>1, <2>2, AppendsIf DEF EditKinds, Notify!Kinds, Creates
  <1>6. CASE NotifyAck(c)
    <2>1. PICK post :
            Mutate(c, "notify.ack", [ack_of |-> post])
      BY <1>6 DEF NotifyAck
    <2>2. Shaped([kind |-> "notify.ack", data |-> [ack_of |-> post]])
      BY DEF Shaped
    <2>3. QED
      BY <2>1, <2>2, AppendsIf DEF EditKinds, Notify!Kinds, Creates
  <1>7. QED
    BY <1>1, <1>2, <1>3, <1>4, <1>5, <1>6

\* What usersapp appends: a key is for a user that a reader is shown.
LEMMA UserAppends ==
    ASSUME HistInv, NEW c \in Clone,
           \/ UserAdd(c) \/ UserKeyAdd(c) \/ UserKeyRevoke(c)
           \/ GroupSet(c) \/ GroupRemove(c) \/ PolicySet(c)
    PROVE  Appends(c)
  <1>1. CASE UserAdd(c)
    <2>1. PICK data \in {[username |-> 1, fields |-> [emails |-> {1}]],
                          [username |-> 1, fields |-> [roles |-> {1}]]} :
            Mutate(c, "users.user_set", data)
      BY <1>1 DEF UserAdd
    <2>2. Shaped([kind |-> "users.user_set", data |-> data])
      BY DEF Shaped
    <2>3. QED
      BY <2>1, <2>2, AppendsIf DEF EditKinds, Users!Kinds, Creates
  <1>2. CASE UserKeyAdd(c)
    <2>1. PICK u \in Shown(c, "users") :
            Mutate(c, "users.key_add", [username |-> u, pub |-> 1])
      BY <1>2 DEF UserKeyAdd
    <2>2. HasKind(Users!Kinds)
      BY <2>1 DEF Mutate, HasKind, Users!Kinds
    <2>3. u = 1
      BY <2>2, ShownUser
    <2>4. Shaped([kind |-> "users.key_add", data |-> [username |-> 1, pub |-> 1]])
      BY DEF Shaped
    <2>5. QED
      BY <2>1, <2>3, <2>4, AppendsIf DEF EditKinds, Users!Kinds, Creates
  <1>3. CASE UserKeyRevoke(c)
    <2>1. PICK u \in Shown(c, "users") :
            Mutate(c, "users.key_revoke", [username |-> u, pub |-> 1])
      BY <1>3 DEF UserKeyRevoke
    <2>2. HasKind(Users!Kinds)
      BY <2>1 DEF Mutate, HasKind, Users!Kinds
    <2>3. u = 1
      BY <2>2, ShownUser
    <2>4. Shaped([kind |-> "users.key_revoke", data |-> [username |-> 1, pub |-> 1]])
      BY DEF Shaped
    <2>5. QED
      BY <2>1, <2>3, <2>4, AppendsIf DEF EditKinds, Users!Kinds, Creates
  <1>4. CASE GroupSet(c)
    <2>1. Mutate(c, "users.group_set", [name |-> 1, members |-> {c}])
      BY <1>4 DEF GroupSet
    <2>2. Shaped([kind |-> "users.group_set", data |-> [name |-> 1, members |-> {c}]])
      BY DEF Shaped
    <2>3. QED
      BY <2>1, <2>2, AppendsIf DEF EditKinds, Users!Kinds, Creates
  <1>5. CASE GroupRemove(c)
    <2>1. Mutate(c, "users.group_remove", [name |-> 1])
      BY <1>5 DEF GroupRemove
    <2>2. Shaped([kind |-> "users.group_remove", data |-> [name |-> 1]])
      BY DEF Shaped
    <2>3. QED
      BY <2>1, <2>2, AppendsIf DEF EditKinds, Users!Kinds, Creates
  <1>6. CASE PolicySet(c)
    <2>1. Mutate(c, "users.policy_set", [rules |-> c])
      BY <1>6 DEF PolicySet
    <2>2. Shaped([kind |-> "users.policy_set", data |-> [rules |-> c]])
      BY DEF Shaped
    <2>3. QED
      BY <2>1, <2>2, AppendsIf DEF EditKinds, Users!Kinds, Creates
  <1>7. QED
    BY <1>1, <1>2, <1>3, <1>4, <1>5, <1>6

\* Every step is such an append, a compaction or a sync.
LEMMA NextAppends ==
    ASSUME HistInv, Next
    PROVE  \E c \in Clone : Appends(c) \/ Compact(c) \/ Sync(c)
  BY IssueAppends, TaskAppends, ChatAppends, UserAppends, Zenon DEF Next

\* What a step may do to the events of the tips.
LEMMA EventsGrow ==
    ASSUME HistInv, NEW c \in Clone, Appends(c) \/ Compact(c) \/ Sync(c)
    PROVE  /\ menu' = menu /\ DOMAIN tip' = Places
           /\ \A r \in Places : tip[r].events \subseteq tip'[r].events
           /\ \/ \A r \in Places : tip'[r].events \subseteq
                                     UNION {tip[q].events : q \in Places}
              \/ \E e : /\ IsCheckpoint(e)
                             \/ (Shaped(e) /\ (e.kind \in Creates => Fresh))
                        /\ tip' = [tip EXCEPT ![c] = tip'[c]]
                        /\ tip'[c].events = tip[c].events \cup {e}
  <1>1. /\ DOMAIN tip = Places /\ c \in Places /\ Remote \in Places
        /\ tip = [r \in Places |-> tip[r]]
    BY DEF HistInv, IndInv, Places
  <1>2. ASSUME NEW e, NEW t, tip' = [tip EXCEPT ![c] = t],
               t.events = tip[c].events \cup {e}
        PROVE  /\ DOMAIN tip' = Places /\ tip' = [tip EXCEPT ![c] = tip'[c]]
               /\ tip'[c].events = tip[c].events \cup {e}
               /\ \A r \in Places : tip[r].events \subseteq tip'[r].events
    BY <1>1, <1>2
  <1>3. CASE Appends(c)
    <2>1. PICK kind, data :
            /\ kind \in EditKinds /\ Mutate(c, kind, data)
            /\ Shaped([kind |-> kind, data |-> data])
            /\ kind \in Creates => Fresh
      BY <1>3 DEF Appends
    <2>2. PICK i : tip' = [tip EXCEPT ![c] =
                    [events |-> @.events \cup {[id |-> i, kind |-> kind,
                                                actor |-> c, data |-> data]},
                     tree |-> FoldInputs(@, [id |-> i, kind |-> kind,
                                             actor |-> c, data |-> data]),
                     base |-> @.base]]
      BY <2>1 DEF Mutate
    <2> DEFINE e == [id |-> i, kind |-> kind, actor |-> c, data |-> data]
               t == [events |-> tip[c].events \cup {e},
                     tree |-> FoldInputs(tip[c], e), base |-> tip[c].base]
    <2>3. tip' = [tip EXCEPT ![c] = t] /\ t.events = tip[c].events \cup {e}
      BY <2>2
    <2>4. Shaped(e) /\ (e.kind \in Creates => Fresh)
      <3>1. e.kind = kind /\ e.data = data
        OBVIOUS
      <3> DEFINE d == [kind |-> kind, data |-> data]
      <3>2. d.kind = e.kind /\ d.data = e.data /\ Shaped(d)
        BY <2>1, <3>1
      <3> HIDE DEF d, e
      <3>3. Shaped(e)
        BY <3>2 DEF Shaped
      <3>4. QED
        BY <2>1, <3>1, <3>3
    <2>5. menu' = menu
      BY <2>1 DEF Mutate
    <2> HIDE DEF e, t
    <2>6. QED
      BY <1>2, <2>3, <2>4, <2>5
  <1>4. CASE Compact(c)
    <2> DEFINE ids == {d.id : d \in tip[c].events}
               ck(i, state) == [id |-> i, kind |-> "checkpoint", actor |-> c,
                                data |-> [state |-> state, max_event_id |-> Max(ids),
                                          behind |-> ids]]
    <2>1. PICK state, i :
            tip' = [tip EXCEPT ![c] = [events |-> tip[c].events \cup {ck(i, state)},
                                       tree |-> FoldInputs(tip[c], ck(i, state)),
                                       base |-> i]]
      BY <1>4, Zenon DEF Compact
    <2> DEFINE e == ck(i, state)
               t == [events |-> tip[c].events \cup {e},
                     tree |-> FoldInputs(tip[c], e), base |-> i]
    <2>2. tip' = [tip EXCEPT ![c] = t] /\ t.events = tip[c].events \cup {e}
      BY <2>1
    <2>3. IsCheckpoint(e)
      BY DEF IsCheckpoint
    <2>4. menu' = menu
      BY <1>4 DEF Compact
    <2> HIDE DEF e, t
    <2>5. QED
      BY <1>2, <2>2, <2>3, <2>4
  <1>5. CASE Sync(c)
    <2> DEFINE t == Joined(tip[c], tip[Remote])
    <2>1. tip' = [tip EXCEPT ![c] = t, ![Remote] = t] /\ menu' = menu
      BY <1>5 DEF Sync
    <2>2. /\ tip[c].events \subseteq t.events /\ tip[Remote].events \subseteq t.events
          /\ t.events \subseteq tip[c].events \cup tip[Remote].events
      <3> DEFINE j == [events |-> tip[c].events \cup tip[Remote].events,
                       tree |-> FullFold(tip[c].events \cup tip[Remote].events),
                       base |-> Never]
      <3>1. CASE tip[Remote].events \subseteq tip[c].events
        BY <3>1 DEF Joined
      <3>2. CASE /\ ~(tip[Remote].events \subseteq tip[c].events)
                 /\ tip[c].events \subseteq tip[Remote].events
        BY <3>2 DEF Joined
      <3>3. CASE /\ ~(tip[Remote].events \subseteq tip[c].events)
                 /\ ~(tip[c].events \subseteq tip[Remote].events)
        <4>1. t = j
          BY <3>3, Zenon DEF Joined
        <4>2. t.events = tip[c].events \cup tip[Remote].events
          BY <4>1
        <4>3. QED
          BY <4>2
      <3>4. QED
        BY <3>1, <3>2, <3>3
    <2> HIDE DEF t
    <2>3. tip' = [r \in Places |-> IF r \in {c, Remote} THEN t ELSE tip[r]]
      BY <1>1, <2>1
    <2>4. \A r \in Places : tip[r].events \subseteq tip'[r].events
      BY <1>1, <2>2, <2>3
    <2>5. \A r \in Places : tip'[r].events \subseteq UNION {tip[q].events : q \in Places}
      BY <1>1, <2>2, <2>3
    <2>6. QED
      BY <2>1, <2>3, <2>4, <2>5
  <1>6. QED
    BY <1>3, <1>4, <1>5

\* Every step keeps the shapes, and there is one create at most.
LEMMA HistStep ==
    ASSUME HistInv, NEW c \in Clone, Appends(c) \/ Compact(c) \/ Sync(c)
    PROVE  ShapesHold' /\ OneCreate'
  <1> DEFINE old == UNION {tip[q].events : q \in Places}
  <1>1. menu' = menu /\ DOMAIN tip' = Places /\ DOMAIN tip = Places /\ c \in Places
    BY EventsGrow DEF HistInv, IndInv, Places
  <1>2. /\ \A d \in old : IsEdit(d) => Shaped(d)
        /\ \A d, k \in old : d.kind \in Creates /\ k.kind \in Creates => d = k
    BY DEF HistInv, ShapesHold, OneCreate
  <1>3. \A r \in Places : tip[r].events \subseteq old
    OBVIOUS
  <1> HIDE DEF old
  <1>4. CASE \A r \in Places : tip'[r].events \subseteq old
    BY <1>1, <1>2, <1>4 DEF ShapesHold, OneCreate, IsEdit
  <1>5. CASE ~ \A r \in Places : tip'[r].events \subseteq old
    <2>1. PICK e : /\ IsCheckpoint(e) \/ (Shaped(e) /\ (e.kind \in Creates => Fresh))
                   /\ tip' = [tip EXCEPT ![c] = tip'[c]]
                   /\ tip'[c].events = tip[c].events \cup {e}
      BY <1>5, EventsGrow DEF old
    <2>2. IsEdit(e) => Shaped(e)
      BY <2>1 DEF IsEdit, IsCheckpoint
    <2>3. \A r \in Places : tip'[r].events \subseteq old \cup {e}
      BY <1>1, <1>3, <2>1
    <2>4. e.kind \in Creates => \A d \in old : d = e
      <3>1. e.kind \in Creates => Fresh
        BY <2>1 DEF IsCheckpoint, Creates
      <3>2. Fresh => old = {}
        BY <1>1 DEF Fresh, old
      <3>3. QED
        BY <3>1, <3>2
    <2>5. \A d, k \in old \cup {e} : d.kind \in Creates /\ k.kind \in Creates => d = k
      BY <1>2, <2>4
    <2>6. QED
      BY <1>1, <1>2, <2>2, <2>3, <2>5 DEF ShapesHold, OneCreate, IsEdit
  <1>6. QED
    BY <1>4, <1>5

\* Every ref starts without events.
LEMMA HistInit == Init => HistInv
  <1> SUFFICES ASSUME Init PROVE HistInv
    OBVIOUS
  <1>1. tip = [r \in Places |-> NoTip] /\ NoTip.events = {}
    BY DEF Init, NoTip, Places
  <1>2. QED
    BY <1>1, InitHolds DEF HistInv, ShapesHold, OneCreate

\* Every step keeps the invariant.
LEMMA HistHolds == HistInv /\ [Next]_vars => HistInv'
  <1> SUFFICES ASSUME HistInv, [Next]_vars PROVE HistInv'
    OBVIOUS
  <1>1. IndInv'
    BY StepHolds DEF HistInv
  <1>2. CASE Next
    BY <1>1, <1>2, NextAppends, HistStep DEF HistInv
  <1>3. CASE UNCHANGED vars
    BY <1>1, <1>3 DEF HistInv, ShapesHold, OneCreate, IsEdit, vars
  <1>4. QED
    BY <1>2, <1>3

\* At every ref every edit has the fields of its kind, and no two creates are
\* ever there: what the reducers are run on.
THEOREM HistoryInvariance == Spec => []HistInv
  BY HistInit, HistHolds, PTL DEF Spec

-----------------------------------------------------------------------------
(* Tips.                                                                   *)

\* Without a create an entity never comes to be.
LEMMA NeverCreated ==
    ASSUME menu \in Menus, HasEntities, ~HasKind(Creates), NEW E, IsHistory(E)
    PROVE  FullFold(E) = NewState
  <1> DEFINE Good == {F \in SUBSET E : FullFold(F) = NewState}
  <1>1. {} \in Good
    BY FoldOfNothing DEF FullFold
  <1>2. ASSUME NEW e \in E, NEW F \in SUBSET E, F \in Good,
               F = {d \in E : d.id < e.id}
        PROVE  F \cup {e} \in Good
    <2>1. IsEvents(F) /\ e.id \in Nat /\ \A d \in F : d.id < e.id
      BY <1>2, FS_Subset DEF IsHistory, IsChain, IsEvents
    <2>2. CASE IsCheckpoint(e)
      BY <1>2, <2>2, FoldOfCheckpoint DEF FullFold
    <2>3. CASE ~IsCheckpoint(e)
      <3>1. FullFold(F \cup {e}) = Apply(FullFold(F), e)
        BY <2>1, <2>3, FoldOfLatest DEF FullFold
      <3>2. IsEdit(e) /\ e.kind \notin Creates
        BY <2>3 DEF IsHistory, IsChain, IsEdit, HasKind
      <3>3. QED
        BY <1>2, <3>1, <3>2, NothingYet
    <2>4. QED
      BY <2>2, <2>3
  <1>3. E \in Good
    <2> HIDE DEF Good
    <2> QED
      BY <1>1, <1>2, EventInduction DEF IsHistory, IsChain
  <1>4. QED
    BY <1>3

\* An entity has one feature.
LEMMA Exclusive ==
    ASSUME menu \in Menus
    PROVE  /\ HasKind(Issue!Kinds) => ~HasKind(Task!Kinds) /\ ~HasKind(Chat!Kinds)
           /\ HasKind(Task!Kinds) => ~HasKind(Issue!Kinds) /\ ~HasKind(Chat!Kinds)
           /\ HasKind(Chat!Kinds) => ~HasKind(Issue!Kinds) /\ ~HasKind(Task!Kinds)
  <1>1. PICK K \in {Issue!Kinds, Task!Kinds, Chat!Kinds, Notify!Kinds, Users!Kinds} :
              menu.kinds \subseteq K \cup {"checkpoint", "legacy"}
    BY OneFeature
  <1>2. /\ Issue!Kinds \cap Task!Kinds = {} /\ Issue!Kinds \cap Chat!Kinds = {}
        /\ Task!Kinds \cap Chat!Kinds = {} /\ Notify!Kinds \cap Task!Kinds = {}
        /\ Notify!Kinds \cap Issue!Kinds = {} /\ Notify!Kinds \cap Chat!Kinds = {}
        /\ Users!Kinds \cap Issue!Kinds = {} /\ Users!Kinds \cap Task!Kinds = {}
        /\ Users!Kinds \cap Chat!Kinds = {}
        /\ \A K2 \in {Issue!Kinds, Task!Kinds, Chat!Kinds, Notify!Kinds, Users!Kinds} :
             K2 \cap {"checkpoint", "legacy"} = {}
    BY DEF Issue!Kinds, Task!Kinds, Chat!Kinds, Notify!Kinds, Users!Kinds
  <1>3. QED
    BY <1>1, <1>2 DEF HasKind

\* A chain with the tree that its events make.
IsShown(t) == IsHistory(t.events) /\ t.tree = FullFold(t.events)

\* The tips of all refs are chains with the trees of their events.
LEMMA TipIsShown ==
    ASSUME HistInv, NEW t \in Tips
    PROVE  menu \in Menus /\ IsShown(t)
  <1>1. PICK r \in Places : t = tip[r]
    BY DEF HistInv, IndInv, Tips
  <1>2. QED
    BY <1>1, TipIsHistory DEF HistInv, IndInv, TipHolds, IsShown

\* Only the events say which of them count.
LEMMA CountedAt ==
    ASSUME NEW t
    PROVE  Counted(t) = Counted(At(t.events))
  BY DEF Counted, At

\* An entity that is there was created.
LEMMA ShownCreated ==
    ASSUME menu \in Menus, NEW t, IsShown(t), HasEntities, Created(t.tree)
    PROVE  HasKind(Creates) /\ t.tree # NewState
  <1>1. ~Created(NewState)
    BY DEF Created, NewState
  <1>2. QED
    BY <1>1, NeverCreated DEF IsShown

\* What the tree of an issue says.
LEMMA IssueShown ==
    ASSUME menu \in Menus, NEW t, IsShown(t), HasKind(Issue!Kinds), Created(t.tree)
    PROVE  IssueFits(Counted(t), t.tree)
  <1>1. HasKind(Creates) /\ t.tree # NewState
    BY ShownCreated DEF HasEntities
  <1>2. HasKind({"issue.create"})
    BY <1>1, Exclusive DEF HasKind, Creates, Task!Kinds, Chat!Kinds
  <1>3. QED
    BY <1>1, <1>2, CountedAt, IssueShows DEF IsShown

\* What the tree of a task says.
LEMMA TaskShown ==
    ASSUME menu \in Menus, NEW t, IsShown(t), HasKind(Task!Kinds), Created(t.tree)
    PROVE  TaskFits(t.events, Counted(t), t.tree)
  <1>1. HasKind(Creates) /\ t.tree # NewState
    BY ShownCreated DEF HasEntities
  <1>2. HasKind({"task.create"})
    BY <1>1, Exclusive DEF HasKind, Creates, Issue!Kinds, Chat!Kinds
  <1>3. QED
    BY <1>1, <1>2, CountedAt, TaskShows DEF IsShown

\* What the tree of a chat says.
LEMMA ChatShown ==
    ASSUME menu \in Menus, NEW t, IsShown(t), HasKind(Chat!Kinds), Created(t.tree)
    PROVE  ChatFits(Counted(t), t.tree)
  <1>1. HasKind(Creates) /\ t.tree # NewState
    BY ShownCreated DEF HasEntities
  <1>2. HasKind({"chat.create"})
    BY <1>1, Exclusive DEF HasKind, Creates, Issue!Kinds, Task!Kinds
  <1>3. QED
    BY <1>1, <1>2, CountedAt, ChatShows DEF IsShown

\* What the tree of the stream says.
LEMMA NotifyShown ==
    ASSUME menu \in Menus, NEW t, IsShown(t), HasKind(Notify!Kinds)
    PROVE  NotifyFits(Counted(t), t.tree)
  BY CountedAt, NotifyShows DEF IsShown

\* What the tree of the registry says.
LEMMA UsersShown ==
    ASSUME menu \in Menus, NEW t, IsShown(t), HasKind(Users!Kinds)
    PROVE  UsersFits(Counted(t), t.tree)
  BY CountedAt, UsersShows DEF IsShown

-----------------------------------------------------------------------------
(* What the trees at the tips show.                                        *)

\* A history that fits its events is a path of the machine.
LEMMA HistoryIsPath ==
    ASSUME NEW E, NEW C, NEW s, HistoryOf(E, C, s)
    PROVE  HistoryFits(s)
  BY DEF HistoryOf

\* However merges slip transitions between others, closed_at is set exactly
\* while an issue is closed or archived, and the history of a task is a path of
\* the documented machine that ends in its status (issue.status, task.status).
THEOREM StatusMachinesHolds == Spec => []StatusMachines
  <1>1. HistInv => StatusMachines
    <2> SUFFICES ASSUME HistInv, NEW t \in Tips, Created(t.tree)
                 PROVE  /\ HasKind(Issue!Kinds) => ClosedAtFits(t.tree)
                        /\ HasKind(Task!Kinds) => HistoryFits(t.tree)
      BY DEF StatusMachines
    <2> menu \in Menus /\ IsShown(t)
      BY TipIsShown
    <2>1. HasKind(Issue!Kinds) => ClosedAtFits(t.tree)
      BY IssueShown DEF IssueFits
    <2>2. HasKind(Task!Kinds) => HistoryFits(t.tree)
      <3>1. HasKind(Task!Kinds) =>
              HistoryOf(t.events, Counted(t), t.tree)
        BY TaskShown DEF TaskFits
      <3>2. QED
        BY <3>1, HistoryIsPath
    <2>3. QED
      BY <2>1, <2>2
  <1>2. QED
    BY <1>1, HistoryInvariance, PTL

\* Link events of both features, of which an entity has one.
LEMMA LinksOf ==
    ASSUME NEW t
    PROVE  LET E == OfKind(t, "issue.link") \cup OfKind(t, "task.link") IN
           \A links : LinksFit(Counted(t), links) <=>
             links = IF E = {} \/ Latest(E).data.remove THEN <<>> ELSE <<1>>
  <1>1. OfKind(t, "issue.link") \cup OfKind(t, "task.link")
          = WithKind(Counted(t), {"issue.link", "task.link"})
    BY DEF OfKind, WithKind
  <1>2. QED
    BY <1>1 DEF LinksFit

\* Scalars, labels, assignees, links, groups and policy show what the last event
\* about them says, in whatever order the events arrived.
THEOREM LastEventWinsHolds == Spec => []LastEventWins
  <1>1. HistInv => LastEventWins
    <2> SUFFICES ASSUME HistInv, NEW t \in Tips
                 PROVE  LET s == t.tree IN
        /\ HasKind(Creates) /\ Created(s) => ShowsLatest(t, s.meta, "title")
        /\ HasKind(Task!Kinds) /\ Created(s) => ShowsLatest(t, s.meta, "owner")
        /\ HasKind(Chat!Kinds) /\ Created(s) => ShowsLatest(t, s.meta, "status")
        /\ HasKind(Issue!Kinds) /\ Created(s) =>
             \A x \in Members :
               /\ HoldsLatest(OfKind(t, "issue.label"), {}, s.meta.labels, x)
               /\ HoldsLatest(OfKind(t, "issue.assign"), FirstAssignees(t),
                              s.meta.assignees, x)
        /\ HasKind({"issue.link", "task.link"}) /\ Created(s) =>
             LET E == OfKind(t, "issue.link") \cup OfKind(t, "task.link") IN
             s.meta.links = IF E = {} \/ Latest(E).data.remove
                            THEN <<>> ELSE <<1>>
        /\ HasKind({"users.group_set"}) =>
             LET E == OfKind(t, "users.group_set")
                         \cup OfKind(t, "users.group_remove") IN
             Users!Groups(s) =
                IF E = {} \/ Latest(E).kind = "users.group_remove"
                THEN <<>> ELSE Put(<<>>, 1, Latest(E).data.members)
        /\ HasKind({"users.policy_set"}) =>
             LET E == OfKind(t, "users.policy_set") IN
             Users!Policy(s) = IF E = {} THEN Users!NoPolicy
                               ELSE Latest(E).data.rules
      BY DEF LastEventWins
    <2> DEFINE s == t.tree
    <2> menu \in Menus /\ IsShown(t)
      BY TipIsShown
    <2>1. \A record, field : ShowsLatest(t, record, field)
                               <=> LatestShown(Counted(t), record, field)
      BY DEF ShowsLatest, LatestShown, WithField
    <2>2. HasKind(Issue!Kinds) /\ Created(s) =>
            /\ ShowsLatest(t, s.meta, "title")
            /\ \A x \in Members :
                 /\ HoldsLatest(WithKind(Counted(t), {"issue.label"}), {}, s.meta.labels, x)
                 /\ HoldsLatest(WithKind(Counted(t), {"issue.assign"}),
                                AssignedFirst(Counted(t)), s.meta.assignees, x)
            /\ LinksFit(Counted(t), s.meta.links)
      BY <2>1, IssueShown DEF IssueFits
    <2>3. HasKind(Task!Kinds) /\ Created(s) =>
            /\ ShowsLatest(t, s.meta, "title") /\ ShowsLatest(t, s.meta, "owner")
            /\ LinksFit(Counted(t), s.meta.links)
      BY <2>1, TaskShown DEF TaskFits
    <2>4. HasKind(Chat!Kinds) /\ Created(s) =>
            ShowsLatest(t, s.meta, "title") /\ ShowsLatest(t, s.meta, "status")
      BY <2>1, ChatShown DEF ChatFits
    <2>5. HasKind(Users!Kinds) =>
            GroupsFit(Counted(t), Users!Groups(s)) /\ PolicyFits(Counted(t), Users!Policy(s))
      BY UsersShown DEF UsersFits
    <2>6. /\ HasKind(Creates) => HasKind(Issue!Kinds) \/ HasKind(Task!Kinds) \/ HasKind(Chat!Kinds)
          /\ HasKind({"issue.link", "task.link"}) => HasKind(Issue!Kinds) \/ HasKind(Task!Kinds)
          /\ HasKind({"users.group_set"}) => HasKind(Users!Kinds)
          /\ HasKind({"users.policy_set"}) => HasKind(Users!Kinds)
      BY DEF HasKind, Creates, Issue!Kinds, Task!Kinds, Chat!Kinds, Users!Kinds
    <2> HIDE DEF s
    <2>7. /\ OfKind(t, "issue.label") = WithKind(Counted(t), {"issue.label"})
          /\ OfKind(t, "issue.assign") = WithKind(Counted(t), {"issue.assign"})
          /\ FirstAssignees(t) = AssignedFirst(Counted(t))
      <3>1. \A kind : OfKind(t, kind) = WithKind(Counted(t), {kind})
        BY DEF OfKind, WithKind
      <3>2. QED
        BY <3>1 DEF FirstAssignees, AssignedFirst
    <2>8. LET E == OfKind(t, "users.group_set") \cup OfKind(t, "users.group_remove") IN
          GroupsFit(Counted(t), Users!Groups(s)) =>
            Users!Groups(s) = IF E = {} \/ Latest(E).kind = "users.group_remove"
                              THEN <<>> ELSE Put(<<>>, 1, Latest(E).data.members)
      <3>1. OfKind(t, "users.group_set") \cup OfKind(t, "users.group_remove")
              = WithKind(Counted(t), {"users.group_set", "users.group_remove"})
        BY DEF OfKind, WithKind
      <3>2. QED
        BY <3>1 DEF GroupsFit
    <2>9. LET E == OfKind(t, "users.policy_set") IN
          PolicyFits(Counted(t), Users!Policy(s)) =>
            Users!Policy(s) = IF E = {} THEN Users!NoPolicy ELSE Latest(E).data.rules
      <3>1. OfKind(t, "users.policy_set") = WithKind(Counted(t), {"users.policy_set"})
        BY DEF OfKind, WithKind
      <3>2. QED
        BY <3>1 DEF PolicyFits
    <2>10. LET E == OfKind(t, "issue.link") \cup OfKind(t, "task.link") IN
           LinksFit(Counted(t), s.meta.links) =>
             s.meta.links = IF E = {} \/ Latest(E).data.remove THEN <<>> ELSE <<1>>
      BY LinksOf
    <2>11. /\ HasKind(Creates) /\ Created(s) => ShowsLatest(t, s.meta, "title")
           /\ HasKind(Task!Kinds) /\ Created(s) => ShowsLatest(t, s.meta, "owner")
           /\ HasKind(Chat!Kinds) /\ Created(s) => ShowsLatest(t, s.meta, "status")
           /\ HasKind(Issue!Kinds) /\ Created(s) =>
                \A x \in Members :
                  /\ HoldsLatest(OfKind(t, "issue.label"), {}, s.meta.labels, x)
                  /\ HoldsLatest(OfKind(t, "issue.assign"), FirstAssignees(t),
                                 s.meta.assignees, x)
      BY <2>2, <2>3, <2>4, <2>6, <2>7
    <2>12. HasKind({"issue.link", "task.link"}) /\ Created(s) =>
             LinksFit(Counted(t), s.meta.links)
      BY <2>2, <2>3, <2>6
    <2>13. QED
      BY <2>5, <2>6, <2>8, <2>9, <2>10, <2>11, <2>12 DEF s
  <1>2. QED
    BY <1>1, HistoryInvariance, PTL

\* Comments and messages are all there and counted, and each is marked with the
\* last that supersedes it, and only with such.
THEOREM SupersededIsMarkedHolds == Spec => []SupersededIsMarked
  <1>1. HistInv => SupersededIsMarked
    <2> SUFFICES ASSUME HistInv, NEW t \in Tips,
                        HasKind({"issue.comment", "chat.post"}), Created(t.tree)
                 PROVE  LET E == OfKind(t, "issue.comment") \cup OfKind(t, "chat.post")
                            items == Given(t.tree.coll, "comments",
                                           Given(t.tree.coll, "messages", <<>>)) IN
            /\ {e.id : e \in E} \subseteq DOMAIN items
            /\ Cardinality(DOMAIN items) =
                 Given(t.tree.meta, "comment_count",
                       Given(t.tree.meta, "message_count", 0))
            /\ \A i \in DOMAIN items :
                 LET S == {e \in E : e.data.supersedes = i /\ e.id > i} IN
                 items[i].superseded_by = IF S = {} THEN Never ELSE Latest(S).id
      BY DEF SupersededIsMarked
    <2> DEFINE E == OfKind(t, "issue.comment") \cup OfKind(t, "chat.post")
               items == Given(t.tree.coll, "comments",
                              Given(t.tree.coll, "messages", <<>>))
               count == Given(t.tree.meta, "comment_count",
                              Given(t.tree.meta, "message_count", 0))
    <2> menu \in Menus /\ IsShown(t)
      BY TipIsShown
    <2>1. HasKind(Issue!Kinds) \/ HasKind(Chat!Kinds)
      BY DEF HasKind, Issue!Kinds, Chat!Kinds
    <2>2. ItemsFit(Counted(t), items) /\ count = Cardinality(DOMAIN items)
      <3>1. CASE HasKind(Issue!Kinds)
        <4>1. IssueFits(Counted(t), t.tree)
          BY <3>1, IssueShown
        <4>2. items = t.tree.coll.comments /\ count = t.tree.meta.comment_count
          BY <4>1 DEF IssueFits, IssueRecord, IssueMeta, Given
        <4>3. QED
          BY <4>1, <4>2 DEF IssueFits
      <3>2. CASE HasKind(Chat!Kinds)
        <4>1. ChatFits(Counted(t), t.tree)
          BY <3>2, ChatShown
        <4>2. items = t.tree.coll.messages /\ count = t.tree.meta.message_count
          BY <4>1 DEF ChatFits, ChatRecord, ChatMeta, Given
        <4>3. QED
          BY <4>1, <4>2 DEF ChatFits
      <3>3. QED
        BY <2>1, <3>1, <3>2
    <2> HIDE DEF items, count
    <2>3. E = {e \in Counted(t) : IsPost(e)}
      BY DEF OfKind, IsPost
    <2>4. {e.id : e \in E} \subseteq DOMAIN items
      BY <2>2, <2>3 DEF ItemsFit, IsItem
    <2>5. ASSUME NEW i \in DOMAIN items
          PROVE  {e \in E : e.data.supersedes = i /\ e.id > i} = Superseding(Counted(t), i)
      BY <2>3 DEF Superseding
    <2>6. \A i \in DOMAIN items :
            LET S == {e \in E : e.data.supersedes = i /\ e.id > i} IN
            items[i].superseded_by = IF S = {} THEN Never ELSE Latest(S).id
      BY <2>2, <2>5 DEF ItemsFit
    <2>7. QED
      BY <2>2, <2>4, <2>6 DEF items, count
  <1>2. QED
    BY <1>1, HistoryInvariance, PTL

\* The actors of a history are finitely many numbers.
LEMMA FewActors ==
    ASSUME NEW E, IsHistory(E), NEW S \in SUBSET E
    PROVE  ActorsOf(S) \in SUBSET Nat /\ IsFiniteSet(ActorsOf(S))
  <1>1. IsFiniteSet(S)
    BY FS_Subset DEF IsHistory, IsChain, IsEvents
  <1>2. IsFiniteSet(ActorsOf(S))
    <2>1. [d \in S |-> d.actor] \in Surjection(S, ActorsOf(S))
      BY DEF Surjection, ActorsOf
    <2>2. QED
      BY <1>1, <2>1, FS_Surjection
  <1>3. ActorsOf(S) \in SUBSET Clone
    BY DEF IsHistory, ActorsOf
  <1>4. QED
    BY <1>2, <1>3, EntityAssumption

\* Everyone who acked a post is listed once, in whatever order acks and post
\* arrived, and unread is what addresses a user who did not ack.
THEOREM AcksAreCountedHolds == Spec => []AcksAreCounted
  <1>1. HistInv => AcksAreCounted
    <2> SUFFICES ASSUME HistInv, HasKind(Notify!Kinds), NEW t \in Tips,
                        NEW post \in OfKind(t, "notify.post")
                 PROVE  LET list == Notify!AcksOf(t.tree, post.id)
                            ackers == {e.actor : e \in {e \in OfKind(t, "notify.ack") :
                                                          e.data.ack_of = post.id}} IN
            /\ list = Ordered(ackers)
            /\ \A c \in Clone :
                 post.id \in Notify!Unread(t.tree, c) <=>
                    /\ post.data.targets \cap {Notify!Everyone, <<"user", c>>} # {}
                    /\ c \notin ackers
      BY DEF AcksAreCounted
    <2> menu \in Menus /\ IsShown(t)
      BY TipIsShown
    <2> DEFINE S == AcksFor(Counted(t), post.id)
               ackers == {e.actor : e \in {e \in OfKind(t, "notify.ack") :
                                              e.data.ack_of = post.id}}
    <2>1. NotifyFits(Counted(t), t.tree)
      BY NotifyShown
    <2>2. ackers = ActorsOf(S)
      BY DEF ActorsOf, AcksFor, OfKind
    <2>3. S \in SUBSET t.events
      BY DEF AcksFor, Counted
    <2>4. Range(Ordered(ackers)) = ackers
      BY <2>2, <2>3, FewActors, RangeOfOrdered DEF IsShown
    <2>5. post \in WithKind(Counted(t), {"notify.post"})
      BY DEF OfKind, WithKind
    <2> HIDE DEF S, ackers
    <2>6. Notify!AcksOf(t.tree, post.id) = Ordered(ackers)
      BY <2>1, <2>2 DEF NotifyFits, S
    <2>7. post.id \in DOMAIN Posts(t.tree) /\ Posts(t.tree)[post.id].targets = post.data.targets
      BY <2>1, <2>5 DEF NotifyFits
    <2>8. ASSUME NEW c \in Clone
          PROVE  post.id \in Notify!Unread(t.tree, c) <=>
                    /\ post.data.targets \cap {Notify!Everyone, <<"user", c>>} # {}
                    /\ c \notin ackers
      <3>1. Notify!Range(Notify!AcksOf(t.tree, post.id)) = ackers
        BY <2>4, <2>6 DEF Range, Notify!Range
      <3>2. post.id \in Notify!Unread(t.tree, c) <=>
              /\ Notify!AddressedTo(Posts(t.tree)[post.id], c)
              /\ c \notin Notify!Range(Notify!AcksOf(t.tree, post.id))
        BY <2>7 DEF Notify!Unread, Posts, Given, Notify!Given
      <3>3. QED
        BY <2>7, <3>1, <3>2 DEF Notify!AddressedTo
    <2>9. QED
      BY <2>6, <2>8 DEF ackers
  <1>2. QED
    BY <1>1, HistoryInvariance, PTL

\* A key is listed once, from its first effective add on, and the first
\* revocation after that ends it for good.
THEOREM KeysFollowEventsHolds == Spec => []KeysFollowEvents
  <1>1. HistInv => KeysFollowEvents
    <2> SUFFICES ASSUME HistInv, HasKind({"users.key_add"}), NEW t \in Tips,
                        NEW u \in DOMAIN Users!Users(t.tree)
                 PROVE  LET keys == Users!Users(t.tree)[u].keys
                set == Earliest(OfKind(t, "users.user_set"))
                adds == {e \in OfKind(t, "users.key_add") : e.id > set.id}
                revokes == {e \in OfKind(t, "users.key_revoke") :
                              adds # {} /\ e.id > Earliest(adds).id} IN
            /\ Len(keys) = IF adds = {} THEN 0 ELSE 1
            /\ adds # {} =>
                 /\ keys[1].added_at = Earliest(adds).id
                 /\ keys[1].revoked_at = IF revokes = {} THEN Never
                                         ELSE Earliest(revokes).id
            /\ 1 \in Users!ActiveKeysForEmail(t.tree, 1) <=>
                 /\ adds # {} /\ revokes = {}
                 /\ 1 \in Users!Users(t.tree)[u].emails
      BY DEF KeysFollowEvents
    <2> DEFINE users == Users!Users(t.tree)
               keys == users[u].keys
               set == Earliest(OfKind(t, "users.user_set"))
               adds == {e \in OfKind(t, "users.key_add") : e.id > set.id}
               revokes == {e \in OfKind(t, "users.key_revoke") :
                              adds # {} /\ e.id > Earliest(adds).id}
               C == Counted(t)
    <2> menu \in Menus /\ IsShown(t)
      BY TipIsShown
    <2>1. UsersFits(C, t.tree)
      <3>1. HasKind(Users!Kinds)
        BY DEF HasKind, Users!Kinds
      <3>2. QED
        BY <3>1, UsersShown
    <2>2. adds = Adds(C) /\ revokes = Revokes(C)
      <3>1. OfKind(t, "users.user_set") = Sets(C)
        BY DEF OfKind, Sets, WithKind
      <3>2. adds = Adds(C)
        BY <3>1 DEF OfKind, Adds, WithKind
      <3> HIDE DEF adds
      <3>3. QED
        BY <3>2 DEF OfKind, Revokes, WithKind
    <2>3. u = 1 /\ DOMAIN users = {1} /\ keys = KeyList(C)
      BY <2>1 DEF UsersFits, KeysFit
    <2>4. \A e \in Revokes(C) : e.id # Never
      BY DEF IsShown, IsHistory, Counted, Revokes, WithKind
    <2>5. Revokes(C) # {} => Earliest(Revokes(C)) \in Revokes(C)
      <3>1. IsEvents(Revokes(C))
        BY FS_Subset DEF IsShown, IsHistory, IsChain, Counted, Revokes, WithKind, IsEvents
      <3>2. QED
        BY <3>1, EarliestIs
    <2> DEFINE revoked == IF Revokes(C) = {} THEN Never ELSE Earliest(Revokes(C)).id
    <2> HIDE DEF users, adds, revokes, C, keys
    <2>6. /\ Adds(C) = {} => keys = <<>>
          /\ Adds(C) # {} => keys = <<TheKey(Earliest(Adds(C)).id, revoked)>>
      BY <2>3 DEF KeyList
    <2>7. revoked = Never <=> Revokes(C) = {}
      BY <2>4, <2>5
    <2> HIDE DEF revoked
    <2>8. Len(keys) = IF adds = {} THEN 0 ELSE 1
      BY <2>2, <2>6
    <2>9. adds # {} => /\ keys[1].added_at = Earliest(adds).id
                       /\ keys[1].revoked_at = IF revokes = {} THEN Never
                                               ELSE Earliest(revokes).id
      BY <2>2, <2>6 DEF TheKey, revoked
    <2>10. 1 \in Users!ActiveKeysForEmail(t.tree, 1) <=>
              /\ adds # {} /\ revokes = {} /\ 1 \in users[u].emails
      <3>1. Users!Range(users) = {users[u]}
        BY <2>3 DEF Users!Range
      <3>2. Users!Range(keys) = IF Adds(C) = {} THEN {}
                                ELSE {TheKey(Earliest(Adds(C)).id, revoked)}
        <4>1. \A x : Users!Range(<<x>>) = {x}
          BY DEF Users!Range
        <4>2. Users!Range(<<>>) = {}
          BY DEF Users!Range
        <4>3. QED
          BY <2>6, <4>1, <4>2
      <3>3. \A x : x \in UNION {Users!Range(v.keys) :
                                 v \in {v \in Users!Range(users) : 1 \in v.emails}}
                     <=> 1 \in users[u].emails /\ x \in Users!Range(keys)
        BY <3>1 DEF keys
      <3>4. Users!ActiveKeysForEmail(t.tree, 1) =
              {k.pub : k \in {k \in Users!Range(keys) :
                                1 \in users[u].emails /\ k.revoked_at = Users!Never}}
        BY <3>3 DEF Users!ActiveKeysForEmail, users
      <3>5. \A a, b : TheKey(a, b).pub = 1 /\ TheKey(a, b).revoked_at = b
        BY DEF TheKey
      <3>6. Users!Never = Never
        BY DEF Users!Never, Never
      <3>7. 1 \in Users!ActiveKeysForEmail(t.tree, 1) <=>
              Adds(C) # {} /\ 1 \in users[u].emails /\ revoked = Never
        BY <3>2, <3>4, <3>5, <3>6
      <3>8. QED
        BY <2>2, <2>7, <3>7
    <2>11. QED
      BY <2>8, <2>9, <2>10 DEF users, keys, adds, revokes
  <1>2. QED
    BY <1>1, HistoryInvariance, PTL

-----------------------------------------------------------------------------
(* What a longer chain shows of a shorter one.                             *)

\* With more events the latest is no earlier and the earliest no later.
LEMMA LatestGrows ==
    ASSUME NEW F, IsEvents(F), NEW E \in SUBSET F, E # {}
    PROVE  /\ Latest(E) \in E /\ Latest(F) \in F /\ Latest(E).id <= Latest(F).id
           /\ Earliest(E) \in E /\ Earliest(F) \in F /\ Earliest(F).id <= Earliest(E).id
  <1>1. IsEvents(E) /\ F # {}
    BY FS_Subset DEF IsEvents
  <1>2. Latest(E) \in E /\ Latest(F) \in F /\ \A d \in F : d.id <= Latest(F).id
    BY <1>1, LatestIs
  <1>3. Earliest(E) \in E /\ Earliest(F) \in F /\ \A d \in F : Earliest(F).id <= d.id
    BY <1>1, EarliestIs
  <1>4. QED
    BY <1>2, <1>3

\* With more events no item and no mark goes away.
LEMMA ItemsStay ==
    ASSUME NEW D, IsEvents(D), NEW C \in SUBSET D, NEW x, NEW y,
           ItemsFit(C, x), ItemsFit(D, y)
    PROVE  /\ DOMAIN x \subseteq DOMAIN y
           /\ \A i \in DOMAIN x : x[i].superseded_by <= y[i].superseded_by
  <1>1. DOMAIN x \subseteq DOMAIN y
    BY DEF ItemsFit
  <1>2. ASSUME NEW i \in DOMAIN x
        PROVE  x[i].superseded_by <= y[i].superseded_by
    <2> DEFINE S == Superseding(C, i)
               T == Superseding(D, i)
    <2>1. /\ x[i].superseded_by = IF S = {} THEN Never ELSE Latest(S).id
          /\ y[i].superseded_by = IF T = {} THEN Never ELSE Latest(T).id
      BY <1>1 DEF ItemsFit
    <2>2. S \subseteq T /\ IsEvents(T) /\ \A e \in T : e.id \in Nat
      BY FS_Subset DEF Superseding, IsEvents
    <2> HIDE DEF S, T
    <2>3. CASE S = {}
      <3>1. T # {} => Latest(T) \in T
        BY <2>2, LatestIs
      <3>2. y[i].superseded_by \in Nat
        BY <2>1, <2>2, <3>1 DEF Never
      <3>3. QED
        BY <2>1, <2>3, <3>2 DEF Never
    <2>4. CASE S # {}
      BY <2>1, <2>2, <2>4, LatestGrows
    <2>5. QED
      BY <2>3, <2>4
  <1>3. QED
    BY <1>1, <1>2

\* An entity is there as soon as an event counts.
LEMMA CreatedIfCounts ==
    ASSUME menu \in Menus, NEW t, IsShown(t), HasEntities
    PROVE  /\ HasKind(Creates) => (Created(t.tree) <=> Counted(t) # {})
           /\ ~Created(t.tree) => t.tree = NewState
  <1>1. ~Created(NewState)
    BY DEF Created, NewState
  <1>2. CASE ~HasKind(Creates)
    BY <1>2, NeverCreated DEF IsShown
  <1>3. CASE HasKind({"issue.create"})
    <2>1. IF Counted(t) = {} THEN t.tree = NewState ELSE IssueFits(Counted(t), t.tree)
      BY <1>3, CountedAt, IssueShows DEF IsShown
    <2>2. Counted(t) # {} => Created(t.tree)
      BY <2>1 DEF IssueFits, IssueRecord, IssueMeta, Created, NoMeta
    <2>3. QED
      BY <1>1, <2>1, <2>2
  <1>4. CASE HasKind({"task.create"})
    <2>1. IF Counted(t) = {} THEN t.tree = NewState
          ELSE TaskFits(t.events, Counted(t), t.tree)
      BY <1>4, CountedAt, TaskShows DEF IsShown
    <2>2. Counted(t) # {} => Created(t.tree)
      BY <2>1 DEF TaskFits, TaskRecord, TaskMeta, Created, NoMeta
    <2>3. QED
      BY <1>1, <2>1, <2>2
  <1>5. CASE HasKind({"chat.create"})
    <2>1. IF Counted(t) = {} THEN t.tree = NewState ELSE ChatFits(Counted(t), t.tree)
      BY <1>5, CountedAt, ChatShows DEF IsShown
    <2>2. Counted(t) # {} => Created(t.tree)
      BY <2>1 DEF ChatFits, ChatRecord, ChatMeta, Created, NoMeta
    <2>3. QED
      BY <1>1, <2>1, <2>2
  <1>6. QED
    BY <1>2, <1>3, <1>4, <1>5 DEF HasKind, Creates

\* The stream's state says whether anything was posted or acked; the registry's
\* has no meta at all.
LEMMA NotifySeeded ==
    ASSUME menu \in Menus, HasKind(Notify!Kinds), NEW t, IsShown(t)
    PROVE  Created(t.tree) <=> Counted(t) # {}
  <1> DEFINE E == t.events
             Good == {C \in SUBSET E : Created(FullFold(C)) <=> C # {}}
  <1>1. {} \in Good
    BY FoldOfNothing DEF FullFold, Created, NewState
  <1>2. ASSUME NEW e \in E, NEW C \in SUBSET E, C \in Good,
               IsEvents(C), IsEdit(e), Shaped(e), e.id \in Nat \ {0},
               \A d \in C : IsEdit(d) /\ Shaped(d) /\ d.id \in Nat \ {0} /\ d.id < e.id,
               HasKind(Creates) => (e.kind \in Creates <=> C = {}),
               FullFold(C \cup {e}) = Apply(FullFold(C), e)
        PROVE  C \cup {e} \in Good
    <2> DEFINE s == FullFold(C)
               u == Notify!Ensure(s)
    <2>1. e.kind \in Notify!Kinds /\ FullFold(C \cup {e}) = Notify!Apply(s, e)
      BY <1>2, FeatureApply
    <2>2. /\ u = [meta |-> u.meta, coll |-> u.coll, scratch |-> u.scratch]
          /\ u.meta # NoMeta
      <3>1. [seeded |-> TRUE] # NoMeta
        BY DEF NoMeta
      <3>2. QED
        BY <3>1 DEF Notify!Ensure, Notify!Created, Notify!NoMeta, NoMeta
    <2>3. Notify!Apply(s, e).meta = u.meta
      <3>1. \/ Notify!Apply(s, e) = u
            \/ \E v : Notify!Apply(s, e) = [u EXCEPT !.coll = v]
            \/ \E v : Notify!Apply(s, e) = [u EXCEPT !.scratch = v]
        <4>1. CASE e.kind = "notify.post"
          <5>1. Notify!Apply(s, e) = Notify!Post(s, e)
            BY <4>1 DEF Notify!Apply
          <5>2. QED
            BY <5>1, Zenon DEF Notify!Post
        <4>2. CASE e.kind = "notify.ack"
          <5>1. Notify!Apply(s, e) = Notify!Ack(s, e)
            BY <4>2 DEF Notify!Apply
          <5>2. QED
            BY <5>1, Zenon DEF Notify!Ack
        <4>3. QED
          BY <2>1, <4>1, <4>2 DEF Notify!Kinds
      <3> HIDE DEF u
      <3>2. QED
        BY <2>2, <3>1
    <2>4. QED
      BY <2>1, <2>2, <2>3 DEF Created
  <1>3. QED
    <2> HIDE DEF Good
    <2>1. Counted(At(E)) \in Good /\ FullFold(Counted(At(E))) = FullFold(E)
      BY <1>1, <1>2, CountedInduction DEF IsShown
    <2>2. QED
      BY <2>1, CountedAt DEF Good, IsShown

\* The registry has no meta.
LEMMA UsersNeverCreated ==
    ASSUME menu \in Menus, HasKind(Users!Kinds), NEW t, IsShown(t)
    PROVE  ~Created(t.tree)
  <1> DEFINE E == t.events
             Good == {C \in SUBSET E : /\ ~Created(FullFold(C))
                                       /\ IsTree(FullFold(C), Users!ScratchKeys)}
  <1>1. {} \in Good
    BY FoldOfNothing, NewTree DEF FullFold, Created, NewState
  <1>2. ASSUME NEW e \in E, NEW C \in SUBSET E, C \in Good,
               IsEvents(C), IsEdit(e), Shaped(e), e.id \in Nat \ {0},
               \A d \in C : IsEdit(d) /\ Shaped(d) /\ d.id \in Nat \ {0} /\ d.id < e.id,
               HasKind(Creates) => (e.kind \in Creates <=> C = {}),
               FullFold(C \cup {e}) = Apply(FullFold(C), e)
        PROVE  C \cup {e} \in Good
    <2> DEFINE s == FullFold(C)
    <2>1. e.kind \in Users!Kinds /\ FullFold(C \cup {e}) = Users!Apply(s, e)
      BY <1>2, FeatureApply
    <2>2. IsTree(s, Users!ScratchKeys) /\ ~Created(s)
      BY <1>2
    <2> HIDE DEF s
    <2>3. Users!Apply(s, e).meta = s.meta
      BY <2>2 DEF IsTree, Users!Apply, Users!UserSet, Users!KeyAdd, Users!KeyRevoke,
         Users!GroupSet, Users!GroupRemove, Users!PolicySet, Users!Ensure,
         Users!SetUser, Users!SetKeys
    <2>4. IsTree(Users!Apply(s, e), Users!ScratchKeys)
      BY <2>2, UsersTree
    <2>5. QED
      BY <2>1, <2>2, <2>3, <2>4 DEF Created
  <1>3. QED
    <2> HIDE DEF Good
    <2>1. Counted(At(E)) \in Good /\ FullFold(Counted(At(E))) = FullFold(E)
      BY <1>1, <1>2, CountedInduction DEF IsShown
    <2>2. QED
      BY <2>1 DEF Good, IsShown

\* Without a feature nothing is edited.
LEMMA NoFeature ==
    ASSUME menu \in Menus, NEW t, IsShown(t), ~HasEntities, ~HasKind(Notify!Kinds),
           ~HasKind(Users!Kinds)
    PROVE  t.tree = NewState
  <1>1. \A e : ~IsEdit(e)
    BY OneFeature DEF IsEdit, HasEntities, HasKind
  <1>2. {e \in t.events : ~IsCheckpoint(e)} = {e \in {} : ~IsCheckpoint(e)}
    BY <1>1 DEF IsShown, IsHistory, IsChain
  <1>3. FullFold(t.events) = FullFold({})
    BY <1>2, Zenon DEF FullFold, FoldFrom
  <1>4. QED
    BY <1>3, FoldOfNothing DEF IsShown, FullFold

-----------------------------------------------------------------------------

\* The same entity, later.
Later(p, q) == IsShown(p) /\ IsShown(q) /\ p.events \subseteq q.events

\* What counts goes on counting: an earlier create only adds to it.
LEMMA CountedStays ==
    ASSUME NEW p, NEW q, Later(p, q)
    PROVE  /\ Counted(p) \subseteq Counted(q) /\ IsEvents(Counted(q))
           /\ Counted(p) \subseteq p.events
           /\ \A e \in Counted(q) : e.id \in Nat \ {0}
           /\ \A e \in p.events, d \in Counted(p) : e.id = d.id => e = d
  <1>1. IsEvents(q.events) /\ \A e \in q.events : e.id # Never
    BY DEF Later, IsShown, IsHistory, IsChain
  <1>2. Counted(p) \subseteq Counted(q) /\ Counted(q) \subseteq q.events
        /\ Counted(p) \subseteq p.events
    BY DEF Later, Counted
  <1>3. p.events \subseteq q.events
    BY DEF Later
  <1>4. QED
    BY <1>1, <1>2, <1>3, FS_Subset DEF IsEvents, Never

\* Nothing of what the other features keep is there.
LEMMA OthersEmpty ==
    ASSUME NEW s
    PROVE  /\ "acks" \notin DOMAIN s.scratch => DOMAIN Notify!Acks(s) = {}
           /\ "users" \notin DOMAIN s.coll => DOMAIN Users!Users(s) = {}
           /\ "notes" \notin DOMAIN s.coll => DOMAIN Given(s.coll, "notes", <<>>) = {}
  <1>1. DOMAIN <<>> = {}
    OBVIOUS
  <1>2. QED
    BY <1>1 DEF Notify!Acks, Notify!Given, Users!Users, Users!Given, Given

\* An entity that is not there shows nothing.
LEMMA NothingKept ==
    ASSUME NEW p, NEW q, p.tree = NewState
    PROVE  Keeps(p, q)
  <1> DEFINE s == p.tree
  <1>1. ~Created(s) /\ DOMAIN s.coll = {} /\ DOMAIN s.scratch = {}
    BY DEF Created, NewState
  <1>2. /\ DOMAIN Notify!Acks(s) = {} /\ DOMAIN Users!Users(s) = {}
        /\ DOMAIN Given(s.coll, "notes", <<>>) = {}
    BY <1>1, OthersEmpty
  <1>3. OwnNotes(p) = {}
    BY <1>2 DEF OwnNotes
  <1> HIDE DEF s
  <1>4. QED
    BY <1>1, <1>2, <1>3 DEF Keeps, s

\* A longer chain takes back nothing of an issue.
LEMMA IssueKept ==
    ASSUME menu \in Menus, NEW p, NEW q, Later(p, q), HasKind(Issue!Kinds)
    PROVE  Keeps(p, q)
  <1>1. CASE ~Created(p.tree)
    BY <1>1, CreatedIfCounts, NothingKept DEF HasEntities, Later
  <1>2. CASE Created(p.tree)
    <2> DEFINE s == p.tree
               t == q.tree
    <2>1. Created(t)
      <3>1. HasKind(Creates)
        BY <1>2, ShownCreated DEF HasEntities, Later
      <3>2. QED
        BY <1>2, <3>1, CountedStays, CreatedIfCounts DEF HasEntities, Later
    <2>2. IssueFits(Counted(p), s) /\ IssueFits(Counted(q), t)
      BY <1>2, <2>1, IssueShown DEF Later
    <2>3. /\ DOMAIN s.coll = {"comments"} /\ DOMAIN t.coll = {"comments"}
          /\ "acks" \notin DOMAIN s.scratch
      BY <2>2 DEF IssueFits, IssueRecord, IsTree, Issue!ScratchKeys
    <2>4. /\ DOMAIN s.coll.comments \subseteq DOMAIN t.coll.comments
          /\ \A i \in DOMAIN s.coll.comments :
                s.coll.comments[i].superseded_by <= t.coll.comments[i].superseded_by
      <3>1. ItemsFit(Counted(p), s.coll.comments) /\ ItemsFit(Counted(q), t.coll.comments)
        BY <2>2 DEF IssueFits
      <3>2. IsEvents(Counted(q)) /\ Counted(p) \in SUBSET Counted(q)
        BY CountedStays
      <3> HIDE DEF s, t
      <3>3. QED
        BY <3>1, <3>2, ItemsStay
    <2>5. /\ DOMAIN Notify!Acks(s) = {} /\ DOMAIN Users!Users(s) = {}
          /\ DOMAIN Given(s.coll, "notes", <<>>) = {}
      BY <2>3, OthersEmpty
    <2>6. OwnNotes(p) = {}
      BY <2>5 DEF OwnNotes
    <2>7. ~HasKind(Chat!Kinds)
      BY Exclusive
    <2> HIDE DEF s, t
    <2>8. QED
      BY <2>1, <2>3, <2>4, <2>5, <2>6, <2>7 DEF Keeps, s, t
  <1>3. QED
    BY <1>1, <1>2

\* A longer chain takes back nothing of a task: not its own notes.
LEMMA TaskKept ==
    ASSUME menu \in Menus, NEW p, NEW q, Later(p, q), HasKind(Task!Kinds)
    PROVE  Keeps(p, q)
  <1>1. CASE ~Created(p.tree)
    BY <1>1, CreatedIfCounts, NothingKept DEF HasEntities, Later
  <1>2. CASE Created(p.tree)
    <2> DEFINE s == p.tree
               t == q.tree
    <2>1. Created(t)
      <3>1. HasKind(Creates)
        BY <1>2, ShownCreated DEF HasEntities, Later
      <3>2. QED
        BY <1>2, <3>1, CountedStays, CreatedIfCounts DEF HasEntities, Later
    <2>2. TaskFits(p.events, Counted(p), s) /\ TaskFits(q.events, Counted(q), t)
      BY <1>2, <2>1, TaskShown DEF Later
    <2>3. /\ DOMAIN s.coll = {"notes"} /\ DOMAIN t.coll = {"notes"}
          /\ "acks" \notin DOMAIN s.scratch
      BY <2>2 DEF TaskFits, TaskRecord, IsTree, Task!ScratchKeys
    <2>4. NotesFit(Counted(p), s.coll.notes) /\ NotesFit(Counted(q), t.coll.notes)
      BY <2>2 DEF TaskFits
    <2>5. /\ DOMAIN Notify!Acks(s) = {} /\ DOMAIN Users!Users(s) = {}
      BY <2>3, OthersEmpty
    <2>6. OwnNotes(p) \subseteq OwnNotes(q)
      <3> SUFFICES ASSUME NEW i \in OwnNotes(p) PROVE i \in OwnNotes(q)
        OBVIOUS
      <3>1. PICK e \in p.events : e.kind = "task.note" /\ e.id = i
        BY DEF OwnNotes
      <3>2. i \in DOMAIN s.coll.notes
        BY <2>3 DEF OwnNotes, Given
      <3>3. PICK d \in Counted(p) : d.id = i
        BY <2>4, <3>2 DEF NotesFit
      <3>4. e \in Counted(q) /\ e \in q.events
        BY <3>1, <3>3, CountedStays DEF Later
      <3>5. i \in DOMAIN t.coll.notes
        BY <2>4, <3>1, <3>4 DEF NotesFit, WithKind
      <3>6. QED
        BY <2>3, <3>1, <3>4, <3>5 DEF OwnNotes, Given
    <2>7. ~HasKind(Chat!Kinds)
      BY Exclusive
    <2> HIDE DEF s, t
    <2>8. QED
      BY <2>1, <2>3, <2>5, <2>6, <2>7 DEF Keeps, s, t
  <1>3. QED
    BY <1>1, <1>2

\* A longer chain takes back nothing of a chat.
LEMMA ChatKept ==
    ASSUME menu \in Menus, NEW p, NEW q, Later(p, q), HasKind(Chat!Kinds)
    PROVE  Keeps(p, q)
  <1>1. CASE ~Created(p.tree)
    BY <1>1, CreatedIfCounts, NothingKept DEF HasEntities, Later
  <1>2. CASE Created(p.tree)
    <2> DEFINE s == p.tree
               t == q.tree
    <2>1. Created(t)
      <3>1. HasKind(Creates)
        BY <1>2, ShownCreated DEF HasEntities, Later
      <3>2. QED
        BY <1>2, <3>1, CountedStays, CreatedIfCounts DEF HasEntities, Later
    <2>2. ChatFits(Counted(p), s) /\ ChatFits(Counted(q), t)
      BY <1>2, <2>1, ChatShown DEF Later
    <2>3. /\ DOMAIN s.coll = {"messages"} /\ DOMAIN t.coll = {"messages"}
          /\ "acks" \notin DOMAIN s.scratch
      BY <2>2 DEF ChatFits, ChatRecord, IsTree, Chat!ScratchKeys
    <2>4. /\ DOMAIN s.coll.messages \subseteq DOMAIN t.coll.messages
          /\ \A i \in DOMAIN s.coll.messages :
                s.coll.messages[i].superseded_by <= t.coll.messages[i].superseded_by
      <3>1. ItemsFit(Counted(p), s.coll.messages) /\ ItemsFit(Counted(q), t.coll.messages)
        BY <2>2 DEF ChatFits
      <3>2. IsEvents(Counted(q)) /\ Counted(p) \in SUBSET Counted(q)
        BY CountedStays
      <3> HIDE DEF s, t
      <3>3. QED
        BY <3>1, <3>2, ItemsStay
    <2>5. /\ DOMAIN Notify!Acks(s) = {} /\ DOMAIN Users!Users(s) = {}
          /\ DOMAIN Given(s.coll, "notes", <<>>) = {}
      BY <2>3, OthersEmpty
    <2>6. OwnNotes(p) = {}
      BY <2>5 DEF OwnNotes
    <2>7. s.meta.participants \subseteq t.meta.participants
      BY <2>2, CountedStays DEF ChatFits, ActorsOf, WithKind
    <2> HIDE DEF s, t
    <2>8. QED
      BY <2>1, <2>3, <2>4, <2>5, <2>6, <2>7 DEF Keeps, s, t
  <1>3. QED
    BY <1>1, <1>2

\* A longer chain takes back nothing of the stream.
LEMMA NotifyKept ==
    ASSUME menu \in Menus, NEW p, NEW q, Later(p, q), HasKind(Notify!Kinds)
    PROVE  Keeps(p, q)
  <1> DEFINE s == p.tree
             t == q.tree
             C == Counted(p)
             D == Counted(q)
  <1>1. NotifyFits(C, s) /\ NotifyFits(D, t)
    BY NotifyShown DEF Later
  <1>2. C \subseteq D /\ D \subseteq q.events
    BY CountedStays DEF Later, Counted
  <1>3. Created(s) => Created(t)
    BY <1>2, NotifySeeded DEF Later
  <1>4. ~HasKind(Chat!Kinds)
    BY OneFeature DEF HasKind, Issue!Kinds, Task!Kinds, Chat!Kinds, Notify!Kinds,
                      Users!Kinds
  <1>5. /\ DOMAIN s.coll = IF C = {} THEN {} ELSE {"posts"}
        /\ DOMAIN t.coll = IF D = {} THEN {} ELSE {"posts"}
    BY <1>1 DEF NotifyFits
  <1>6. ASSUME NEW name \in DOMAIN s.coll
        PROVE  /\ name = "posts" /\ name \in DOMAIN t.coll
               /\ DOMAIN s.coll[name] \subseteq DOMAIN t.coll[name]
    <2>1. C # {} /\ D # {} /\ name = "posts" /\ name \in DOMAIN t.coll
      BY <1>2, <1>5, <1>6
    <2>2. s.coll[name] = Posts(s) /\ t.coll[name] = Posts(t)
      BY <1>5, <2>1 DEF Posts, Given
    <2>3. /\ DOMAIN Posts(s) = {e.id : e \in WithKind(C, {"notify.post"})}
          /\ DOMAIN Posts(t) = {e.id : e \in WithKind(D, {"notify.post"})}
      BY <1>1 DEF NotifyFits
    <2>4. WithKind(C, {"notify.post"}) \subseteq WithKind(D, {"notify.post"})
      BY <1>2 DEF WithKind
    <2> HIDE DEF C, D, s, t
    <2>5. QED
      BY <2>1, <2>2, <2>3, <2>4
  <1>7. ASSUME NEW post
        PROVE  Range(Notify!AcksOf(s, post)) \subseteq Range(Notify!AcksOf(t, post))
    <2> DEFINE A == ActorsOf(AcksFor(C, post))
               B == ActorsOf(AcksFor(D, post))
    <2>1. Notify!AcksOf(s, post) = Ordered(A) /\ Notify!AcksOf(t, post) = Ordered(B)
      BY <1>1 DEF NotifyFits
    <2>2. AcksFor(C, post) \in SUBSET q.events /\ AcksFor(D, post) \in SUBSET q.events
      BY <1>2 DEF AcksFor
    <2>3. Range(Ordered(A)) = A /\ Range(Ordered(B)) = B
      BY <2>2, FewActors, RangeOfOrdered DEF Later, IsShown
    <2>4. A \subseteq B
      BY <1>2 DEF ActorsOf, AcksFor
    <2> HIDE DEF A, B, s, t
    <2>5. QED
      BY <2>1, <2>3, <2>4
  <1>8. /\ DOMAIN Users!Users(s) = {} /\ DOMAIN Given(s.coll, "notes", <<>>) = {}
    BY <1>5, OthersEmpty
  <1>9. OwnNotes(p) = {}
    BY <1>8 DEF OwnNotes
  <1> HIDE DEF s, t, C, D
  <1>10. QED
    BY <1>3, <1>4, <1>6, <1>7, <1>8, <1>9 DEF Keeps, s, t

\* The first add and the first revocation after it only move to earlier times.
LEMMA KeysStay ==
    ASSUME NEW D, IsEvents(D), \A e \in D : e.id \in Nat \ {0}, NEW C \in SUBSET D,
           Sets(C) # {}, NEW k \in Range(KeyList(C)), k.revoked_at # Never
    PROVE  \E l \in Range(KeyList(D)) :
              l.pub = k.pub /\ l.revoked_at \in 1 .. k.revoked_at
  <1> USE DEF Never
  <1>1. Sets(C) \subseteq Sets(D) /\ Sets(D) \subseteq D /\ IsEvents(Sets(D))
    BY FS_Subset DEF Sets, WithKind, IsEvents
  <1>2. Adds(C) \subseteq Adds(D) /\ Adds(D) \subseteq D /\ IsEvents(Adds(D))
    <2>1. Earliest(Sets(D)).id <= Earliest(Sets(C)).id
          /\ Earliest(Sets(C)) \in D /\ Earliest(Sets(D)) \in D
      BY <1>1, LatestGrows
    <2>2. Adds(C) \subseteq Adds(D)
      BY <2>1 DEF Adds, WithKind
    <2>3. QED
      BY <2>2, FS_Subset DEF Adds, WithKind, IsEvents
  <1>3. \A x : Range(<<x>>) = {x}
    BY DEF Range
  <1>4. Adds(C) # {}
    <2>1. Range(<<>>) = {}
      BY DEF Range
    <2>2. QED
      BY <2>1 DEF KeyList
  <1>5. Revokes(C) \subseteq Revokes(D) /\ Revokes(D) \subseteq D /\ IsEvents(Revokes(D))
    <2>1. Earliest(Adds(D)).id <= Earliest(Adds(C)).id
          /\ Earliest(Adds(C)) \in D /\ Earliest(Adds(D)) \in D
      BY <1>2, <1>4, LatestGrows
    <2>2. Revokes(C) \subseteq Revokes(D)
      BY <1>2, <2>1 DEF Revokes, WithKind
    <2>3. QED
      BY <2>2, FS_Subset DEF Revokes, WithKind, IsEvents
  <1> DEFINE r(E) == IF Revokes(E) = {} THEN Never ELSE Earliest(Revokes(E)).id
             key(E) == TheKey(Earliest(Adds(E)).id, r(E))
  <1>6. KeyList(C) = <<key(C)>> /\ KeyList(D) = <<key(D)>>
    BY <1>2, <1>4 DEF KeyList
  <1>7. k = key(C) /\ key(D) \in Range(KeyList(D))
    BY <1>3, <1>6
  <1>8. \A E : key(E).pub = 1 /\ key(E).revoked_at = r(E)
    BY DEF TheKey
  <1>9. Revokes(C) # {}
    BY <1>7, <1>8
  <1>10. r(D) \in 1 .. r(C)
    <2>1. /\ Earliest(Revokes(D)).id <= Earliest(Revokes(C)).id
          /\ Earliest(Revokes(C)) \in D /\ Earliest(Revokes(D)) \in D
      BY <1>5, <1>9, LatestGrows
    <2>2. r(C) = Earliest(Revokes(C)).id /\ r(D) = Earliest(Revokes(D)).id
      BY <1>5, <1>9
    <2>3. QED
      BY <2>1, <2>2
  <1> HIDE DEF key, r
  <1>11. QED
    BY <1>7, <1>8, <1>10

\* A longer chain takes back nothing of the registry that is not replaced whole.
LEMMA UsersKept ==
    ASSUME menu \in Menus, NEW p, NEW q, Later(p, q), HasKind(Users!Kinds)
    PROVE  Keeps(p, q)
  <1> DEFINE s == p.tree
             t == q.tree
             C == Counted(p)
             D == Counted(q)
  <1>1. UsersFits(C, s) /\ UsersFits(D, t)
    BY UsersShown DEF Later
  <1>2. /\ C \in SUBSET D /\ IsEvents(D) /\ \A e \in D : e.id \in Nat \ {0}
    BY CountedStays
  <1>3. ~Created(s)
    BY UsersNeverCreated DEF Later
  <1>4. ~HasKind(Chat!Kinds)
    BY OneFeature DEF HasKind, Issue!Kinds, Task!Kinds, Chat!Kinds, Notify!Kinds,
                      Users!Kinds
  <1>5. /\ DOMAIN s.coll = IF C = {} THEN {} ELSE {"users", "groups"}
        /\ DOMAIN t.coll = IF D = {} THEN {} ELSE {"users", "groups"}
        /\ KeysFit(C, Users!Users(s)) /\ KeysFit(D, Users!Users(t))
        /\ "acks" \notin DOMAIN s.scratch
    BY <1>1 DEF UsersFits, IsTree, Users!ScratchKeys
  <1>6. Sets(C) \subseteq Sets(D)
    BY <1>2 DEF Sets, WithKind
  <1>7. ASSUME NEW name \in DOMAIN s.coll \ {"groups", "notes"}
        PROVE  /\ name \notin {"comments", "messages"} /\ name \in DOMAIN t.coll
               /\ DOMAIN s.coll[name] \subseteq DOMAIN t.coll[name]
    <2>1. C # {} /\ D # {} /\ name = "users" /\ name \in DOMAIN t.coll
      BY <1>2, <1>5, <1>7
    <2>2. s.coll[name] = Users!Users(s) /\ t.coll[name] = Users!Users(t)
      BY <1>5, <2>1 DEF Users!Users, Users!Given
    <2>3. DOMAIN Users!Users(s) \subseteq DOMAIN Users!Users(t)
      BY <1>5, <1>6 DEF KeysFit
    <2>4. QED
      BY <2>1, <2>2, <2>3
  <1>8. ASSUME NEW u \in DOMAIN Users!Users(s), NEW k \in Range(Users!Users(s)[u].keys),
               k.revoked_at # Never
        PROVE  \E l \in Range(Users!Users(t)[u].keys) :
                  l.pub = k.pub /\ l.revoked_at \in 1 .. k.revoked_at
    <2>1. Sets(C) # {} /\ Sets(D) # {} /\ u = 1
      BY <1>5, <1>6 DEF KeysFit
    <2>2. Users!Users(s)[u].keys = KeyList(C) /\ Users!Users(t)[u].keys = KeyList(D)
      BY <1>5, <2>1 DEF KeysFit
    <2> HIDE DEF s, t, C, D
    <2>3. QED
      BY <1>2, <1>8, <2>1, <2>2, KeysStay
  <1>9. /\ DOMAIN Notify!Acks(s) = {} /\ DOMAIN Given(s.coll, "notes", <<>>) = {}
    BY <1>5, OthersEmpty
  <1>10. OwnNotes(p) = {}
    BY <1>9 DEF OwnNotes
  <1> HIDE DEF s, t, C, D
  <1>11. "comments" \notin DOMAIN s.coll /\ "messages" \notin DOMAIN s.coll
    BY <1>7
  <1>12. QED
    BY <1>3, <1>4, <1>7, <1>8, <1>9, <1>10, <1>11 DEF Keeps, s, t

\* A longer chain takes nothing back.
LEMMA LaterKeeps ==
    ASSUME menu \in Menus, NEW p, NEW q, Later(p, q)
    PROVE  Keeps(p, q)
  <1>1. CASE HasEntities
    BY <1>1, IssueKept, TaskKept, ChatKept DEF HasEntities
  <1>2. CASE ~HasEntities
    <2>1. HasKind(Notify!Kinds) \/ HasKind(Users!Kinds) \/ p.tree = NewState
      BY <1>2, NoFeature DEF Later
    <2>2. QED
      BY <2>1, NotifyKept, UsersKept, NothingKept
  <1>3. QED
    BY <1>1, <1>2

\* The primed invariant, of the tips as they are after the step.
LEMMA ShownAfter ==
    ASSUME HistInv, HistInv', menu' = menu, NEW r \in Places
    PROVE  IsShown(tip[r]) /\ IsShown(tip'[r])
  <1>1. IsShown(tip[r])
    BY TipIsHistory DEF HistInv, IndInv, TipHolds, IsShown
  <1>2. /\ IsEvents(tip'[r].events) /\ tip'[r].tree = FullFold(tip'[r].events)
        /\ \A e \in tip'[r].events : EventTyped(e)
    BY DEF HistInv, IndInv, TipHolds, EventTyped, IsEdit, FullFold
  <1>3. /\ \A e \in tip'[r].events : IsEdit(e) => Shaped(e)
        /\ \A e, d \in tip'[r].events : e.kind \in Creates /\ d.kind \in Creates => e = d
    BY DEF HistInv, ShapesHold, OneCreate, IsEdit
  <1>4. IsChain(tip'[r].events)
    BY <1>2, TypedChain
  <1>5. IsHistory(tip'[r].events)
    BY <1>2, <1>3, <1>4 DEF IsHistory, EventTyped, Never
  <1>6. QED
    BY <1>1, <1>2, <1>5 DEF IsShown

\* No step takes anything back.
LEMMA StepKeeps ==
    ASSUME HistInv, HistInv', Next
    PROVE  \A r \in DOMAIN tip : Keeps(tip[r], tip'[r])
  <1>1. /\ menu' = menu /\ DOMAIN tip = Places
        /\ \A r \in Places : tip[r].events \subseteq tip'[r].events
    <2>1. PICK c \in Clone : Appends(c) \/ Compact(c) \/ Sync(c)
      BY NextAppends
    <2>2. QED
      BY <2>1, EventsGrow DEF HistInv, IndInv
  <1>2. \A r \in Places : Later(tip[r], tip'[r])
    BY <1>1, ShownAfter DEF Later
  <1>3. QED
    BY <1>1, <1>2, LaterKeeps DEF HistInv, IndInv

\* No command, compaction or sync takes back what a clone was shown: a comment,
\* message, post or note, that one was superseded, a participant, an ack, a
\* user, or the revocation of a key.
THEOREM NothingIsTakenBackHolds == Spec => NothingIsTakenBack
  <1>1. HistInv /\ HistInv' /\ [Next]_vars
          => [\A r \in DOMAIN tip : Keeps(tip[r], tip'[r])]_vars
    BY StepKeeps
  <1>2. QED
    BY <1>1, HistoryInvariance, PTL DEF Spec, NothingIsTakenBack

=============================================================================
