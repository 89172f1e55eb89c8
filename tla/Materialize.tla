----------------------------- MODULE Materialize -----------------------------
(***************************************************************************)
(* The state a fold builds (materialize.State), the engine that runs the   *)
(* reducers over an event set, and the snapshot of a state that a          *)
(* checkpoint event carries.  Issue, Task, Chat, Notify and Users are the  *)
(* reducers.                                                               *)
(*                                                                         *)
(* An event is a record [id, kind, actor, data].  An ID is a ULID and a    *)
(* number here; the ts of an event is the time in its ID (idgen), so the   *)
(* ID stands for both.  data is a record whose fields are the ones given.  *)
(***************************************************************************)
EXTENDS Naturals, Sequences, FiniteSets, SequencesExt, TLC

NoMeta == <<>>   \* Meta is nil: the entity does not exist yet
Never == 0       \* a nil time, an absent event ID

\* materialize.NewState
NewState == [meta |-> NoMeta, coll |-> <<>>, scratch |-> <<>>]

Created(s) == s.meta # NoMeta

\* m[k] = v on a map
Put(m, k, v) == [x \in DOMAIN m \cup {k} |-> IF x = k THEN v ELSE m[x]]

\* The fields of f, and those of g that f does not have.
Over(f, g) ==
    [x \in DOMAIN f \cup DOMAIN g |-> IF x \in DOMAIN f THEN f[x] ELSE g[x]]

\* The value of an optional field.
Given(data, field, default) ==
    IF field \in DOMAIN data THEN data[field] ELSE default

\* Only these fields of a record, where they are given.
Fields(data, names) == [f \in DOMAIN data \cap names |-> data[f]]

\* A set of numbers, as sort leaves it.
Ordered(ids) ==
    [n \in 1 .. Cardinality(ids) |->
        CHOOSE i \in ids : Cardinality({j \in ids : j < i}) = n - 1]

-----------------------------------------------------------------------------
(* The engine. *)

IsCheckpoint(e) == e.kind = "checkpoint"

\* event.SortEvents
SortEvents(events) ==
    [n \in 1 .. Cardinality(events) |->
        CHOOSE e \in events : Cardinality({d \in events : d.id <= e.id}) = n]

\* Registry.FoldFrom: the reducers run in ID order, checkpoints are skipped.
FoldFrom(Apply(_, _), initial, events) ==
    FoldLeft(Apply, initial, SortEvents({e \in events : ~IsCheckpoint(e)}))

-----------------------------------------------------------------------------
(* Reducer parts that features share. *)

\* issue.comment and chat.post: the item goes in under its event's ID, and the
\* item it supersedes, if it is there, is marked.
FaultyPutItem(items, e) ==
    LET prior == Given(e.data, "supersedes", Never)
        marked == [i \in DOMAIN items |->
                     IF i = prior /\ items[i].superseded_by = Never
                     THEN [items[i] EXCEPT !.superseded_by = e.id]
                     ELSE items[i]]
    IN  Put(marked, e.id,
            [author |-> e.actor, supersedes |-> prior, superseded_by |-> Never])
PutItem(items, e) ==
    LET prior == Given(e.data, "supersedes", Never)
        marked == IF prior \in DOMAIN items
                  THEN [items EXCEPT ![prior] = [@ EXCEPT !.superseded_by = e.id]]
                  ELSE items
    IN  Put(marked, e.id,
            [author |-> e.actor, supersedes |-> prior, superseded_by |-> Never])

\* sets of strings: remove first, then add
AddRemove(set, data) ==
    (set \ Given(data, "remove", {})) \cup Given(data, "add", {})

\* A list without one of its members, in the same order.
Without(list, x) ==
    LET kept == Ordered({n \in DOMAIN list : list[n] # x}) IN
    [n \in DOMAIN kept |-> list[kept[n]]]

\* applyLinkEvent: a list without duplicates
LinkEvent(links, data) ==
    IF data.remove THEN Without(links, data.link)
    ELSE IF data.link \in Range(links) THEN links
    ELSE Append(links, data.link)

-----------------------------------------------------------------------------
(* Checkpoint snapshots. *)

\* The scratch values that are sets in memory and objects in JSON.
StringSets == {"labels", "assignees", "participants"}

\* materialize.StateToMap
StateToMap(s) ==
    [meta |-> s.meta,
     collections |-> s.coll,
     scratch |-> [k \in DOMAIN s.scratch |->
                    IF k \in StringSets THEN [x \in s.scratch[k] |-> TRUE]
                                        ELSE s.scratch[k]]]

\* What a tool from before ADR-0016 wrote.
LegacyStateToMap(s) == [meta |-> s.meta, collections |-> s.coll]

\* StateFromMap fails without a scratch part or with a scratch key the
\* feature's decoder does not know.
Restorable(m, keys) ==
    "scratch" \in DOMAIN m /\ DOMAIN m.scratch \subseteq keys

\* Registry.StateFromMap, of a restorable snapshot.
FaultyStateFromMap(m) ==
    [meta |-> m.meta, coll |-> m.collections, scratch |-> <<>>]
StateFromMap(m) ==
    [meta |-> m.meta,
     coll |-> m.collections,
     scratch |-> [k \in DOMAIN m.scratch |->
                    IF k \in StringSets
                    THEN {x \in DOMAIN m.scratch[k] : m.scratch[k][x]}
                    ELSE m.scratch[k]]]

=============================================================================
