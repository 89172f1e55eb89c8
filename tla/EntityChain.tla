----------------------------- MODULE EntityChain -----------------------------
(***************************************************************************)
(* One entity ref in one clone and the processes that extend it: commands  *)
(* that append events (entitychain.Writer.Append), `githive fsck --compact`*)
(* that appends checkpoints (fsckapp.maybeCheckpoint), and a sync that     *)
(* brings a peer's commits in.  RefSync says how the ref moves between     *)
(* clones; this module says what a command reads out of the chain, and     *)
(* whether the checkpoint shortcut reads the same as the whole chain.      *)
(*                                                                         *)
(* The chain is the sequence of commits from the root to the tip, which    *)
(* only grows (RefSync!LocalOnlyFastForwards); a merge commit holds the    *)
(* events of the side that is not spelled out and the place that side      *)
(* branched off (0: it has a root of its own).  A ULID is a number, its    *)
(* order the lexical order and the order of the events' timestamps.  The   *)
(* fold state is the sequence of event IDs in the order their reducers ran,*)
(* which tells apart every two folds that some reducer could tell apart.   *)
(*                                                                         *)
(* Operators whose name starts with Faulty are wrong on purpose and break  *)
(* a property below.                                                       *)
(***************************************************************************)
EXTENDS Naturals, Sequences, FiniteSets, FiniteSetsExt, SequencesExt

CONSTANTS
    Writer,        \* processes running a mutating command
    Fsck,          \* processes running githive fsck --compact
    MaxId,         \* bound: event IDs 1 .. MaxId
    Skew,          \* whether clocks differ, so that IDs come in any order
    PeerIds,       \* bound: the IDs a peer's events may carry
    CompactAfter,  \* Options.MaxEvents: events since the last checkpoint
    Retries,       \* entitychain.defaultRetries
    MaxCheckpoints \* bound: checkpoints on the chain

ASSUME ChainAssumption ==
    /\ Writer \cap Fsck = {}
    /\ MaxId \in Nat /\ MaxCheckpoints \in Nat
    /\ Skew \in BOOLEAN
    /\ PeerIds \subseteq 1 .. MaxId
    /\ CompactAfter \in Nat \ {0} /\ Retries \in Nat \ {0}

Proc == Writer \cup Fsck
Id == 1 .. MaxId

VARIABLES
    chain,   \* the commits the ref's tip reaches, oldest first
    used,    \* every ID some process has drawn
    pc,      \* pc[p]: the next step of p's command
    op,      \* op[p]: "open" and "update" append events, "checkpoint" does not
    id,      \* id[p]: the ID of the envelope p is about to append
    snap,    \* snap[p]: the data of the checkpoint p is about to append
    basis,   \* basis[p]: the chain p's attempt works from
    tries,   \* tries[p]: attempts so far
    acked    \* history: IDs of the events whose command, here or at the peer,
             \* reported success

vars == <<chain, used, pc, op, id, snap, basis, tries, acked>>

NoSnap == [state |-> <<>>, max |-> 0, head |-> 0]

Init ==
    /\ chain = <<>>
    /\ used  = {}
    /\ pc    = [p \in Proc |-> "idle"]
    /\ op    = [p \in Proc |-> "update"]
    /\ id    = [p \in Proc |-> 0]
    /\ snap  = [p \in Proc |-> NoSnap]
    /\ basis = [p \in Proc |-> <<>>]
    /\ tries = [p \in Proc |-> 0]
    /\ acked = {}

-----------------------------------------------------------------------------
(* What a chain holds, and how it is read. *)

Places(ch, kind) == {n \in 1 .. Len(ch) : ch[n].kind = kind}

\* chain.WalkChain: every event behind the tip, both sides of a merge.
EventIds(ch) ==
    {ch[n].id : n \in Places(ch, "event")}
        \cup UNION {ch[n].side : n \in Places(ch, "merge")}

CheckpointIds(ch) == {ch[n].id : n \in Places(ch, "checkpoint")}

\* walkDFS's visit in WalkChainSince: it goes on to a commit's parents unless
\* the commit holds an envelope older than the cutoff.
FaultyDescends(commit, since) == commit.kind # "merge" /\ commit.id >= since
Descends(commit, since) == commit.kind = "merge" \/ commit.id >= since

\* The places walkDFS visits: from the tip to both parents of every commit it
\* descends from.
Visited(ch, since) ==
    LET visited[n \in 1 .. Len(ch)] ==
            \/ n = Len(ch)
            \/ visited[n + 1] /\ Descends(ch[n + 1], since)
            \/ \E m \in Places(ch, "merge") :
                 /\ m > n /\ ch[m].from = n
                 /\ visited[m] /\ \A i \in ch[m].side : i >= since
    IN  {n \in 1 .. Len(ch) : visited[n]}

\* chain.WalkChainSince under logapp.List, which leaves checkpoints out.
LogSince(ch, since) ==
    LET seen == Visited(ch, since)
        ids  == {ch[n].id : n \in seen \cap Places(ch, "event")}
                    \cup UNION {ch[n].side : n \in seen \cap Places(ch, "merge")}
    IN  {i \in ids : i >= since}

\* Registry.Fold: reducers run in ID order, whatever order events come in; the
\* n-th is the one with n - 1 smaller ones (one at most).
Nth(ids, n) == {i \in ids : Cardinality({j \in ids : j < i}) = n - 1}
Fold(ids) == [n \in 1 .. Cardinality(ids) |-> CHOOSE i \in Nth(ids, n) : TRUE]

\* Registry.FoldFrom, on top of a restored state.
FoldFrom(state, ids) == state \o Fold(ids)

\* chain.FindCheckpointStart: the nearest checkpoint no merge commit hides.
FaultyFindCheckpointStart(ch) == Max(Places(ch, "checkpoint") \cup {0})
FindCheckpointStart(ch) ==
    Max({n \in Places(ch, "checkpoint") :
            \A m \in Places(ch, "merge") : m < n} \cup {0})

After(ch, n) == {ch[m].id : m \in {k \in Places(ch, "event") : k > n}}

\* Writer.checkpointBase: is restarting from place n safe for these IDs?
FaultyCheckpointBase(ch, n, new) == n > 0
CheckpointBase(ch, n, new) ==
    n > 0 /\ \A i \in After(ch, n) \cup new : i > ch[n].data.max

\* Writer.foldInputs and the fold on top of it: new is the ID of the envelope
\* about to be appended, if any, and ids the events it adds to the fold.
FoldInputs(ch, new, ids) ==
    LET n == FindCheckpointStart(ch) IN
    IF CheckpointBase(ch, n, new)
    THEN FoldFrom(ch[n].data.state, After(ch, n) \cup ids)
    ELSE FoldFrom(<<>>, EventIds(ch) \cup ids)

\* Writer.Fold: what show, list and every other reader sees.
Read(ch) == FoldInputs(ch, {}, {})

\* The reference: fold everything.
FullFold(ch) == Fold(EventIds(ch))

\* fsckapp.maxEventID
MaxEventId(ch) == Max(EventIds(ch) \cup CheckpointIds(ch) \cup {0})

\* fsckapp.shouldCompact.  aged: the last checkpoint, or without one the first
\* event, is older than the age limit.
FaultyShouldCompact(ch, aged) ==
    Cardinality(EventIds(ch)) >= CompactAfter \/ aged
ShouldCompact(ch, aged) ==
    LET last  == Max(CheckpointIds(ch) \cup {0})
        since == {i \in EventIds(ch) : i > last}
    IN  /\ since # {}
        /\ Cardinality(since) >= CompactAfter \/ aged

-----------------------------------------------------------------------------
(* Commands. *)

GoTo(p, stage) == pc' = [pc EXCEPT ![p] = stage]

Finish(p) ==
    /\ GoTo(p, "idle")
    /\ id'    = [id EXCEPT ![p] = 0]
    /\ snap'  = [snap EXCEPT ![p] = NoSnap]
    /\ basis' = [basis EXCEPT ![p] = <<>>]
    /\ tries' = [tries EXCEPT ![p] = 0]

\* "open" works on a ref that does not exist yet (a create, a notify post);
\* "update" is for an entity that must exist (NotFoundErr).
Begin(p) ==
    /\ p \in Writer
    /\ pc[p] = "idle"
    /\ GoTo(p, "build")
    /\ \E o \in {"open", "update"} : op' = [op EXCEPT ![p] = o]
    /\ UNCHANGED <<chain, used, id, snap, basis, tries, acked>>

\* maybeCheckpoint walks the tip it was given, decides, and builds the data.
Checkpoint(ch) ==
    [state |-> FullFold(ch), max |-> MaxEventId(ch), head |-> Len(ch)]

FsckRead(p) ==
    /\ p \in Fsck
    /\ pc[p] = "idle"
    /\ chain # <<>>
    /\ Cardinality(CheckpointIds(chain)) < MaxCheckpoints
    /\ \E aged \in BOOLEAN : ShouldCompact(chain, aged)
    /\ snap' = [snap EXCEPT ![p] = Checkpoint(chain)]
    /\ op' = [op EXCEPT ![p] = "checkpoint"]
    /\ GoTo(p, "build")
    /\ UNCHANGED <<chain, used, id, basis, tries, acked>>

\* buildEvent: every attempt draws a fresh ULID, before it reads the ref.
NewIds == {i \in Id \ used : Skew \/ \A j \in used : i > j}

Build(p) ==
    /\ pc[p] = "build"
    /\ \E i \in NewIds :
         /\ used' = used \cup {i}
         /\ id' = [id EXCEPT ![p] = i]
    /\ GoTo(p, "read")
    /\ UNCHANGED <<chain, op, snap, basis, tries, acked>>

\* foldInputs reads the ref; without a create event there is nothing to update.
ReadChain(p) ==
    /\ pc[p] = "read"
    /\ \/ /\ op[p] = "update" /\ chain = <<>>
          /\ Finish(p)
       \/ /\ op[p] = "update" => chain # <<>>
          /\ basis' = [basis EXCEPT ![p] = chain]
          /\ GoTo(p, "commit")
          /\ UNCHANGED <<id, snap, tries>>
    /\ UNCHANGED <<chain, used, op, acked>>

\* The commit: its tree is the fold of what was read plus the new envelope.
FaultyEntry(p) ==
    IF op[p] = "checkpoint"
    THEN [kind |-> "checkpoint", id |-> id[p], data |-> snap[p],
          tree |-> FoldInputs(basis[p], {}, {})]
    ELSE [kind |-> "event", id |-> id[p],
          tree |-> FoldInputs(basis[p], {}, {id[p]})]
Entry(p) ==
    IF op[p] = "checkpoint"
    THEN [kind |-> "checkpoint", id |-> id[p], data |-> snap[p],
          tree |-> FoldInputs(basis[p], {id[p]}, {})]
    ELSE [kind |-> "event", id |-> id[p],
          tree |-> FoldInputs(basis[p], {id[p]}, {id[p]})]

\* update-ref compares the ref with the value this attempt read.
FaultyCasHolds(p) == TRUE
CasHolds(p) == chain = basis[p]

Commit(p) ==
    /\ pc[p] = "commit"
    /\ CasHolds(p)
    /\ chain' = Append(basis[p], Entry(p))
    /\ acked' = IF op[p] = "checkpoint" THEN acked ELSE acked \cup {id[p]}
    /\ Finish(p)
    /\ UNCHANGED <<used, op>>

FaultyMayRetry(p) == tries[p] < Retries
MayRetry(p) == tries[p] + 1 < Retries

\* ErrRefCASMismatch: a fresh attempt with the same checkpoint data.
Lost(p) ==
    /\ pc[p] = "commit"
    /\ ~CasHolds(p)
    /\ \/ /\ MayRetry(p)
          /\ tries' = [tries EXCEPT ![p] = @ + 1]
          /\ GoTo(p, "build")
          /\ UNCHANGED <<id, snap, basis>>
       \/ /\ ~MayRetry(p)
          /\ Finish(p)
    /\ UNCHANGED <<chain, used, op, acked>>

-----------------------------------------------------------------------------
(* A sync in the same clone. *)

PeerMove(entry, i) ==
    /\ i \in PeerIds \cap NewIds
    /\ used' = used \cup {i}
    /\ chain' = Append(chain, entry)
    /\ acked' = acked \cup {i}
    /\ UNCHANGED <<pc, op, id, snap, basis, tries>>

\* planRef fast-forwards to an event a peer appended to this very chain.
FastForward(i) ==
    PeerMove([kind |-> "event", id |-> i,
              tree |-> FoldInputs(chain, {i}, {i})], i)

\* planRef merges a diverged peer, whose event was appended at an older place
\* of the chain: the tree is the fold of the union.
MergePeer(i) ==
    /\ chain # <<>>
    /\ \E n \in 0 .. Len(chain) - 1 :
         PeerMove([kind |-> "merge", side |-> {i}, from |-> n,
                   tree |-> Fold(EventIds(chain) \cup {i})], i)

-----------------------------------------------------------------------------

Next ==
    \/ \E p \in Proc : \/ Begin(p) \/ FsckRead(p)
                       \/ Build(p) \/ ReadChain(p) \/ Commit(p) \/ Lost(p)
    \/ \E i \in PeerIds : FastForward(i) \/ MergePeer(i)

Spec == Init /\ [][Next]_vars

-----------------------------------------------------------------------------
(* Properties. *)

Snapshots == [state : Seq(Id), max : 0 .. MaxId, head : Nat]

TypeOK ==
    /\ \A n \in 1 .. Len(chain) :
         /\ chain[n].kind \in {"event", "checkpoint", "merge"}
         /\ chain[n].tree \in Seq(Id)
         /\ chain[n].kind = "merge" =>
                chain[n].side \subseteq Id /\ chain[n].from \in 0 .. n - 2
         /\ chain[n].kind # "merge" => chain[n].id \in Id
         /\ chain[n].kind = "checkpoint" => chain[n].data \in Snapshots
    /\ used \subseteq Id
    /\ pc \in [Proc -> {"idle", "build", "read", "commit"}]
    /\ op \in [Proc -> {"open", "update", "checkpoint"}]
    /\ id \in [Proc -> 0 .. MaxId]
    /\ snap \in [Proc -> Snapshots]
    /\ tries \in [Proc -> 0 .. Retries - 1]
    /\ acked \subseteq Id

\* Checkpoints whose data is the fold of the chain they were appended to.
Faithful(n) == chain[n].data.head = n - 1
AllFaithful == \A n \in Places(chain, "checkpoint") : Faithful(n)

\* While every checkpoint sits on the head it was computed from, the shortcut
\* reads what a full fold reads, whatever the clocks, merges, retries and
\* fast-forwards (foldInputs, ADR-0016's conditions 1 to 3).
ShortcutIsTransparent == AllFaithful => Read(chain) = FullFold(chain)

\* The same without the proviso: the shortcut "produces the same state, just
\* slower" without it (foldInputs), and a checkpoint's data is "a faithful,
\* fully restorable copy of the fold state" (maybeCheckpoint).
ReadsAreComplete == Read(chain) = FullFold(chain)

\* The files in the tip's tree, which a reader of the repository sees without
\* githive, say what a command that folds the chain says (Append).
TreeMatchesRead ==
    (AllFaithful /\ chain # <<>>) => Last(chain).tree = Read(chain)

\* The events on the chain are those whose command reported success, each in
\* one commit: a lost race neither drops a command nor applies it twice.
AppendedOnce ==
    /\ acked = EventIds(chain)
    /\ \A m, n \in Places(chain, "event") : chain[m].id = chain[n].id => m = n

\* A checkpoint is on time if its clock is not behind the events it subsumes.
OnTime(n) == chain[n].id > chain[n].data.max

\* While checkpoints are on time and no two compactions race, each subsumes an
\* event no earlier one did: "repeated fsck --compact runs do not grow the
\* chain without bound" (shouldCompact), merges and late events included.
CheckpointsSubsumeMore ==
    (\A n \in Places(chain, "checkpoint") : OnTime(n)) =>
        \A m, n \in Places(chain, "checkpoint") :
            m < n => Range(chain[n].data.state) \ Range(chain[m].data.state) # {}

\* IDs of the commit or side at a place.
IdsAt(n) == IF chain[n].kind = "merge" THEN chain[n].side ELSE {chain[n].id}

\* A commit behind which the place lies is older than the cutoff, or one of the
\* side that was merged there.
OlderAbove(n, since) ==
    \/ \E i \in IdsAt(n) : i < since
    \/ \E m \in n + 1 .. Len(chain) :
         chain[m].kind # "merge" /\ chain[m].id < since

\* `githive log --since` prints every event from the cutoff on but those behind a
\* commit that is older than the cutoff, however clocks and racing commands
\* ordered the chain: a checkpoint, or a merge whose other side is old, hides
\* nothing (WalkChainSince).  On a chain in time order it misses none (ADR-0012).
SinceIsComplete ==
    \A since \in Id :
        \A n \in Places(chain, "event") \cup Places(chain, "merge") :
            \A i \in IdsAt(n) :
                i >= since => i \in LogSince(chain, since) \/ OlderAbove(n, since)

=============================================================================
