------------------------------- MODULE RefSync -------------------------------
(***************************************************************************)
(* One githive ref (refs/projects/<feature>/<id>) in several clones and in *)
(* the remote they share.  Every mutating command appends one event commit *)
(* to its clone's ref with a compare-and-swap (entitychain.Writer.Append); *)
(* `githive sync` runs fetch, plan, merge and push rounds against the      *)
(* remote (syncapp.Sync).  Any number of processes run commands in any     *)
(* clone, and every git subprocess a command starts is a step of its own.  *)
(*                                                                         *)
(* A ref's value is the set of commits reachable from it, {} for a ref     *)
(* that does not exist.  Each commit adds an identifier of its own, so two *)
(* tips are the same commit iff the two sets are equal, and one is an      *)
(* ancestor of the other iff its set is a subset: git's object hashes and  *)
(* its ancestry test without a graph.  An event and the commit that        *)
(* carries it are one identifier: a retried Append draws a new ULID.       *)
(*                                                                         *)
(* What an Append computes from the events (fold, checkpoints, the schema  *)
(* check) is EntityChain's subject and left out here.  Operators whose     *)
(* name starts with Faulty are wrong on purpose: each stands next to the   *)
(* definition it could be mistaken for and breaks a property below.        *)
(***************************************************************************)
EXTENDS Naturals, FiniteSets

CONSTANTS
    Clone,          \* working copies that share one remote
    Proc,           \* githive processes, each running one command at a time
    CloneOf,        \* the clone a process runs in
    MaxEvents,      \* bound: events a process appends
    MaxMerges,      \* bound: merge commits a process creates
    AppendRetries,  \* entitychain.defaultRetries
    SyncRetries,    \* githive.sync.retries
    MaxFailures,    \* bound: commands killed or refused half way
    RemoteFaults,   \* what may happen to the remote behind githive's back
    MaxFaults       \* bound: how often

ASSUME SyncAssumption ==
    /\ CloneOf \in [Proc -> Clone]
    /\ MaxEvents \in Nat /\ MaxMerges \in Nat
    /\ AppendRetries \in Nat \ {0} /\ SyncRetries \in Nat \ {0}
    /\ MaxFailures \in Nat /\ MaxFaults \in Nat
    /\ RemoteFaults \subseteq {"overwrite", "delete"}

Event  == Proc \X {"event"} \X (1 .. MaxEvents)
Merge  == Proc \X {"merge"} \X (1 .. MaxMerges)
Commit == Event \cup Merge

VARIABLES
    local,      \* local[c]: refs/projects/... in clone c
    tracking,   \* tracking[c]: refs/githive-remote/... in clone c
    remote,     \* the ref in the shared remote
    objects,    \* every commit some ref has ever pointed at
    pc,         \* pc[p]: the next git call of the command p runs
    base,       \* base[p]: the local value p's command works from
    seen,       \* seen[p]: the remote value p's command works from
    round,      \* round[p]: attempts of the command so far
    goal,       \* goal[p]: history, the local value when p's sync started
    outcome,    \* outcome[p]: how p's last command ended
    failures,   \* history: number of commands that failed half way
    faults      \* history: number of faults of the remote

refs  == <<local, tracking, remote, objects>>
procs == <<pc, base, seen, round, goal, outcome>>
env   == <<failures, faults>>
vars  == <<refs, procs, env>>

Stages == {"idle", "append", "commit", "fetch", "fetched", "plan", "decide",
           "advance", "push", "sending", "landed"}

Outcomes == {"none", "appended", "synced", "failed", "exhausted"}

Init ==
    /\ local    = [c \in Clone |-> {}]
    /\ tracking = [c \in Clone |-> {}]
    /\ remote   = {}
    /\ objects  = {}
    /\ pc       = [p \in Proc |-> "idle"]
    /\ base     = [p \in Proc |-> {}]
    /\ seen     = [p \in Proc |-> {}]
    /\ round    = [p \in Proc |-> 0]
    /\ goal     = [p \in Proc |-> {}]
    /\ outcome  = [p \in Proc |-> "none"]
    /\ failures = 0
    /\ faults   = 0

-----------------------------------------------------------------------------
(* Git as the commands use it. *)

\* git merge-base --is-ancestor a b
IsAncestor(a, b) == a \subseteq b

\* git update-ref refuses unless the ref still holds the expected old value.
FaultyCasHolds(p) == TRUE
CasHolds(p) == local[CloneOf[p]] = base[p]

\* A commit only this process can have written; the guard is the bound.
Fresh(p, S) == {c \in S \ objects : c[1] = p}
NewCommit(p, S) == CHOOSE c \in Fresh(p, S) : TRUE

GoTo(p, stage) == pc' = [pc EXCEPT ![p] = stage]

\* The command returns; what it held in memory is gone.
Finish(p, result) ==
    /\ GoTo(p, "idle")
    /\ outcome' = [outcome EXCEPT ![p] = result]
    /\ base'    = [base EXCEPT ![p] = {}]
    /\ seen'    = [seen EXCEPT ![p] = {}]
    /\ round'   = [round EXCEPT ![p] = 0]

-----------------------------------------------------------------------------
(* A mutating command: entitychain.Writer.Append. *)

AppendBegin(p) ==
    /\ pc[p] = "idle"
    /\ Fresh(p, Event) # {}
    /\ GoTo(p, "append")
    /\ outcome' = [outcome EXCEPT ![p] = "none"]
    /\ goal' = [goal EXCEPT ![p] = {}]
    /\ UNCHANGED <<refs, base, seen, round, env>>

\* foldInputs: rev-parse the ref and fold from there.
AppendRead(p) ==
    /\ pc[p] = "append"
    /\ base' = [base EXCEPT ![p] = local[CloneOf[p]]]
    /\ GoTo(p, "commit")
    /\ UNCHANGED <<refs, seen, round, goal, outcome, env>>

\* The commit's parent is the value read; update-ref publishes it.
AppendCommit(p) ==
    LET e == NewCommit(p, Event) IN
    /\ pc[p] = "commit"
    /\ Fresh(p, Event) # {}
    /\ CasHolds(p)
    /\ local'   = [local EXCEPT ![CloneOf[p]] = base[p] \cup {e}]
    /\ objects' = objects \cup {e}
    /\ Finish(p, "appended")
    /\ UNCHANGED <<tracking, remote, goal, env>>

\* ErrRefCASMismatch: read again, up to AppendRetries attempts.
AppendLost(p) ==
    /\ pc[p] = "commit"
    /\ ~CasHolds(p)
    /\ \/ /\ round[p] + 1 < AppendRetries
          /\ round' = [round EXCEPT ![p] = @ + 1]
          /\ GoTo(p, "append")
          /\ UNCHANGED <<base, seen, outcome>>
       \/ /\ round[p] + 1 >= AppendRetries
          /\ Finish(p, "exhausted")
    /\ UNCHANGED <<refs, goal, env>>

-----------------------------------------------------------------------------
(* githive sync: DiscoverRefs fetches, then syncapp.Sync runs its rounds. *)

SyncBegin(p) ==
    /\ pc[p] = "idle"
    /\ GoTo(p, "fetch")
    /\ goal' = [goal EXCEPT ![p] = local[CloneOf[p]]]
    /\ outcome' = [outcome EXCEPT ![p] = "none"]
    /\ UNCHANGED <<refs, base, seen, round, env>>

\* git fetch learns what the remote advertises ...
FetchRead(p) ==
    /\ pc[p] = "fetch"
    /\ seen' = [seen EXCEPT ![p] = remote]
    /\ GoTo(p, "fetched")
    /\ UNCHANGED <<refs, base, round, goal, outcome, env>>

\* ... and then forces (+) the tracking ref to it.  The refspec has no prune:
\* a ref the remote does not have leaves its tracking ref as it was.
FaultyFetched(c, r) == IF tracking[c] \subseteq r THEN r ELSE tracking[c]
Fetched(c, r) == IF r = {} THEN tracking[c] ELSE r

FetchWrite(p) ==
    /\ pc[p] = "fetched"
    /\ tracking' = [tracking EXCEPT ![CloneOf[p]] = Fetched(CloneOf[p], seen[p])]
    /\ GoTo(p, "plan")
    /\ UNCHANGED <<local, remote, objects, base, seen, round, goal, outcome, env>>

\* planRef, first rev-parse: the local ref.
PlanLocal(p) ==
    /\ pc[p] = "plan"
    /\ base' = [base EXCEPT ![p] = local[CloneOf[p]]]
    /\ GoTo(p, "decide")
    /\ UNCHANGED <<refs, seen, round, goal, outcome, env>>

\* What planRef does about a local value l and a remote value r that differ:
\* push what the remote lacks, take what is ahead, and merge the rest.
NeedsPush(l, r) == IsAncestor(r, l)

FaultyFastForwardable(l, r) == TRUE
FastForwardable(l, r) == IsAncestor(l, r)

\* planRef, second rev-parse: the tracking ref, and the decision.
PlanTracking(p) ==
    LET r == tracking[CloneOf[p]] IN
    /\ pc[p] = "decide"
    /\ \/ /\ base[p] = r                         \* up-to-date
          /\ Finish(p, "synced")
       \/ /\ base[p] # r
          /\ seen' = [seen EXCEPT ![p] = r]
          /\ GoTo(p, IF NeedsPush(base[p], r) THEN "push" ELSE "advance")
          /\ UNCHANGED <<base, round, outcome>>
    /\ UNCHANGED <<refs, goal, env>>

\* The remote is ahead: AdvanceRef takes its value and the ref is done.
FastForward(p) ==
    /\ pc[p] = "advance"
    /\ FastForwardable(base[p], seen[p])
    /\ CasHolds(p)
    /\ local' = [local EXCEPT ![CloneOf[p]] = seen[p]]
    /\ Finish(p, "synced")
    /\ UNCHANGED <<tracking, remote, objects, goal, env>>

\* Diverged: a merge commit over both tips, then the push.
FaultyMergeTip(p, m) == seen[p] \cup {m}
MergeTip(p, m) == base[p] \cup seen[p] \cup {m}

MergeAndAdvance(p) ==
    LET m == NewCommit(p, Merge) IN
    /\ pc[p] = "advance"
    /\ ~FastForwardable(base[p], seen[p])
    /\ Fresh(p, Merge) # {}
    /\ CasHolds(p)
    /\ local'   = [local EXCEPT ![CloneOf[p]] = MergeTip(p, m)]
    /\ objects' = objects \cup {m}
    /\ GoTo(p, "push")
    /\ UNCHANGED <<tracking, remote, base, seen, round, goal, outcome, env>>

\* A lost AdvanceRef is not retried: the ref drops out of this sync.
FaultyAdvanceLost(p) ==
    /\ pc[p] = "advance"
    /\ ~CasHolds(p)
    /\ Finish(p, "synced")
    /\ UNCHANGED <<refs, goal, env>>

AdvanceLost(p) ==
    /\ pc[p] = "advance"
    /\ ~CasHolds(p)
    /\ Finish(p, "failed")
    /\ UNCHANGED <<refs, goal, env>>

FaultyRoundsLeft(p) == round[p] < SyncRetries
RoundsLeft(p) == round[p] + 1 < SyncRetries

\* A rejection a further round can resolve, while rounds are left.
FaultyRetryRound(p) ==
    GoTo(p, "plan") /\ UNCHANGED <<round, base, seen, outcome>>

RetryRound(p) ==
    \/ /\ RoundsLeft(p)
       /\ round' = [round EXCEPT ![p] = @ + 1]
       /\ GoTo(p, "fetch")
       /\ UNCHANGED <<base, seen, outcome>>
    \/ /\ ~RoundsLeft(p)
       /\ Finish(p, "exhausted")

\* git push resolves the ref again, and compares with what the remote
\* advertises: only a fast-forward is sent.
FaultyPushAccepted(l, r) == TRUE
PushAccepted(l, r) == IsAncestor(r, l)

PushRead(p) ==
    LET l == local[CloneOf[p]] IN
    /\ pc[p] = "push"
    /\ \/ /\ PushAccepted(l, remote)
          /\ base' = [base EXCEPT ![p] = l]
          /\ seen' = [seen EXCEPT ![p] = remote]
          /\ GoTo(p, "sending")
          /\ UNCHANGED <<round, outcome>>
       \/ /\ ~PushAccepted(l, remote)
          /\ RetryRound(p)
    /\ UNCHANGED <<refs, goal, env>>

\* receive-pack updates the ref only if it still is what was advertised.
ReceiveHolds(p) == remote = seen[p]

PushLand(p) ==
    /\ pc[p] = "sending"
    /\ ReceiveHolds(p)
    /\ remote' = base[p]
    /\ GoTo(p, "landed")
    /\ UNCHANGED <<local, tracking, objects, base, seen, round, goal, outcome, env>>

PushRejected(p) ==
    /\ pc[p] = "sending"
    /\ ~ReceiveHolds(p)
    /\ RetryRound(p)
    /\ UNCHANGED <<refs, goal, env>>

\* The remote's answer: git moves the tracking ref and the ref is done.
PushAck(p) ==
    /\ pc[p] = "landed"
    /\ tracking' = [tracking EXCEPT ![CloneOf[p]] = base[p]]
    /\ Finish(p, "synced")
    /\ UNCHANGED <<local, remote, objects, goal, env>>

\* githive status: the clones whose ref is reported as not yet pushed.
FaultyUnpushed(c) == local[c] # {} /\ tracking[c] = {}
Unpushed(c) == local[c] # {} /\ local[c] # tracking[c]

-----------------------------------------------------------------------------
(* What goes wrong. *)

\* The process is killed, the network fails, a push's answer is lost or the
\* push is refused for good: the command ends, git's refs stay as they are.
Fail(p) ==
    /\ pc[p] # "idle"
    /\ failures < MaxFailures
    /\ failures' = failures + 1
    /\ Finish(p, "failed")
    /\ UNCHANGED <<refs, goal, faults>>

\* Somebody force-pushes an old or a diverged copy, or restores a backup.
OverwriteRemote(h) ==
    /\ "overwrite" \in RemoteFaults
    /\ faults < MaxFaults
    /\ h # {} /\ h # remote /\ remote # {}
    /\ remote' = h
    /\ faults' = faults + 1
    /\ UNCHANGED <<local, tracking, objects, procs, failures>>

\* Somebody deletes the ref in the remote.
DeleteRemote ==
    /\ "delete" \in RemoteFaults
    /\ faults < MaxFaults
    /\ remote # {}
    /\ remote' = {}
    /\ faults' = faults + 1
    /\ UNCHANGED <<local, tracking, objects, procs, failures>>

-----------------------------------------------------------------------------

AppendStep(p) == AppendRead(p) \/ AppendCommit(p) \/ AppendLost(p)

SyncStep(p) ==
    \/ FetchRead(p) \/ FetchWrite(p)
    \/ PlanLocal(p) \/ PlanTracking(p)
    \/ FastForward(p) \/ MergeAndAdvance(p) \/ AdvanceLost(p)
    \/ PushRead(p) \/ PushLand(p) \/ PushRejected(p) \/ PushAck(p)

Next ==
    \/ \E p \in Proc : \/ AppendBegin(p) \/ AppendStep(p)
                       \/ SyncBegin(p) \/ SyncStep(p)
                       \/ Fail(p)
    \/ \E c \in Clone : OverwriteRemote(local[c]) \/ OverwriteRemote(tracking[c])
    \/ DeleteRemote

Spec == Init /\ [][Next]_vars

\* A running command goes on; somebody or some hook keeps running sync.
Fairness ==
    \A p \in Proc : /\ WF_vars(AppendStep(p) \/ SyncStep(p))
                    /\ WF_vars(SyncBegin(p))

FairSpec == Spec /\ Fairness

-----------------------------------------------------------------------------
(* Properties. *)

\* The attempts a command may have behind it; an idle process has none.
Attempts(stage) ==
    IF stage = "idle" THEN 1
    ELSE IF stage \in {"append", "commit"} THEN AppendRetries ELSE SyncRetries

TypeOK ==
    /\ local \in [Clone -> SUBSET Commit]
    /\ tracking \in [Clone -> SUBSET Commit]
    /\ remote \in SUBSET Commit
    /\ objects \in SUBSET Commit
    /\ pc \in [Proc -> Stages]
    /\ base \in [Proc -> SUBSET Commit]
    /\ seen \in [Proc -> SUBSET Commit]
    /\ round \in [Proc -> Nat]
    /\ \A p \in Proc : round[p] < Attempts(pc[p])
    /\ goal \in [Proc -> SUBSET Commit]
    /\ outcome \in [Proc -> Outcomes]
    /\ failures \in Nat
    /\ faults \in Nat

\* An event whose command reported success stays reachable from the ref of the
\* clone it was recorded in, whatever syncs, merges, lost races, failures and
\* faults of the remote come after (entitychain.Append, planRef).
Durable ==
    \A e \in objects \cap Event : e \in local[CloneOf[e[1]]]

\* A clone's ref only ever moves to a descendant: the compare-and-swap of
\* Append and of AdvanceRef, and a merge that has the old tip as a parent.
LocalOnlyFastForwards ==
    [][\A c \in Clone : local[c] \subseteq local'[c]]_local

\* A push never discards what another clone pushed in between: unless the
\* remote itself is tampered with, its ref only moves to descendants.
PushOnlyFastForwards ==
    [][faults' = faults => remote \subseteq remote']_remote

\* A sync that reports the ref as done has got everything the clone held when
\* the sync started into the remote (up-to-date, fast-forward and push alike;
\* with a remote nobody tampers with).
SyncedMeansPublished ==
    \A p \in Proc : (outcome[p] = "synced" /\ faults = 0) => goal[p] \subseteq remote

\* When status reports nothing as unpushed, nothing is: the tracking ref never
\* runs ahead of a remote nobody tampers with, in whatever order fetches,
\* pushes and their lost answers come.
StatusIsSound ==
    faults = 0 =>
        \A c \in Clone : ~Unpushed(c) => local[c] \subseteq remote

\* Every command that starts comes to an end, races and retries included.
CommandsEnd == \A p \in Proc : (pc[p] # "idle") ~> (pc[p] = "idle")

Recorded == objects \cap Event

\* With sync run again and again, every clone and the remote end up with every
\* event ever recorded, whatever failed or was overwritten in the meantime.
Converged ==
    /\ Recorded \subseteq remote
    /\ \A c \in Clone : Recorded \subseteq local[c]
Convergence == <>[]Converged

\* The clones, as the replicas of EventUnion.
Union == INSTANCE EventUnion WITH
            Replica <- Clone,
            known   <- [c \in Clone |-> local[c] \cap Event]

\* Sync and Append implement the grow-only event set of EventUnion.
ImplementsUnion == Union!Spec

=============================================================================
