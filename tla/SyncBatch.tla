------------------------------ MODULE SyncBatch ------------------------------
(***************************************************************************)
(* A sync of all refs of a clone at once: what is found, planned and       *)
(* pushed together, and the two refs that do not merge like entities, the  *)
(* users registry with its trust root and meta/config with its schema      *)
(* version.  How the steps for one ref race is RefSync's subject; planning *)
(* a ref and pushing a batch are one step each here.                       *)
(***************************************************************************)
EXTENDS Naturals

CONSTANTS
    Clone,          \* the clones; numbers
    Supports,       \* initapp.SchemaVersion of the tool in each clone
    Guarded,        \* refs whose push a hook of the remote may refuse
    SyncRetries,    \* rounds of a sync
    NewestEnvelope, \* event.SchemaVersion of the newest tool
    Setups,         \* bound: the refs a behavior uses, with the event
                    \* SchemaVersion of the tool each clone begins with
    MaxEvents,      \* bound: a clone with this many commits makes no event,
    MaxCommits      \* bound: with this many, no init and no merge either

\* refs/projects/meta/config, users/registry and one issue
Ref == {"meta", "users", "issue"}

\* What a sync is asked for: all, or --kind issue.
Kinds == {Ref, {"issue"}}

ASSUME SyncBatchAssumption ==
    /\ Clone \subseteq Nat \ {0}
    /\ Supports \in [Clone -> Nat \ {0}]
    /\ NewestEnvelope \in Nat
    /\ \A s \in Setups : s.envelopes \in [Clone -> Nat]
    /\ SyncRetries \in Nat \ {0}
    /\ MaxEvents \in [Clone -> Nat] /\ MaxCommits \in Nat

VARIABLES
    local, tracking,    \* the refs of each clone
    remote,             \* the remote's refs
    pin,                \* githive.trust.root of each clone
    plan, push, again,  \* of the sync in each clone: the refs left to plan and
                        \* to push in this round, and for the next one,
    round,              \* the round it is in,
    result,             \* and what it reports of each ref
    used,               \* the refs of this behavior
    envelope,           \* the envelope version that the tool in each clone
                        \* writes, and the newest one it reads
    made,               \* how many commits each clone has made
    asked, start,       \* history: the refs of the last sync of a clone, what
                        \* the clone held when it began,
    tooOld              \* and the clones where the schema was newer than the tool

refs == <<local, tracking, remote>>
batch == <<plan, push, again, round, result, asked, start, tooOld>>
vars == <<refs, pin, batch, used, envelope, made>>

\* A ref is the set of commits that its tip reaches, and for meta/config the
\* config.json at the tip.
CommitType == [by : Clone, n : Nat, kind : {"root", "event", "merge"}, v : Nat]
Unborn == [commits |-> {}, config |-> [version |-> 0, project |-> 0]]
NoPin == [by |-> 0, n |-> 0, kind |-> "none", v |-> 0]

\* RootCommits: the commits without parents.
Roots(v) == {k \in v.commits : k.kind = "root"}
Precedes(v, w) == v.commits \subseteq w.commits

Init ==
    /\ local = [c \in Clone |-> [r \in Ref |-> Unborn]]
    /\ tracking = [c \in Clone |-> [r \in Ref |-> Unborn]]
    /\ remote = [r \in Ref |-> Unborn]
    /\ pin = [c \in Clone |-> NoPin]
    /\ plan = [c \in Clone |-> {}]
    /\ push = [c \in Clone |-> {}]
    /\ again = [c \in Clone |-> {}]
    /\ round = [c \in Clone |-> 0]
    /\ result = [c \in Clone |-> [r \in Ref |-> "none"]]
    /\ asked = [c \in Clone |-> {}]
    /\ start = [c \in Clone |-> [r \in Ref |-> Unborn]]
    /\ tooOld = {}
    /\ \E s \in Setups : used = s.refs /\ envelope = s.envelopes
    /\ made = [c \in Clone |-> 0]

\* The next commit of a clone.
Commit(c, kind) == [by |-> c, n |-> made[c], kind |-> kind, v |-> envelope[c]]
Made(c) == made' = [made EXCEPT ![c] = @ + 1]

-----------------------------------------------------------------------------
(* The commands next to sync. *)

\* ensureMetaConfig: an init that finds no meta/config in the clone founds one,
\* whether or not the remote has one.
InitProject(c) ==
    /\ "meta" \in used /\ local[c]["meta"] = Unborn
    /\ made[c] < MaxCommits
    /\ local' = [local EXCEPT ![c]["meta"] =
                   [commits |-> {Commit(c, "root")},
                    config |-> [version |-> Supports[c], project |-> c]]]
    /\ Made(c)
    /\ UNCHANGED <<tracking, remote, pin, batch, used, envelope>>

\* checkSchemaSupported
SchemaSupported(c) == local[c]["meta"].config.version <= Supports[c]

\* WalkChain of a value: event.Decode refuses an envelope newer than the tool's.
\* A merge commit has none.
Readable(c, w) == \A k \in w.commits : k.kind # "merge" => k.v <= envelope[c]

Running(c) == plan[c] # {} \/ push[c] # {} \/ again[c] # {}

\* Writer.Append.  An issue is created under a fresh ID, so in one clone only;
\* the registry has no create, its first event in a clone founds it.  What it
\* appends to is folded first.
Append(c, r) ==
    /\ SchemaSupported(c) /\ Readable(c, local[c][r]) /\ r \in used
    /\ r = "issue" /\ local[c][r] = Unborn =>
         \A d \in Clone : local[d][r] = Unborn
    /\ made[c] < MaxEvents[c]
    /\ local' = [local EXCEPT ![c][r] =
                   [commits |-> @.commits \cup
                      {Commit(c, IF @ = Unborn THEN "root" ELSE "event")},
                    config |-> @.config]]
    /\ Made(c)
    /\ UNCHANGED <<tracking, remote, pin, batch, used, envelope>>

\* git config githive.trust.root, set to a root that the conflict error names
SetPin(c) ==
    /\ \E k \in Roots(local[c]["users"]) \cup Roots(tracking[c]["users"]) :
         pin' = [pin EXCEPT ![c] = k]
    /\ UNCHANGED <<refs, batch, used, envelope, made>>

\* The user of a clone installs the newest tool when this one fails on an event
\* it fetched; the syncs of the new tool are yet to come.
Upgrade(c) ==
    /\ ~Running(c) /\ envelope[c] < NewestEnvelope
    /\ \E r \in Ref : ~Readable(c, local[c][r]) \/ ~Readable(c, tracking[c][r])
    /\ envelope' = [envelope EXCEPT ![c] = NewestEnvelope]
    /\ asked' = [asked EXCEPT ![c] = {}]
    /\ result' = [result EXCEPT ![c] = [r \in Ref |-> "none"]]
    /\ UNCHANGED <<refs, pin, plan, push, again, round, start, tooOld, used, made>>

-----------------------------------------------------------------------------
(* Discovery: DiscoverRefs and fetchNamespace. *)

Fetched(c) ==
    [r \in Ref |-> IF remote[r] = Unborn THEN tracking[c][r] ELSE remote[r]]

\* The refs of the clone and those the fetch brought.
Discovered(c, kinds) ==
    {r \in kinds : local[c][r] # Unborn \/ Fetched(c)[r] # Unborn}

SyncBegin(c) ==
    /\ ~Running(c)
    /\ tracking' = [tracking EXCEPT ![c] = Fetched(c)]
    /\ \E kinds \in Kinds :
         /\ plan' = [plan EXCEPT ![c] = Discovered(c, kinds)]
         /\ asked' = [asked EXCEPT ![c] = Discovered(c, kinds)]
    /\ round' = [round EXCEPT ![c] = 1]
    /\ result' = [result EXCEPT ![c] = [r \in Ref |-> "none"]]
    /\ start' = [start EXCEPT ![c] = local[c]]
    /\ tooOld' = IF SchemaSupported(c) THEN tooOld \ {c} ELSE tooOld \cup {c}
    /\ UNCHANGED <<local, remote, pin, push, again, used, envelope, made>>

-----------------------------------------------------------------------------
(* planRef *)

\* This ref is finished, or failed for good.
FaultySettle(c, r, how) ==
    /\ plan' = [plan EXCEPT ![c] = @ \ {r}]
    /\ result' = [result EXCEPT ![c] =
                    [s \in Ref |-> IF s = r THEN how ELSE "none"]]
    /\ UNCHANGED push
Settle(c, r, how) ==
    /\ plan' = [plan EXCEPT ![c] = @ \ {r}]
    /\ result' = [result EXCEPT ![c][r] = how]
    /\ UNCHANGED push

ToPush(c, r) ==
    /\ plan' = [plan EXCEPT ![c] = @ \ {r}]
    /\ push' = [push EXCEPT ![c] = @ \cup {r}]
    /\ UNCHANGED result

Behind(c, r) == Precedes(local[c][r], tracking[c][r])
Ahead(c, r) == Precedes(tracking[c][r], local[c][r])
Diverged(c, r) == ~Behind(c, r) /\ ~Ahead(c, r)

\* Up to date, or fast-forwarded.
PlanIn(c, r) ==
    /\ Behind(c, r)
    /\ local' = [local EXCEPT ![c][r] = tracking[c][r]]
    /\ Settle(c, r, "done")
    /\ UNCHANGED made

PlanOut(c, r) ==
    /\ Ahead(c, r) /\ ~Behind(c, r)
    /\ ToPush(c, r)
    /\ UNCHANGED <<local, made>>

\* resolveTrustRoots: a registry, and no merge base.
FaultyTwoTrustRoots(c, r) ==
    /\ r = "users" /\ Diverged(c, r)
    /\ \E j, k \in Roots(local[c][r]) : j # k
TwoTrustRoots(c, r) ==
    /\ r = "users" /\ Diverged(c, r)
    /\ local[c][r].commits \cap tracking[c][r].commits = {}

\* A side with several roots is not decided on.
Decides(c) ==
    /\ \A j, k \in Roots(local[c]["users"]) : j = k
    /\ \A j, k \in Roots(tracking[c]["users"]) : j = k

KeepTrustRoot(c, r) ==
    /\ TwoTrustRoots(c, r) /\ Decides(c) /\ pin[c] \in Roots(local[c][r])
    /\ Settle(c, r, "kept")
    /\ UNCHANGED <<local, made>>

AdoptTrustRoot(c, r) ==
    /\ TwoTrustRoots(c, r) /\ Decides(c) /\ pin[c] \in Roots(tracking[c][r])
    /\ local' = [local EXCEPT ![c][r] = tracking[c][r]]
    /\ Settle(c, r, "adopted")
    /\ UNCHANGED made

TrustRootConflict(c, r) ==
    /\ TwoTrustRoots(c, r)
    /\ Decides(c) => pin[c] \notin Roots(local[c][r]) \cup Roots(tracking[c][r])
    /\ Settle(c, r, "conflict")
    /\ UNCHANGED <<local, made>>

\* metaMergeFiles: the higher schema_version, the local one at a tie; nothing
\* else has a config.
FaultyMergedConfig(mine, theirs) == mine
MergedConfig(mine, theirs) ==
    IF theirs.version > mine.version THEN theirs ELSE mine

\* mergedTree folds the events of both sides, but for meta/config, which has no
\* reducer.
FaultyMergeable(c, r) ==
    r = "meta" \/ \A k \in local[c][r].commits \cup tracking[c][r].commits :
                    k.kind # "merge" => k.v = envelope[c]
Mergeable(c, r) ==
    \/ r = "meta"
    \/ Readable(c, local[c][r]) /\ Readable(c, tracking[c][r])

PlanMerge(c, r) ==
    /\ Diverged(c, r) /\ ~TwoTrustRoots(c, r) /\ Mergeable(c, r)
    /\ made[c] < MaxCommits
    /\ local' = [local EXCEPT ![c][r] =
                   [commits |-> @.commits \cup tracking[c][r].commits
                                   \cup {Commit(c, "merge")},
                    config |-> MergedConfig(@.config, tracking[c][r].config)]]
    /\ Made(c)
    /\ ToPush(c, r)

\* An error of mergedTree is one of this ref alone.
MergeFails(c, r) ==
    /\ Diverged(c, r) /\ ~TwoTrustRoots(c, r) /\ ~Mergeable(c, r)
    /\ Settle(c, r, "unreadable")
    /\ UNCHANGED <<local, made>>

PlanRef(c, r) ==
    /\ r \in plan[c]
    /\ \/ PlanIn(c, r) \/ PlanOut(c, r) \/ PlanMerge(c, r) \/ MergeFails(c, r)
       \/ KeepTrustRoot(c, r) \/ AdoptTrustRoot(c, r) \/ TrustRootConflict(c, r)
    /\ UNCHANGED <<tracking, remote, pin, again, round, asked, start, tooOld, used, envelope>>

-----------------------------------------------------------------------------
(* pushBatch *)

\* The refs that the remote has moved under this push.
FaultyRaced(c) == {}
Raced(c) == {r \in push[c] : ~Precedes(remote[r], local[c][r])}

RoundsLeft(c) == round[c] < SyncRetries

\* One git push of all planned refs: each is accepted, refused for good, or left
\* for another round.
PushBatch(c) ==
    /\ plan[c] = {} /\ push[c] # {}
    /\ \E refused \in SUBSET ((push[c] \cap Guarded) \ Raced(c)) :
         LET accepted == push[c] \ (Raced(c) \cup refused) IN
         /\ remote' = [r \in Ref |-> IF r \in accepted THEN local[c][r]
                                                       ELSE remote[r]]
         /\ tracking' = [tracking EXCEPT ![c] =
                [r \in Ref |-> IF r \in accepted THEN local[c][r] ELSE @[r]]]
         /\ push' = [push EXCEPT ![c] = {}]
         /\ again' = [again EXCEPT ![c] = IF RoundsLeft(c) THEN Raced(c) ELSE {}]
         /\ result' = [result EXCEPT ![c] =
                [r \in Ref |->
                    IF r \in accepted THEN "done"
                    ELSE IF r \in refused THEN "refused"
                    ELSE IF r \in Raced(c) /\ ~RoundsLeft(c) THEN "exhausted"
                    ELSE @[r]]]
    /\ UNCHANGED <<local, pin, plan, round, asked, start, tooOld, used, envelope, made>>

\* The next round begins with a fetch.
NextRound(c) ==
    /\ plan[c] = {} /\ push[c] = {} /\ again[c] # {}
    /\ tracking' = [tracking EXCEPT ![c] = Fetched(c)]
    /\ plan' = [plan EXCEPT ![c] = again[c]]
    /\ again' = [again EXCEPT ![c] = {}]
    /\ round' = [round EXCEPT ![c] = @ + 1]
    /\ UNCHANGED <<local, remote, pin, push, result, asked, start, tooOld, used,
                   envelope, made>>

\* Killed, or the fetch or the push fails as a whole: nothing is reported.
Break(c) ==
    /\ Running(c)
    /\ plan' = [plan EXCEPT ![c] = {}]
    /\ push' = [push EXCEPT ![c] = {}]
    /\ again' = [again EXCEPT ![c] = {}]
    /\ asked' = [asked EXCEPT ![c] = {}]
    /\ result' = [result EXCEPT ![c] = [r \in Ref |-> "none"]]
    /\ UNCHANGED <<refs, pin, round, start, tooOld, used, envelope, made>>

Next ==
    \E c \in Clone :
        \/ InitProject(c) \/ SetPin(c) \/ Upgrade(c)
        \/ \E r \in {"users", "issue"} : Append(c, r)
        \/ SyncBegin(c) \/ PushBatch(c) \/ NextRound(c) \/ Break(c)
        \/ \E r \in Ref : PlanRef(c, r)

Spec == Init /\ [][Next]_vars

\* A running sync goes on; somebody or some hook keeps running sync.
Fairness ==
    \A c \in Clone : /\ WF_vars(SyncBegin(c))
                     /\ WF_vars(PushBatch(c) \/ NextRound(c)
                                   \/ \E r \in Ref : PlanRef(c, r))

FairSpec == Spec /\ Fairness

-----------------------------------------------------------------------------
(* Properties. *)

Config == [version : Nat, project : Nat]
Value == [commits : SUBSET CommitType, config : Config]

Results == {"none", "done", "kept", "adopted", "conflict", "unreadable", "refused",
            "exhausted"}

\* The last conjunct: no ref of a sync is forgotten, reported twice over, or
\* reported before it is settled.
TypeOK ==
    /\ local \in [Clone -> [Ref -> Value]]
    /\ tracking \in [Clone -> [Ref -> Value]]
    /\ remote \in [Ref -> Value]
    /\ pin \in [Clone -> CommitType \cup {NoPin}]
    /\ plan \in [Clone -> SUBSET Ref]
    /\ push \in [Clone -> SUBSET Ref]
    /\ again \in [Clone -> SUBSET Ref]
    /\ round \in [Clone -> 0 .. SyncRetries]
    /\ result \in [Clone -> [Ref -> Results]]
    /\ asked \in [Clone -> SUBSET Ref]
    /\ start \in [Clone -> [Ref -> Value]]
    /\ tooOld \subseteq Clone
    /\ made \in [Clone -> Nat] /\ envelope \in [Clone -> Nat]
    /\ \A c \in Clone, r \in Ref :
         result[c][r] # "none"
            <=> r \in asked[c] \ (plan[c] \cup push[c] \cup again[c])

\* A registry has one root, is never merged with one that has another, and only
\* exchanges it for the root its user pinned (resolveTrustRoots,
\* docs/03-sync-and-concurrency.md).
TrustRootIsChosen ==
    [][\A c \in Clone :
        /\ \A j, k \in Roots(local'[c]["users"]) : j = k
        /\ \A k \in Roots(local[c]["users"]) :
             k \in Roots(local'[c]["users"]) \/ pin[c] \in Roots(local'[c]["users"])]_vars

\* The schema_version that a clone or the remote requires never falls, whoever
\* initialised with which tool and whichever way the configs merge
\* (metaMergeFiles).
SchemaNeverFalls ==
    [][/\ remote'["meta"].config.version >= remote["meta"].config.version
       /\ \A c \in Clone : local'[c]["meta"].config.version
                             >= local[c]["meta"].config.version]_vars

\* A sync that ran to its end has settled every ref it was asked for, each on
\* its own: what it reports as done is published, a trust root conflict stops
\* only the registry, a refusal or the events of a newer tool only the ref they
\* are about (Sync, pushBatch).
BatchIsIndependent ==
    \A c \in Clone : ~Running(c) =>
        \A r \in asked[c] :
            \/ result[c][r] = "done" /\ Precedes(start[c][r], remote[r])
            \/ result[c][r] = "exhausted" /\ round[c] = SyncRetries
            \/ result[c][r] = "refused" /\ r \in Guarded
            \/ /\ result[c][r] = "unreadable" /\ r # "meta"
               /\ ~Readable(c, local[c][r]) \/ ~Readable(c, remote[r])
            \/ result[c][r] \in {"kept", "adopted", "conflict"} /\ r = "users"

\* Nothing on the issue is newer than the tool of any clone.
NoneIsNewer ==
    \A c \in Clone : \A k \in local[c]["issue"].commits \cup remote["issue"].commits :
        k.kind # "merge" => k.v <= envelope[c]

Settled == \A c \in Clone : local[c]["issue"] = remote["issue"]

\* The bound on merges is not used up.
MergesLeft == \A c \in Clone : made[c] < MaxCommits

\* A clone whose tool cannot read what the newer tool of another clone wrote goes
\* on once it is upgraded: when every tool reads what is there, and syncs are no
\* longer broken off, all clones end up with one issue, whichever events were
\* recorded, passed on and refused before (event.Decode, planRef; the registry
\* may be kept apart by its trust roots instead).
UpgradedConverge ==
    /\ "issue" \notin Guarded
    /\ <>[](NoneIsNewer /\ MergesLeft) /\ <>[][\A c \in Clone : ~Break(c)]_vars
    => <>[]Settled

\* "A tool checks schema_version before an operation and refuses it when it is
\* newer than what it supports" (docs/02-data-model.md): a sync that starts
\* under a newer schema makes no merge commits.
NewerSchemaIsRefused ==
    [][\A c \in tooOld : Running(c) => made'[c] = made[c]]_vars

=============================================================================
