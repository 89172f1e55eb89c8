# githive: TLA+ models, checks and proofs

githive keeps issues, tasks, chats, notifications, a user registry and a wiki
in git refs and replicates them with nothing but `git fetch` and `git push`.
There is no server of its own: every guarantee comes from compare-and-swap ref
updates in a clone, from git's fast-forward rule at the remote, and from the
rule that state is a fold over a set of immutable events. This directory states
those guarantees and checks them against the code.

To run: `tlc -config RefSyncRaces.cfg MCRefSync` (each cfg names its module in
PROJECT.json), and `tlapm` on RefSyncProofs, SyncBatchProofs, EntityChainProofs,
WikiProofs, FoldLaws, EntityProofs, ServerProofs and NoticeProofs.

## The system

| component | state it keeps | operations | correct when |
|---|---|---|---|
| entity chain (`entitychain`, `chain`) | one ref per entity, a chain of event commits | Append (fold, commit, compare-and-swap, retry), Fold | a reported event is on the chain exactly once, the committed tree is the fold |
| checkpoints (`fsckapp/compact`, `chain/checkpoint`) | checkpoint events on the chain, carrying a snapshot | `fsck --compact`; every read may restart at one | reading from it equals folding everything |
| sync (`syncapp`) | local refs, tracking refs `refs/githive-remote/*` | fetch, plan, fast-forward or event-union merge, batched push, retry rounds | no event is lost, clones converge, success means published |
| status (`syncapp/discovery`) | none | unpushed = local differs from tracking | nothing unpublished is hidden |
| wiki (`wikiapp`, `syncapp/wiki`) | a branch ref, a temporary worktree, a config entry naming it | edit, save (commit, 3-way merge, push, clean up), conflict reruns, sync | no saved text is lost, nobody's push is rewound, one edit at a time |
| fold and reducers (`materialize`) | none: pure functions of an event set | one reducer per event kind, restart from a checkpoint state | the same for every order of arrival |
| registry, trust roots, meta (`usersapp`, `syncapp/trustroot`, `initapp`) | `users/registry`, `meta/config` | user, key, group, policy events; init; pin | two roots are never merged; schema_version never falls |
| notify (`notifyapp`) | `notify/stream` | post, ack, posts after other commands | an ack stays, a post reaches its targets |
| agents, mentions (`usersapp/agent`, `mentions`, `notifyapp/auto`) | key files, git configuration | `users add --agent`, posts after other commands, @names in messages | a setup that is reported works, a notification goes to whom its write concerns |
| verify, signing (`verifyapp`, `core/sign`) | git configuration | sign a commit, judge the commits of a ref | the verdict follows the rules of docs/11 |
| log, MCP lists (`logapp`, `chain`, `mcp.go`) | none; a client holds a cursor | `log --since`, list tools page by page | nothing is left out, nothing comes twice |
| ULIDs (`idgen`) | the generator's last value and entropy | NewWithTimestamp | what order events fold in when clocks differ or step back |
| envelopes (`event`) | none | decode, version check | events of a newer tool are passed on, not merged |
| doctor, fsck's validation | none | read-only reports | |
| canonical JSON, ref names, flags and output | none | conversions and I/O | |

Interaction: every command is a process of its own (a terminal, an agent's MCP
server, a hook) that starts git subprocesses. Processes in one clone share its
refs, config and worktrees and know of each other only through them; clones
share the remote. The MCP server calls the same services, so a tool call is one
more process. Append holds a mutex per repository within a process, which
orders calls the compare-and-swap would have ordered anyway.

What is hard: a command reads a ref in one git call and updates it in another;
a fetch, a plan and a push are far apart; a push can land without its answer
arriving; a command can be killed anywhere; clocks differ, so event order is
not creation order; snapshots and tracking refs are caches that go stale; a
human reruns a save in whatever state the last one left. PROJECT.json lists
each of these at its line under `hazards`.

## Modules

| module | models | source |
|---|---|---|
| `EventUnion` | the abstract promise: replicas of a set of events that only grows | `merge.UnionEvents`, docs/03 |
| `RefSync` | one event ref in several clones and the remote: Append and sync, one git call per step, with failures and remote faults | `entitychain.go`, `syncapp.go`, `discovery.go`, `gitx.go` |
| `RefSyncProofs` | theorems about RefSync | |
| `SyncBatch` | a sync of several refs at once: discovery, plans, one push, rounds, results; the two refs that merge otherwise, users/registry (trust root, pin) and meta/config (schema version), with init and Append's version gate; tools that read different event versions | `syncapp.go`, `envelope.go`, `trustroot.go`, `discovery.go`, `initapp.go`, `entitychain.go` |
| `SyncBatchProofs` | theorems about SyncBatch | |
| `EntityChain` | one chain in one clone: what Append folds, what fsck compacts, how checkpoints shorten reading, what `log --since` finds | `entitychain.go`, `checkpoint.go`, `compact.go`, `materialize.go` |
| `EntityChainProofs` | theorems about EntityChain | |
| `Wiki` | the wiki ref, its worktrees, edit, save and the wiki part of sync | `wikiapp/write.go`, `syncapp/wiki.go`, `gitx.go` |
| `WikiProofs` | theorems about Wiki | |
| `Materialize` | the state of a fold, the engine, the parts reducers share, checkpoint snapshots | `materialize.go`, `checkpoint.go`, `order.go` |
| `Issue`, `Task`, `Chat`, `Notify`, `Users` | the reducers of one feature each, and what is read out of its state | `materialize/*.go`, `notifyapp/read.go` |
| `Entity` | the commands of all features on one entity in several clones, with syncs and checkpoints | `issueapp`, `taskapp`, `chatapp`, `notifyapp`, `usersapp`, `compact.go` |
| `FoldLaws` | theorems about folds of events, for any reducer | |
| `EntityProofs` | theorems about Entity: that trees are folds, and what trees say | |
| `Verify` | what verify says of a chain under a registry | `verifyapp.go`, `sign.go`, `materialize/users.go` |
| `Commands` | what commands do around their write in one clone: look-ups before, notifications after, agent setups, configured keys | `auto.go`, `mentions.go`, `agent.go`, `cmd/githive/{task,issue,chat,mcp}.go`, `idgen.go` |
| `Server` | the MCP server's paged lists and its notification tools, beside everything in Commands | `cmd/githive/mcp.go`, `logapp.go`, `notifyapp/read.go` |
| `ServerProofs`, `NoticeProofs` | theorems about Commands and Server: chains, pages, setups and verdicts; who is told of a write | |
| `MCRefSync`, `MCSyncBatch`, `MCEntityChain`, `MCWiki`, `MCEntity`, `MCCommands` | instances | |

RefSync implements EventUnion: with `known[c] <- local[c] \cap Event` every
append is a Record, every fast-forward or merge a Learn, everything else a
stutter (`ImplementsUnion`, checked and proved). SyncBatch looks at the same
sync across refs: what RefSync splits into git calls (planning a ref, the push)
is one step there, and what RefSync has one of, refs, it has several. EntityChain refines the other
dimension, the contents of one clone's chain; it takes from RefSync that the
chain only grows (`LocalOnlyFastForwards`) and sees a sync of the same clone as
the two actions FastForward and MergePeer. Wiki uses the same view of refs.
Entity takes from both that a command is one new event on a tip and a sync the
union of two tips, and looks at what the events mean. Commands takes Append to
be one step and looks at the steps a command takes before and after it.

### RefSync

A ref is the set of commits reachable from it. As every commit adds an
identifier of its own, equality of sets is equality of tips and inclusion is
ancestry. `local`, `tracking` and `remote` are the three refs sync compares;
`pc`, `base`, `seen`, `round` are what a running command holds: the stage it
is at, the local and remote values it works from, its attempts. `goal`,
`outcome`, `failures`, `faults` are history. Steps and code:

- AppendBegin, AppendRead, AppendCommit, AppendLost: `Writer.Append`'s loop.
  A lost compare-and-swap goes back to the read, up to AppendRetries.
- SyncBegin; FetchRead, FetchWrite: `git fetch` in two steps, so that a slower
  fetch may write an older advertisement; a ref the remote lacks leaves the
  tracking ref alone, as the refspec has no prune.
- PlanLocal, PlanTracking: `planRef`'s two rev-parses and its decision.
  FastForward, MergeAndAdvance, AdvanceLost: the compare-and-swap that follows;
  a lost one ends the sync with an error, there is no retry.
- PushRead, PushLand, PushRejected, PushAck: `git push` resolves the ref, looks
  at the advertisement, the remote compares again when it updates, and the
  answer moves the tracking ref. Both kinds of race start another round
  (`classifyPushRejection`), up to SyncRetries.
- Fail: killed, network gone, answer lost, permanent rejection.
  OverwriteRemote, DeleteRemote: what others may do to the remote.

The schema_version gate, signing and what the events say are not in it.

### SyncBatch

`local`, `tracking` and `remote` hold a value per ref: the commits its tip
reaches and, for meta/config, the config.json at the tip. A running sync is
three sets of refs: `plan` (pending, not yet looked at), `push` (toPush) and
`again` (retryable); `result` is `done` and the failures by kind, `round` the
loop counter. SyncBegin is the command's DiscoverRefs and the start of Sync
with SkipInitialFetch; PlanRef is planRef with a case each for up to date or
fast-forward in (PlanIn), fast-forward out (PlanOut), merge (PlanMerge) and the
outcomes of resolveTrustRoots (KeepTrustRoot, AdoptTrustRoot,
TrustRootConflict); PushBatch is pushBatch, NextRound the next turn of the
loop, Break a kill or a failed fetch or push. InitProject founds a meta/config
whenever the clone has none, Append goes through the version check, SetPin is
the `git config` the conflict error asks for. A tool's own version is
`Supports[c]`. MergedConfig is metaMergeFiles; config.json is always readable
here. `asked`, `start` and `tooOld` are history.

Each commit of an event carries the envelope version of the tool that wrote it
(`v`), and `envelope[c]` is what the tool in a clone writes and the newest it
reads. A walk over a newer event fails (Readable): Append is refused, a merge
ends that ref's sync (MergeFails) and no other's, while a fast-forward and a push
pass events on unread (Mergeable guards PlanMerge only). Upgrade installs the
newest tool after such a failure. FairSpec adds that syncs go on, for
UpgradedConverge. A Setup picks the refs and the versions.

### EntityChain

The chain is a sequence of commits: events, checkpoints, merges (a merge holds
the IDs of the side not spelled out). The fold state is the sequence of IDs in
the order their reducers ran, so two folds are equal iff no reducer could tell
them apart. FindCheckpointStart, CheckpointBase, FoldInputs, ShouldCompact,
MaxEventId are the code's functions. `snap` is the data a compaction built
before Append read the ref (again); `data.head` in it says which chain it is a
snapshot of. With `Skew` IDs are drawn in any order. Fold sorts by rank (Nth):
the n-th event is the one with n - 1 smaller ones.

`from` of a merge is the place its side branched off, so that the walk of
WalkChainSince can be followed: Visited is walkDFS, which goes on from a commit
to its parents unless the commit holds an envelope older than the cutoff, and
LogSince what `log --since` makes of it. The order of the commits inside a side
is not in the model, so SinceIsComplete says nothing of an old side's own events
(OlderAbove).

### Wiki

`trees[w]` is a worktree: its HEAD, whether it has changes, an unfinished
merge, unmerged index entries, conflict markers. `job[p]` is the command a
terminal runs. EditCheck, EditAdd, EditRecord are `Edit`; SaveBegin to
UnsetConfig are `Save` with its two entries (saveNormal, finishConflictRerun)
and the merge-and-push loop; SyncFetch to SyncPush are sync for this ref. Write
and Resolve are the human, PeerPush other clones. The push is one step here,
its inside is RefSync's subject. Commands may overlap; the code promises less
then, so `overlapped` records whether two ever did and the properties that
need one command at a time say so. ReadHead and ReadTip are the two git calls in
which pushMergedOnce reads the worktree's HEAD and then the ref it will compare
with. A documented manual discard of a worktree
(`git worktree remove` by hand) is not modelled.

### Materialize, the reducers, Entity

An event is a record of its ID, kind, actor and data; the ID stands for the
event's time too, as idgen draws both together. A state is the code's triple of
meta, collections and scratch, each a function from names to values, so that a
key the code has not set is not in the domain. A reducer is an operator of
state and event (`Issue!Status`, `Users!KeyAdd`, ...), `Apply` of a feature is
its registry, and FoldFrom folds them in ID order. StateToMap and StateFromMap
keep what the code's keep: sets become objects and come back as sets, an
unknown scratch key or a missing scratch part refuses the snapshot.

Entity has one `tip` per clone and one for the remote: the events of the chain,
the tree committed last, and the checkpoint that a read would start from. Each
command of a service is an action, guarded by what the code asks for (an entity
that exists, a user that getUser finds) and by nothing else: an invalid status
transition is recorded and ignored by the fold, as in the code. A command's
tree comes from FoldInputs, which may start from a restored snapshot; Joined is
what planRef leaves after a sync (one side's tip, or a merge commit that hides
checkpoints). `menu` picks, per behavior, which kinds of events occur, so that
kinds whose reducers share no state are not multiplied with each other.

Data that is overwritten as a whole is represented by one field (the title for
title, body, due and priority), bodies and renderings are left out. Labels on a
create are left out, as its assignees take the same path.

### Verify and Commands

`chain[r]` is the commits of a task, an issue, a chat, the registry and the
notification stream, each with the key that signed it; `config[p]` is the git
configuration of a process, `keyFile` the key files below ~/.ssh. `job[p]` is
the command in progress: TaskShow and IssueShow are the `Show` of `task
reassign` and `issue assign`, Change their write; TaskStatus and IssueComment
are those commands up to their write; ChatPost is followed by ResolveName,
ResolveGroup and ResolveMember, one for each fold of the registry that
MentionTargets makes, and SendMentions. Tell is one `Post`, TellFails the
warning that a failed one leaves, Stop a kill or an error anywhere. AgentKeygen,
AgentUser and AgentKey are AddAgent; Manage is the other registry commands,
Configure a person changing keys or an agent pasting the snippet it was given,
TaskNote any other write. The people to add in an `issue assign` are a list that
may name one of them twice, by username and by email (resolveUserRefs keeps both):
`twice` in its data, and `again` in the job that tells them, which Told takes off
one at a time. The MCP tools of the same names do the same steps.
`notice` and `setups` are history: who was told of a write, what the registry
was while its mentions were looked up, whether the look-ups of a write were too
old or cut short (`stale`), and which agents were reported as set up.
Whether a holder was told is read from the stream itself (HoldersKnow).

A mention of a name is `names` of a message, in their order; finding names in
text is left out. Replies to comments that do not exist are left out, as they
notify nobody. A process draws its ULIDs from its
clock (Ms) and from its last one: NewUlid counts on within the same millisecond
and, where the clock stepped back (menus with `steps`), gives a smaller one. In
Verify a commit's time is its ID's, cut to a second as git does (GitTime); that the identity, and with it the committer's time, is resolved
before the ID is drawn, once for all attempts, is left out. VerifyRef's check
that actor and committer agree never fails on what Append writes.

### Server

`paging[p]` is what the client of an MCP server holds of the list it reads: the
cursor and what it was shown, and as history what was in the list at every page.
Page is a call of a list tool: it reads the list again (Items: all
notifications, the unread ones, the log over all refs) and cuts a page out of it
(PageOf, which is paginate). NotifyPost and NotifyAck with AckNext are the
notification tools, an Append for each acknowledged ID. Next is ServerNext, so
everything in Commands goes on between two pages. The other list tools page the
same way over lists that only grow.

## Runs

| run | question | bounds | states |
|---|---|---|---|
| RefSyncRaces | safety and refinement under every interleaving of three processes in two clones, with a remote whose ref may be deleted | 1 event and 1 merge per process, 2 attempts, 1 deletion; the two processes of a clone are symmetric | 6.4 M |
| RefSyncLive | convergence, termination | 2 processes, 1 event, 3 merges each, 1 failure, 2 overwrites | 85 k |
| RefSyncDeleted | finding: a deleted ref is not healed | 1 deletion | |
| SyncBatch | results of a batch, trust roots, schema version, events of newer tools, convergence after an upgrade | 2 clones, the second with a newer tool; 2 of the 3 refs at a time; events up to 2 commits in one clone and 1 in the other, merges up to 4; 2 rounds; event versions 1 and 2, an upgrade from one to the other | 691 k |
| SyncBatchOld | finding: a sync under a newer schema goes on | as SyncBatch | |
| EntityChain | shortcut = full fold, tree = fold, exactly once, compaction rests, `log --since` misses only what lies behind an older commit | 2 writers, 1 fsck, 4 IDs in any order, 2 of them a peer's, 2 checkpoints | 115 k |
| EntityChainStale | finding: a stale snapshot hides an event | 1 writer, 1 fsck | |
| Entity | trees are folds, last writer wins, status machines, acks, keys, superseding, nothing is taken back | 2 clones, 1 of them with a slow clock; 10 menus with 3 IDs (checkpoint menus included), 6 with 4 | 866 k |
| Commands | notifications go to whom they concern, once for each name given, verdicts follow the rules, agent setups work, lists read in pages are complete | 2 processes; 12 menus of command kinds with 1 to 4 writes on chains that exist, some with IDs in any order or a clock that steps back, some with 1 failure; pages of 1 and 2 items | 1.1 M |
| Wiki | nothing saved is lost, remote never rewound, no orphaned worktree | 2 terminals, 2 worktrees, 6 commits (3 once commands overlapped), 1 failure | 1.1 M |
| WikiMarkers | finding: markers are committed by a second rerun | 1 terminal | |
| WikiRerun | finding: a rerun after a failure has nothing to save | 1 terminal, 1 failure | |

Why the bounds are enough. In SyncBatch two refs suffice for one to be pushed,
refused or in conflict while the other races, and three commits for two
foundings, a merge and an event on top of it; its proofs hold without bounds.
Two clones and the remote are all the parties one
push race has; the third process makes two commands race inside a clone while
the other clone pushes. Two attempts give a lost attempt, a retry and
exhaustion; more repeat the retry. MaxMerges only has to leave merges for the
clones to merge each other's merges and stop; the proofs of RefSync hold for
all bounds and all faults, kills among them. Four IDs let a checkpoint cover a late event, sit before another
late one, and be covered by a second checkpoint. In Entity three IDs are a
create and two events that meet in a merge in either order, or a checkpoint
with an event on either side; four let a pair of clones both change what a
third event set, or an event arrive behind a checkpoint. In Commands two
processes with two or three writes are two commands that overlap and one that
sees both; four are a key that is added, revoked and added again with a commit
anywhere between, or two setups of one agent. Six commits allow a base, two
diverging saves, a merge, and a race on top of the merge. Three notifications
and pages of one are a page before, at and behind an item that is posted or
acknowledged away between two calls. CHECK_DEADLOCK is off
in EntityChain, Entity, Wiki and Commands, where IDs and commits run out; in RefSync a sync can
always start.

Every property of a passing run has a wrong variant of one operator (the
Faulty operators) that makes TLC report it; PROJECT.json lists them.

Fairness (RefSyncLive, SyncBatch): WF of the steps of a running command, which is a
process the operating system runs and whose loops are bounded; WF of SyncBegin,
because docs/03 promises convergence to users who keep syncing, by hand or by
hook. No strong fairness, and none for Append, Fail or the faults. WF of
SyncBegin with a bounded number of events is what makes convergence a fair
claim: with appends for ever, pushes can lose the race for ever.
In SyncBatch it is the same for SyncBegin and the steps of a running sync.
Installing a new tool is nobody's duty: UpgradedConverge is about behaviors in
which, from some time on, no clone's tool is older than an event on the issue and
no sync is broken off; an Upgrade is possible whenever a tool failed on a newer
event. Merges can be made in vain when pushes lose their races, so the property
also asks that their bound is not used up (MergesLeft). One clone that makes two
events and another that makes one are an issue, a clone of it, and an event of each
version on either side. The safety properties are proved without bounds.

## Findings

1. docs/03-sync-and-concurrency.md:109 promises that a ref destroyed in the
   remote is healed by the next sync of an up-to-date clone. An overwritten ref
   is (RefSyncLive); a deleted one is not (RefSyncDeleted), because the tracking
   ref stays and planRef compares with it (syncapp.go:235, 260).
2. `fsck --compact` appends a snapshot of the chain it walked to a tip Append
   reads later (compact.go:74). An event in between is lost to every reader that
   takes the shortcut (EntityChainStale).
3. The second rerun of `wiki save` over unresolved markers commits them
   (write.go:222-233, WikiMarkers).
4. `wiki save` cannot be rerun after a failure behind its commit: it answers
   that there is nothing to save (write.go:198, WikiRerun).
5. docs/02-data-model.md:189 (and docs/01-architecture.md:133) have a tool
   refuse to operate under a schema_version newer than its own. Append does;
   sync does not check, so an old tool merges with its own reducers and pushes
   (syncapp.go:242, SyncBatchOld).

What the model of the reducers shows and the documents allow: a transition that
was accepted may become invalid when a merge puts another one before it, and
its note disappears with it (task.go:136); a revocation whose clock puts it
before the key's key_add has no effect (users.go:92).

What the models show besides, without a run of its own:

- docs/10-cli-spec.md:50 and ADR-0012 have `log --since` complete as long as no
  clock really went back. One good clock is not enough: Append draws the event's
  time before it reads the ref (entitychain.go:302-304), so the slower of two racing
  commands commits an older event on top of a younger one, and the walk stops
  there. SinceIsComplete says what is never missed: whatever has no commit older
  than the cutoff above it.
- docs/03-sync-and-concurrency.md:57 has an ID that follows a clock stepping back
  be the previous one plus one; idgen.go:34 starts from the earlier clock. It
  matters where one command writes twice: a key_add folded before its user_set is
  ignored (users.go:74-77), so the agent that `users add --agent` reported as set up
  has no registered key. SetupsWork excludes exactly that setup (`stepped`).
- `issue assign --add bob --add bob@x` notifies bob twice: resolveUserRefs
  (users.go:356) leaves the same email in the list twice and the loop goes over
  the list (issue.go:349, mcp.go:375), where cmd/githive/mcp_test.go:157 has "a
  genuinely new assignee must be notified exactly once". OnePostPerName says what
  holds: never more than once for each name given.
- "The ref cannot move under a checked-out worktree" (syncapp/wiki.go:24): planWiki
  looks for an edit first and moves the ref later, and an edit that begins in
  between has checked out the old tip. The save that ends the edit merges what
  came in. SyncLeavesEditsAlone is about commands that do not overlap.
- docs/features/notify.md:61 counts a notification to one's groups among those
  addressed to one; addressedTo (notifyapp/read.go:61) looks at `all` and
  `user:` only, so a notification to a group is nobody's unread one. Notify and
  AcksAreCounted have user and all targets only.
- Two `wiki edit` at once both find no recorded worktree (write.go:115), and the
  second ConfigSet replaces the first's record; a kill between WorktreeAdd and
  ConfigSet (137-141) leaves a worktree nobody records. docs/features/wiki.md:54-58
  is about an edit after a finished one, so OneEdit is about commands that
  neither overlap nor are killed.
- Two `wiki save` at once: one reads HEAD (write.go:290), the other moves the ref,
  the first reads the ref (299) and its compare-and-swap passes; the other's push,
  which is by name, then reports success without its commit. No document promises
  that saves may overlap, so WorkIsKept is about one command at a time.
- docs/features/wiki.md:88 has save reject file names that differ in case only.
  validateTree runs before the merge; what a clean merge brings together is
  pushed without it.
- After two first wikis were made apart, sync's warning (syncapp/wiki.go:71) sends
  the user to edit and save, and git refuses that merge for its unrelated roots.
  Nothing is lost on the way (WorkIsKept), and nothing converges.
- `task status done` on a task that is done answers that it was applied and
  announces it again (taskapp/operations.go:39-40 compares the status, not
  whether the event took effect; the comment at 21-23 says ok reports false when
  the fold ignores it). Announced allows for it.
- A commit in the second of a revocation, but after it, counts as before it:
  VerdictsFollowRules grants a second (verifyapp.go:92 cuts the time).
- verify accepts a signature of a revoked key when the email has another timely
  one; sign.go:108-113 says so. VerdictsFollowRules says what is accepted of
  emails with one key only, and what is refused of keys with one email.
- registry_change_without_admin asks whether the actor is an administrator now
  (verifyapp.go:120); docs/11-security.md's rule 4 says at the time of the change.
- The names of one message are looked up one by one in a registry that may be
  changing (mentions.go:24-38), where docs/features/chat.md:58 has a snapshot.
- After a kill behind ssh-keygen, `users add --agent` is refused for the file
  that is there (MayGenerate), until someone removes it.

## Proofs

RefSyncProofs proves, for all sets of clones and processes, all bounds, and all
faults, from `SyncAssumption` alone (each process has a clone, retries are
positive): TypeOK, Durable, LocalOnlyFastForwards, PushOnlyFastForwards,
SyncedMeansPublished, StatusIsSound, and that RefSync implements EventUnion.

The argument. TypeOK is inductive. LocalOnlyFastForwards needs only the three
actions that move a clone's ref: each compares with `base` and moves to a set
containing it. Durable follows: an event enters `objects` and its clone's ref in
one step, and refs only grow. The remote: PushOrdered says that a push on its
way (`sending`) goes from `seen` to a descendant, and PushLand compares with
`seen`. SyncedMeansPublished is not inductive: a sync reports success because
the tracking ref, or a value it read long ago, says so. The strengthening is
GoalKept (what the sync started from is in the clone, and in `base` once read)
and Published (without faults, tracking refs, values read from them, and landed
pushes are contained in the remote, as the remote only grows). Stored (refs and
held values consist of commits that exist) is what makes fresh commits fresh,
which the refinement needs for Record. IInv is the conjunction.

SyncBatchProofs proves TypeOK, SchemaNeverFalls, TrustRootIsChosen and
BatchIsIndependent for any clones, tool versions, guarded refs, rounds and
bounds, from `SyncBatchAssumption` (clones are positive numbers, each tool has
a version, there is at least one round). None is inductive alone. TypeOK ties
results to the sets of a running sync, so Bookkeeping says how those lie: each
ref in one of them, `again` filled only in between rounds and when one is left.
The two properties of merged refs rest on one lemma, HeldStep: fetches,
fast-forwards and pushes copy values, and a step makes at most one new value of
a ref, with a new commit. From it, Versioned (the version of a meta/config is
the highest of its founders' tools) and Registries (registries that share a
commit share their one root, which is why looking for a merge base is enough)
are invariants of all values wherever they are; LocalMoves and RemoteMoves turn
them into properties of steps. BatchIsIndependent needs AllEarned: while a ref
is pending, the clone still holds what the sync was asked to publish, and
tracking refs are in the remote.

EntityChainProofs proves TypeOK, AppendedOnce, ShortcutIsTransparent and
TreeMatchesRead for any number of writers and compactions, any IDs in any order
and any merges, from `ChainAssumption`; CheckpointsSubsumeMore where one fsck runs
at a time (two that race may subsume the same events). Most of it is about the
operators. FoldOnTop says that folding events on top of a state of smaller ones
is folding all of them; it rests on ranks (EveryRank: n IDs have all ranks from 1
to n, because rank is an injection into as many places). SplitAt says that a
checkpoint no merge hides splits the chain's events in two, and Transparent is
foldInputs from these. The invariant has three parts. Once: the ID in the hands
of a command is on no chain and in no other hands. Snapped: a checkpoint's data
is the fold of a prefix of its own chain, which stays a prefix while fsck waits,
loses and retries; with the prefix all of it (Faithful), Transparent applies.
Rests: a snapshot taken while a younger event waited holds something no punctual
checkpoint does.

SinceIsComplete, that only an older commit above an event hides it from `log
--since`, is about a depth-first walk that may stop early. Walk is a recursive
function of the place in the chain: WalkExists shows that the CHOOSE behind it has
a value, VisitedIs unfolds it. If the walk misses a place, there is a last place it
misses before one that it reaches, and that one is no merge and older than the
cutoff (StoppedAbove).

FoldLaws is the theory of folds, for any reducer (`CONSTANT Step(_, _)`, which
EntityProofs instantiates with Entity's). The library's induction
theorems take a predicate and no prover here can instantiate them;
NumberInduction and EventInduction take a set in its place, the set of numbers,
or of event sets, for which something holds. Behind FoldLeft is the library's
MapThenFoldSet, a CHOOSE of a recursive function on sets of places. RunsExist
and RunUnfolds show that it exists and what it satisfies, SortedPlaces that
SortEvents gives each event the place that is its rank; FoldOfLatest follows
(the fold of a set is its latest event applied to the fold of the others), and
FoldOfLater: folding later events on top of a fold is folding all of them. That
is what a checkpoint rests on.

EntityProofs proves TypeOK and TreesAreFolds of Entity for any clones, slow
clocks and menus, from `EntityAssumption` (clones are positive numbers, the kinds
of a menu are those of one feature). The state that a checkpoint carries went
through StateToMap and back: RestoredIsSaved shows that a state the reducers can
build (IsTree) comes back as it was, FoldTree that folds are such states. IndInv
says of each tip what FoldInputs relies on: the tree is the fold; a snapshot is
the fold of the events of its own chain that came before it; the IDs recorded as
behind it are the ones behind it; IDs are unique over all clones. TreesAreFolds
alone is not inductive, because the next command may start from the snapshot.

Its second part proves the rest of Entity's properties: StatusMachines, LastEventWins,
SupersededIsMarked, AcksAreCounted, KeysFollowEvents and NothingIsTakenBack. For
each feature it has a formula (IssueFits, TaskFits, ChatFits, NotifyFits,
UsersFits) that says what the state of a set of events is in terms of the events
alone: the title is the one of the latest event that gives one, a comment is
superseded by the latest that names it, a key is revoked by the first revocation
after it was added. Each is proved by induction on the events in ID order
(IssueFirst and IssueNext, and so on), with a lemma that spells out each reducer
(IssueSteps). Those formulas need events of the shapes the commands write and one
create at most; HistInv adds both to IndInv. The properties follow for every
tip, and NothingIsTakenBack from comparing the formulas of two event sets of which
one contains the other: a merge only adds events, wherever they sort.

WikiProofs proves TypeOK, WorkIsKept, OneEdit, WikiOnlyFastForwards and
SyncLeavesEditsAlone for any number of terminals, directories, commits, retries
and failures, from `WikiAssumption`. WorkIsKept is not inductive: that cleanup
removes a worktree without loss depends on what the save read several git calls
ago. SafeInv says, for one command at a time, what each stage knows (Holds: from
"ref" on, what is to be published is the worktree's HEAD, from "push" on it is the
ref, at "remove" it is in the remote unless --no-sync), that the checked-out
branch is never behind the ref (Ahead), that every commit is in the ref, the
remote or a worktree (Kept), and that without a kill each worktree is the recorded
one or about to be (Single). It is false once two commands overlap, which is why
they all carry ~overlapped; that the remote is never rewound needs none of it.

ServerProofs proves TypeOK, VerdictsFollowRules and SetupsWork of Commands and
PagesAreComplete of Server, for any processes, clocks, menus and page sizes, from
`CommandsAssumption` (a menu starts with chains of well-formed events, and has
commands only for what is created in them) and `ServerAssumption`. Typed is
the invariant below all of them. It says what commits look like and that their IDs
differ, which is what lets FoldLaws speak of the folds of a chain; and that a
job has the fields its next step reads. Each action has a lemma (ChangeMoves,
TellMoves, ...) that it keeps Typed and adds one commit to one chain or none.
PagesAreComplete: the list is sorted, so a page is the stretch behind the cursor
(PageIs, NextPageOk), and what has been shown is all that was there up to the cursor at
every call (PageOk); an item that appears or disappears on either side of the
cursor disturbs neither. SetupsWork: a key_add that comes after its user_set, in
the order of IDs, leaves the key in the registry whatever else is folded between
or after (RegistryEvents); AgentsOk says that the two writes are that far along.
The verdicts: RegistryFits says what emails and keys the fold of the registry has,
in terms of its events - the emails of the last user_set, a key from its first
add behind the user's first user_set, revoked by the first revocation behind
that - by induction on the events in ID order, so a slow clock, which sorts an event
between old ones, is no case of its own. From there on, VerdictsFollowRules is
verify's arithmetic on times (GitTimeIs) and its choice of the email of a key.

NoticeProofs proves TheRightPeopleAreTold of Commands, with the same assumptions.
It is not inductive, for what goes out after a write was decided by what its
command saw before, and by how far it has got. Informs adds, beside Typed: for
a `change` job, that `before` is who was in charge at a prefix of the chain, which is
the whole chain unless the notice is stale (Looked); for a chat job, that whoever
it has found is meant in some state of the registry so far, and that a name or
group member which has meant one email in all of them is found or still to be
looked up (Finding); for each write since the start, that whom it puts in charge
knows (NewAreKnown): they were in charge at the start, took it, or were told,
missed for a failure, or are about to be told. HoldersKnow follows by
induction on events, once more: whoever is in charge by the fold of all events is in
charge by the fold of the start's, or is named by another event (OwnersFit,
AssigneesFit), in whatever order clocks sort them. That a notice goes on to fit
while the registry changes under the lookups rests on MeantGrows: a longer
window has more people meant at some time and fewer meant all the time. TLC
checked Informs on the instance of Commands.cfg before it was proved.

Only model-checked: liveness (Convergence, CommandsEnd, UpgradedConverge), which is
out of the prover's reach as is ENABLED, and OnePostPerName. Every other property of a passing run is proved.
NewerSchemaIsRefused and the properties of the other violation runs are refuted.

## Plan

1. Verify's admin and trust root rules as properties; wiki reading beside a save;
   the name rules of a wiki tree across a merge.
2. Each of their invariants as a theorem beside those of its module.

Not modelled, and why: canonical JSON, ref names, signature files, flags and
output (stateless conversions and I/O, which the repository tests against its
vectors); what fsck validates and doctor reports (read-only, no state to
protect); wiki file name rules and listings (a function of one tree); editor
plugins, reference folds and scripts (not the program).
