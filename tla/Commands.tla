------------------------------- MODULE Commands -------------------------------
(***************************************************************************)
(* What commands do around their write, in one clone: the notifications    *)
(* that follow an assignment, a reply, a finished task or a mention        *)
(* (notifyapp/auto.go, usersapp/mentions.go and the commands that call     *)
(* them), users add --agent with its two writes and a key file             *)
(* (usersapp/agent.go), and what verify says of the commits that come of   *)
(* it all.                                                                 *)
(*                                                                         *)
(* An Append is one step (EntityChain and RefSync take it apart); what a   *)
(* command reads before it, and what it reads and writes after it, are     *)
(* steps of their own, with the other processes in between.                *)
(***************************************************************************)
EXTENDS Materialize, FiniteSetsExt

Issue == INSTANCE Issue
Task == INSTANCE Task
Verify == INSTANCE Verify

CONSTANTS
    Proc,         \* processes, each with a git configuration of its own
    Config,       \* Config[p]: the email and signing key it starts with
    AgentEmail,   \* AgentEmail[name]: the email AddAgent makes up for a name
    Menus         \* bounds, one of which a behavior keeps to: the kinds of
                  \* its writes, the chains it starts from, the number of IDs,
                  \* failures, the mentions and persons that occur, the
                  \* notification settings, whether clocks differ (skew) or
                  \* step back, and the lists that are read

Ref == {"registry", "task", "issue", "chat", "stream"}
NoFile == 0
NoEmail == 0

IsList(s) == s \in Seq(Range(s))

\* The commits of a chain.
WellFormed(c) ==
    /\ DOMAIN c = {"id", "kind", "actor", "data", "key"}
    /\ c.id \in Nat \ {0} /\ c.actor \in Nat \ {0} /\ c.key \in Nat
    /\ c.kind = "users.user_set" =>
         /\ c.data.username \in DOMAIN AgentEmail
         /\ Given(c.data.fields, "emails", {}) \subseteq Nat \ {0}
    /\ c.kind = "users.group_set" => IsList(c.data.members)

IsChain(commits) ==
    /\ IsList(commits)
    /\ \A m, n \in DOMAIN commits :
         WellFormed(commits[n]) /\ (m # n => commits[m].id # commits[n].id)

HasCreate(commits, kind) == \E c \in Range(commits) : c.kind = kind

\* What has commands has been created.
StartsWith(m, ref, create, kinds) ==
    m.kinds \cap kinds # {} =>
        ref \in DOMAIN m.start /\ HasCreate(m.start[ref], create)

ASSUME CommandsAssumption ==
    /\ Config \in [Proc -> [email : Nat \ {0}, key : Nat]]
    /\ IsFiniteSet(DOMAIN AgentEmail)
    /\ \A n \in DOMAIN AgentEmail : AgentEmail[n] \in Nat \ {0}
    /\ \A m \in Menus :
         /\ m.ids \in Nat /\ m.people \subseteq Nat \ {0} /\ m.keys \subseteq Nat
         /\ "agent" \in m.kinds => \E k \in m.keys : \A l \in m.keys : k >= l
         /\ \A s \in m.mentions \cup m.groups : IsList(s)
         /\ DOMAIN m.start \subseteq Ref
         /\ \A r \in DOMAIN m.start :
              IsChain(m.start[r]) /\ \A c \in Range(m.start[r]) : c.id <= m.ids
         /\ StartsWith(m, "task", "task.create",
                       {"task.reassign", "task.status", "task.note"})
         /\ StartsWith(m, "issue", "issue.create", {"issue.assign", "issue.comment"})

VARIABLES
    menu,     \* the bounds of this behavior
    chain,    \* chain[r]: the commits of a ref, in the order of the chain
    config,   \* config[p]: user.email and user.signingkey
    job,      \* job[p]: the command a process is in
    keyFile,  \* keyFile[name]: the public key of ~/.ssh/githive-<name>
    setups,   \* history: what AddAgent reported
    failures, \* how many there were
    notice    \* history: for a write that may notify, who was told, who was
              \* not for a failure, the times of its reads, and whether they
              \* were too old or cut short (stale)

vars == <<menu, chain, config, job, keyFile, setups, failures, notice>>

Name == DOMAIN AgentEmail
Idle == [at |-> "idle"]

Init ==
    /\ menu \in Menus
    /\ chain = [r \in Ref |-> Given(menu.start, r, <<>>)]
    /\ config = Config
    /\ job = [p \in Proc |-> Idle]
    /\ keyFile = [n \in Name |-> NoFile]
    /\ setups = {}
    /\ notice = <<>>
    /\ failures = 0

-----------------------------------------------------------------------------
(* Reading and writing. *)

TaskOf(commits) == FoldFrom(Task!Apply, NewState, Range(commits))
IssueOf(commits) == FoldFrom(Issue!Apply, NewState, Range(commits))
RegistryOf(commits) == FoldFrom(Verify!Apply, NewState, Range(commits))

Me(p) == config[p].email

\* The notifications that follow a write have numbers of their own, beyond the
\* IDs of the rest.  A process draws its ID before it gets to write.
UsedIds == {c.id : c \in UNION {Range(chain[r]) : r \in Ref}}
NewIds ==
    LET free == 1 .. menu.ids \ UsedIds IN
    {i \in free : menu.skew \/ \A j \in free : i <= j}

Commit(p, i, kind, data) ==
    [id |-> i, kind |-> kind, actor |-> Me(p), data |-> data,
     key |-> config[p].key]

\* Writer.Append
Write(p, ref, i, kind, data) ==
    /\ kind \in menu.kinds
    /\ chain' = [chain EXCEPT ![ref] = Append(@, Commit(p, i, kind, data))]

\* ResolveToEmail of a username: its first email, if it has one.  AddUser
\* leaves a user with one.
ResolveToEmail(s, name) ==
    IF name \in DOMAIN Verify!Users(s) /\ Verify!Users(s)[name].emails # {}
    THEN Min(Verify!Users(s)[name].emails)
    ELSE NoEmail

-----------------------------------------------------------------------------
(* Notifications after a write. *)

\* What is left to do after write i: tell these people, and those in again once
\* more, oneself excepted.
FaultyToTell(p, ref, i, people, again) ==
    IF people = {} THEN Idle
    ELSE [at |-> "tell", ref |-> ref, cause |-> i, todo |-> people,
          again |-> people \cap again]
ToTell(p, ref, i, people, again) ==
    LET todo == people \ {Me(p)} IN
    IF todo = {} THEN Idle
    ELSE [at |-> "tell", ref |-> ref, cause |-> i, todo |-> todo,
          again |-> todo \cap again]

\* NotifyAssigned, NotifyReplied, NotifyDone: if githive.notify.auto is on
Announce(p, ref, i, people, again) ==
    ToTell(p, ref, i, IF "auto" \in menu.on THEN people ELSE {}, again)

NewNotice(i, stale) ==
    Put(notice, i, [told |-> {}, lost |-> {}, stale |-> stale,
                    from |-> Len(chain["registry"]),
                    upto |-> Len(chain["registry"])])

\* task reassign and issue assign first look at who has it now.
TaskShow(p) ==
    /\ job[p] = Idle /\ "task.reassign" \in menu.kinds
    /\ \E owner \in menu.people :
         job' = [job EXCEPT ![p] =
                   [at |-> "change", ref |-> "task", kind |-> "task.reassign",
                    data |-> [owner |-> owner], new |-> {owner},
                    before |-> {TaskOf(chain["task"]).meta.owner},
                    seen |-> Len(chain["task"])]]
    /\ UNCHANGED <<menu, chain, config, keyFile, setups, failures, notice>>

\* Among those to add, one may be named twice: by username and by email.
IssueShow(p) ==
    /\ job[p] = Idle /\ "issue.assign" \in menu.kinds
    /\ \E add, remove \in SUBSET menu.people : \E twice \in SUBSET add :
         /\ Cardinality(add) + Cardinality(twice) + Cardinality(remove) \in 1 .. 2
         /\ job' = [job EXCEPT ![p] =
                   [at |-> "change", ref |-> "issue", kind |-> "issue.assign",
                    data |-> [add |-> add, remove |-> remove, twice |-> twice],
                    new |-> add,
                    before |-> IssueOf(chain["issue"]).meta.assignees,
                    seen |-> Len(chain["issue"])]]
    /\ UNCHANGED <<menu, chain, config, keyFile, setups, failures, notice>>

\* The ones who had it already are not told again.
FaultyNewcomers(j) == j.new \cap j.before
Newcomers(j) == j.new \ j.before

Change(p) ==
    LET j == job[p] IN
    /\ j.at = "change"
    /\ \E i \in NewIds :
         /\ Write(p, j.ref, i, j.kind, j.data)
         /\ notice' = NewNotice(i, j.seen # Len(chain[j.ref]))
         /\ job' = [job EXCEPT ![p] = Announce(p, j.ref, i, Newcomers(j),
                                               Given(j.data, "twice", {}))]
    /\ UNCHANGED <<menu, config, keyFile, setups, failures>>

\* task status: the answer of the fold that Append returns is whether the status
\* is now the one asked for; if that is done, notifyTaskDone tells the creator.
DoneFor(commits, to) ==
    LET meta == TaskOf(commits).meta IN
    IF to = "done" /\ meta.status = to THEN {meta.created_by} ELSE {}

TaskStatus(p) ==
    /\ job[p] = Idle
    /\ \E to \in {"todo", "done"}, i \in NewIds :
         /\ Write(p, "task", i, "task.status", [to |-> to, note |-> FALSE])
         /\ notice' = NewNotice(i, FALSE)
         /\ job' = [job EXCEPT ![p] =
                      Announce(p, "task", i, DoneFor(chain'["task"], to), {})]
    /\ UNCHANGED <<menu, config, keyFile, setups, failures>>

\* issue comment --reply-to
IssueComment(p) ==
    LET comments == Given(IssueOf(chain["issue"]).coll, "comments", <<>>) IN
    /\ job[p] = Idle
    /\ \E prior \in DOMAIN comments, i \in NewIds :
         /\ Write(p, "issue", i, "issue.comment", [reply_to |-> prior])
         /\ notice' = NewNotice(i, FALSE)
         /\ job' = [job EXCEPT ![p] =
                      Announce(p, "issue", i, {comments[prior].author}, {})]
    /\ UNCHANGED <<menu, config, keyFile, setups, failures>>

\* chat post, with the distinct names in its body in their order.
ChatPost(p) ==
    /\ job[p] = Idle
    /\ \E names \in menu.mentions, i \in NewIds :
         /\ Write(p, "chat", i, "chat.post", [names |-> names])
         /\ notice' = NewNotice(i, FALSE)
         /\ job' = [job EXCEPT ![p] =
                     IF "mentions" \in menu.on
                     THEN [at |-> "names", cause |-> i, names |-> names,
                           members |-> <<>>, found |-> {}]
                     ELSE Idle]
    /\ UNCHANGED <<menu, config, keyFile, setups, failures>>

\* One fold of the registry after another: a reading changes only the job, and
\* the window that notice keeps of it.
Reads(p, next) ==
    /\ job' = [job EXCEPT ![p] = next]
    /\ notice' = [notice EXCEPT ![job[p].cause].upto = Len(chain["registry"])]
    /\ UNCHANGED <<menu, chain, config, keyFile, setups, failures>>

Found(j, email) == [j EXCEPT !.found = (@ \cup {email}) \ {NoEmail}]

\* MentionTargets of the next name: a username first ...
ResolveName(p) ==
    LET j == job[p]
        email == ResolveToEmail(RegistryOf(chain["registry"]), Head(j.names)) IN
    /\ j.at = "names" /\ j.names # <<>> /\ j.members = <<>>
    /\ Reads(p, IF email # NoEmail
                THEN [Found(j, email) EXCEPT !.names = Tail(@)]
                ELSE [j EXCEPT !.at = "group"])

\* ... a group otherwise, whose members are resolved one by one; a name that is
\* neither is not a mention.
ResolveGroup(p) ==
    LET j == job[p]
        groups == Verify!Groups(RegistryOf(chain["registry"])) IN
    /\ j.at = "group"
    /\ Reads(p, [j EXCEPT !.at = "names", !.names = Tail(@),
                          !.members = Given(groups, Head(j.names), <<>>)])

ResolveMember(p) ==
    LET j == job[p]
        email == ResolveToEmail(RegistryOf(chain["registry"]), Head(j.members)) IN
    /\ j.at = "names" /\ j.members # <<>>
    /\ Reads(p, [Found(j, email) EXCEPT !.members = Tail(@)])

\* The rest of NotifyMentions.
SendMentions(p) ==
    LET j == job[p] IN
    /\ j.at = "names" /\ j.names = <<>> /\ j.members = <<>>
    /\ job' = [job EXCEPT ![p] = ToTell(p, "chat", j.cause, j.found, {})]
    /\ UNCHANGED <<menu, chain, config, keyFile, setups, failures, notice>>

\* The loop goes over the names as they were given.
FaultyTold(p, e) ==
    LET j == job[p]
        left == j.todo \ ({e} \ j.again) IN
    job' = [job EXCEPT ![p] = ToTell(p, j.ref, j.cause, left, j.again)]
Told(p, e) ==
    LET j == job[p]
        left == j.todo \ ({e} \ j.again) IN
    job' = [job EXCEPT ![p] = ToTell(p, j.ref, j.cause, left, j.again \ {e})]

\* notifyapp.Service.Post, one for each target
Tell(p) ==
    /\ job[p].at = "tell"
    /\ \E e \in job[p].todo :
         /\ chain' = [chain EXCEPT !["stream"] =
                Append(@, Commit(p, menu.ids + Len(@) + 1, "notify.post",
                                 [targets |-> {<<"user", e>>},
                                  source |-> job[p].ref]))]
         /\ notice' = [notice EXCEPT ![job[p].cause].told = @ \cup {e}]
         /\ Told(p, e)
    /\ UNCHANGED <<menu, config, keyFile, setups, failures>>

\* A post that fails is a warning; the others are posted.
TellFails(p) ==
    /\ job[p].at = "tell" /\ failures < menu.fails /\ failures' = failures + 1
    /\ \E e \in job[p].todo :
         /\ notice' = [notice EXCEPT ![job[p].cause].lost = @ \cup {e}]
         /\ Told(p, e)
    /\ UNCHANGED <<menu, chain, config, keyFile, setups>>

\* Killed, or stopped by an error, wherever it is.
Stop(p) ==
    LET j == job[p] IN
    /\ j # Idle /\ failures < menu.fails /\ failures' = failures + 1
    /\ job' = [job EXCEPT ![p] = Idle]
    /\ notice' = IF "cause" \notin DOMAIN j THEN notice
                 ELSE [notice EXCEPT
                         ![j.cause].lost = @ \cup Given(j, "todo", {}),
                         ![j.cause].stale = @ \/ j.at # "tell"]
    /\ UNCHANGED <<menu, chain, config, keyFile, setups>>

-----------------------------------------------------------------------------
(* The registry: usersapp's commands, AddAgent, and the keys people use. *)

\* A registry command of one write; getUser comes before a key operation.
Manage(p) ==
    LET known == DOMAIN Verify!Users(RegistryOf(chain["registry"])) IN
    /\ job[p] = Idle
    /\ \E i \in NewIds :
         \/ \E n \in Name, e \in menu.people :
              Write(p, "registry", i, "users.user_set",
                    [username |-> n, fields |-> [emails |-> {e}]])
         \/ \E n \in known, k \in menu.keys :
              \/ Write(p, "registry", i, "users.key_add",
                       [username |-> n, pub |-> k])
              \/ Write(p, "registry", i, "users.key_revoke",
                       [username |-> n, pub |-> k])
         \/ \E members \in menu.groups :
              Write(p, "registry", i, "users.group_set",
                    [name |-> "team", members |-> members])
         \/ Write(p, "registry", i, "users.group_remove", [name |-> "team"])
    /\ UNCHANGED <<menu, config, job, keyFile, setups, failures, notice>>

\* AddAgent makes a key pair first; ssh-keygen does not overwrite a file that is
\* there, and a failed run leaves its file.
FaultyMayGenerate(name) == TRUE
MayGenerate(name) == keyFile[name] = NoFile

AgentKeygen(p) ==
    /\ job[p] = Idle /\ "agent" \in menu.kinds
    /\ \E n \in Name :
         /\ MayGenerate(n)
         /\ LET pub == Max(menu.keys) + 1
                     + Cardinality({m \in Name : keyFile[m] # NoFile}) IN
            /\ keyFile' = [keyFile EXCEPT ![n] = pub]
            /\ job' = [job EXCEPT ![p] = [at |-> "user", name |-> n, pub |-> pub]]
    /\ UNCHANGED <<menu, chain, config, setups, failures, notice>>

AgentUser(p) ==
    LET j == job[p] IN
    /\ j.at = "user"
    /\ \E i \in NewIds :
         /\ Write(p, "registry", i, "users.user_set",
                  [username |-> j.name,
                   fields |-> [emails |-> {AgentEmail[j.name]}]])
         /\ job' = [job EXCEPT ![p] = [at |-> "key", name |-> j.name,
                                      pub |-> j.pub, after |-> i]]
    /\ UNCHANGED <<menu, config, keyFile, setups, failures, notice>>

\* The millisecond in a ULID.
Ms(i) == (i + 1) \div 2

\* idgen.New, where the clock says now: within the millisecond of the last one,
\* the next is larger; in another, its rest is random again.
FaultyNewUlid(last, now) == {i \in NewIds : Ms(i) = now}
NewUlid(last, now) == {i \in NewIds : Ms(i) = now /\ (Ms(last) = now => i > last)}

\* The system's clock goes on or, where it is corrected, steps back.
AgentKey(p) ==
    LET j == job[p] IN
    /\ j.at = "key"
    /\ \E now \in Ms(1) .. Ms(menu.ids) : \E i \in NewUlid(j.after, now) :
         /\ now >= Ms(j.after) \/ menu.steps
         /\ setups' = setups \cup {[name |-> j.name, pub |-> j.pub,
                                    stepped |-> now < Ms(j.after)]}
         /\ Write(p, "registry", i, "users.key_add",
                  [username |-> j.name, pub |-> j.pub])
    /\ job' = [job EXCEPT ![p] = Idle]
    /\ UNCHANGED <<menu, config, keyFile, failures, notice>>

\* A person takes another key, or an agent starts with the configuration that
\* AddAgent printed and the key in the file.
Configure(p) ==
    /\ job[p] = Idle
    /\ \/ /\ "configure" \in menu.kinds
          /\ \E k \in menu.keys \cup {Verify!NoKey} :
               config' = [config EXCEPT ![p].key = k]
       \/ \E s \in setups :
            config' = [config EXCEPT ![p] = [email |-> AgentEmail[s.name],
                                             key |-> keyFile[s.name]]]
    /\ UNCHANGED <<menu, chain, job, keyFile, setups, failures, notice>>

\* Any other write, signed as the configuration says (ResolveSigner).
TaskNote(p) ==
    /\ job[p] = Idle
    /\ \E i \in NewIds : Write(p, "task", i, "task.note", [body |-> 0])
    /\ UNCHANGED <<menu, config, job, keyFile, setups, failures, notice>>

Next ==
    \E p \in Proc :
        \/ TaskShow(p) \/ IssueShow(p) \/ Change(p)
        \/ TaskStatus(p) \/ IssueComment(p)
        \/ ChatPost(p) \/ ResolveName(p) \/ ResolveGroup(p)
        \/ ResolveMember(p) \/ SendMentions(p)
        \/ Tell(p) \/ TellFails(p) \/ Stop(p)
        \/ Manage(p) \/ AgentKeygen(p) \/ AgentUser(p) \/ AgentKey(p)
        \/ Configure(p) \/ TaskNote(p)

Spec == Init /\ [][Next]_vars

-----------------------------------------------------------------------------
(* Properties. *)

TypeOK ==
    /\ menu \in Menus
    /\ \A r \in Ref : IsChain(chain[r])
    /\ \A p \in Proc : config[p].email \in Nat \ {0} /\ config[p].key \in Nat
    /\ \A p \in Proc : "cause" \in DOMAIN job[p] =>
         job[p].cause \in DOMAIN notice
    /\ \A p \in Proc : job[p].at = "tell" =>
         /\ job[p].todo # {} /\ job[p].todo \subseteq Nat \ {0, Me(p)}
         /\ job[p].again \subseteq job[p].todo
    /\ \A i \in DOMAIN notice : i \in UsedIds

(* Notifications. *)

\* The people a running command is about to tell of write i.
Pending(i) ==
    UNION {Given(job[p], "todo", {}) :
             p \in {p \in Proc : Given(job[p], "cause", Never) = i}}

Resolving(i) ==
    \E p \in Proc : job[p].at \in {"names", "group"} /\ job[p].cause = i

\* Who was told of an entity, will be, or missed it for a failure.
Informed(ref) ==
    {t[2] : t \in UNION {c.data.targets :
              c \in {c \in Range(chain["stream"]) :
                       c.kind = "notify.post" /\ c.data.source = ref}}}
    \cup UNION {Pending(i) \cup notice[i].lost :
                  i \in {c.id : c \in Range(chain[ref])} \cap DOMAIN notice}

\* Who took something up themselves.
OwnDoing(ref) ==
    {c.actor : c \in {c \in Range(chain[ref]) :
        c.actor \in Given(c.data, "add", {}) \cup {Given(c.data, "owner", NoEmail)}}}

InCharge(ref, commits) ==
    IF ref = "task" THEN {TaskOf(commits).meta.owner}
                    ELSE IssueOf(commits).meta.assignees

\* Whoever has a task or an issue now had it from the start, took it, or was
\* told, however commands that looked at the old holder overlapped.
HoldersKnow ==
    \A r \in {"task", "issue"} : "auto" \in menu.on /\ chain[r] # <<>> =>
        InCharge(r, chain[r]) \subseteq
            InCharge(r, menu.start[r]) \cup Informed(r) \cup OwnDoing(r)

\* The states the registry had while the mentions of a message were resolved.
Window(i) ==
    {RegistryOf(SubSeq(chain["registry"], 1, n)) :
       n \in notice[i].from .. notice[i].upto}

Members(s, name) == Range(Given(Verify!Groups(s), name, <<>>))

\* The people whom a name, or a member of the group it names, meant at some
\* time, and those whom it meant all the time.
MeantAtSomeTime(i, name) ==
    LET members == UNION {Members(s, name) : s \in Window(i)} IN
    {ResolveToEmail(s, m) : s \in Window(i), m \in {name} \cup members} \ {NoEmail}
MeantThroughout(i, name) ==
    {e \in MeantAtSomeTime(i, name) :
        \/ \A s \in Window(i) : ResolveToEmail(s, name) = e
        \/ \E m \in Name : \A s \in Window(i) :
             /\ ResolveToEmail(s, name) = NoEmail
             /\ m \in Members(s, name) /\ ResolveToEmail(s, m) = e}

\* Whom a write is about (docs/features/notify.md, docs/features/chat.md), given
\* the commits before it and with it.
Concerned(c, before, after) ==
    CASE c.kind = "task.reassign" -> {c.data.owner} \ InCharge("task", before)
      [] c.kind = "issue.assign"  -> c.data.add \ InCharge("issue", before)
      [] c.kind = "issue.comment" ->
            {IssueOf(before).coll.comments[c.data.reply_to].author}
      [] c.kind = "task.status"   ->
            IF /\ c.data.to = "done" /\ TaskOf(after).meta.status = "done"
               /\ TaskOf(before).meta.status # "done"
            THEN {TaskOf(after).meta.created_by} ELSE {}
      [] c.kind = "chat.post"     ->
            UNION {MeantThroughout(c.id, name) : name \in Range(c.data.names)}

\* Whom it may be announced to: more, if what was read before it or after it was
\* changing.  A task that was done already is announced once more.
Announced(c, before, after) ==
    CASE c.kind = "task.reassign" /\ notice[c.id].stale -> {c.data.owner}
      [] c.kind = "issue.assign" /\ notice[c.id].stale  -> c.data.add
      [] c.kind = "task.status"   ->
            IF c.data.to = "done" /\ TaskOf(after).meta.status = "done"
            THEN {TaskOf(after).meta.created_by} ELSE {}
      [] c.kind = "chat.post"     ->
            UNION {MeantAtSomeTime(c.id, name) : name \in Range(c.data.names)}
      [] OTHER -> Concerned(c, before, after)

Setting(ref) == IF ref = "chat" THEN "mentions" ELSE "auto"

NoticeFits(ref, n) ==
    LET c == chain[ref][n]
        before == SubSeq(chain[ref], 1, n - 1)
        after == SubSeq(chain[ref], 1, n)
        sent == notice[c.id].told \cup Pending(c.id) IN
    IF Setting(ref) \notin menu.on THEN sent = {}
    ELSE /\ sent \subseteq Announced(c, before, after) \ {c.actor}
         /\ \/ Resolving(c.id) \/ notice[c.id].stale
            \/ Concerned(c, before, after) \ {c.actor}
                  \subseteq sent \cup notice[c.id].lost

\* The notifications of a write go to the people it concerns, never to its
\* author, and to nobody the registry did not name meanwhile.
TheRightPeopleAreTold ==
    /\ HoldersKnow
    /\ \A r \in {"task", "issue", "chat"} : \A n \in DOMAIN chain[r] :
         chain[r][n].id \in DOMAIN notice => NoticeFits(r, n)

\* The notifications that a person got of an entity, other than by notify post;
\* the writes to it that the person was told of, and those that name the person
\* twice.
PostsTo(ref, e) ==
    {c \in Range(chain["stream"]) :
        /\ c.id > menu.ids /\ c.kind = "notify.post"
        /\ c.data.source = ref /\ <<"user", e>> \in c.data.targets}
Causes(ref, e) ==
    {c \in Range(chain[ref]) :
        c.id \in DOMAIN notice /\ e \in notice[c.id].told}
Doubles(ref, e) == {c \in Causes(ref, e) : e \in Given(c.data, "twice", {})}

Addressees(ref) ==
    UNION {notice[i].told : i \in {c.id : c \in Range(chain[ref])} \cap DOMAIN notice}

\* No write is announced to a person more than once, whichever posts failed in
\* between and whatever else is announced at the same time, except to one whom
\* issue assign was given under two names (Tell, resolveUserRefs).
OnePostPerName ==
    \A r \in {"task", "issue", "chat"} : \A e \in Addressees(r) :
        Cardinality(PostsTo(r, e))
            <= Cardinality(Causes(r, e)) + Cardinality(Doubles(r, e))

-----------------------------------------------------------------------------
(* Signatures. *)

EventsOf(kind, name) ==
    {c \in Range(chain["registry"]) : c.kind = kind /\ c.data.username = name}

Latest(E) == CHOOSE e \in E : \A d \in E : d.id <= e.id

\* The additions of a key to a user that take effect, and its revocations.
Additions(name, key) ==
    {a \in EventsOf("users.key_add", name) :
        /\ a.data.pub = key
        /\ \E u \in EventsOf("users.user_set", name) : u.id < a.id}
Revocations(name, key) ==
    {r \in EventsOf("users.key_revoke", name) :
        r.data.pub = key /\ \E a \in Additions(name, key) : a.id < r.id}

Emails(name) ==
    LET E == {u \in EventsOf("users.user_set", name) :
                "emails" \in DOMAIN u.data.fields} IN
    IF E = {} THEN {} ELSE Latest(E).data.fields.emails

KeysOf(email) ==
    {a.data.pub : a \in UNION {EventsOf("users.key_add", n) :
                                 n \in {n \in Name : email \in Emails(n)}}}

Owners(key) == {n \in Name : Additions(n, key) # {}}
AtMostOne(S) == \A x, y \in S : x = y
EmailsWith(key) == UNION {Emails(n) : n \in Owners(key)}

\* Rules 1 to 3 of docs/11-security.md, in terms of the events: the key is
\* registered for a user with the email, and no revocation of it is older than
\* the commit, or by less than late.
FollowsRules(c, late) ==
    \E n \in Owners(c.key) :
        /\ c.actor \in Emails(n)
        /\ \A r \in Revocations(n, c.key) : c.id < r.id + late

\* verify accepts what the rules accept, for a key with one email.  It accepts
\* nothing else of an email with one key, but for a commit made less than a
\* second after the revocation.  (With more keys any timely one will do.)
VerdictsFollowRules ==
    \A r \in {"registry", "task"} :
        LET issues == Verify!VerifyRef(chain[r], RegistryOf(chain["registry"]),
                                       r = "registry", Verify!NoPin) IN
        \A c \in Range(chain[r]) :
            LET refused == <<c.id, "invalid_or_missing_signature">> \in issues IN
            /\ FollowsRules(c, 0) /\ AtMostOne(EmailsWith(c.key)) => ~refused
            /\ ~refused /\ AtMostOne(KeysOf(c.actor)) => FollowsRules(c, Verify!Second)

\* What users add --agent reported stays true, whoever else adds an agent of that
\* name or was killed at it: the key in the file is registered for the agent,
\* unless the clock stepped back between the command's two writes.
SetupsWork ==
    \A s \in setups :
        /\ keyFile[s.name] = s.pub
        /\ ~s.stepped => \E k \in Range(Verify!Users(RegistryOf(chain["registry"]))[s.name].keys) :
             k.pub = s.pub

=============================================================================
