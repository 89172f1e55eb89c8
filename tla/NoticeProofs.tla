---------------------------- MODULE NoticeProofs ----------------------------
(***************************************************************************)
(* The right people are told: TheRightPeopleAreTold of Commands, for any   *)
(* commands in progress, registry and failures.                            *)
(*                                                                         *)
(* First data: who is in charge after more events is one who was before or *)
(* whom one of them names (OwnersFit, AssigneesFit); and when more states of *)
(* the registry have been read, more people may be told and fewer must be  *)
(* (WhomShrinks). Then Informs, the invariant beside Typed. It says of each *)
(* notice that it fits its write (AllFit), of each new holder that someone *)
(* has told, tells or has failed to tell them (NewAreKnown), and of each   *)
(* command in progress what it has seen: who was in charge at a prefix of  *)
(* the chain (Looked), or which of the people that a message mentions it has *)
(* found, and which are left to find (Finding).                            *)
(*                                                                         *)
(* A step moves one command, and at most one notice with it: InformsStep is *)
(* what is left to show for it. QuietStep, PassingStep, CauseStep, ReadsStep *)
(* and WriteStep are that for the kinds of steps.                          *)
(***************************************************************************)
EXTENDS ServerProofs

-----------------------------------------------------------------------------
(* Who is in charge, and how events that come later change it.             *)

\* Whom a write puts in charge.
Named(c) ==
    CASE c.kind = "task.reassign" -> {c.data.owner}
      [] c.kind = "issue.assign"  -> Given(c.data, "add", {})
      [] OTHER                    -> {}

NamedBy(x, E) == \E e \in E : x \in Named(e)

\* The owner of a task, of all events, is the owner of some of them that have its
\* create, or is named by another.
LEMMA OwnersFit ==
    ASSUME NEW E, IsEvents(E), NEW S \in SUBSET E, HasKind(S, "task.create"),
           \A e \in E \ S : e.kind # "task.create"
    PROVE  \/ TaskFoldOf(E).meta.owner = TaskFoldOf(S).meta.owner
           \/ NamedBy(TaskFoldOf(E).meta.owner, E \ S)
  <1> DEFINE Fine(F, s, t) ==
               /\ TaskState(s) /\ TaskState(t)
               /\ Created(s) <=> HasKind(F \cap S, "task.create")
               /\ Created(t) <=> HasKind(F \cap S, "task.create")
               /\ Created(s) => \/ s.meta.owner = t.meta.owner
                                \/ NamedBy(s.meta.owner, F \ S)
             Good == {F \in SUBSET E : Fine(F, TaskFoldOf(F), TaskFoldOf(F \cap S))}
  <1>1. {} \in Good
    <2>1. {} \cap S = {} /\ ~HasKind({}, "task.create")
      BY DEF HasKind
    <2>2. TaskFoldOf({}) = NewState
      BY TaskFold DEF TaskFoldOf
    <2>3. QED
      BY <2>1, <2>2, NewTask
  <1>2. ASSUME NEW e \in E, NEW F \in SUBSET E, F \in Good, IsEvents(F),
               F = {d \in E : d.id < e.id}
        PROVE  F \cup {e} \in Good
    <2>1. e.id \in Nat /\ \A d \in F : d.id < e.id
      BY <1>2 DEF IsEvents
    <2>2. IsEvents(F \cap S) /\ \A d \in F \cap S : d.id < e.id
      <3>1. IsFiniteSet(F \cap S)
        BY <1>2, FS_Subset DEF IsEvents
      <3>2. QED
        BY <1>2, <2>1, <3>1 DEF IsEvents
    <2>3. PICK s, t : s = TaskFoldOf(F) /\ t = TaskFoldOf(F \cap S)
      OBVIOUS
    <2>4. Fine(F, s, t)
      BY <1>2, <2>3
    <2>5. PICK u, v : u = Task!Apply(s, e) /\ v = Task!Apply(t, e)
      OBVIOUS
    <2>6. TaskFoldOf(F \cup {e}) = IF IsCheckpoint(e) THEN s ELSE u
      BY <1>2, <2>1, <2>3, <2>5, TaskFold DEF TaskFoldOf
    <2>7. TaskFoldOf((F \cup {e}) \cap S) = IF e \notin S \/ IsCheckpoint(e) THEN t ELSE v
      <3>1. CASE e \in S
        <4>1. (F \cup {e}) \cap S = (F \cap S) \cup {e}
          BY <3>1
        <4>2. TaskFoldOf((F \cap S) \cup {e}) = IF IsCheckpoint(e) THEN t ELSE v
          BY <2>1, <2>2, <2>3, <2>5, TaskFold DEF TaskFoldOf
        <4>3. QED
          BY <3>1, <4>1, <4>2
      <3>2. CASE e \notin S
        <4>1. (F \cup {e}) \cap S = F \cap S
          BY <3>2
        <4>2. QED
          BY <2>3, <3>2, <4>1
      <3>3. QED
        BY <3>1, <3>2
    <2>8. HasKind((F \cup {e}) \cap S, "task.create") <=>
            HasKind(F \cap S, "task.create") \/ (e \in S /\ e.kind = "task.create")
      <3>1. \A d : d \in (F \cup {e}) \cap S <=> d \in F \cap S \/ (d = e /\ e \in S)
        OBVIOUS
      <3>2. QED
        BY <3>1, Zenon DEF HasKind
    <2>9. e \notin S => e.kind # "task.create"
      OBVIOUS
    <2>10. e \notin S => \A x : x \in Named(e) => NamedBy(x, (F \cup {e}) \ S)
      BY DEF NamedBy
    <2>11. IsCheckpoint(e) => e.kind # "task.create"
      BY DEF IsCheckpoint
    <2>12. e.kind = "task.reassign" => e.data.owner \in Named(e)
      BY DEF Named
    <2>13. /\ TaskState(u)
           /\ Created(u) <=> Created(s) \/ e.kind = "task.create"
           /\ ~Created(s) /\ e.kind = "task.create" =>
                u.meta.owner = Given(e.data, "owner", e.actor)
           /\ Created(s) => u.meta.owner = IF e.kind = "task.reassign" THEN e.data.owner
                                           ELSE s.meta.owner
      BY <2>4, <2>5, TaskStep
    <2>14. /\ TaskState(v)
           /\ Created(v) <=> Created(t) \/ e.kind = "task.create"
           /\ ~Created(t) /\ e.kind = "task.create" =>
                v.meta.owner = Given(e.data, "owner", e.actor)
           /\ Created(t) => v.meta.owner = IF e.kind = "task.reassign" THEN e.data.owner
                                           ELSE t.meta.owner
      BY <2>4, <2>5, TaskStep
    <2>15. \A x : NamedBy(x, F \ S) => NamedBy(x, (F \cup {e}) \ S)
      BY DEF NamedBy
    <2> HIDE DEF Good
    <2>16. Fine(F \cup {e}, TaskFoldOf(F \cup {e}), TaskFoldOf((F \cup {e}) \cap S))
      <3>1. CASE IsCheckpoint(e)
        BY <2>4, <2>6, <2>7, <2>8, <2>11, <2>15, <3>1
      <3>2. CASE ~IsCheckpoint(e) /\ e \in S
        BY <2>4, <2>6, <2>7, <2>8, <2>13, <2>14, <2>15, <3>2
      <3>3. CASE ~IsCheckpoint(e) /\ e \notin S
        BY <2>4, <2>6, <2>7, <2>8, <2>9, <2>10, <2>12, <2>13, <2>15, <3>3
      <3>4. QED
        BY <3>1, <3>2, <3>3
    <2>17. QED
      BY <2>16 DEF Good
  <1>3. E \in Good
    <2> HIDE DEF Good
    <2> QED
      BY <1>1, <1>2, EventInduction
  <1>4. E \cap S = S
    OBVIOUS
  <1>5. Fine(E, TaskFoldOf(E), TaskFoldOf(S))
    BY <1>3, <1>4
  <1>6. QED
    BY <1>4, <1>5

\* The assignees of an issue, of all events, are assignees of some of them that
\* have its create, or named by others.
LEMMA AssigneesFit ==
    ASSUME NEW E, IsEvents(E), NEW S \in SUBSET E, HasKind(S, "issue.create"),
           \A e \in E \ S : e.kind # "issue.create"
    PROVE  \A x \in IssueFoldOf(E).meta.assignees :
             \/ x \in IssueFoldOf(S).meta.assignees
             \/ NamedBy(x, E \ S)
  <1> DEFINE Fine(F, s, t) ==
               /\ IssueState(s) /\ IssueState(t)
               /\ Created(s) <=> HasKind(F \cap S, "issue.create")
               /\ Created(t) <=> HasKind(F \cap S, "issue.create")
               /\ Created(s) => \A x \in s.meta.assignees :
                                  \/ x \in t.meta.assignees
                                  \/ NamedBy(x, F \ S)
             Good == {F \in SUBSET E : Fine(F, IssueFoldOf(F), IssueFoldOf(F \cap S))}
  <1>0. ~Created(NewState) /\ IssueState(NewState)
    BY NewIssue
  <1>1. {} \in Good
    <2>1. {} \cap S = {} /\ ~HasKind({}, "issue.create")
      BY DEF HasKind
    <2>2. IssueFoldOf({}) = NewState
      BY IssueFold DEF IssueFoldOf
    <2>3. QED
      BY <2>1, <2>2, <1>0
  <1>2. ASSUME NEW e \in E, NEW F \in SUBSET E, F \in Good, IsEvents(F),
               F = {d \in E : d.id < e.id}
        PROVE  F \cup {e} \in Good
    <2>1. e.id \in Nat /\ \A d \in F : d.id < e.id
      BY <1>2 DEF IsEvents
    <2>2. IsEvents(F \cap S) /\ \A d \in F \cap S : d.id < e.id
      <3>1. IsFiniteSet(F \cap S)
        BY <1>2, FS_Subset DEF IsEvents
      <3>2. QED
        BY <1>2, <2>1, <3>1 DEF IsEvents
    <2>3. PICK s, t : s = IssueFoldOf(F) /\ t = IssueFoldOf(F \cap S)
      OBVIOUS
    <2>4. Fine(F, s, t)
      BY <1>2, <2>3
    <2>5. PICK u, v : u = Issue!Apply(s, e) /\ v = Issue!Apply(t, e)
      OBVIOUS
    <2>6. IssueFoldOf(F \cup {e}) = IF IsCheckpoint(e) THEN s ELSE u
      BY <1>2, <2>1, <2>3, <2>5, IssueFold DEF IssueFoldOf
    <2>7. IssueFoldOf((F \cup {e}) \cap S) = IF e \notin S \/ IsCheckpoint(e) THEN t ELSE v
      <3>1. CASE e \in S
        <4>1. (F \cup {e}) \cap S = (F \cap S) \cup {e}
          BY <3>1
        <4>2. IssueFoldOf((F \cap S) \cup {e}) = IF IsCheckpoint(e) THEN t ELSE v
          BY <2>1, <2>2, <2>3, <2>5, IssueFold DEF IssueFoldOf
        <4>3. QED
          BY <3>1, <4>1, <4>2
      <3>2. CASE e \notin S
        <4>1. (F \cup {e}) \cap S = F \cap S
          BY <3>2
        <4>2. QED
          BY <2>3, <3>2, <4>1
      <3>3. QED
        BY <3>1, <3>2
    <2>8. HasKind((F \cup {e}) \cap S, "issue.create") <=>
            HasKind(F \cap S, "issue.create") \/ (e \in S /\ e.kind = "issue.create")
      <3>1. \A d : d \in (F \cup {e}) \cap S <=> d \in F \cap S \/ (d = e /\ e \in S)
        OBVIOUS
      <3>2. QED
        BY <3>1, Zenon DEF HasKind
    <2>9. e \notin S => /\ e.kind # "issue.create"
                        /\ \A x : x \in Named(e) => NamedBy(x, (F \cup {e}) \ S)
      BY DEF NamedBy
    <2>10. IsCheckpoint(e) => e.kind # "issue.create"
      BY DEF IsCheckpoint
    <2>11. /\ IssueState(u)
           /\ Created(u) <=> Created(s) \/ e.kind = "issue.create"
           /\ Created(s) => u.meta.assignees = IF e.kind = "issue.assign"
                                               THEN AddRemove(s.meta.assignees, e.data)
                                               ELSE s.meta.assignees
      BY <2>4, <2>5, IssueStep
    <2>12. /\ IssueState(v)
           /\ Created(v) <=> Created(t) \/ e.kind = "issue.create"
           /\ Created(t) => v.meta.assignees = IF e.kind = "issue.assign"
                                               THEN AddRemove(t.meta.assignees, e.data)
                                               ELSE t.meta.assignees
      BY <2>4, <2>5, IssueStep
    <2>13. ~Created(s) /\ ~Created(t) => u = v
      BY <2>4, <2>5 DEF IssueState
    <2>14. e.kind = "issue.assign" =>
             \A A, x : x \in AddRemove(A, e.data) <=>
                         \/ x \in A /\ x \notin Given(e.data, "remove", {})
                         \/ x \in Named(e)
      BY DEF AddRemove, Named
    <2>15. \A x : NamedBy(x, F \ S) => NamedBy(x, (F \cup {e}) \ S)
      BY DEF NamedBy
    <2> HIDE DEF Good
    <2>16. Fine(F \cup {e}, IssueFoldOf(F \cup {e}), IssueFoldOf((F \cup {e}) \cap S))
      <3>1. CASE IsCheckpoint(e)
        BY <2>4, <2>6, <2>7, <2>8, <2>10, <2>15, <3>1
      <3>2. CASE ~IsCheckpoint(e) /\ e \in S /\ ~Created(s)
        BY <2>4, <2>6, <2>7, <2>8, <2>11, <2>12, <2>13, <3>2
      <3>3. CASE ~IsCheckpoint(e) /\ e \in S /\ Created(s)
        <4>1. ASSUME NEW x \in u.meta.assignees
              PROVE  x \in v.meta.assignees \/ NamedBy(x, (F \cup {e}) \ S)
          <5>1. CASE e.kind = "issue.assign"
            <6>1. /\ x \in AddRemove(s.meta.assignees, e.data)
                  /\ v.meta.assignees = AddRemove(t.meta.assignees, e.data)
              BY <2>4, <2>11, <2>12, <3>3, <4>1, <5>1
            <6>2. \/ x \in s.meta.assignees /\ x \notin Given(e.data, "remove", {})
                  \/ x \in Named(e)
              BY <2>14, <5>1, <6>1
            <6>3. x \in s.meta.assignees =>
                    x \in t.meta.assignees \/ NamedBy(x, F \ S)
              BY <2>4, <3>3
            <6>4. x \in AddRemove(t.meta.assignees, e.data) <=>
                    \/ x \in t.meta.assignees /\ x \notin Given(e.data, "remove", {})
                    \/ x \in Named(e)
              BY <2>14, <5>1
            <6>5. QED
              BY <2>15, <6>1, <6>2, <6>3, <6>4
          <5>2. CASE e.kind # "issue.assign"
            BY <2>4, <2>11, <2>12, <2>15, <3>3, <4>1, <5>2
          <5>3. QED
            BY <5>1, <5>2
        <4>2. QED
          BY <2>4, <2>6, <2>7, <2>8, <2>11, <2>12, <3>3, <4>1
      <3>4. CASE ~IsCheckpoint(e) /\ e \notin S
        BY <2>4, <2>6, <2>7, <2>8, <2>9, <2>11, <2>14, <2>15, <3>4
      <3>5. QED
        BY <3>1, <3>2, <3>3, <3>4
    <2>17. QED
      BY <2>16 DEF Good
  <1>3. E \in Good
    <2> HIDE DEF Good
    <2> QED
      BY <1>1, <1>2, EventInduction
  <1>4. E \cap S = S
    OBVIOUS
  <1>5. Fine(E, IssueFoldOf(E), IssueFoldOf(S))
    BY <1>3, <1>4
  <1>6. QED
    BY <1>4, <1>5

-----------------------------------------------------------------------------
(* Whom a write is about, in terms of what its command has read.           *)

\* MeantAtSomeTime and MeantThroughout, W the states that the registry had.
MeantInSome(W, name) ==
    LET members == UNION {Members(s, name) : s \in W} IN
    {ResolveToEmail(s, m) : s \in W, m \in {name} \cup members} \ {NoEmail}
MeantInAll(W, name) ==
    {e \in MeantInSome(W, name) :
        \/ \A s \in W : ResolveToEmail(s, name) = e
        \/ \E m \in Name : \A s \in W :
             /\ ResolveToEmail(s, name) = NoEmail
             /\ m \in Members(s, name) /\ ResolveToEmail(s, m) = e}

\* Concerned and Announced.
Whom(c, before, after, W) ==
    CASE c.kind = "task.reassign" -> {c.data.owner} \ InCharge("task", before)
      [] c.kind = "issue.assign"  -> c.data.add \ InCharge("issue", before)
      [] c.kind = "issue.comment" ->
            {IssueOf(before).coll.comments[c.data.reply_to].author}
      [] c.kind = "task.status"   ->
            IF /\ c.data.to = "done" /\ TaskOf(after).meta.status = "done"
               /\ TaskOf(before).meta.status # "done"
            THEN {TaskOf(after).meta.created_by} ELSE {}
      [] c.kind = "chat.post"     ->
            UNION {MeantInAll(W, name) : name \in Range(c.data.names)}
Allowed(c, before, after, stale, W) ==
    CASE c.kind = "task.reassign" /\ stale -> {c.data.owner}
      [] c.kind = "issue.assign" /\ stale  -> c.data.add
      [] c.kind = "task.status"   ->
            IF c.data.to = "done" /\ TaskOf(after).meta.status = "done"
            THEN {TaskOf(after).meta.created_by} ELSE {}
      [] c.kind = "chat.post"     ->
            UNION {MeantInSome(W, name) : name \in Range(c.data.names)}
      [] OTHER -> Whom(c, before, after, W)

\* Who is told or about to be, and who is accounted for.
Sent(i) == notice[i].told \cup Pending(i)
Reached(i) == Sent(i) \cup notice[i].lost

WriteKinds == {"task.reassign", "issue.assign", "issue.comment", "task.status", "chat.post"}

\* NoticeFits in these terms.
Fits(r, n) ==
    LET c == chain[r][n]
        before == SubSeq(chain[r], 1, n - 1)
        after == SubSeq(chain[r], 1, n) IN
    /\ c.kind \in WriteKinds
    /\ Setting(r) \notin menu.on => Sent(c.id) = {}
    /\ Setting(r) \in menu.on =>
         /\ Sent(c.id) \subseteq
              Allowed(c, before, after, notice[c.id].stale, Window(c.id)) \ {c.actor}
         /\ \/ Resolving(c.id) \/ notice[c.id].stale
            \/ Whom(c, before, after, Window(c.id)) \ {c.actor} \subseteq Reached(c.id)

\* The two ways to say it.
LEMMA FitsIs ==
    ASSUME NEW r, NEW n, Fits(r, n)
    PROVE  NoticeFits(r, n)
  <1>1. PICK c, before, after :
          /\ c = chain[r][n] /\ before = SubSeq(chain[r], 1, n - 1)
          /\ after = SubSeq(chain[r], 1, n)
    OBVIOUS
  <1>2. PICK W : W = Window(c.id)
    OBVIOUS
  <1>3. \A name : /\ MeantAtSomeTime(c.id, name) = MeantInSome(W, name)
                  /\ MeantThroughout(c.id, name) = MeantInAll(W, name)
    BY <1>2 DEF MeantAtSomeTime, MeantThroughout, MeantInSome, MeantInAll
  <1>4. /\ UNION {MeantAtSomeTime(c.id, name) : name \in Range(c.data.names)}
             = UNION {MeantInSome(W, name) : name \in Range(c.data.names)}
        /\ UNION {MeantThroughout(c.id, name) : name \in Range(c.data.names)}
             = UNION {MeantInAll(W, name) : name \in Range(c.data.names)}
    BY <1>3
  <1>5. Concerned(c, before, after) = Whom(c, before, after, W)
    BY <1>4 DEF Concerned, Whom
  <1>6. Announced(c, before, after) = Allowed(c, before, after, notice[c.id].stale, W)
    BY <1>4, <1>5 DEF Announced, Allowed
  <1>7. QED
    BY <1>1, <1>2, <1>5, <1>6 DEF Fits, NoticeFits, Sent, Reached

\* More is read: more people may be meant at some time, fewer all the time.
LEMMA MeantGrows ==
    ASSUME NEW V, NEW W, V \subseteq W, V # {}, NEW name
    PROVE  /\ MeantInSome(V, name) \subseteq MeantInSome(W, name)
           /\ MeantInAll(W, name) \subseteq MeantInAll(V, name)
  <1>1. \A U, e : e \in MeantInSome(U, name) <=>
          /\ e # NoEmail
          /\ \E s \in U : \E m :
               /\ m = name \/ \E t \in U : m \in Members(t, name)
               /\ e = ResolveToEmail(s, m)
    BY DEF MeantInSome
  <1>2. \A U, e : e \in MeantInAll(U, name) <=>
          /\ e \in MeantInSome(U, name)
          /\ \/ \A s \in U : ResolveToEmail(s, name) = e
             \/ \E m \in Name : \A s \in U :
                  /\ ResolveToEmail(s, name) = NoEmail
                  /\ m \in Members(s, name) /\ ResolveToEmail(s, m) = e
    BY DEF MeantInAll
  <1>3. MeantInSome(V, name) \subseteq MeantInSome(W, name)
    BY <1>1
  <1>4. ASSUME NEW e \in MeantInAll(W, name)
        PROVE  e \in MeantInAll(V, name)
    <2>1. e # NoEmail
      BY <1>1, <1>2
    <2>2. PICK s \in V : TRUE
      OBVIOUS
    <2>3. CASE \A t \in W : ResolveToEmail(t, name) = e
      <3>1. e \in MeantInSome(V, name)
        BY <1>1, <2>1, <2>2, <2>3
      <3>2. QED
        BY <1>2, <2>3, <3>1
    <2>4. CASE \E m \in Name : \A t \in W :
                 /\ ResolveToEmail(t, name) = NoEmail
                 /\ m \in Members(t, name) /\ ResolveToEmail(t, m) = e
      <3>1. PICK m \in Name : \A t \in W :
                 /\ ResolveToEmail(t, name) = NoEmail
                 /\ m \in Members(t, name) /\ ResolveToEmail(t, m) = e
        BY <2>4
      <3>2. e \in MeantInSome(V, name)
        BY <1>1, <2>1, <2>2, <3>1
      <3>3. QED
        BY <1>2, <3>1, <3>2
    <2>5. QED
      BY <1>2, <2>3, <2>4
  <1>5. QED
    BY <1>3, <1>4

\* So more may be told, and fewer must be.
LEMMA WhomShrinks ==
    ASSUME NEW c, c.kind \in WriteKinds, NEW before, NEW after, NEW V, NEW W,
           V \subseteq W, V # {},
           NEW s \in BOOLEAN, NEW t \in BOOLEAN, s => t
    PROVE  /\ Allowed(c, before, after, s, V) \subseteq Allowed(c, before, after, t, W)
           /\ Whom(c, before, after, W) \subseteq Whom(c, before, after, V)
  <1>1. CASE c.kind = "chat.post"
    <2>1. /\ \A r \in BOOLEAN : Allowed(c, before, after, r, V)
               = UNION {MeantInSome(V, name) : name \in Range(c.data.names)}
          /\ \A r \in BOOLEAN : Allowed(c, before, after, r, W)
               = UNION {MeantInSome(W, name) : name \in Range(c.data.names)}
      BY <1>1 DEF Allowed
    <2>2. /\ Whom(c, before, after, V)
               = UNION {MeantInAll(V, name) : name \in Range(c.data.names)}
          /\ Whom(c, before, after, W)
               = UNION {MeantInAll(W, name) : name \in Range(c.data.names)}
      BY <1>1 DEF Whom
    <2>3. QED
      BY <2>1, <2>2, MeantGrows
  <1>2. CASE c.kind \in {"task.reassign", "issue.assign"}
    <2>1. Whom(c, before, after, W) = Whom(c, before, after, V)
      BY <1>2 DEF Whom
    <2>2. PICK all : all = IF c.kind = "task.reassign" THEN {c.data.owner} ELSE c.data.add
      OBVIOUS
    <2>3. Whom(c, before, after, V) \subseteq all
      BY <1>2, <2>2 DEF Whom
    <2>4. /\ Allowed(c, before, after, s, V) = IF s THEN all ELSE Whom(c, before, after, V)
          /\ Allowed(c, before, after, t, W) = IF t THEN all ELSE Whom(c, before, after, W)
      BY <1>2, <2>2 DEF Allowed
    <2>5. QED
      BY <2>1, <2>3, <2>4
  <1>3. CASE c.kind \in {"issue.comment", "task.status"}
    <2>1. Whom(c, before, after, W) = Whom(c, before, after, V)
      BY <1>3 DEF Whom
    <2>2. Allowed(c, before, after, s, V) = Allowed(c, before, after, t, W)
      BY <1>3, <2>1 DEF Allowed
    <2>3. QED
      BY <2>1, <2>2
  <1>4. QED
    BY <1>1, <1>2, <1>3 DEF WriteKinds

\* What a step may do with the notice of a write: turn to more of the registry,
\* post what was pending, lose it, or be cut short.
Goes(i) ==
    /\ notice[i].stale \in BOOLEAN /\ notice'[i].stale \in BOOLEAN
    /\ notice[i].stale => notice'[i].stale
    /\ Sent(i)' \subseteq Sent(i) /\ Reached(i) \subseteq Reached(i)'
    /\ Window(i) # {} /\ Window(i) \subseteq Window(i)'
    /\ Resolving(i) => Resolving(i)' \/ notice'[i].stale

\* A notice that fits goes on to, when it does only that.
LEMMA FitsKept ==
    ASSUME NEW r, NEW n, Fits(r, n), menu' = menu, chain'[r][n] = chain[r][n],
           SubSeq(chain'[r], 1, n - 1) = SubSeq(chain[r], 1, n - 1),
           SubSeq(chain'[r], 1, n) = SubSeq(chain[r], 1, n),
           Goes(chain[r][n].id)
    PROVE  Fits(r, n)'
  <1>1. PICK c, before, after :
          /\ c = chain[r][n] /\ before = SubSeq(chain[r], 1, n - 1)
          /\ after = SubSeq(chain[r], 1, n)
    OBVIOUS
  <1>2. PICK V, W, s, t : /\ V = Window(c.id) /\ W = Window(c.id)'
                          /\ s = notice[c.id].stale /\ t = notice'[c.id].stale
    OBVIOUS
  <1>3. /\ V # {} /\ V \subseteq W /\ s \in BOOLEAN /\ t \in BOOLEAN /\ (s => t)
    BY <1>1, <1>2 DEF Goes
  <1>4. c.kind \in WriteKinds
    BY <1>1 DEF Fits
  <1>5. /\ Allowed(c, before, after, s, V) \subseteq Allowed(c, before, after, t, W)
        /\ Whom(c, before, after, W) \subseteq Whom(c, before, after, V)
    BY <1>3, <1>4, WhomShrinks
  <1>6. /\ Setting(r) \notin menu.on => Sent(c.id) = {}
        /\ Setting(r) \in menu.on =>
             /\ Sent(c.id) \subseteq Allowed(c, before, after, s, V) \ {c.actor}
             /\ \/ Resolving(c.id) \/ s
                \/ Whom(c, before, after, V) \ {c.actor} \subseteq Reached(c.id)
    BY <1>1, <1>2 DEF Fits
  <1>7. /\ Setting(r) \notin menu.on => Sent(c.id)' = {}
        /\ Setting(r) \in menu.on =>
             /\ Sent(c.id)' \subseteq Allowed(c, before, after, t, W) \ {c.actor}
             /\ \/ Resolving(c.id)' \/ t
                \/ Whom(c, before, after, W) \ {c.actor} \subseteq Reached(c.id)'
    <2>1. /\ Sent(c.id)' \subseteq Sent(c.id) /\ Reached(c.id) \subseteq Reached(c.id)'
          /\ Resolving(c.id) => Resolving(c.id)' \/ t
      BY <1>1, <1>2 DEF Goes
    <2>2. QED
      BY <1>3, <1>5, <1>6, <2>1
  <1>8. /\ chain'[r][n] = c /\ SubSeq(chain'[r], 1, n - 1) = before
        /\ SubSeq(chain'[r], 1, n) = after
    BY <1>1
  <1>9. QED
    BY <1>2, <1>4, <1>7, <1>8 DEF Fits, Setting

-----------------------------------------------------------------------------
(* What holds of notices and of the commands that have caused them.        *)

Start(r) == Given(menu.start, r, <<>>)
HasId(r, i) == \E c \in Range(chain[r]) : c.id = i

\* A notice is of one write, and what it says of the registry was there.
NoticeOk(note, len) ==
    /\ DOMAIN note = {"told", "lost", "stale", "from", "upto"} /\ note.stale \in BOOLEAN
    /\ note.from \in Nat /\ note.upto \in Nat /\ note.from <= note.upto /\ note.upto <= len
OneRef ==
    \A r, q \in Ref : \A i \in DOMAIN notice : HasId(r, i) /\ HasId(q, i) => r = q
NoticesOk ==
    /\ \A i \in DOMAIN notice : NoticeOk(notice[i], Len(chain["registry"]))
    /\ OneRef

\* What was written since the start.
NewWrites(r) == {c \in Range(chain[r]) : c \notin Range(Start(r))}
WritesOf(r) ==
    IF r = "task" THEN {"task.reassign", "task.status", "task.note"}
                  ELSE {"issue.assign", "issue.comment"}
Since ==
    \A r \in {"task", "issue"} :
        /\ Range(Start(r)) \subseteq Range(chain[r])
        /\ \A c \in NewWrites(r) : c.kind \in menu.kinds \cap WritesOf(r)

\* Whoever knows: the part of HoldersKnow that only grows.
Posted(r, x) ==
    \E c \in Range(chain["stream"]) :
        /\ c.kind = "notify.post" /\ c.data.source = r
        /\ \E t \in c.data.targets : t[2] = x
Noticed(r, x) ==
    \E i \in DOMAIN notice : HasId(r, i) /\ x \in Pending(i) \cup notice[i].lost
Knows(r, x) ==
    \/ x \in InCharge(r, menu.start[r]) \/ Posted(r, x) \/ Noticed(r, x)
    \/ x \in OwnDoing(r)

\* A command that looked before its change, at a prefix of the chain.
Looked(j) ==
    /\ j.ref \in {"task", "issue"} /\ j.new = Named([kind |-> j.kind, data |-> j.data])
    /\ (IF j.kind = "task.reassign" THEN "owner" ELSE "add") \in DOMAIN j.data
    /\ j.seen \in 0 .. Len(chain[j.ref])
    /\ j.before = InCharge(j.ref, SubSeq(chain[j.ref], 1, j.seen))
    /\ "auto" \in menu.on => \A x \in j.before : Knows(j.ref, x)

\* One that has found some of those that a message mentions, c its commit and W
\* what the registry has been.
Finding(j, c, W) ==
    LET found == j.found names == Range(j.names) members == Range(j.members) IN
    /\ names \subseteq Range(c.data.names)
    /\ \A x \in found : \E name \in Range(c.data.names) : x \in MeantInSome(W, name)
    /\ \A m \in members : \E name \in Range(c.data.names) : \E s \in W : m \in Members(s, name)
    /\ \A name \in Range(c.data.names), e \in Nat \ {NoEmail} :
         (\A s \in W : ResolveToEmail(s, name) = e) => e \in found \/ name \in names
    /\ \A name \in Range(c.data.names), m \in Name, e \in Nat \ {NoEmail} :
         (\A s \in W : /\ ResolveToEmail(s, name) = NoEmail
                       /\ m \in Members(s, name) /\ ResolveToEmail(s, m) = e)
         => e \in found \/ name \in names \/ m \in members
    /\ j.at = "group" => /\ j.members = <<>>
                         /\ \E s \in W : ResolveToEmail(s, Head(j.names)) = NoEmail

JobInforms(p) ==
    LET j == job[p] IN
    /\ j.at = "change" => Looked(j)
    /\ j.at = "tell" => j.ref \in {"task", "issue", "chat"} /\ HasId(j.ref, j.cause)
    /\ j.at \in {"names", "group"} =>
         \E c \in Range(chain["chat"]) :
            /\ c.id = j.cause /\ c.kind = "chat.post" /\ c.actor = Me(p)
            /\ "mentions" \in menu.on /\ Finding(j, c, Window(j.cause))

\* Whom a write put in charge knows, and notices go to the right people.
NewAreKnown ==
    "auto" \in menu.on =>
        \A r \in {"task", "issue"} : \A c \in NewWrites(r) : \A x \in Named(c) : Knows(r, x)
AllFit ==
    \A r \in {"task", "issue", "chat"} : \A n \in DOMAIN chain[r] :
        chain[r][n].id \in DOMAIN notice => Fits(r, n)

Informs ==
    /\ NoticesOk /\ Since /\ NewAreKnown /\ AllFit
    /\ \A p \in Proc : JobInforms(p)

-----------------------------------------------------------------------------
(* What any step keeps of them.                                            *)

\* Who is left to tell of a write, by one process and by all.
Owed(j, i) == IF j.at = "tell" /\ j.cause = i THEN j.todo ELSE {}
PendingOf(jobs, i) ==
    UNION {Given(jobs[p], "todo", {}) :
             p \in {p \in Proc : Given(jobs[p], "cause", Never) = i}}

\* What Pending takes of a command,
LEMMA OwedIs ==
    ASSUME NEW j, NEW me, NEW N, JobOk(j, me, N), NEW i, i # Never
    PROVE  (IF Given(j, "cause", Never) = i THEN Given(j, "todo", {}) ELSE {}) = Owed(j, i)
  <1>1. j.at = "idle" => DOMAIN j = {"at"}
    BY DEF JobOk, Idle
  <1>2. CASE j.at = "tell"
    <2>1. "cause" \in DOMAIN j /\ "todo" \in DOMAIN j
      BY <1>2 DEF JobOk
    <2>2. Given(j, "cause", Never) = j.cause /\ Given(j, "todo", {}) = j.todo
      BY <2>1 DEF Given
    <2>3. QED
      BY <1>2, <2>2 DEF Owed
  <1>3. CASE j.at # "tell"
    <2>1. "cause" \notin DOMAIN j \/ "todo" \notin DOMAIN j
      BY <1>1, <1>3 DEF JobOk
    <2>2. Given(j, "cause", Never) = Never \/ Given(j, "todo", {}) = {}
      BY <2>1 DEF Given
    <2>3. QED
      BY <1>3, <2>2 DEF Owed
  <1>4. QED
    BY <1>2, <1>3

\* and of all commands.
LEMMA PendingIs ==
    ASSUME NEW jobs, NEW N, \A p \in Proc : \E me : JobOk(jobs[p], me, N), NEW i, i # Never
    PROVE  \A x : x \in PendingOf(jobs, i) <=> \E p \in Proc : x \in Owed(jobs[p], i)
  <1>1. \A x : x \in PendingOf(jobs, i) <=>
          \E p \in Proc : x \in (IF Given(jobs[p], "cause", Never) = i
                                 THEN Given(jobs[p], "todo", {}) ELSE {})
    BY DEF PendingOf
  <1>2. \A p \in Proc : (IF Given(jobs[p], "cause", Never) = i
                         THEN Given(jobs[p], "todo", {}) ELSE {}) = Owed(jobs[p], i)
    BY OwedIs
  <1>3. QED
    BY <1>1, <1>2

\* The jobs after a step of one process.
JobSet(p, j) == job' = [job EXCEPT ![p] = j]

\* One process moves, the others stay.
LEMMA JobSetIs ==
    ASSUME Typed, NEW p \in Proc, NEW j, JobSet(p, j)
    PROVE  job'[p] = j /\ \A q \in Proc : q # p => job'[q] = job[q]
  BY DEF Typed, JobsTyped, JobSet

\* What others still owe stays.
LEMMA PendingMoves ==
    ASSUME Typed, Typed', NEW p \in Proc, NEW j, JobSet(p, j), NEW i, i # Never
    PROVE  \E rest : /\ Pending(i) = rest \cup Owed(job[p], i)
                     /\ Pending(i)' = rest \cup Owed(j, i)
  <1>1. job'[p] = j /\ \A q \in Proc : q # p => job'[q] = job[q]
    BY JobSetIs
  <1>2. PICK rest : rest = UNION {Owed(job[q], i) : q \in Proc \ {p}}
    OBVIOUS
  <1>3. \A x : x \in rest <=> \E q \in Proc : q # p /\ x \in Owed(job[q], i)
    BY <1>2
  <1>4. \A x : x \in Pending(i) <=> \E q \in Proc : x \in Owed(job[q], i)
    <2>1. \A q \in Proc : \E me : JobOk(job[q], me, DOMAIN notice)
      BY DEF Typed, JobsTyped
    <2>2. Pending(i) = PendingOf(job, i)
      BY DEF Pending, PendingOf
    <2>3. QED
      BY <2>1, <2>2, PendingIs
  <1>5. \A x : x \in Pending(i)' <=> \E q \in Proc : x \in Owed(job'[q], i)
    <2>1. \A q \in Proc : \E me : JobOk(job'[q], me, DOMAIN notice')
      BY DEF Typed, JobsTyped
    <2>2. Pending(i)' = PendingOf(job', i)
      BY DEF Pending, PendingOf
    <2>3. QED
      BY <2>1, <2>2, PendingIs
  <1>6. \A x : x \in Pending(i)' <=> x \in rest \/ x \in Owed(j, i)
    BY <1>1, <1>3, <1>5
  <1>7. \A x : x \in Pending(i) <=> x \in rest \/ x \in Owed(job[p], i)
    BY <1>3, <1>4
  <1>8. Pending(i)' = rest \cup Owed(j, i) /\ Pending(i) = rest \cup Owed(job[p], i)
    BY <1>6, <1>7
  <1>9. QED
    BY <1>8

Seeking(j, i) == j.at \in {"names", "group"} /\ j.cause = i

\* Only the process that resolves the mentions of a write may be done with it,
LEMMA ResolvingMoves ==
    ASSUME Typed, NEW p \in Proc, NEW j, JobSet(p, j), NEW i, Resolving(i)
    PROVE  Seeking(job[p], i) \/ Resolving(i)'
  <1>1. job'[p] = j /\ \A q \in Proc : q # p => job'[q] = job[q]
    BY JobSetIs
  <1>2. QED
    BY <1>1 DEF Resolving, Seeking

\* and while it is not, they are being resolved.
LEMMA ResolvingIs ==
    ASSUME Typed, NEW p \in Proc, NEW j, JobSet(p, j), NEW i, Seeking(j, i)
    PROVE  Resolving(i)'
  BY JobSetIs DEF Resolving, Seeking

-----------------------------------------------------------------------------

\* A chain keeps what it has.
Longer == menu' = menu /\ (Stays \/ Grows)
KeepsChain(r) ==
    /\ Len(chain[r]) \in Nat /\ Len(chain'[r]) \in Nat /\ Len(chain[r]) <= Len(chain'[r])
    /\ DOMAIN chain[r] = 1 .. Len(chain[r]) /\ DOMAIN chain'[r] = 1 .. Len(chain'[r])
    /\ \A n \in 0 .. Len(chain[r]) : SubSeq(chain'[r], 1, n) = SubSeq(chain[r], 1, n)
    /\ \A n \in 1 .. Len(chain[r]) : chain'[r][n] = chain[r][n]
    /\ Range(chain[r]) \subseteq Range(chain'[r])

\* What a chain has it keeps.
LEMMA ChainKept ==
    ASSUME Typed, Longer, NEW r \in Ref
    PROVE  KeepsChain(r)
  <1>1. IsList(chain[r])
    BY DEF Typed, ChainsTyped, IsChain
  <1>2. Len(chain[r]) \in Nat /\ DOMAIN chain[r] = 1 .. Len(chain[r])
    BY <1>1, ListParts
  <1>3. CASE chain' = chain
    BY <1>2, <1>3 DEF KeepsChain
  <1>4. CASE Grows
    <2>1. PICK ref, c : ref \in Ref /\ Appends(ref, c)
      BY <1>4 DEF Grows
    <2>2. chain'[r] = IF r = ref THEN Append(chain[ref], c) ELSE chain[r]
      BY <2>1, AppendsIs DEF Typed, Longer
    <2>3. CASE r # ref
      BY <1>2, <2>2, <2>3 DEF KeepsChain
    <2>4. CASE r = ref
      <3>1. chain'[r] = Append(chain[r], c)
        BY <2>2, <2>4
      <3>2. PICK s : s = chain[r]
        OBVIOUS
      <3>3. /\ Len(Append(s, c)) = Len(s) + 1 /\ DOMAIN Append(s, c) = 1 .. Len(s) + 1
            /\ \A n \in 1 .. Len(s) : Append(s, c)[n] = s[n]
            /\ Range(Append(s, c)) = Range(s) \cup {c}
        BY <1>1, <3>2, Appended
      <3>4. \A n \in 0 .. Len(s) : SubSeq(Append(s, c), 1, n) = SubSeq(s, 1, n)
        BY <1>1, <3>2, PrefixKept
      <3>5. QED
        BY <1>2, <3>1, <3>2, <3>3, <3>4 DEF KeepsChain
    <2>5. QED
      BY <2>3, <2>4
  <1>5. QED
    BY <1>3, <1>4 DEF Longer, Stays

\* A commit stays on its chain.
LEMMA IdsKept ==
    ASSUME Typed, Longer, NEW r \in Ref, NEW i, HasId(r, i)
    PROVE  HasId(r, i)'
  BY ChainKept DEF HasId, KeepsChain

\* A write has one chain, and those before it keep theirs.
LEMMA IdsOld ==
    ASSUME Typed, Longer, NEW r \in Ref, NEW i \in DOMAIN notice, HasId(r, i)'
    PROVE  HasId(r, i)
  <1>1. i \in UsedIds
    BY DEF Typed, NoticesTyped
  <1>2. CASE chain' = chain
    BY <1>2 DEF HasId
  <1>3. CASE Grows
    <2>1. PICK ref, c : ref \in Ref /\ Appends(ref, c)
      BY <1>3 DEF Grows
    <2>2. Range(chain'[r]) = IF r = ref THEN Range(chain[ref]) \cup {c} ELSE Range(chain[r])
      BY <2>1, AppendsIs DEF Typed, Longer
    <2>3. c.id # i
      BY <1>1, <2>1 DEF Appends
    <2>4. QED
      BY <2>2, <2>3 DEF HasId
  <1>4. QED
    BY <1>2, <1>3 DEF Longer, Stays

\* A write is on one chain.
LEMMA OneRefKept ==
    ASSUME Typed, OneRef, Longer
    PROVE  OneRef'
  <1>1. SUFFICES ASSUME NEW r \in Ref, NEW q \in Ref, NEW i \in DOMAIN notice',
                        HasId(r, i)', HasId(q, i)'
                 PROVE  r = q
    BY DEF OneRef
  <1>2. CASE i \in DOMAIN notice
    <2>1. HasId(r, i) /\ HasId(q, i)
      BY <1>1, <1>2, IdsOld
    <2>2. QED
      BY <1>2, <2>1 DEF OneRef
  <1>3. CASE i \notin DOMAIN notice
    <2>1. Grows
      BY <1>1, <1>3 DEF Longer, Stays
    <2>2. PICK ref, c : /\ ref \in Ref /\ Appends(ref, c)
                        /\ DOMAIN notice' \subseteq DOMAIN notice \cup {c.id}
      BY <2>1 DEF Grows
    <2>3. \A s \in Ref : Range(chain'[s]) = IF s = ref THEN Range(chain[ref]) \cup {c}
                                            ELSE Range(chain[s])
      BY <2>2, AppendsIs DEF Typed, Longer
    <2>4. i = c.id /\ c.id \notin UsedIds
      BY <1>1, <1>3, <2>2 DEF Appends
    <2>5. \A s \in Ref : ~HasId(s, i)
      BY <2>4, UsedIs DEF Typed, HasId
    <2>6. \A s \in Ref : HasId(s, i)' => s = ref
      BY <2>3, <2>5 DEF HasId
    <2>7. QED
      BY <1>1, <2>6
  <1>4. QED
    BY <1>2, <1>3

\* The window of a notice only widens.
LEMMA WindowKept ==
    ASSUME Typed, Longer, NEW i, NoticeOk(notice[i], Len(chain["registry"])),
           notice'[i].from = notice[i].from, notice'[i].upto \in Nat,
           notice[i].upto <= notice'[i].upto
    PROVE  Window(i) # {} /\ Window(i) \subseteq Window(i)'
  <1>1. KeepsChain("registry")
    BY ChainKept DEF Ref
  <1>2. PICK s, t, a, b, d : /\ s = chain["registry"] /\ t = chain'["registry"]
                             /\ a = notice[i].from /\ b = notice[i].upto /\ d = notice'[i].upto
    OBVIOUS
  <1>3. a \in Nat /\ b \in Nat /\ d \in Nat /\ a <= b /\ b <= d /\ b <= Len(s) /\ Len(s) \in Nat
    BY <1>1, <1>2 DEF NoticeOk, KeepsChain
  <1>4. \A n \in 0 .. Len(s) : SubSeq(t, 1, n) = SubSeq(s, 1, n)
    BY <1>1, <1>2 DEF KeepsChain
  <1>5. /\ Window(i) = {RegistryOf(SubSeq(s, 1, n)) : n \in a .. b}
        /\ Window(i)' = {RegistryOf(SubSeq(t, 1, n)) : n \in a .. d}
    BY <1>2 DEF Window
  <1>6. a \in a .. b /\ \A n \in a .. b : n \in a .. d /\ n \in 0 .. Len(s)
    BY <1>3
  <1>7. ASSUME NEW x \in Window(i)
        PROVE  x \in Window(i)'
    <2>1. PICK n \in a .. b : x = RegistryOf(SubSeq(s, 1, n))
      BY <1>5
    <2>2. x = RegistryOf(SubSeq(t, 1, n))
      BY <1>4, <1>6, <2>1
    <2>3. QED
      BY <1>5, <1>6, <2>2
  <1>8. RegistryOf(SubSeq(s, 1, a)) \in Window(i)
    BY <1>5, <1>6
  <1>9. QED
    BY <1>7, <1>8

-----------------------------------------------------------------------------
(* A step of one process, for all notices but those of its own write.      *)

\* Nobody whom a write reaches is forgotten.
Passes(i) ==
    \A x \in Pending(i) \cup notice[i].lost :
        \/ x \in Pending(i)' \cup notice'[i].lost
        \/ \A r \in {"task", "issue"} : HasId(r, i) => Posted(r, x)'
Widens(i) == Window(i) # {} /\ Window(i) \subseteq Window(i)'

\* The ID of a notice is one on a chain.
LEMMA IdIsUsed ==
    ASSUME Typed, NEW i \in DOMAIN notice
    PROVE  i # Never /\ i \in UsedIds
  <1>1. i \in UsedIds
    BY DEF Typed, NoticesTyped
  <1>2. i \in Nat \ {0}
    BY <1>1, UsedIs DEF Typed
  <1>3. QED
    BY <1>1, <1>2 DEF Never

\* What p is at, as far as notices go, does not change.
Aside(j, k, i) == Owed(j, i) = Owed(k, i) /\ (Seeking(j, i) => Seeking(k, i))

\* A notice that a step leaves alone, whoever else may be told.
LEMMA OthersGo ==
    ASSUME Typed, Typed', Longer, NEW p \in Proc, NEW j, JobSet(p, j),
           NEW i \in DOMAIN notice, NoticeOk(notice[i], Len(chain["registry"])),
           notice'[i] = notice[i], Aside(job[p], j, i)
    PROVE  Goes(i) /\ Passes(i)
  <1>1. i # Never
    BY IdIsUsed
  <1>2. PICK rest : /\ Pending(i) = rest \cup Owed(job[p], i)
                    /\ Pending(i)' = rest \cup Owed(j, i)
    BY <1>1, PendingMoves
  <1>3. Pending(i)' = Pending(i)
    BY <1>2 DEF Aside
  <1>4. Widens(i)
    <2>1. notice[i].upto \in Nat /\ notice[i].upto <= notice[i].upto
      BY DEF NoticeOk
    <2>2. QED
      BY <2>1, WindowKept DEF Widens
  <1>5. Resolving(i) => Resolving(i)'
    <2>1. Seeking(job[p], i) => Seeking(j, i)
      BY DEF Aside
    <2>2. QED
      BY <2>1, ResolvingMoves, ResolvingIs
  <1>6. /\ notice[i].stale \in BOOLEAN /\ notice'[i].stale = notice[i].stale
        /\ notice'[i].lost = notice[i].lost
    BY DEF NoticeOk
  <1>7. Sent(i)' = Sent(i) /\ Reached(i)' = Reached(i)
    BY <1>3 DEF Sent, Reached
  <1>8. Goes(i)
    BY <1>4, <1>5, <1>6, <1>7 DEF Goes, Widens
  <1>9. Passes(i)
    BY <1>3, <1>6 DEF Passes
  <1>10. QED
    BY <1>8, <1>9

\* Whoever knows of a task or an issue goes on to.
LEMMA KnowsKept ==
    ASSUME Typed, Longer, \A i \in DOMAIN notice : Passes(i),
           NEW r \in {"task", "issue"}, NEW x, Knows(r, x)
    PROVE  Knows(r, x)'
  <1>1. r \in Ref /\ KeepsChain(r) /\ KeepsChain("stream")
    BY ChainKept DEF Ref
  <1>2. menu' = menu
    BY DEF Longer
  <1>3. CASE x \in InCharge(r, menu.start[r])
    <2>1. (x \in InCharge(r, menu.start[r]))'
      BY <1>2, <1>3 DEF InCharge
    <2>2. QED
      BY <2>1 DEF Knows
  <1>4. CASE Posted(r, x)
    <2>1. Posted(r, x)'
      BY <1>1, <1>4 DEF Posted, KeepsChain
    <2>2. QED
      BY <2>1 DEF Knows
  <1>5. CASE Noticed(r, x)
    <2>1. PICK i \in DOMAIN notice : HasId(r, i) /\ x \in Pending(i) \cup notice[i].lost
      BY <1>5 DEF Noticed
    <2>2. x \in Pending(i)' \cup notice'[i].lost \/ Posted(r, x)'
      BY <2>1 DEF Passes
    <2>3. HasId(r, i)'
      BY <1>1, <2>1, IdsKept
    <2>4. i \in DOMAIN notice'
      BY GrowsIs DEF Longer
    <2>5. CASE x \in Pending(i)' \cup notice'[i].lost
      <3>1. Noticed(r, x)'
        BY <2>3, <2>4, <2>5 DEF Noticed
      <3>2. QED
        BY <3>1 DEF Knows
    <2>6. QED
      BY <2>2, <2>5 DEF Knows
  <1>6. CASE x \in OwnDoing(r)
    <2>1. (x \in OwnDoing(r))'
      BY <1>1, <1>6 DEF OwnDoing, KeepsChain
    <2>2. QED
      BY <2>1 DEF Knows
  <1>7. QED
    BY <1>3, <1>4, <1>5, <1>6 DEF Knows

\* What a command has found it has found, whatever else the registry has been.
LEMMA FindingKept ==
    ASSUME NEW j, NEW c, NEW V, NEW W, V # {}, V \subseteq W, Finding(j, c, V)
    PROVE  Finding(j, c, W)
  <1>1. PICK found, names, members, said :
          /\ found = j.found /\ names = Range(j.names) /\ members = Range(j.members)
          /\ said = Range(c.data.names)
    OBVIOUS
  <1>2. \A x \in found : \E name \in said : x \in MeantInSome(W, name)
    <2>1. \A x \in found : \E name \in said : x \in MeantInSome(V, name)
      BY <1>1 DEF Finding
    <2>2. \A name : MeantInSome(V, name) \subseteq MeantInSome(W, name)
      BY MeantGrows
    <2>3. QED
      BY <2>1, <2>2
  <1>3. \A m \in members : \E name \in said : \E s \in W : m \in Members(s, name)
    BY <1>1 DEF Finding
  <1>4. \A name \in said, e \in Nat \ {NoEmail} :
         (\A s \in W : ResolveToEmail(s, name) = e) => e \in found \/ name \in names
    BY <1>1 DEF Finding
  <1>5. \A name \in said, m \in Name, e \in Nat \ {NoEmail} :
         (\A s \in W : /\ ResolveToEmail(s, name) = NoEmail
                       /\ m \in Members(s, name) /\ ResolveToEmail(s, m) = e)
         => e \in found \/ name \in names \/ m \in members
    BY <1>1 DEF Finding
  <1>6. names \subseteq said
    BY <1>1 DEF Finding
  <1>7. j.at = "group" => /\ j.members = <<>>
                          /\ \E s \in W : ResolveToEmail(s, Head(j.names)) = NoEmail
    BY DEF Finding
  <1>8. QED
    BY <1>1, <1>2, <1>3, <1>4, <1>5, <1>6, <1>7 DEF Finding

\* What a command has looked at is still there.
LEMMA LookedKept ==
    ASSUME Typed, Longer, \A i \in DOMAIN notice : Passes(i), NEW j, Looked(j)
    PROVE  Looked(j)'
  <1>1. PICK r : r = j.ref
    OBVIOUS
  <1>2. r \in {"task", "issue"} /\ r \in Ref
    BY <1>1 DEF Looked, Ref
  <1>3. KeepsChain(r) /\ menu' = menu
    BY <1>2, ChainKept DEF Longer
  <1>4. /\ j.seen \in 0 .. Len(chain'[r])
        /\ SubSeq(chain'[r], 1, j.seen) = SubSeq(chain[r], 1, j.seen)
    BY <1>1, <1>3 DEF Looked, KeepsChain
  <1>5. j.before = InCharge(r, SubSeq(chain'[r], 1, j.seen))
    BY <1>1, <1>4 DEF Looked
  <1>6. "auto" \in menu.on => \A x \in j.before : Knows(r, x)'
    <2>1. "auto" \in menu.on => \A x \in j.before : Knows(r, x)
      BY <1>1 DEF Looked
    <2>2. \A x : Knows(r, x) => Knows(r, x)'
      BY <1>2, KnowsKept
    <2>3. QED
      BY <2>1, <2>2
  <1>7. /\ j.new = Named([kind |-> j.kind, data |-> j.data])
        /\ (IF j.kind = "task.reassign" THEN "owner" ELSE "add") \in DOMAIN j.data
    BY DEF Looked
  <1>8. QED
    BY <1>1, <1>2, <1>3, <1>4, <1>5, <1>6, <1>7 DEF Looked, InCharge

\* A command of another process is where it was.
LEMMA JobInformsKept ==
    ASSUME Typed, Longer, \A i \in DOMAIN notice : Passes(i) /\ Widens(i),
           NEW q \in Proc, JobInforms(q), job'[q] = job[q],
           job[q].at \in {"names", "group"} => config'[q] = config[q]
    PROVE  JobInforms(q)'
  <1>1. PICK j : j = job[q]
    OBVIOUS
  <1>2. menu' = menu /\ JobOk(j, Me(q), DOMAIN notice)
    BY <1>1 DEF Longer, Typed, JobsTyped
  <1>3. j.at = "change" => Looked(j)'
    <2>1. j.at = "change" => Looked(j)
      BY <1>1 DEF JobInforms
    <2>2. QED
      BY <2>1, LookedKept
  <1>4. j.at = "tell" => j.ref \in {"task", "issue", "chat"} /\ HasId(j.ref, j.cause)'
    <2>1. SUFFICES ASSUME j.at = "tell"
                   PROVE  j.ref \in {"task", "issue", "chat"} /\ HasId(j.ref, j.cause)'
      OBVIOUS
    <2>2. j.ref \in {"task", "issue", "chat"} /\ HasId(j.ref, j.cause)
      BY <1>1, <2>1 DEF JobInforms
    <2>3. QED
      BY <2>2, IdsKept DEF Ref
  <1>5. ASSUME j.at \in {"names", "group"}
        PROVE  \E c \in Range(chain'["chat"]) :
                 /\ c.id = j.cause /\ c.kind = "chat.post" /\ c.actor = Me(q)'
                 /\ "mentions" \in menu.on /\ Finding(j, c, Window(j.cause)')
    <2>1. PICK c \in Range(chain["chat"]) :
            /\ c.id = j.cause /\ c.kind = "chat.post" /\ c.actor = Me(q)
            /\ "mentions" \in menu.on /\ Finding(j, c, Window(j.cause))
      BY <1>1, <1>5 DEF JobInforms
    <2>2. c \in Range(chain'["chat"])
      BY ChainKept DEF KeepsChain, Ref
    <2>3. j.cause \in DOMAIN notice
      BY <1>2, <1>5 DEF JobOk
    <2>4. PICK V, W : V = Window(j.cause) /\ W = Window(j.cause)'
      OBVIOUS
    <2>5. V # {} /\ V \subseteq W
      BY <2>3, <2>4 DEF Widens
    <2>6. Finding(j, c, W)
      BY <2>1, <2>4, <2>5, FindingKept
    <2>7. Me(q)' = Me(q)
      BY <1>1, <1>5 DEF Me
    <2>8. QED
      BY <2>1, <2>2, <2>4, <2>6, <2>7
  <1>6. job'[q] = j
    BY <1>1
  <1>7. JobInforms(q)' <=>
          /\ j.at = "change" => Looked(j)'
          /\ j.at = "tell" => j.ref \in {"task", "issue", "chat"} /\ HasId(j.ref, j.cause)'
          /\ j.at \in {"names", "group"} =>
               \E c \in Range(chain'["chat"]) :
                 /\ c.id = j.cause /\ c.kind = "chat.post" /\ c.actor = Me(q)'
                 /\ "mentions" \in menu.on /\ Finding(j, c, Window(j.cause)')
    BY <1>2, <1>6 DEF JobInforms, Finding
  <1>8. QED
    BY <1>3, <1>4, <1>5, <1>7

\* A commit that is new is of a kind of this behavior, and whom it puts in charge
\* is taken care of.
NewIsFine(r) ==
    \A c \in Range(chain'[r]) : c \notin Range(chain[r]) =>
        /\ c.kind \in menu.kinds \cap WritesOf(r)
        /\ "auto" \in menu.on => \A x \in Named(c) : Knows(r, x)'

\* What is left to show of a step.
LEMMA InformsStep ==
    ASSUME Typed, Informs, Longer, NEW p \in Proc, NEW j, JobSet(p, j),
           \A q \in Proc : q # p => config'[q] = config[q],
           \A i \in DOMAIN notice : Passes(i) /\ Widens(i),
           \A i \in DOMAIN notice' : NoticeOk(notice'[i], Len(chain'["registry"])),
           JobInforms(p)', NewIsFine("task"), NewIsFine("issue"),
           \A i \in DOMAIN notice :
             \/ Goes(i)
             \/ \A r \in {"task", "issue", "chat"} : \A n \in DOMAIN chain[r] :
                  chain[r][n].id = i => Fits(r, n)',
           \A r \in {"task", "issue", "chat"} : \A n \in DOMAIN chain'[r] :
             n \notin DOMAIN chain[r] /\ chain'[r][n].id \in DOMAIN notice' => Fits(r, n)'
    PROVE  Informs'
  <1>1. menu' = menu
    BY DEF Longer
  <1>2. \A r \in {"task", "issue", "chat"} : r \in Ref /\ KeepsChain(r)
    BY ChainKept DEF Ref
  <1>3. NoticesOk'
    <2>1. OneRef'
      BY OneRefKept DEF Informs, NoticesOk
    <2>2. QED
      BY <2>1 DEF NoticesOk
  <1>4. \A r \in {"task", "issue"} : \A c \in NewWrites(r)' :
          c \in NewWrites(r) \/ (c \in Range(chain'[r]) /\ c \notin Range(chain[r]))
    <2>1. \A r : Start(r)' = Start(r)
      BY <1>1 DEF Start
    <2>2. QED
      BY <2>1 DEF NewWrites
  <1>5. Since'
    <2>1. ASSUME NEW r \in {"task", "issue"}
          PROVE  /\ Range(Start(r))' \subseteq Range(chain'[r])
                 /\ \A c \in NewWrites(r)' : c.kind \in menu.kinds \cap WritesOf(r)
      <3>1. Start(r)' = Start(r)
        BY <1>1 DEF Start
      <3>2. Range(Start(r)) \subseteq Range(chain'[r])
        BY <1>2 DEF Informs, Since, KeepsChain
      <3>3. ASSUME NEW c \in NewWrites(r)'
            PROVE  c.kind \in menu.kinds \cap WritesOf(r)
        <4>1. CASE c \in NewWrites(r)
          BY <4>1 DEF Informs, Since
        <4>2. CASE c \in Range(chain'[r]) /\ c \notin Range(chain[r])
          BY <4>2 DEF NewIsFine
        <4>3. QED
          BY <1>4, <4>1, <4>2
      <3>4. QED
        BY <3>1, <3>2, <3>3
    <2>2. QED
      BY <1>1, <2>1 DEF Since, WritesOf
  <1>6. NewAreKnown'
    <2>1. ASSUME "auto" \in menu.on, NEW r \in {"task", "issue"}, NEW c \in NewWrites(r)',
                 NEW x \in Named(c)
          PROVE  Knows(r, x)'
      <3>1. CASE c \in NewWrites(r)
        <4>1. Knows(r, x)
          BY <2>1, <3>1 DEF Informs, NewAreKnown
        <4>2. QED
          BY <4>1, KnowsKept
      <3>2. CASE c \in Range(chain'[r]) /\ c \notin Range(chain[r])
        BY <2>1, <3>2 DEF NewIsFine
      <3>3. QED
        BY <1>4, <3>1, <3>2
    <2>2. QED
      BY <1>1, <2>1 DEF NewAreKnown, Named
  <1>7. AllFit'
    <2>1. ASSUME NEW r \in {"task", "issue", "chat"}, NEW n \in DOMAIN chain'[r],
                 chain'[r][n].id \in DOMAIN notice'
          PROVE  Fits(r, n)'
      <3>1. CASE n \notin DOMAIN chain[r]
        BY <2>1, <3>1
      <3>2. CASE n \in DOMAIN chain[r]
        <4>1. n \in 1 .. Len(chain[r]) /\ chain'[r][n] = chain[r][n]
          BY <1>2, <3>2 DEF KeepsChain
        <4>2. PICK i : i = chain[r][n].id
          OBVIOUS
        <4>3. i \in DOMAIN notice
          <5>1. chain[r][n] \in Range(chain[r])
            BY <3>2 DEF Range
          <5>2. i \in UsedIds
            BY <1>2, <4>2, <5>1, UsedIs DEF Typed
          <5>3. CASE DOMAIN notice' = DOMAIN notice
            BY <2>1, <4>1, <4>2, <5>3
          <5>4. CASE Grows
            <6>1. PICK ref, c : /\ ref \in Ref /\ Appends(ref, c)
                                /\ DOMAIN notice' \subseteq DOMAIN notice \cup {c.id}
              BY <5>4 DEF Grows
            <6>2. c.id \notin UsedIds
              BY <6>1 DEF Appends
            <6>3. QED
              BY <2>1, <4>1, <4>2, <5>2, <6>1, <6>2
          <5>5. QED
            BY <5>3, <5>4 DEF Longer, Stays
        <4>4. CASE Goes(i)
          <5>1. Fits(r, n)
            BY <3>2, <4>2, <4>3 DEF Informs, AllFit
          <5>2. PICK l \in Nat : l = Len(chain[r])
            BY <1>2 DEF KeepsChain
          <5>3. n \in 1 .. l /\ n - 1 \in 0 .. l /\ n \in 0 .. l
            BY <4>1, <5>2
          <5>4. /\ SubSeq(chain'[r], 1, n - 1) = SubSeq(chain[r], 1, n - 1)
                /\ SubSeq(chain'[r], 1, n) = SubSeq(chain[r], 1, n)
            BY <1>2, <5>2, <5>3 DEF KeepsChain
          <5>5. QED
            BY <1>1, <4>1, <4>2, <4>4, <5>1, <5>4, FitsKept
        <4>5. QED
          BY <3>2, <4>2, <4>3, <4>4
      <3>3. QED
        BY <3>1, <3>2
    <2>2. QED
      BY <2>1 DEF AllFit
  <1>8. ASSUME NEW q \in Proc
        PROVE  JobInforms(q)'
    <2>1. CASE q = p
      BY <2>1
    <2>2. CASE q # p
      <3>1. job'[q] = job[q] /\ config'[q] = config[q]
        BY <2>2, JobSetIs
      <3>2. JobInforms(q)
        BY DEF Informs
      <3>3. QED
        BY <3>1, <3>2, JobInformsKept
    <2>3. QED
      BY <2>1, <2>2
  <1>9. QED
    BY <1>3, <1>5, <1>6, <1>7, <1>8 DEF Informs

\* A write without a notice.
LEMMA NoneNew ==
    ASSUME Typed, Longer, DOMAIN notice' = DOMAIN notice,
           NEW r \in {"task", "issue", "chat"}, NEW n \in DOMAIN chain'[r],
           n \notin DOMAIN chain[r]
    PROVE  chain'[r][n].id \notin DOMAIN notice'
  <1>1. r \in Ref
    BY DEF Ref
  <1>2. chain' # chain
    OBVIOUS
  <1>3. PICK ref, c : ref \in Ref /\ Appends(ref, c)
    BY <1>2 DEF Longer, Stays, Grows
  <1>4. chain'[r] = Append(chain[r], c)
    BY <1>1, <1>3, AppendsIs DEF Typed, Longer
  <1>5. IsList(chain[r])
    BY <1>1 DEF Typed, ChainsTyped, IsChain
  <1>6. chain'[r][n] = c
    BY <1>4, <1>5, Appended
  <1>7. DOMAIN notice \subseteq UsedIds /\ c.id \notin UsedIds
    BY <1>3 DEF Typed, NoticesTyped, Appends
  <1>8. QED
    BY <1>6, <1>7

\* A step that has nothing to do with notices.
LEMMA QuietStep ==
    ASSUME Typed, Typed', Informs, Longer, NEW p \in Proc, NEW j, JobSet(p, j),
           \A q \in Proc : q # p => config'[q] = config[q],
           notice' = notice, \A i \in DOMAIN notice : Aside(job[p], j, i),
           JobInforms(p)', NewIsFine("task"), NewIsFine("issue")
    PROVE  Informs'
  <1>1. \A i \in DOMAIN notice : NoticeOk(notice[i], Len(chain["registry"]))
    BY DEF Informs, NoticesOk
  <1>2. \A i \in DOMAIN notice : Goes(i) /\ Passes(i)
    BY <1>1, OthersGo
  <1>3. \A i \in DOMAIN notice : Widens(i)
    BY <1>2 DEF Goes, Widens
  <1>4. \A i \in DOMAIN notice' : NoticeOk(notice'[i], Len(chain'["registry"]))
    <2>1. KeepsChain("registry")
      BY ChainKept DEF Ref
    <2>2. QED
      BY <1>1, <2>1 DEF NoticeOk, KeepsChain
  <1>5. \A r \in {"task", "issue", "chat"} : \A n \in DOMAIN chain'[r] :
          n \notin DOMAIN chain[r] => chain'[r][n].id \notin DOMAIN notice'
    BY NoneNew
  <1>6. QED
    BY <1>2, <1>3, <1>4, <1>5, InformsStep

-----------------------------------------------------------------------------
(* Steps without a notice.                                                 *)

\* Whoever has a task or an issue knows.
LEMMA InChargeKnows ==
    ASSUME Typed, Informs, "auto" \in menu.on, NEW r \in {"task", "issue"},
           chain[r] # <<>>
    PROVE  \A x \in InCharge(r, chain[r]) : Knows(r, x)
  <1>1. PICK E, S : E = Range(chain[r]) /\ S = Range(Start(r))
    OBVIOUS
  <1>2. IsEvents(E) /\ IsChain(chain[r]) /\ S \subseteq E
    <2>1. IsChain(chain[r])
      BY DEF Typed, ChainsTyped, Ref
    <2>2. QED
      BY <1>1, <2>1, ChainEvents DEF Informs, Since
  <1>3. E # {}
    BY <1>1, <1>2, ListParts DEF IsChain
  <1>4. \A c : c \in NewWrites(r) <=> c \in E \ S
    BY <1>1 DEF NewWrites
  <1>5. r \in DOMAIN menu.start => Start(r) = menu.start[r]
    BY DEF Start, Given
  <1>6. CASE E = S
    <2>1. Start(r) # <<>>
      BY <1>1, <1>3, <1>6, EmptyList
    <2>2. Start(r) = menu.start[r]
      BY <1>5, <2>1 DEF Start, Given
    <2>3. InCharge(r, chain[r]) = InCharge(r, menu.start[r])
      BY <1>1, <1>6, <2>2 DEF InCharge, TaskOf, IssueOf
    <2>4. QED
      BY <2>3 DEF Knows
  <1>7. CASE E # S
    <2>1. PICK c \in NewWrites(r) : TRUE
      BY <1>2, <1>4, <1>7
    <2>2. c.kind \in menu.kinds /\ c.kind \in WritesOf(r)
      BY <2>1 DEF Informs, Since
    <2>3. PICK create : create = IF r = "task" THEN "task.create" ELSE "issue.create"
      OBVIOUS
    <2>4. r \in DOMAIN menu.start /\ HasCreate(menu.start[r], create)
      <3>1. menu \in Menus
        BY DEF Typed, ChainsTyped
      <3>2. CASE r = "task"
        <4>1. menu.kinds \cap {"task.reassign", "task.status", "task.note"} # {}
          BY <2>2, <3>2 DEF WritesOf
        <4>2. QED
          BY <2>3, <3>1, <3>2, <4>1, MenuIs DEF StartsWith
      <3>3. CASE r = "issue"
        <4>1. menu.kinds \cap {"issue.assign", "issue.comment"} # {}
          BY <2>2, <3>3 DEF WritesOf
        <4>2. QED
          BY <2>3, <3>1, <3>3, <4>1, MenuIs DEF StartsWith
      <3>4. QED
        BY <3>2, <3>3
    <2>5. Start(r) = menu.start[r]
      BY <1>5, <2>4
    <2>6. HasKind(S, create)
      BY <1>1, <2>4, <2>5 DEF HasCreate, HasKind
    <2>7. \A e \in E \ S : e.kind # create
      <3>1. \A e \in E \ S : e.kind \in WritesOf(r)
        BY <1>4 DEF Informs, Since
      <3>2. create \notin WritesOf(r)
        BY <2>3 DEF WritesOf
      <3>3. QED
        BY <3>1, <3>2
    <2>8. \A x : NamedBy(x, E \ S) => Knows(r, x)
      BY <1>4 DEF Informs, NewAreKnown, NamedBy
    <2>9. CASE r = "task"
      <3>1. PICK x, y : x = TaskFoldOf(E).meta.owner /\ y = TaskFoldOf(S).meta.owner
        OBVIOUS
      <3>2. x = y \/ NamedBy(x, E \ S)
        BY <1>2, <2>3, <2>6, <2>7, <2>9, <3>1, OwnersFit
      <3>3. InCharge(r, chain[r]) = {x} /\ InCharge(r, menu.start[r]) = {y}
        BY <1>1, <2>5, <2>9, <3>1 DEF InCharge, TaskOf, TaskFoldOf
      <3>4. QED
        BY <2>8, <3>2, <3>3 DEF Knows
    <2>10. CASE r = "issue"
      <3>1. PICK X, Y : /\ X = IssueFoldOf(E).meta.assignees
                        /\ Y = IssueFoldOf(S).meta.assignees
        OBVIOUS
      <3>2. \A x \in X : x \in Y \/ NamedBy(x, E \ S)
        BY <1>2, <2>3, <2>6, <2>7, <2>10, <3>1, AssigneesFit
      <3>3. InCharge(r, chain[r]) = X /\ InCharge(r, menu.start[r]) = Y
        BY <1>1, <2>5, <2>10, <3>1 DEF InCharge, IssueOf, IssueFoldOf
      <3>4. QED
        BY <2>8, <3>2, <3>3 DEF Knows
    <2>11. QED
      BY <2>9, <2>10
  <1>8. QED
    BY <1>6, <1>7

\* A step that only looks, or writes what nobody is told of.
LEMMA AwayStep ==
    ASSUME Typed, Typed', Informs, Longer, NEW p \in Proc, NEW j, JobSet(p, j),
           \A q \in Proc : q # p => config'[q] = config[q],
           notice' = notice, job[p].at \notin {"tell", "names", "group"},
           j.at \notin {"tell", "names", "group"}, j.at = "change" => Looked(j),
           NewIsFine("task"), NewIsFine("issue")
    PROVE  Informs'
  <1>1. \A i : Aside(job[p], j, i)
    BY DEF Aside, Owed, Seeking
  <1>2. \A i \in DOMAIN notice : NoticeOk(notice[i], Len(chain["registry"]))
    BY DEF Informs, NoticesOk
  <1>3. \A i \in DOMAIN notice : Passes(i)
    BY <1>1, <1>2, OthersGo
  <1>4. j.at = "change" => Looked(j)'
    BY <1>3, LookedKept
  <1>5. job'[p] = j
    BY JobSetIs
  <1>6. JobInforms(p)'
    BY <1>4, <1>5 DEF JobInforms
  <1>7. QED
    BY <1>1, <1>6, QuietStep

\* A write elsewhere.
LEMMA Elsewhere ==
    ASSUME Typed, NEW p, NEW ref \in {"registry", "stream", "chat"}, NEW i, NEW kind,
           NEW data, Write(p, ref, i, kind, data)
    PROVE  NewIsFine("task") /\ NewIsFine("issue")
  <1>1. chain' = [chain EXCEPT ![ref] = Append(@, Commit(p, i, kind, data))]
    BY DEF Write
  <1>2. DOMAIN chain = Ref
    BY DEF Typed, ChainsTyped
  <1>3. chain'["task"] = chain["task"] /\ chain'["issue"] = chain["issue"]
    BY <1>1, <1>2 DEF Ref
  <1>4. QED
    BY <1>3 DEF NewIsFine

\* No chain grows.
LEMMA NothingNew ==
    ASSUME chain' = chain
    PROVE  NewIsFine("task") /\ NewIsFine("issue")
  BY DEF NewIsFine

\* A step of a command that is none of those.
IsAway(at) == at \notin {"tell", "names", "group", "change"}
Passing(p) ==
    /\ IsAway(job[p].at) /\ notice' = notice
    /\ \E j : JobSet(p, j) /\ IsAway(j.at)
    /\ \A q \in Proc : q # p => config'[q] = config[q]

\* A command that has nothing to do with notices, before or after.
LEMMA PassingStep ==
    ASSUME Typed, Typed', Informs, Longer, NEW p \in Proc, Passing(p),
           NewIsFine("task"), NewIsFine("issue")
    PROVE  Informs'
  <1>1. PICK j : JobSet(p, j) /\ IsAway(j.at)
    BY DEF Passing
  <1>2. /\ job[p].at \notin {"tell", "names", "group"}
        /\ j.at \notin {"tell", "names", "group"} /\ j.at # "change"
    BY <1>1 DEF Passing, IsAway
  <1>3. QED
    BY <1>1, <1>2, AwayStep DEF Passing

\* A command that is done in one step.
LEMMA JobStays ==
    ASSUME Typed, NEW p \in Proc, job' = job
    PROVE  JobSet(p, job[p])
  BY DEF Typed, JobsTyped, JobSet

\* A process with nothing to do has no one to tell.
LEMMA IdleIsAway == IsAway("idle") /\ IsAway(Idle.at)
  BY DEF Idle, IsAway

\* The commands of the registry,
LEMMA ManagePasses ==
    ASSUME Typed, NEW p \in Proc, Manage(p)
    PROVE  Passing(p) /\ NewIsFine("task") /\ NewIsFine("issue")
  <1>1. Passing(p)
    BY JobStays, IdleIsAway DEF Manage, Passing
  <1>2. \E i, kind, data : Write(p, "registry", i, kind, data)
    BY DEF Manage
  <1>3. QED
    BY <1>1, <1>2, Elsewhere

\* users add --agent,
LEMMA AgentKeygenPasses ==
    ASSUME Typed, NEW p \in Proc, AgentKeygen(p)
    PROVE  Passing(p) /\ NewIsFine("task") /\ NewIsFine("issue")
  <1>1. PICK n, pub : job' = [job EXCEPT ![p] = [at |-> "user", name |-> n, pub |-> pub]]
    BY DEF AgentKeygen
  <1>2. PICK j : j = [at |-> "user", name |-> n, pub |-> pub]
    OBVIOUS
  <1>3. JobSet(p, j) /\ IsAway(j.at)
    BY <1>1, <1>2 DEF JobSet, IsAway
  <1>4. QED
    BY <1>3, IdleIsAway, NothingNew DEF AgentKeygen, Passing

\* its first write
LEMMA AgentUserPasses ==
    ASSUME Typed, NEW p \in Proc, AgentUser(p)
    PROVE  Passing(p) /\ NewIsFine("task") /\ NewIsFine("issue")
  <1>1. PICK k : k = job[p]
    OBVIOUS
  <1>2. PICK i \in NewIds :
          /\ Write(p, "registry", i, "users.user_set",
                   [username |-> k.name, fields |-> [emails |-> {AgentEmail[k.name]}]])
          /\ job' = [job EXCEPT ![p] = [at |-> "key", name |-> k.name, pub |-> k.pub,
                                        after |-> i]]
    BY <1>1 DEF AgentUser
  <1>3. PICK j : j = [at |-> "key", name |-> k.name, pub |-> k.pub, after |-> i]
    OBVIOUS
  <1>4. JobSet(p, j) /\ IsAway(j.at)
    BY <1>2, <1>3 DEF JobSet, IsAway
  <1>5. IsAway(job[p].at)
    BY DEF AgentUser, IsAway
  <1>6. QED
    BY <1>2, <1>4, <1>5, Elsewhere DEF AgentUser, Passing

\* and its second,
LEMMA AgentKeyPasses ==
    ASSUME Typed, NEW p \in Proc, AgentKey(p)
    PROVE  Passing(p) /\ NewIsFine("task") /\ NewIsFine("issue")
  <1>1. \E i, kind, data : Write(p, "registry", i, kind, data)
    BY DEF AgentKey
  <1>2. JobSet(p, Idle)
    BY DEF AgentKey, JobSet
  <1>3. IsAway(job[p].at)
    BY DEF AgentKey, IsAway
  <1>4. QED
    BY <1>1, <1>2, <1>3, IdleIsAway, Elsewhere DEF AgentKey, Passing

\* a person with another key,
LEMMA ConfigurePasses ==
    ASSUME Typed, NEW p \in Proc, Configure(p)
    PROVE  Passing(p) /\ NewIsFine("task") /\ NewIsFine("issue")
  <1>1. \A q \in Proc : q # p => config'[q] = config[q]
    <2>1. DOMAIN config = Proc
      BY DEF Typed, ConfigTyped
    <2>2. \/ \E k : config' = [config EXCEPT ![p].key = k]
          \/ \E k : config' = [config EXCEPT ![p] = k]
      BY DEF Configure
    <2>3. QED
      BY <2>1, <2>2
  <1>2. QED
    BY <1>1, JobStays, IdleIsAway, NothingNew DEF Configure, Passing

\* task note,
LEMMA TaskNotePasses ==
    ASSUME Typed, NEW p \in Proc, TaskNote(p)
    PROVE  Passing(p) /\ NewIsFine("task") /\ NewIsFine("issue")
  <1>1. Passing(p)
    BY JobStays, IdleIsAway DEF TaskNote, Passing
  <1>2. PICK i \in NewIds : Write(p, "task", i, "task.note", [body |-> 0])
    BY DEF TaskNote
  <1>3. PICK c : c = Commit(p, i, "task.note", [body |-> 0])
    OBVIOUS
  <1>4. /\ chain' = [chain EXCEPT !["task"] = Append(@, c)] /\ "task.note" \in menu.kinds
        /\ c.kind = "task.note"
    BY <1>2, <1>3 DEF Write, Commit
  <1>5. DOMAIN chain = Ref /\ IsList(chain["task"])
    BY DEF Typed, ChainsTyped, Ref, IsChain
  <1>6. /\ chain'["issue"] = chain["issue"]
        /\ Range(chain'["task"]) = Range(chain["task"]) \cup {c}
    BY <1>4, <1>5, Appended DEF Ref
  <1>7. Named(c) = {}
    BY <1>4 DEF Named
  <1>8. NewIsFine("task")
    BY <1>4, <1>6, <1>7 DEF NewIsFine, WritesOf
  <1>9. QED
    BY <1>1, <1>6, <1>8 DEF NewIsFine

\* notify_post
LEMMA NotifyPostPasses ==
    ASSUME Typed, NEW p \in Proc, NotifyPost(p)
    PROVE  Passing(p) /\ NewIsFine("task") /\ NewIsFine("issue")
  <1>1. \E i, kind, data : Write(p, "stream", i, kind, data)
    BY DEF NotifyPost
  <1>2. QED
    BY <1>1, JobStays, IdleIsAway, Elsewhere DEF NotifyPost, Passing

\* and notify_ack, its first ID
LEMMA NotifyAckPasses ==
    ASSUME Typed, NEW p \in Proc, NotifyAck(p)
    PROVE  Passing(p) /\ NewIsFine("task") /\ NewIsFine("issue")
  <1>1. PICK ids : job' = [job EXCEPT ![p] = [at |-> "ack", todo |-> Ordered(ids)]]
    BY DEF NotifyAck
  <1>2. PICK j : j = [at |-> "ack", todo |-> Ordered(ids)]
    OBVIOUS
  <1>3. JobSet(p, j) /\ IsAway(j.at)
    BY <1>1, <1>2 DEF JobSet, IsAway
  <1>4. QED
    BY <1>3, IdleIsAway, NothingNew DEF NotifyAck, Passing

\* and the next.
LEMMA AckNextPasses ==
    ASSUME Typed, NEW p \in Proc, AckNext(p)
    PROVE  Passing(p) /\ NewIsFine("task") /\ NewIsFine("issue")
  <1>1. PICK k : k = job[p]
    OBVIOUS
  <1>2. k.at = "ack" /\ JobOk(k, Me(p), DOMAIN notice)
    BY <1>1 DEF AckNext, Typed, JobsTyped
  <1>3. DOMAIN k = {"at", "todo"}
    BY <1>2 DEF JobOk
  <1>4. PICK j : j = IF Len(k.todo) = 1 THEN Idle ELSE [k EXCEPT !.todo = Tail(k.todo)]
    OBVIOUS
  <1>5. JobSet(p, j)
    <2>1. job' = [job EXCEPT ![p] = IF Len(k.todo) = 1 THEN Idle
                                    ELSE [@ EXCEPT !.todo = Tail(k.todo)]]
      BY <1>1 DEF AckNext
    <2>2. DOMAIN job = Proc
      BY DEF Typed, JobsTyped
    <2>3. QED
      BY <1>1, <1>4, <2>1, <2>2 DEF JobSet
  <1>6. IsAway(j.at) /\ IsAway(k.at)
    BY <1>2, <1>3, <1>4, IdleIsAway DEF IsAway
  <1>7. \E i, kind, data : Write(p, "stream", i, kind, data)
    BY DEF AckNext
  <1>8. QED
    BY <1>1, <1>5, <1>6, <1>7, Elsewhere DEF AckNext, Passing

\* task reassign and issue assign, up to their write.
LEMMA NotEmpty ==
    ASSUME Typed, NEW r \in {"task", "issue"},
           IF r = "task" THEN "task.reassign" \in menu.kinds ELSE "issue.assign" \in menu.kinds
    PROVE  chain[r] # <<>>
  <1>1. \E create : HasCreate(chain[r], create)
    BY DEF Typed, ChainsTyped, Populated
  <1>2. QED
    BY <1>1, EmptyList DEF HasCreate

\* A command looks at who is in charge before it changes that:
LEMMA ShowInforms ==
    ASSUME Typed, Typed', Informs, Longer, NEW p \in Proc, NEW j, JobSet(p, j),
           job[p] = Idle, NEW r \in {"task", "issue"},
           IF r = "task" THEN "task.reassign" \in menu.kinds ELSE "issue.assign" \in menu.kinds,
           j.at = "change", j.ref = r, j.seen = Len(chain[r]),
           j.before = InCharge(r, chain[r]), j.new = Named([kind |-> j.kind, data |-> j.data]),
           (IF j.kind = "task.reassign" THEN "owner" ELSE "add") \in DOMAIN j.data,
           config' = config, chain' = chain, notice' = notice
    PROVE  Informs'
  <1>1. chain[r] # <<>> /\ IsList(chain[r])
    BY NotEmpty DEF Typed, ChainsTyped, Ref, IsChain
  <1>2. Len(chain[r]) \in Nat /\ SubSeq(chain[r], 1, Len(chain[r])) = chain[r]
    <2>1. Len(chain[r]) \in Nat
      BY <1>1, ListParts
    <2>2. SubSeq(chain[r], 1, Len(chain[r])) = chain[r]
      BY <1>1, <2>1, PrefixKept
    <2>3. QED
      BY <2>1, <2>2
  <1>3. "auto" \in menu.on => \A x \in j.before : Knows(r, x)
    BY <1>1, InChargeKnows
  <1>4. Looked(j)
    <2>1. j.seen \in 0 .. Len(chain[j.ref])
      BY <1>2
    <2>2. j.before = InCharge(j.ref, SubSeq(chain[j.ref], 1, j.seen))
      BY <1>2
    <2>3. QED
      BY <1>3, <2>1, <2>2 DEF Looked
  <1>5. job[p].at \notin {"tell", "names", "group"} /\ j.at \notin {"tell", "names", "group"}
    BY DEF Idle
  <1>6. QED
    BY <1>4, <1>5, NothingNew, AwayStep

\* task reassign
LEMMA TaskShowInforms ==
    ASSUME Typed, Typed', Informs, Longer, NEW p \in Proc, TaskShow(p)
    PROVE  Informs'
  <1>1. PICK owner, j :
          /\ JobSet(p, j)
          /\ j = [at |-> "change", ref |-> "task", kind |-> "task.reassign",
                  data |-> [owner |-> owner], new |-> {owner},
                  before |-> {TaskOf(chain["task"]).meta.owner},
                  seen |-> Len(chain["task"])]
    BY DEF TaskShow, JobSet
  <1>2. /\ j.at = "change" /\ j.ref = "task" /\ j.seen = Len(chain["task"])
        /\ j.kind = "task.reassign" /\ j.data = [owner |-> owner] /\ j.new = {owner}
        /\ j.before = {TaskOf(chain["task"]).meta.owner}
    BY <1>1
  <1>3. /\ j.new = Named([kind |-> j.kind, data |-> j.data])
        /\ (IF j.kind = "task.reassign" THEN "owner" ELSE "add") \in DOMAIN j.data
    BY <1>2 DEF Named
  <1>4. j.before = InCharge("task", chain["task"])
    BY <1>2 DEF InCharge
  <1>5. QED
    BY <1>1, <1>2, <1>3, <1>4, ShowInforms DEF TaskShow

\* and issue assign.
LEMMA IssueShowInforms ==
    ASSUME Typed, Typed', Informs, Longer, NEW p \in Proc, IssueShow(p)
    PROVE  Informs'
  <1>1. PICK add, remove, twice, j :
          /\ JobSet(p, j)
          /\ j = [at |-> "change", ref |-> "issue", kind |-> "issue.assign",
                  data |-> [add |-> add, remove |-> remove, twice |-> twice],
                  new |-> add, before |-> IssueOf(chain["issue"]).meta.assignees,
                  seen |-> Len(chain["issue"])]
    BY DEF IssueShow, JobSet
  <1>2. /\ j.at = "change" /\ j.ref = "issue" /\ j.seen = Len(chain["issue"])
        /\ j.kind = "issue.assign" /\ j.new = add
        /\ j.data = [add |-> add, remove |-> remove, twice |-> twice]
        /\ j.before = IssueOf(chain["issue"]).meta.assignees
    BY <1>1
  <1>3. /\ j.new = Named([kind |-> j.kind, data |-> j.data])
        /\ (IF j.kind = "task.reassign" THEN "owner" ELSE "add") \in DOMAIN j.data
    BY <1>2 DEF Named, Given
  <1>4. j.before = InCharge("issue", chain["issue"])
    BY <1>2 DEF InCharge
  <1>5. QED
    BY <1>1, <1>2, <1>3, <1>4, ShowInforms DEF IssueShow

-----------------------------------------------------------------------------
(* Steps that go on with a notice.                                         *)

\* A command moves on with the notice of its write, k.
LEMMA CauseStep ==
    ASSUME Typed, Typed', Informs, Longer, NEW p \in Proc, NEW j, JobSet(p, j),
           config' = config, NEW k \in DOMAIN notice, DOMAIN notice' = DOMAIN notice,
           \A i \in DOMAIN notice : i # k => notice'[i] = notice[i] /\ Aside(job[p], j, i),
           DOMAIN notice'[k] = DOMAIN notice[k], notice'[k].stale \in BOOLEAN,
           notice'[k].from = notice[k].from, notice'[k].upto \in Nat,
           notice[k].upto <= notice'[k].upto, notice'[k].upto <= Len(chain'["registry"]),
           Passes(k), JobInforms(p)', chain'["task"] = chain["task"],
           chain'["issue"] = chain["issue"],
           \/ Goes(k)
           \/ \A r \in {"task", "issue", "chat"} : \A n \in DOMAIN chain[r] :
                chain[r][n].id = k => Fits(r, n)'
    PROVE  Informs'
  <1>1. \A i \in DOMAIN notice : NoticeOk(notice[i], Len(chain["registry"]))
    BY DEF Informs, NoticesOk
  <1>2. \A i \in DOMAIN notice : i # k => Goes(i) /\ Passes(i)
    BY <1>1, OthersGo
  <1>3. \A i \in DOMAIN notice : Widens(i)
    <2>1. Widens(k)
      BY <1>1, WindowKept DEF Widens
    <2>2. QED
      BY <1>2, <2>1 DEF Goes, Widens
  <1>4. \A i \in DOMAIN notice' : NoticeOk(notice'[i], Len(chain'["registry"]))
    <2>1. KeepsChain("registry")
      BY ChainKept DEF Ref
    <2>2. NoticeOk(notice'[k], Len(chain'["registry"]))
      BY <1>1 DEF NoticeOk
    <2>3. \A i \in DOMAIN notice : i # k => NoticeOk(notice'[i], Len(chain'["registry"]))
      BY <1>1, <2>1 DEF NoticeOk, KeepsChain
    <2>4. QED
      BY <2>2, <2>3
  <1>5. \A r \in {"task", "issue", "chat"} : \A n \in DOMAIN chain'[r] :
          n \notin DOMAIN chain[r] => chain'[r][n].id \notin DOMAIN notice'
    BY NoneNew
  <1>6. NewIsFine("task") /\ NewIsFine("issue")
    BY DEF NewIsFine
  <1>7. \A i \in DOMAIN notice : Passes(i)
    BY <1>2
  <1>8. \A i \in DOMAIN notice :
          \/ Goes(i)
          \/ \A r \in {"task", "issue", "chat"} : \A n \in DOMAIN chain[r] :
               chain[r][n].id = i => Fits(r, n)'
    BY <1>2
  <1>9. QED
    BY <1>3, <1>4, <1>5, <1>6, <1>7, <1>8, InformsStep

\* What a command is left with that has this to tell.
LEMMA ToTellIs ==
    ASSUME NEW p, NEW ref, NEW i, NEW people, NEW again, NEW j,
           j = ToTell(p, ref, i, people, again)
    PROVE  /\ Owed(j, i) = people \ {Me(p)}
           /\ \A k : ~Seeking(j, k) /\ (k # i => Owed(j, k) = {})
           /\ j.at \in {"idle", "tell"}
           /\ j.at = "tell" => j.ref = ref /\ j.cause = i
  <1>1. CASE people \ {Me(p)} = {}
    <2>1. j.at = "idle"
      BY <1>1 DEF ToTell, Idle
    <2>2. QED
      BY <1>1, <2>1 DEF Owed, Seeking
  <1>2. CASE people \ {Me(p)} # {}
    <2>1. j = [at |-> "tell", ref |-> ref, cause |-> i, todo |-> people \ {Me(p)},
               again |-> (people \ {Me(p)}) \cap again]
      BY <1>2 DEF ToTell
    <2>2. j.at = "tell" /\ j.ref = ref /\ j.cause = i /\ j.todo = people \ {Me(p)}
      BY <2>1
    <2>3. QED
      BY <2>2 DEF Owed, Seeking
  <1>3. QED
    BY <1>1, <1>2

\* One more was told or lost: who was pending and who is now.
HasTold(p, k, e) ==
    /\ k \in DOMAIN notice
    /\ \E j : JobSet(p, j) /\ \A i : i # k => Aside(job[p], j, i)
    /\ e \in Pending(k) /\ Pending(k)' \subseteq Pending(k)
    /\ Pending(k) \subseteq Pending(k)' \cup {e}
    /\ Resolving(k) => Resolving(k)'
    /\ JobInforms(p)'

\* What a command and its notice are when one person is told, or missed.
LEMMA ToldIs ==
    ASSUME Typed, Typed', Informs, NEW p \in Proc, job[p].at = "tell",
           NEW k, k = job[p].cause, NEW e \in job[p].todo, Told(p, e), Longer
    PROVE  HasTold(p, k, e)
  <1>1. PICK ref, todo, again, left : /\ ref = job[p].ref /\ todo = job[p].todo
                                      /\ again = job[p].again /\ left = todo \ ({e} \ again)
    OBVIOUS
  <1>2. JobOk(job[p], Me(p), DOMAIN notice)
    BY DEF Typed, JobsTyped
  <1>3. k \in DOMAIN notice /\ Me(p) \notin todo /\ k # Never
    <2>1. k \in DOMAIN notice /\ Me(p) \notin todo
      BY <1>1, <1>2 DEF JobOk
    <2>2. QED
      BY <2>1, IdIsUsed
  <1>4. PICK j : j = ToTell(p, ref, k, left, again \ {e})
    OBVIOUS
  <1>5. JobSet(p, j)
    BY <1>1, <1>4 DEF Told, JobSet
  <1>6. /\ Owed(j, k) = left \ {Me(p)}
        /\ \A i : ~Seeking(j, i) /\ (i # k => Owed(j, i) = {})
        /\ j.at \in {"idle", "tell"}
        /\ j.at = "tell" => j.ref = ref /\ j.cause = k
    BY <1>4, ToTellIs
  <1>7. /\ Owed(job[p], k) = todo /\ \A i : i # k => Owed(job[p], i) = {}
        /\ \A i : ~Seeking(job[p], i)
    BY <1>1 DEF Owed, Seeking
  <1>8. \A i : i # k => Aside(job[p], j, i)
    BY <1>6, <1>7 DEF Aside
  <1>9. PICK rest : Pending(k) = rest \cup Owed(job[p], k) /\ Pending(k)' = rest \cup Owed(j, k)
    BY <1>3, <1>5, PendingMoves
  <1>10. /\ e \in Pending(k) /\ Pending(k)' \subseteq Pending(k)
         /\ Pending(k) \subseteq Pending(k)' \cup {e}
    BY <1>1, <1>3, <1>6, <1>7, <1>9
  <1>11. Resolving(k) => Resolving(k)'
    BY <1>5, <1>7, ResolvingMoves
  <1>12. JobInforms(p)'
    <2>1. job'[p] = j
      BY <1>5, JobSetIs
    <2>2. ref \in {"task", "issue", "chat"} /\ HasId(ref, k)
      BY <1>1 DEF Informs, JobInforms
    <2>3. HasId(ref, k)'
      BY <2>2, IdsKept DEF Ref
    <2>4. QED
      BY <1>6, <2>1, <2>2, <2>3 DEF JobInforms
  <1>13. QED
    BY <1>1, <1>3, <1>5, <1>8, <1>10, <1>11, <1>12 DEF HasTold

\* One notification.
LEMMA TellInforms ==
    ASSUME Typed, Typed', Informs, Longer, NEW p \in Proc, Tell(p)
    PROVE  Informs'
  <1>1. PICK e \in job[p].todo :
          /\ chain' = [chain EXCEPT !["stream"] =
                Append(@, Commit(p, menu.ids + Len(@) + 1, "notify.post",
                                 [targets |-> {<<"user", e>>},
                                  source |-> job[p].ref]))]
          /\ notice' = [notice EXCEPT ![job[p].cause].told = @ \cup {e}]
          /\ Told(p, e)
    BY DEF Tell
  <1>2. PICK k, ref : k = job[p].cause /\ ref = job[p].ref
    OBVIOUS
  <1>3. job[p].at = "tell" /\ menu' = menu /\ config' = config
    BY DEF Tell
  <1>4. /\ k \in DOMAIN notice
        /\ \E j : JobSet(p, j) /\ \A i : i # k => Aside(job[p], j, i)
        /\ e \in Pending(k) /\ Pending(k)' \subseteq Pending(k)
        /\ Pending(k) \subseteq Pending(k)' \cup {e}
        /\ Resolving(k) => Resolving(k)'
        /\ JobInforms(p)'
    <2>1. HasTold(p, k, e)
      BY <1>1, <1>2, <1>3, ToldIs
    <2>2. QED
      BY <2>1 DEF HasTold
  <1>5. PICK j : JobSet(p, j) /\ \A i : i # k => Aside(job[p], j, i)
    BY <1>4
  <1>6. NoticeOk(notice[k], Len(chain["registry"]))
    BY <1>4 DEF Informs, NoticesOk
  <1>7. /\ DOMAIN notice' = DOMAIN notice
        /\ \A i \in DOMAIN notice : i # k => notice'[i] = notice[i]
        /\ notice'[k] = [notice[k] EXCEPT !.told = notice[k].told \cup {e}]
    BY <1>1, <1>2, <1>4
  <1>8. /\ DOMAIN notice'[k] = DOMAIN notice[k] /\ notice'[k].told = notice[k].told \cup {e}
        /\ notice'[k].lost = notice[k].lost /\ notice'[k].stale = notice[k].stale
        /\ notice'[k].from = notice[k].from /\ notice'[k].upto = notice[k].upto
    BY <1>6, <1>7 DEF NoticeOk
  <1>9. PICK c : c = Commit(p, menu.ids + Len(chain["stream"]) + 1, "notify.post",
                            [targets |-> {<<"user", e>>}, source |-> ref])
    OBVIOUS
  <1>10. chain' = [chain EXCEPT !["stream"] = Append(@, c)]
    BY <1>1, <1>2, <1>9
  <1>11. DOMAIN chain = Ref /\ IsList(chain["stream"])
    BY DEF Typed, ChainsTyped, Ref, IsChain
  <1>12. /\ chain'["task"] = chain["task"] /\ chain'["issue"] = chain["issue"]
         /\ chain'["registry"] = chain["registry"]
         /\ Range(chain'["stream"]) = Range(chain["stream"]) \cup {c}
    BY <1>10, <1>11, Appended DEF Ref
  <1>13. Posted(ref, e)'
    <2>1. c.kind = "notify.post" /\ c.data = [targets |-> {<<"user", e>>}, source |-> ref]
      BY <1>9 DEF Commit
    <2>2. c.data.source = ref /\ c.data.targets = {<<"user", e>>} /\ <<"user", e>>[2] = e
      BY <2>1
    <2>3. QED
      BY <1>12, <2>1, <2>2 DEF Posted
  <1>14. Passes(k)
    <2>1. HasId(ref, k) /\ ref \in Ref
      BY <1>2, <1>3 DEF Informs, JobInforms, Ref
    <2>2. \A r \in {"task", "issue"} : HasId(r, k) => r = ref
      BY <1>4, <2>1 DEF Informs, NoticesOk, OneRef, Ref
    <2>3. \A x \in Pending(k) : x = e \/ x \in Pending(k)'
      BY <1>4
    <2>4. QED
      BY <1>8, <1>13, <2>2, <2>3 DEF Passes
  <1>15. Goes(k)
    <2>1. Window(k) # {} /\ Window(k) \subseteq Window(k)'
      BY <1>6, <1>8, WindowKept DEF NoticeOk
    <2>2. /\ Sent(k)' = notice[k].told \cup {e} \cup Pending(k)'
          /\ Reached(k)' = notice[k].told \cup {e} \cup Pending(k)' \cup notice[k].lost
      BY <1>8 DEF Sent, Reached
    <2>3. Sent(k)' \subseteq Sent(k) /\ Reached(k) \subseteq Reached(k)'
      BY <1>4, <2>2 DEF Sent, Reached
    <2>4. QED
      BY <1>4, <1>6, <1>8, <2>1, <2>3 DEF Goes, NoticeOk
  <1>16. /\ notice'[k].stale \in BOOLEAN /\ notice'[k].upto \in Nat
         /\ notice[k].upto <= notice'[k].upto /\ notice'[k].upto <= Len(chain'["registry"])
    BY <1>6, <1>8, <1>12 DEF NoticeOk
  <1>17. QED
    BY <1>3, <1>4, <1>5, <1>7, <1>8, <1>12, <1>14, <1>15, <1>16, CauseStep

\* A notification that fails.
LEMMA TellFailsInforms ==
    ASSUME Typed, Typed', Informs, Longer, NEW p \in Proc, TellFails(p)
    PROVE  Informs'
  <1>1. PICK e \in job[p].todo :
          /\ notice' = [notice EXCEPT ![job[p].cause].lost = @ \cup {e}]
          /\ Told(p, e)
    BY DEF TellFails
  <1>2. PICK k : k = job[p].cause
    OBVIOUS
  <1>3. job[p].at = "tell" /\ chain' = chain /\ config' = config
    BY DEF TellFails
  <1>4. /\ k \in DOMAIN notice
        /\ \E j : JobSet(p, j) /\ \A i : i # k => Aside(job[p], j, i)
        /\ e \in Pending(k) /\ Pending(k)' \subseteq Pending(k)
        /\ Pending(k) \subseteq Pending(k)' \cup {e}
        /\ Resolving(k) => Resolving(k)'
        /\ JobInforms(p)'
    <2>1. HasTold(p, k, e)
      BY <1>1, <1>2, <1>3, ToldIs
    <2>2. QED
      BY <2>1 DEF HasTold
  <1>5. PICK j : JobSet(p, j) /\ \A i : i # k => Aside(job[p], j, i)
    BY <1>4
  <1>6. NoticeOk(notice[k], Len(chain["registry"]))
    BY <1>4 DEF Informs, NoticesOk
  <1>7. /\ DOMAIN notice' = DOMAIN notice
        /\ \A i \in DOMAIN notice : i # k => notice'[i] = notice[i]
        /\ notice'[k] = [notice[k] EXCEPT !.lost = notice[k].lost \cup {e}]
    BY <1>1, <1>2, <1>4
  <1>8. /\ DOMAIN notice'[k] = DOMAIN notice[k] /\ notice'[k].told = notice[k].told
        /\ notice'[k].lost = notice[k].lost \cup {e} /\ notice'[k].stale = notice[k].stale
        /\ notice'[k].from = notice[k].from /\ notice'[k].upto = notice[k].upto
    BY <1>6, <1>7 DEF NoticeOk
  <1>9. Passes(k)
    <2>1. \A x \in Pending(k) : x = e \/ x \in Pending(k)'
      BY <1>4
    <2>2. QED
      BY <1>8, <2>1 DEF Passes
  <1>10. Goes(k)
    <2>1. Window(k) # {} /\ Window(k) \subseteq Window(k)'
      BY <1>6, <1>8, WindowKept DEF NoticeOk
    <2>2. /\ Sent(k)' = notice[k].told \cup Pending(k)'
          /\ Reached(k)' = notice[k].told \cup Pending(k)' \cup notice[k].lost \cup {e}
      BY <1>8 DEF Sent, Reached
    <2>3. Sent(k)' \subseteq Sent(k) /\ Reached(k) \subseteq Reached(k)'
      BY <1>4, <2>2 DEF Sent, Reached
    <2>4. QED
      BY <1>4, <1>6, <1>8, <2>1, <2>3 DEF Goes, NoticeOk
  <1>11. /\ notice'[k].stale \in BOOLEAN /\ notice'[k].upto \in Nat
         /\ notice[k].upto <= notice'[k].upto /\ notice'[k].upto <= Len(chain'["registry"])
    BY <1>3, <1>6, <1>8 DEF NoticeOk
  <1>12. QED
    BY <1>3, <1>4, <1>5, <1>7, <1>8, <1>9, <1>10, <1>11, CauseStep

\* A command that is stopped.
LEMMA StopInforms ==
    ASSUME Typed, Typed', Informs, Longer, NEW p \in Proc, Stop(p)
    PROVE  Informs'
  <1>1. PICK d : d = job[p]
    OBVIOUS
  <1>2. /\ JobSet(p, Idle) /\ chain' = chain /\ config' = config /\ menu' = menu
        /\ notice' = IF "cause" \notin DOMAIN d THEN notice
                     ELSE [notice EXCEPT
                             ![d.cause].lost = @ \cup Given(d, "todo", {}),
                             ![d.cause].stale = @ \/ d.at # "tell"]
    BY <1>1 DEF Stop, JobSet
  <1>3. JobOk(d, Me(p), DOMAIN notice)
    BY <1>1 DEF Typed, JobsTyped
  <1>4. Idle.at = "idle" /\ job'[p] = Idle
    BY <1>2, JobSetIs DEF Idle
  <1>5. CASE "cause" \notin DOMAIN d
    <2>1. d.at \notin {"tell", "names", "group"}
      BY <1>3, <1>5 DEF JobOk
    <2>2. QED
      BY <1>1, <1>2, <1>4, <1>5, <2>1, AwayStep, NothingNew
  <1>6. CASE "cause" \in DOMAIN d
    <2>1. d.at \in {"tell", "names", "group"}
      BY <1>3, <1>6 DEF JobOk, Idle
    <2>2. PICK k : k = d.cause
      OBVIOUS
    <2>3. k \in DOMAIN notice /\ k # Never
      <3>1. k \in DOMAIN notice
        BY <1>3, <2>1, <2>2 DEF JobOk
      <3>2. QED
        BY <3>1, IdIsUsed
    <2>4. PICK todo, cut : todo = Given(d, "todo", {}) /\ cut = (d.at # "tell")
      OBVIOUS
    <2>5. NoticeOk(notice[k], Len(chain["registry"]))
      BY <2>3 DEF Informs, NoticesOk
    <2>6. notice' = [notice EXCEPT ![k].lost = @ \cup todo, ![k].stale = @ \/ d.at # "tell"]
      BY <1>2, <1>6, <2>2, <2>4
    <2>7. /\ DOMAIN notice' = DOMAIN notice
          /\ \A i \in DOMAIN notice : i # k => notice'[i] = notice[i]
          /\ notice'[k] = [notice[k] EXCEPT !.lost = notice[k].lost \cup todo,
                                            !.stale = notice[k].stale \/ d.at # "tell"]
      BY <2>3, <2>6
    <2>8. /\ DOMAIN notice'[k] = DOMAIN notice[k] /\ notice'[k].told = notice[k].told
          /\ notice'[k].lost = notice[k].lost \cup todo
          /\ notice'[k].stale = (notice[k].stale \/ d.at # "tell")
          /\ notice'[k].from = notice[k].from /\ notice'[k].upto = notice[k].upto
      BY <2>5, <2>7 DEF NoticeOk
    <2>9. /\ \A i : i # k => Owed(d, i) = {} /\ ~Seeking(d, i)
          /\ \A i : Owed(Idle, i) = {} /\ ~Seeking(Idle, i)
      BY <1>4, <2>2 DEF Owed, Seeking
    <2>10. \A i : i # k => Aside(d, Idle, i)
      BY <2>9 DEF Aside
    <2>11. Owed(d, k) = todo
      <3>1. CASE d.at = "tell"
        <4>1. "todo" \in DOMAIN d
          BY <1>3, <3>1 DEF JobOk
        <4>2. QED
          BY <2>2, <2>4, <3>1, <4>1 DEF Owed, Given
      <3>2. CASE d.at # "tell"
        <4>1. "todo" \notin DOMAIN d
          BY <1>3, <2>1, <3>2 DEF JobOk
        <4>2. QED
          BY <2>4, <3>2, <4>1 DEF Owed, Given
      <3>3. QED
        BY <3>1, <3>2
    <2>12. PICK rest : Pending(k) = rest \cup Owed(d, k) /\ Pending(k)' = rest \cup Owed(Idle, k)
      BY <1>1, <1>2, <2>3, PendingMoves
    <2>13. Pending(k) = rest \cup todo /\ Pending(k)' = rest
      BY <2>9, <2>11, <2>12
    <2>14. Passes(k)
      BY <2>8, <2>13 DEF Passes
    <2>15. Goes(k)
      <3>1. Window(k) # {} /\ Window(k) \subseteq Window(k)'
        BY <2>5, <2>8, WindowKept DEF NoticeOk
      <3>2. /\ Sent(k)' = notice[k].told \cup rest
            /\ Reached(k)' = notice[k].told \cup rest \cup notice[k].lost \cup todo
        BY <2>8, <2>13 DEF Sent, Reached
      <3>3. Sent(k)' \subseteq Sent(k) /\ Reached(k) \subseteq Reached(k)'
        BY <2>13, <3>2 DEF Sent, Reached
      <3>4. Resolving(k) => Resolving(k)' \/ notice'[k].stale
        <4>1. CASE Seeking(d, k)
          BY <2>8, <4>1 DEF Seeking
        <4>2. CASE ~Seeking(d, k)
          BY <1>1, <1>2, <4>2, ResolvingMoves
        <4>3. QED
          BY <4>1, <4>2
      <3>5. notice[k].stale \in BOOLEAN /\ notice'[k].stale \in BOOLEAN
        BY <2>5, <2>8 DEF NoticeOk
      <3>6. notice[k].stale => notice'[k].stale
        BY <2>8
      <3>7. QED
        BY <3>1, <3>3, <3>4, <3>5, <3>6 DEF Goes
    <2>16. /\ notice'[k].stale \in BOOLEAN /\ notice'[k].upto \in Nat
           /\ notice[k].upto <= notice'[k].upto /\ notice'[k].upto <= Len(chain'["registry"])
      <3>1. notice'[k].stale \in BOOLEAN
        BY <2>8
      <3>2. notice'[k].upto = notice[k].upto
        BY <2>8
      <3>3. QED
        BY <1>2, <2>5, <3>1, <3>2 DEF NoticeOk
    <2>17. JobInforms(p)'
      BY <1>4 DEF JobInforms
    <2>18. QED
      BY <1>1, <1>2, <2>3, <2>7, <2>8, <2>10, <2>14, <2>15, <2>16, <2>17, CauseStep
  <1>7. QED
    BY <1>5, <1>6

-----------------------------------------------------------------------------
(* Mentions: what is found of a message, one fold of the registry after    *)
(* another.                                                                *)

\* A fold that is read is one of those the registry has been.
LEMMA ReadsStep ==
    ASSUME Typed, Typed', Informs, Longer, NEW p \in Proc, NEW j, Reads(p, j),
           job[p].at \in {"names", "group"}, j.at \in {"names", "group"},
           j.cause = job[p].cause,
           NEW s, s = RegistryOf(chain["registry"]), NEW d, d = job[p],
           \A c, W : s \in W /\ Finding(d, c, W) => Finding(j, c, W)
    PROVE  Informs'
  <1>1. PICK k : k = d.cause
    OBVIOUS
  <1>2. /\ JobSet(p, j) /\ chain' = chain /\ config' = config /\ menu' = menu
        /\ notice' = [notice EXCEPT ![k].upto = Len(chain["registry"])]
    BY <1>1 DEF Reads, JobSet
  <1>3. JobOk(d, Me(p), DOMAIN notice)
    BY DEF Typed, JobsTyped
  <1>4. k \in DOMAIN notice /\ k # Never
    <2>1. k \in DOMAIN notice
      BY <1>1, <1>3 DEF JobOk
    <2>2. QED
      BY <2>1, IdIsUsed
  <1>5. NoticeOk(notice[k], Len(chain["registry"]))
    BY <1>4 DEF Informs, NoticesOk
  <1>6. /\ DOMAIN notice' = DOMAIN notice
        /\ \A i \in DOMAIN notice : i # k => notice'[i] = notice[i]
        /\ notice'[k] = [notice[k] EXCEPT !.upto = Len(chain["registry"])]
    BY <1>2, <1>4
  <1>7. /\ DOMAIN notice'[k] = DOMAIN notice[k] /\ notice'[k].told = notice[k].told
        /\ notice'[k].lost = notice[k].lost /\ notice'[k].stale = notice[k].stale
        /\ notice'[k].from = notice[k].from /\ notice'[k].upto = Len(chain["registry"])
    BY <1>5, <1>6 DEF NoticeOk
  <1>8. IsList(chain["registry"])
    BY DEF Typed, ChainsTyped, IsChain, Ref
  <1>9. /\ Len(chain["registry"]) \in Nat
        /\ SubSeq(chain["registry"], 1, Len(chain["registry"])) = chain["registry"]
    BY <1>8, ListParts, PrefixKept
  <1>10. /\ \A i : Owed(d, i) = {} /\ Owed(j, i) = {}
         /\ \A i : i # k => ~Seeking(d, i)
         /\ Seeking(j, k)
    BY <1>1 DEF Owed, Seeking
  <1>11. \A i : i # k => Aside(job[p], j, i)
    BY <1>10 DEF Aside
  <1>12. PICK rest : Pending(k) = rest \cup Owed(d, k) /\ Pending(k)' = rest \cup Owed(j, k)
    BY <1>2, <1>4, PendingMoves
  <1>13. Pending(k)' = Pending(k)
    BY <1>10, <1>12
  <1>14. Passes(k)
    BY <1>7, <1>13 DEF Passes
  <1>15. Window(k) # {} /\ Window(k) \subseteq Window(k)'
    BY <1>5, <1>7, <1>9, WindowKept DEF NoticeOk
  <1>16. Goes(k)
    <2>1. Resolving(k)'
      BY <1>2, <1>10, ResolvingIs
    <2>2. Sent(k)' = Sent(k) /\ Reached(k)' = Reached(k)
      BY <1>7, <1>13 DEF Sent, Reached
    <2>3. QED
      BY <1>5, <1>7, <1>15, <2>1, <2>2 DEF Goes, NoticeOk
  <1>17. s \in Window(k)'
    <2>1. notice'[k].upto \in notice'[k].from .. notice'[k].upto
      BY <1>5, <1>7, <1>9 DEF NoticeOk
    <2>2. s = RegistryOf(SubSeq(chain'["registry"], 1, notice'[k].upto))
      BY <1>2, <1>7, <1>9
    <2>3. QED
      BY <2>1, <2>2 DEF Window
  <1>18. JobInforms(p)'
    <2>1. PICK c \in Range(chain["chat"]) :
            /\ c.id = k /\ c.kind = "chat.post" /\ c.actor = Me(p)
            /\ "mentions" \in menu.on /\ Finding(d, c, Window(k))
      BY <1>1 DEF Informs, JobInforms
    <2>2. PICK V, W : V = Window(k) /\ W = Window(k)'
      OBVIOUS
    <2>3. Finding(d, c, W)
      BY <1>15, <2>1, <2>2, FindingKept
    <2>4. Finding(j, c, W)
      BY <1>17, <2>2, <2>3
    <2>5. job'[p] = j /\ j.cause = k /\ Me(p)' = Me(p)
      BY <1>1, <1>2, JobSetIs DEF Me
    <2>6. \E e \in Range(chain'["chat"]) :
            /\ e.id = j.cause /\ e.kind = "chat.post" /\ e.actor = Me(p)'
            /\ "mentions" \in menu'.on /\ Finding(j, e, W)
      BY <1>2, <2>1, <2>4, <2>5
    <2>7. j.at # "change" /\ j.at # "tell"
      OBVIOUS
    <2>8. W = Window(j.cause)'
      BY <2>2, <2>5
    <2>9. QED
      BY <2>5, <2>6, <2>7, <2>8 DEF JobInforms, Finding
  <1>19. /\ notice'[k].stale \in BOOLEAN /\ notice'[k].upto \in Nat
         /\ notice[k].upto <= notice'[k].upto /\ notice'[k].upto <= Len(chain'["registry"])
    BY <1>2, <1>5, <1>7, <1>9 DEF NoticeOk
  <1>20. QED
    BY <1>2, <1>4, <1>6, <1>7, <1>11, <1>14, <1>16, <1>18, <1>19, CauseStep

\* Whom a name, or a member of its group, stood for while it was read, it meant.
LEMMA MeantIs ==
    ASSUME NEW W, NEW s \in W, NEW t \in W, NEW name, NEW m,
           m = name \/ m \in Members(t, name), ResolveToEmail(s, m) # NoEmail
    PROVE  ResolveToEmail(s, m) \in MeantInSome(W, name)
  <1>1. m \in {name} \cup UNION {Members(u, name) : u \in W}
    OBVIOUS
  <1>2. QED
    BY <1>1 DEF MeantInSome

\* A name that is a user's is found.
LEMMA NameFound ==
    ASSUME NEW d, NEW c, NEW W, Finding(d, c, W), NEW s \in W, IsList(d.names),
           d.names # <<>>, d.at = "names", NEW email,
           email = ResolveToEmail(s, Head(d.names)), email # NoEmail,
           NEW k, k.at = "names", k.names = Tail(d.names), k.members = d.members,
           k.found = (d.found \cup {email}) \ {NoEmail}, NoEmail \notin d.found
    PROVE  Finding(k, c, W)
  <1>1. PICK found, names, members, said, h, rest :
          /\ found = d.found /\ names = Range(d.names) /\ members = Range(d.members)
          /\ said = Range(c.data.names) /\ h = Head(d.names) /\ rest = Range(Tail(d.names))
    OBVIOUS
  <1>2. names = {h} \cup rest
    BY <1>1, ListParts
  <1>3. /\ names \subseteq said
        /\ \A x \in found : \E name \in said : x \in MeantInSome(W, name)
        /\ \A m \in members : \E name \in said : \E t \in W : m \in Members(t, name)
    BY <1>1 DEF Finding
  <1>4. \A name \in said, e \in Nat \ {NoEmail} :
         (\A t \in W : ResolveToEmail(t, name) = e) => e \in found \/ name \in names
    BY <1>1 DEF Finding
  <1>5. \A name \in said, m \in Name, e \in Nat \ {NoEmail} :
         (\A t \in W : /\ ResolveToEmail(t, name) = NoEmail
                       /\ m \in Members(t, name) /\ ResolveToEmail(t, m) = e)
         => e \in found \/ name \in names \/ m \in members
    BY <1>1 DEF Finding
  <1>6. /\ k.found = found \cup {email} /\ Range(k.names) = rest
        /\ Range(k.members) = members
    BY <1>1
  <1>7. \A x \in found \cup {email} : \E name \in said : x \in MeantInSome(W, name)
    <2>1. email \in MeantInSome(W, h)
      BY <1>1, MeantIs
    <2>2. QED
      BY <1>2, <1>3, <2>1
  <1>8. \A name \in said, e \in Nat \ {NoEmail} :
         (\A t \in W : ResolveToEmail(t, name) = e) => e \in found \cup {email} \/ name \in rest
    BY <1>1, <1>2, <1>4
  <1>9. \A name \in said, m \in Name, e \in Nat \ {NoEmail} :
         (\A t \in W : /\ ResolveToEmail(t, name) = NoEmail
                       /\ m \in Members(t, name) /\ ResolveToEmail(t, m) = e)
         => e \in found \cup {email} \/ name \in rest \/ m \in members
    BY <1>1, <1>2, <1>5
  <1>10. QED
    BY <1>1, <1>2, <1>3, <1>6, <1>7, <1>8, <1>9 DEF Finding

\* One that is not may be a group's.
LEMMA NameNotFound ==
    ASSUME NEW d, NEW c, NEW W, Finding(d, c, W), NEW s \in W,
           ResolveToEmail(s, Head(d.names)) = NoEmail, d.members = <<>>,
           NEW k, k.at = "group", k.names = d.names, k.members = d.members, k.found = d.found
    PROVE  Finding(k, c, W)
  BY DEF Finding

\* The group's members.
LEMMA GroupFound ==
    ASSUME NEW d, NEW c, NEW W, Finding(d, c, W), NEW s \in W, IsList(d.names),
           d.names # <<>>, d.at = "group",
           NEW k, k.at = "names", k.names = Tail(d.names),
           k.members = Given(Verify!Groups(s), Head(d.names), <<>>), k.found = d.found
    PROVE  Finding(k, c, W)
  <1>1. PICK found, names, said, h, rest :
          /\ found = d.found /\ names = Range(d.names)
          /\ said = Range(c.data.names) /\ h = Head(d.names) /\ rest = Range(Tail(d.names))
    OBVIOUS
  <1>2. names = {h} \cup rest
    BY <1>1, ListParts
  <1>3. /\ names \subseteq said
        /\ \A x \in found : \E name \in said : x \in MeantInSome(W, name)
        /\ Range(d.members) = {}
        /\ \E t \in W : ResolveToEmail(t, h) = NoEmail
    BY <1>1, EmptyList DEF Finding
  <1>4. \A name \in said, e \in Nat \ {NoEmail} :
         (\A t \in W : ResolveToEmail(t, name) = e) => e \in found \/ name \in names
    BY <1>1 DEF Finding
  <1>5. \A name \in said, m \in Name, e \in Nat \ {NoEmail} :
         (\A t \in W : /\ ResolveToEmail(t, name) = NoEmail
                       /\ m \in Members(t, name) /\ ResolveToEmail(t, m) = e)
         => e \in found \/ name \in names
    BY <1>1, <1>3 DEF Finding
  <1>6. /\ k.found = found /\ Range(k.names) = rest
        /\ Range(k.members) = Members(s, h)
    BY <1>1 DEF Members
  <1>7. \A name \in said, e \in Nat \ {NoEmail} :
         (\A t \in W : ResolveToEmail(t, name) = e) => e \in found \/ name \in rest
    BY <1>2, <1>3, <1>4
  <1>8. \A name \in said, m \in Name, e \in Nat \ {NoEmail} :
         (\A t \in W : /\ ResolveToEmail(t, name) = NoEmail
                       /\ m \in Members(t, name) /\ ResolveToEmail(t, m) = e)
         => e \in found \/ name \in rest \/ m \in Members(s, h)
    BY <1>2, <1>5
  <1>9. \A m \in Members(s, h) : \E name \in said : \E t \in W : m \in Members(t, name)
    BY <1>2, <1>3
  <1>10. rest \subseteq said
    BY <1>2, <1>3
  <1>11. QED
    BY <1>1, <1>3, <1>6, <1>7, <1>8, <1>9, <1>10 DEF Finding

\* One of them.
LEMMA MemberFound ==
    ASSUME NEW d, NEW c, NEW W, Finding(d, c, W), NEW s \in W, IsList(d.members),
           d.members # <<>>, d.at = "names", NEW email,
           email = ResolveToEmail(s, Head(d.members)),
           NEW k, k.at = "names", k.names = d.names, k.members = Tail(d.members),
           k.found = (d.found \cup {email}) \ {NoEmail}, NoEmail \notin d.found
    PROVE  Finding(k, c, W)
  <1>1. PICK found, names, members, said, h, rest :
          /\ found = d.found /\ names = Range(d.names) /\ members = Range(d.members)
          /\ said = Range(c.data.names) /\ h = Head(d.members) /\ rest = Range(Tail(d.members))
    OBVIOUS
  <1>2. members = {h} \cup rest
    BY <1>1, ListParts
  <1>3. /\ names \subseteq said
        /\ \A x \in found : \E name \in said : x \in MeantInSome(W, name)
        /\ \A m \in members : \E name \in said : \E t \in W : m \in Members(t, name)
    BY <1>1 DEF Finding
  <1>4. \A name \in said, e \in Nat \ {NoEmail} :
         (\A t \in W : ResolveToEmail(t, name) = e) => e \in found \/ name \in names
    BY <1>1 DEF Finding
  <1>5. \A name \in said, m \in Name, e \in Nat \ {NoEmail} :
         (\A t \in W : /\ ResolveToEmail(t, name) = NoEmail
                       /\ m \in Members(t, name) /\ ResolveToEmail(t, m) = e)
         => e \in found \/ name \in names \/ m \in members
    BY <1>1 DEF Finding
  <1>6. /\ k.found = (found \cup {email}) \ {NoEmail} /\ Range(k.names) = names
        /\ Range(k.members) = rest
    BY <1>1
  <1>7. \A x \in k.found : \E name \in said : x \in MeantInSome(W, name)
    <2>1. PICK name \in said : \E t \in W : h \in Members(t, name)
      BY <1>2, <1>3
    <2>2. email # NoEmail => email \in MeantInSome(W, name)
      BY <1>1, <2>1, MeantIs
    <2>3. QED
      BY <1>3, <1>6, <2>2
  <1>8. \A name \in said, e \in Nat \ {NoEmail} :
         (\A t \in W : ResolveToEmail(t, name) = e) => e \in k.found \/ name \in names
    BY <1>4, <1>6
  <1>9. \A name \in said, m \in Name, e \in Nat \ {NoEmail} :
         (\A t \in W : /\ ResolveToEmail(t, name) = NoEmail
                       /\ m \in Members(t, name) /\ ResolveToEmail(t, m) = e)
         => e \in k.found \/ name \in names \/ m \in rest
    BY <1>1, <1>2, <1>5, <1>6
  <1>10. \A m \in rest : \E name \in said : \E t \in W : m \in Members(t, name)
    BY <1>2, <1>3
  <1>11. QED
    BY <1>1, <1>3, <1>6, <1>7, <1>8, <1>9, <1>10 DEF Finding

\* A name of a message is looked up,
LEMMA ResolveNameInforms ==
    ASSUME Typed, Typed', Informs, Longer, NEW p \in Proc, ResolveName(p)
    PROVE  Informs'
  <1>1. PICK d, s, email : /\ d = job[p] /\ s = RegistryOf(chain["registry"])
                           /\ email = ResolveToEmail(s, Head(d.names))
    OBVIOUS
  <1>2. /\ d.at = "names" /\ d.names # <<>> /\ d.members = <<>>
        /\ Reads(p, IF email # NoEmail
                    THEN [Found(d, email) EXCEPT !.names = Tail(@)]
                    ELSE [d EXCEPT !.at = "group"])
    BY <1>1 DEF ResolveName
  <1>3. JobOk(d, Me(p), DOMAIN notice)
    BY <1>1 DEF Typed, JobsTyped
  <1>4. IsList(d.names) /\ NoEmail \notin d.found
    BY <1>2, <1>3 DEF JobOk, NoEmail
  <1>5. CASE email # NoEmail
    <2>1. PICK k : k = [Found(d, email) EXCEPT !.names = Tail(@)]
      OBVIOUS
    <2>2. /\ k.at = "names" /\ k.cause = d.cause
          /\ k.names = Tail(d.names) /\ k.members = d.members
          /\ k.found = (d.found \cup {email}) \ {NoEmail}
      BY <1>2, <1>3, <2>1 DEF JobOk, Found
    <2>3. \A c, W : s \in W /\ Finding(d, c, W) => Finding(k, c, W)
      BY <1>1, <1>2, <1>4, <1>5, <2>2, NameFound
    <2>4. Reads(p, k)
      BY <1>2, <1>5, <2>1
    <2>5. QED
      BY <1>1, <1>2, <2>2, <2>3, <2>4, ReadsStep
  <1>6. CASE email = NoEmail
    <2>1. PICK k : k = [d EXCEPT !.at = "group"]
      OBVIOUS
    <2>2. /\ k.at = "group" /\ k.cause = d.cause
          /\ k.names = d.names /\ k.members = d.members /\ k.found = d.found
      BY <1>2, <1>3, <2>1 DEF JobOk
    <2>3. \A c, W : s \in W /\ Finding(d, c, W) => Finding(k, c, W)
      BY <1>1, <1>2, <1>6, <2>2, NameNotFound
    <2>4. Reads(p, k)
      BY <1>2, <1>6, <2>1
    <2>5. QED
      BY <1>1, <1>2, <2>2, <2>3, <2>4, ReadsStep
  <1>7. QED
    BY <1>5, <1>6

\* the group of that name,
LEMMA ResolveGroupInforms ==
    ASSUME Typed, Typed', Informs, Longer, NEW p \in Proc, ResolveGroup(p)
    PROVE  Informs'
  <1>1. PICK d, s, l : /\ d = job[p] /\ s = RegistryOf(chain["registry"])
                       /\ l = Given(Verify!Groups(s), Head(d.names), <<>>)
    OBVIOUS
  <1>2. PICK k : k = [d EXCEPT !.at = "names", !.names = Tail(@), !.members = l]
    OBVIOUS
  <1>3. d.at = "group" /\ Reads(p, k)
    BY <1>1, <1>2 DEF ResolveGroup
  <1>4. JobOk(d, Me(p), DOMAIN notice)
    BY <1>1 DEF Typed, JobsTyped
  <1>5. IsList(d.names) /\ d.names # <<>>
    BY <1>3, <1>4 DEF JobOk
  <1>6. /\ k.at = "names" /\ k.cause = d.cause
        /\ k.names = Tail(d.names) /\ k.members = l /\ k.found = d.found
    BY <1>2, <1>3, <1>4 DEF JobOk
  <1>7. \A c, W : s \in W /\ Finding(d, c, W) => Finding(k, c, W)
    BY <1>1, <1>3, <1>5, <1>6, GroupFound
  <1>8. QED
    BY <1>1, <1>3, <1>6, <1>7, ReadsStep

\* and its members,
LEMMA ResolveMemberInforms ==
    ASSUME Typed, Typed', Informs, Longer, NEW p \in Proc, ResolveMember(p)
    PROVE  Informs'
  <1>1. PICK d, s, email : /\ d = job[p] /\ s = RegistryOf(chain["registry"])
                           /\ email = ResolveToEmail(s, Head(d.members))
    OBVIOUS
  <1>2. PICK k : k = [Found(d, email) EXCEPT !.members = Tail(@)]
    OBVIOUS
  <1>3. d.at = "names" /\ d.members # <<>> /\ Reads(p, k)
    BY <1>1, <1>2 DEF ResolveMember
  <1>4. JobOk(d, Me(p), DOMAIN notice)
    BY <1>1 DEF Typed, JobsTyped
  <1>5. IsList(d.members) /\ NoEmail \notin d.found
    BY <1>3, <1>4 DEF JobOk, NoEmail
  <1>6. /\ k.at = "names" /\ k.cause = d.cause
        /\ k.names = d.names /\ k.members = Tail(d.members)
        /\ k.found = (d.found \cup {email}) \ {NoEmail}
    BY <1>2, <1>3, <1>4 DEF JobOk, Found
  <1>7. \A c, W : s \in W /\ Finding(d, c, W) => Finding(k, c, W)
    BY <1>1, <1>3, <1>5, <1>6, MemberFound
  <1>8. QED
    BY <1>1, <1>3, <1>6, <1>7, ReadsStep

\* What the registry has been, and the emails it has had.
LEMMA WindowIs ==
    ASSUME Typed, NEW i, NoticeOk(notice[i], Len(chain["registry"])), NEW s \in Window(i),
           NEW name
    PROVE  ResolveToEmail(s, name) \in Nat
  <1>1. PICK commits : commits = chain["registry"]
    OBVIOUS
  <1>2. IsChain(commits) /\ IsList(commits)
    BY <1>1 DEF Typed, ChainsTyped, IsChain, Ref
  <1>3. PICK n \in notice[i].from .. notice[i].upto : s = RegistryOf(SubSeq(commits, 1, n))
    BY <1>1 DEF Window
  <1>4. n \in 0 .. Len(commits)
    BY <1>1, <1>2, ListParts DEF NoticeOk
  <1>5. PICK t : t = SubSeq(commits, 1, n)
    OBVIOUS
  <1>6. IsList(t) /\ Len(t) = n /\ \A m \in 1 .. n : t[m] = commits[m]
    BY <1>2, <1>4, <1>5, PrefixKept
  <1>7. DOMAIN t = 1 .. n /\ DOMAIN commits = 1 .. Len(commits) /\ Len(commits) \in Nat
    BY <1>2, <1>6, ListParts
  <1>8. IsChain(t)
    BY <1>2, <1>4, <1>6, <1>7 DEF IsChain
  <1>9. QED
    BY <1>3, <1>5, <1>8, RegistryNow

\* When all names are resolved, those are found who must be.
LEMMA AllFound ==
    ASSUME NEW d, NEW c, NEW W, Finding(d, c, W), d.names = <<>>, d.members = <<>>,
           \A s \in W : \A name : ResolveToEmail(s, name) \in Nat
    PROVE  /\ d.found \subseteq UNION {MeantInSome(W, name) : name \in Range(c.data.names)}
           /\ UNION {MeantInAll(W, name) : name \in Range(c.data.names)} \subseteq d.found
  <1>1. PICK said, found : said = Range(c.data.names) /\ found = d.found
    OBVIOUS
  <1>2. Range(d.names) = {} /\ Range(d.members) = {}
    BY EmptyList
  <1>3. \A x \in found : \E name \in said : x \in MeantInSome(W, name)
    BY <1>1 DEF Finding
  <1>4. \A name \in said, e \in Nat \ {NoEmail} :
         (\A t \in W : ResolveToEmail(t, name) = e) => e \in found
    BY <1>1, <1>2 DEF Finding
  <1>5. \A name \in said, m \in Name, e \in Nat \ {NoEmail} :
         (\A t \in W : /\ ResolveToEmail(t, name) = NoEmail
                       /\ m \in Members(t, name) /\ ResolveToEmail(t, m) = e)
         => e \in found
    BY <1>1, <1>2 DEF Finding
  <1>6. ASSUME NEW name \in said, NEW e \in MeantInAll(W, name)
        PROVE  e \in found
    <2>1. e \in MeantInSome(W, name)
      BY DEF MeantInAll
    <2>2. e \in Nat \ {NoEmail}
      BY <2>1 DEF MeantInSome
    <2>3. \/ \A s \in W : ResolveToEmail(s, name) = e
          \/ \E m \in Name : \A s \in W :
               /\ ResolveToEmail(s, name) = NoEmail
               /\ m \in Members(s, name) /\ ResolveToEmail(s, m) = e
      BY DEF MeantInAll
    <2>4. CASE \A s \in W : ResolveToEmail(s, name) = e
      BY <1>4, <2>2, <2>4
    <2>5. CASE \E m \in Name : \A s \in W :
                 /\ ResolveToEmail(s, name) = NoEmail
                 /\ m \in Members(s, name) /\ ResolveToEmail(s, m) = e
      BY <1>5, <2>2, <2>5
    <2>6. QED
      BY <2>3, <2>4, <2>5
  <1>7. QED
    BY <1>1, <1>3, <1>6

\* The rest of NotifyMentions.
LEMMA SendMentionsInforms ==
    ASSUME Typed, Typed', Informs, Longer, NEW p \in Proc, SendMentions(p)
    PROVE  Informs'
  <1>1. PICK d, k, j : /\ d = job[p] /\ k = d.cause /\ j = ToTell(p, "chat", k, d.found, {})
    OBVIOUS
  <1>2. /\ d.at = "names" /\ d.names = <<>> /\ d.members = <<>> /\ JobSet(p, j)
        /\ menu' = menu /\ chain' = chain /\ config' = config /\ notice' = notice
    BY <1>1 DEF SendMentions, JobSet
  <1>3. JobOk(d, Me(p), DOMAIN notice)
    BY <1>1 DEF Typed, JobsTyped
  <1>4. k \in DOMAIN notice /\ k # Never
    <2>1. k \in DOMAIN notice
      BY <1>1, <1>2, <1>3 DEF JobOk
    <2>2. QED
      BY <2>1, IdIsUsed
  <1>5. NoticeOk(notice[k], Len(chain["registry"]))
    BY <1>4 DEF Informs, NoticesOk
  <1>6. /\ Owed(j, k) = d.found \ {Me(p)}
        /\ \A i : ~Seeking(j, i) /\ (i # k => Owed(j, i) = {})
        /\ j.at \in {"idle", "tell"}
        /\ j.at = "tell" => j.ref = "chat" /\ j.cause = k
    BY <1>1, ToTellIs
  <1>7. /\ \A i : Owed(d, i) = {}
        /\ \A i : i # k => ~Seeking(d, i)
    BY <1>1, <1>2 DEF Owed, Seeking
  <1>8. \A i : i # k => Aside(job[p], j, i)
    BY <1>1, <1>6, <1>7 DEF Aside
  <1>9. PICK rest : /\ Pending(k) = rest \cup Owed(job[p], k)
                    /\ Pending(k)' = rest \cup Owed(j, k)
    <2>1. JobSet(p, j)
      BY <1>2
    <2>2. k # Never
      BY <1>4
    <2>3. \E rest : /\ Pending(k) = rest \cup Owed(job[p], k)
                    /\ Pending(k)' = rest \cup Owed(j, k)
      BY <2>1, <2>2, PendingMoves
    <2>4. QED
      BY <2>3
  <1>10. Pending(k)' = Pending(k) \cup (d.found \ {Me(p)})
    BY <1>1, <1>6, <1>7, <1>9
  <1>11. Passes(k)
    BY <1>2, <1>10 DEF Passes
  <1>12. PICK c \in Range(chain["chat"]) :
           /\ c.id = k /\ c.kind = "chat.post" /\ c.actor = Me(p)
           /\ "mentions" \in menu.on /\ Finding(d, c, Window(k))
    BY <1>1, <1>2 DEF Informs, JobInforms
  <1>13. HasId("chat", k)
    BY <1>12 DEF HasId
  <1>14. JobInforms(p)'
    <2>1. job'[p] = j
      BY <1>2, JobSetIs
    <2>2. HasId("chat", k)'
      BY <1>13, IdsKept DEF Ref
    <2>3. QED
      BY <1>6, <2>1, <2>2 DEF JobInforms
  <1>15. ASSUME NEW r \in {"task", "issue", "chat"}, NEW n \in DOMAIN chain[r],
                chain[r][n].id = k
         PROVE  Fits(r, n)'
    <2>1. r = "chat"
      <3>1. HasId(r, k)
        BY <1>15 DEF HasId, Range
      <3>2. QED
        BY <1>4, <1>13, <3>1 DEF Informs, NoticesOk, OneRef, Ref
    <2>2. chain[r][n] = c
      <3>1. PICK m \in DOMAIN chain[r] : c = chain[r][m]
        BY <1>12, <2>1 DEF Range
      <3>2. IsChain(chain[r])
        BY <2>1 DEF Typed, ChainsTyped, Ref
      <3>3. QED
        BY <1>12, <1>15, <3>1, <3>2 DEF IsChain
    <2>3. Fits(r, n)
      BY <1>4, <1>15 DEF Informs, AllFit
    <2>4. PICK W, before, after :
            /\ W = Window(k) /\ before = SubSeq(chain[r], 1, n - 1)
            /\ after = SubSeq(chain[r], 1, n)
      OBVIOUS
    <2>5. Window(k)' = W
      BY <1>2, <2>4 DEF Window
    <2>6. /\ d.found \subseteq UNION {MeantInSome(W, name) : name \in Range(c.data.names)}
          /\ UNION {MeantInAll(W, name) : name \in Range(c.data.names)} \subseteq d.found
      <3>1. \A s \in W : \A name : ResolveToEmail(s, name) \in Nat
        BY <1>5, <2>4, WindowIs
      <3>2. QED
        BY <1>2, <1>12, <2>4, <3>1, AllFound
    <2>7. PICK allowed, whom : /\ allowed = Allowed(c, before, after, notice[k].stale, W)
                               /\ whom = Whom(c, before, after, W)
      OBVIOUS
    <2>8. d.found \subseteq allowed /\ whom \subseteq d.found
      BY <1>12, <2>6, <2>7 DEF Allowed, Whom
    <2>9. Setting(r) = "mentions"
      BY <2>1 DEF Setting
    <2>10. Sent(k) \subseteq allowed \ {c.actor}
      BY <1>12, <2>2, <2>3, <2>4, <2>7, <2>9 DEF Fits
    <2>11. /\ Sent(k)' = Sent(k) \cup (d.found \ {Me(p)})
           /\ d.found \ {Me(p)} \subseteq Reached(k)'
      BY <1>2, <1>10 DEF Sent, Reached
    <2>12. /\ Sent(k)' \subseteq allowed \ {c.actor}
           /\ whom \ {c.actor} \subseteq Reached(k)'
      BY <1>12, <2>8, <2>10, <2>11
    <2>13. c.kind \in WriteKinds
      BY <1>12 DEF WriteKinds
    <2>14. /\ chain'[r][n] = c /\ SubSeq(chain'[r], 1, n - 1) = before
           /\ SubSeq(chain'[r], 1, n) = after /\ notice'[k] = notice[k]
      BY <1>2, <2>2, <2>4
    <2>15. Setting(r) \in menu'.on
      BY <1>2, <1>12, <2>9
    <2>16. QED
      BY <1>12, <2>5, <2>7, <2>12, <2>13, <2>14, <2>15 DEF Fits, Setting
  <1>16. /\ notice[k].stale \in BOOLEAN /\ notice[k].upto \in Nat
         /\ notice[k].upto <= notice[k].upto /\ notice[k].upto <= Len(chain["registry"])
    BY <1>5 DEF NoticeOk
  <1>17. QED
    BY <1>2, <1>4, <1>8, <1>11, <1>14, <1>15, <1>16, CauseStep

-----------------------------------------------------------------------------
(* Writes that may notify.                                                 *)

\* The notice of a new write: nobody is told yet but by its command.
Fresh(i, stale) ==
    /\ notice'[i].told = {} /\ notice'[i].lost = {} /\ notice'[i].stale = stale
    /\ NoticeOk(notice'[i], Len(chain["registry"]))
    /\ DOMAIN notice' = DOMAIN notice \cup {i}
    /\ \A k \in DOMAIN notice : notice'[k] = notice[k]

\* The notice of a new write.
LEMMA NewNoticeIs ==
    ASSUME Typed, NEW i, i \notin DOMAIN notice, NEW stale \in BOOLEAN,
           notice' = NewNotice(i, stale)
    PROVE  Fresh(i, stale)
  <1>1. PICK note, l : /\ l = Len(chain["registry"])
                       /\ note = [told |-> {}, lost |-> {}, stale |-> stale,
                                  from |-> l, upto |-> l]
    OBVIOUS
  <1>2. l \in Nat
    BY <1>1, ListParts DEF Typed, ChainsTyped, IsChain, Ref
  <1>3. /\ DOMAIN notice' = DOMAIN notice \cup {i} /\ notice'[i] = note
        /\ \A k \in DOMAIN notice : notice'[k] = notice[k]
    BY <1>1 DEF NewNotice, Put
  <1>4. NoticeOk(note, l)
    BY <1>1, <1>2 DEF NoticeOk
  <1>5. QED
    BY <1>1, <1>3, <1>4 DEF Fresh

\* Only its own command has anybody to tell of it.
LEMMA NewPending ==
    ASSUME Typed, Typed', NEW p \in Proc, NEW j, JobSet(p, j), NEW i, i # Never,
           i \notin DOMAIN notice
    PROVE  Pending(i)' = Owed(j, i)
  <1>1. PICK rest : Pending(i) = rest \cup Owed(job[p], i) /\ Pending(i)' = rest \cup Owed(j, i)
    BY PendingMoves
  <1>2. \A q \in Proc : JobOk(job[q], Me(q), DOMAIN notice)
    BY DEF Typed, JobsTyped
  <1>3. \A q \in Proc : Owed(job[q], i) = {}
    BY <1>2 DEF JobOk, Owed
  <1>4. Pending(i) = PendingOf(job, i)
    BY DEF Pending, PendingOf
  <1>5. \A x : x \notin Pending(i)
    BY <1>2, <1>3, <1>4, PendingIs
  <1>6. QED
    BY <1>1, <1>5

\* Whom a write puts in charge knows of it: they did, or are told, or it was they.
LEMMA NamedKnow ==
    ASSUME Typed, Longer, \A i \in DOMAIN notice : Passes(i), NEW r \in {"task", "issue"},
           NEW c \in Range(chain'[r]), NEW i \in DOMAIN notice', c.id = i,
           c.kind = "task.reassign" => "owner" \in DOMAIN c.data, NEW x \in Named(c),
           Knows(r, x) \/ x \in Pending(i)' \/ x = c.actor
    PROVE  Knows(r, x)'
  <1>1. CASE Knows(r, x)
    BY <1>1, KnowsKept
  <1>2. CASE x \in Pending(i)'
    <2>1. HasId(r, i)'
      BY DEF HasId
    <2>2. Noticed(r, x)'
      BY <1>2, <2>1 DEF Noticed
    <2>3. QED
      BY <2>2 DEF Knows
  <1>3. CASE x = c.actor
    <2>1. x \in Given(c.data, "add", {}) \cup {Given(c.data, "owner", NoEmail)}
      <3>1. CASE c.kind = "task.reassign"
        BY <3>1 DEF Named, Given
      <3>2. CASE c.kind = "issue.assign"
        BY <3>2 DEF Named
      <3>3. CASE c.kind \notin {"task.reassign", "issue.assign"}
        BY <3>3 DEF Named
      <3>4. QED
        BY <3>1, <3>2, <3>3
    <2>2. (x \in OwnDoing(r))'
      BY <1>3, <2>1 DEF OwnDoing
    <2>3. QED
      BY <2>2 DEF Knows
  <1>4. QED
    BY <1>1, <1>2, <1>3

\* What a command leaves to be told after its write, owed, is right.
Right(ref, c, before, after, stale, W, owed) ==
    /\ Setting(ref) \notin menu.on => owed = {}
    /\ Setting(ref) \in menu.on =>
         /\ owed \subseteq Allowed(c, before, after, stale, W) \ {c.actor}
         /\ \/ Resolving(c.id)' \/ stale
            \/ Whom(c, before, after, W) \ {c.actor} \subseteq owed

\* What is left to show of a write with a notice.
LEMMA WriteStep ==
    ASSUME Typed, Typed', Informs, Longer, NEW p \in Proc, NEW j, JobSet(p, j),
           config' = config, NEW ref \in {"task", "issue", "chat"}, NEW i \in NewIds,
           NEW kind \in WriteKinds, NEW data, Write(p, ref, i, kind, data),
           ref # "chat" => kind \in WritesOf(ref),
           kind = "task.reassign" => "owner" \in DOMAIN data,
           NEW stale \in BOOLEAN, notice' = NewNotice(i, stale),
           job[p].at \notin {"tell", "names", "group"},
           \A k : k # i => Owed(j, k) = {} /\ ~Seeking(j, k),
           NEW c, c = Commit(p, i, kind, data),
           NEW W, W = {RegistryOf(chain["registry"])},
           Right(ref, c, chain[ref], chain'[ref], stale, W, Owed(j, i)),
           "auto" \in menu.on /\ ref # "chat" =>
             \A x \in Named(c) : Knows(ref, x) \/ x \in Owed(j, i) \/ x = Me(p),
           JobInforms(p)'
    PROVE  Informs'
  <1>1. i \in FreshIds /\ i # Never /\ i \notin DOMAIN notice
    <2>1. menu.ids \in Nat
      BY MenuIs DEF Typed, ChainsTyped
    <2>2. i \in FreshIds
      BY NewIdIsFresh
    <2>3. QED
      BY <2>1, <2>2 DEF FreshIds, Never, Typed, NoticesTyped
  <1>2. c.id = i /\ c.kind = kind /\ c.actor = Me(p) /\ c.data = data
    BY DEF Commit
  <1>3. Fresh(i, stale)
    BY <1>1, NewNoticeIs
  <1>4. DOMAIN notice' = DOMAIN notice \cup {i} /\ \A k \in DOMAIN notice : notice'[k] = notice[k]
    BY <1>3 DEF Fresh
  <1>5. Pending(i)' = Owed(j, i)
    BY <1>1, NewPending
  <1>6. /\ chain' = [chain EXCEPT ![ref] = Append(@, c)] /\ kind \in menu.kinds
        /\ DOMAIN chain = Ref /\ ref \in Ref /\ IsList(chain[ref])
    BY DEF Write, Typed, ChainsTyped, Ref, IsChain
  <1>7. /\ chain'[ref] = Append(chain[ref], c) /\ \A r \in Ref : r # ref => chain'[r] = chain[r]
    BY <1>6
  <1>8. PICK l \in Nat : l = Len(chain[ref])
    BY <1>6, ListParts
  <1>9. /\ DOMAIN chain'[ref] = 1 .. l + 1 /\ DOMAIN chain[ref] = 1 .. l
        /\ chain'[ref][l + 1] = c /\ Range(chain'[ref]) = Range(chain[ref]) \cup {c}
        /\ Len(chain'[ref]) = l + 1 /\ IsList(chain'[ref])
    BY <1>6, <1>7, <1>8, Appended
  <1>10. \A k \in DOMAIN notice : NoticeOk(notice[k], Len(chain["registry"]))
    BY DEF Informs, NoticesOk
  <1>11. \A k \in DOMAIN notice : Aside(job[p], j, k)
    <2>1. \A k : Owed(job[p], k) = {} /\ ~Seeking(job[p], k)
      BY DEF Owed, Seeking
    <2>2. QED
      BY <1>1, <2>1 DEF Aside
  <1>12. \A k \in DOMAIN notice : Goes(k) /\ Passes(k)
    BY <1>4, <1>10, <1>11, OthersGo
  <1>13. \A k \in DOMAIN notice : Passes(k) /\ Widens(k)
    BY <1>12 DEF Goes, Widens
  <1>14. chain'["registry"] = chain["registry"]
    BY <1>7 DEF Ref
  <1>15. \A k \in DOMAIN notice' : NoticeOk(notice'[k], Len(chain'["registry"]))
    BY <1>3, <1>4, <1>10, <1>14 DEF Fresh
  <1>16. NewIsFine("task") /\ NewIsFine("issue")
    <2>1. ASSUME NEW r \in {"task", "issue"}
          PROVE  NewIsFine(r)
      <3>1. CASE r # ref
        BY <1>7, <3>1 DEF NewIsFine, Ref
      <3>2. CASE r = ref
        <4>1. c.kind \in menu.kinds \cap WritesOf(r)
          BY <1>2, <1>6, <3>2
        <4>2. ASSUME "auto" \in menu.on, NEW x \in Named(c)
              PROVE  Knows(r, x)'
          <5>1. Knows(r, x) \/ x \in Pending(i)' \/ x = c.actor
            BY <1>2, <1>5, <3>2, <4>2
          <5>2. c \in Range(chain'[r]) /\ i \in DOMAIN notice'
            BY <1>4, <1>9, <3>2
          <5>3. c.kind = "task.reassign" => "owner" \in DOMAIN c.data
            BY <1>2
          <5>4. QED
            BY <1>2, <1>13, <5>1, <5>2, <5>3, NamedKnow
        <4>3. \A d \in Range(chain'[r]) : d \notin Range(chain[r]) => d = c
          BY <1>9, <3>2
        <4>4. QED
          BY <4>1, <4>2, <4>3 DEF NewIsFine
      <3>3. QED
        BY <3>1, <3>2
    <2>2. QED
      BY <2>1
  <1>17. Fits(ref, l + 1)'
    <2>1. SubSeq(chain'[ref], 1, (l + 1) - 1) = chain[ref]
      <3>1. (l + 1) - 1 = l /\ l \in 0 .. Len(chain[ref])
        BY <1>8
      <3>2. SubSeq(Append(chain[ref], c), 1, l) = SubSeq(chain[ref], 1, l)
        BY <1>6, <3>1, PrefixKept
      <3>3. SubSeq(chain[ref], 1, l) = chain[ref]
        BY <1>6, <1>8, <3>1, PrefixKept
      <3>4. QED
        BY <1>7, <3>1, <3>2, <3>3
    <2>2. SubSeq(chain'[ref], 1, l + 1) = chain'[ref]
      <3>1. l + 1 \in 0 .. Len(chain'[ref])
        BY <1>9
      <3>2. QED
        BY <1>9, <3>1, PrefixKept
    <2>3. Window(i)' = W
      <3>1. PICK m \in Nat : m = Len(chain["registry"])
        BY ListParts DEF Typed, ChainsTyped, IsChain, Ref
      <3>2. SubSeq(chain["registry"], 1, m) = chain["registry"]
        <4>1. m \in 0 .. Len(chain["registry"])
          BY <3>1
        <4>2. QED
          BY <3>1, <4>1, PrefixKept DEF Typed, ChainsTyped, IsChain, Ref
      <3>3. notice'[i].from = m /\ notice'[i].upto = m
        BY <3>1 DEF NewNotice, Put
      <3>4. m .. m = {m}
        BY <3>1
      <3>5. Window(i)' = {RegistryOf(SubSeq(chain'["registry"], 1, n)) : n \in {m}}
        BY <3>3, <3>4 DEF Window
      <3>6. QED
        BY <1>14, <3>2, <3>5
    <2>4. notice'[i].told = {} /\ notice'[i].lost = {} /\ notice'[i].stale = stale
      BY <1>3 DEF Fresh
    <2>5. Sent(i)' = Owed(j, i) /\ Reached(i)' = Owed(j, i)
      BY <1>5, <2>4 DEF Sent, Reached
    <2>6. menu' = menu
      BY DEF Longer
    <2>7. PICK before, after, owed :
            before = chain[ref] /\ after = chain'[ref] /\ owed = Owed(j, i)
      OBVIOUS
    <2>8. /\ Setting(ref) \notin menu.on => owed = {}
          /\ Setting(ref) \in menu.on =>
               /\ owed \subseteq Allowed(c, before, after, stale, W) \ {c.actor}
               /\ \/ Resolving(c.id)' \/ stale
                  \/ Whom(c, before, after, W) \ {c.actor} \subseteq owed
      BY <2>7 DEF Right
    <2>9. QED
      BY <1>2, <1>9, <2>1, <2>2, <2>3, <2>4, <2>5, <2>6, <2>7, <2>8 DEF Fits, Setting
  <1>18. ASSUME NEW r \in {"task", "issue", "chat"}, NEW n \in DOMAIN chain'[r],
                n \notin DOMAIN chain[r]
         PROVE  Fits(r, n)'
    <2>1. r = ref
      BY <1>7, <1>18 DEF Ref
    <2>2. n = l + 1
      BY <1>9, <1>18, <2>1
    <2>3. QED
      BY <1>17, <2>1, <2>2
  <1>19. QED
    BY <1>12, <1>13, <1>15, <1>16, <1>18, InformsStep

\* A write that is announced at once.
LEMMA AnnounceStep ==
    ASSUME Typed, Typed', Informs, Longer, NEW p \in Proc, config' = config,
           NEW ref \in {"task", "issue"}, NEW i \in NewIds,
           NEW kind \in WriteKinds, NEW data, Write(p, ref, i, kind, data),
           kind \in WritesOf(ref), kind = "task.reassign" => "owner" \in DOMAIN data,
           NEW stale \in BOOLEAN, notice' = NewNotice(i, stale),
           job[p].at \notin {"tell", "names", "group"},
           NEW people, NEW again,
           job' = [job EXCEPT ![p] = Announce(p, ref, i, people, again)],
           NEW c, c = Commit(p, i, kind, data),
           NEW W, W = {RegistryOf(chain["registry"])},
           people \subseteq Allowed(c, chain[ref], chain'[ref], stale, W),
           \/ stale
           \/ Whom(c, chain[ref], chain'[ref], W) \ {Me(p)} \subseteq people,
           "auto" \in menu.on =>
             \A x \in Named(c) : Knows(ref, x) \/ x \in people \/ x = Me(p)
    PROVE  Informs'
  <1>1. PICK some, j : /\ some = IF "auto" \in menu.on THEN people ELSE {}
                       /\ j = ToTell(p, ref, i, some, again)
    OBVIOUS
  <1>2. JobSet(p, j)
    BY <1>1 DEF Announce, JobSet
  <1>3. /\ Owed(j, i) = some \ {Me(p)}
        /\ \A k : ~Seeking(j, k) /\ (k # i => Owed(j, k) = {})
        /\ j.at \in {"idle", "tell"}
        /\ j.at = "tell" => j.ref = ref /\ j.cause = i
    BY <1>1, ToTellIs
  <1>4. c.id = i /\ c.actor = Me(p)
    BY DEF Commit
  <1>5. Setting(ref) = "auto"
    BY DEF Setting
  <1>6. Right(ref, c, chain[ref], chain'[ref], stale, W, Owed(j, i))
    BY <1>1, <1>3, <1>4, <1>5 DEF Right
  <1>7. "auto" \in menu.on => \A x \in Named(c) : Knows(ref, x) \/ x \in Owed(j, i) \/ x = Me(p)
    BY <1>1, <1>3
  <1>8. JobInforms(p)'
    <2>1. job'[p] = j
      BY <1>2, JobSetIs
    <2>2. chain' = [chain EXCEPT ![ref] = Append(@, c)]
      BY DEF Write
    <2>3. ref \in Ref /\ DOMAIN chain = Ref /\ IsList(chain[ref])
      BY DEF Typed, ChainsTyped, Ref, IsChain
    <2>4. c \in Range(chain'[ref])
      BY <2>2, <2>3, Appended
    <2>5. HasId(ref, i)'
      BY <1>4, <2>4 DEF HasId
    <2>6. QED
      BY <1>3, <2>1, <2>5 DEF JobInforms
  <1>9. \A k : k # i => Owed(j, k) = {} /\ ~Seeking(j, k)
    BY <1>3
  <1>10. "auto" \in menu.on /\ ref # "chat" =>
           \A x \in Named(c) : Knows(ref, x) \/ x \in Owed(j, i) \/ x = Me(p)
    BY <1>7
  <1>11. ref \in {"task", "issue", "chat"} /\ (ref # "chat" => kind \in WritesOf(ref))
    OBVIOUS
  <1>12. QED
    BY <1>2, <1>6, <1>8, <1>9, <1>10, <1>11, WriteStep

\* The write of task reassign and issue assign.
LEMMA ChangeInforms ==
    ASSUME Typed, Typed', Informs, Longer, NEW p \in Proc, Change(p)
    PROVE  Informs'
  <1>1. PICK d, ref : d = job[p] /\ ref = d.ref
    OBVIOUS
  <1>2. d.at = "change" /\ config' = config
    BY <1>1 DEF Change
  <1>3. PICK i \in NewIds, stale \in BOOLEAN :
          /\ Write(p, ref, i, d.kind, d.data)
          /\ stale = (d.seen # Len(chain[ref])) /\ notice' = NewNotice(i, stale)
          /\ job' = [job EXCEPT ![p] = Announce(p, ref, i, Newcomers(d),
                                               Given(d.data, "twice", {}))]
    BY <1>1 DEF Change
  <1>4. JobOk(d, Me(p), DOMAIN notice) /\ Looked(d)
    BY <1>1, <1>2 DEF Typed, JobsTyped, Informs, JobInforms
  <1>5. \/ ref = "task" /\ d.kind = "task.reassign"
        \/ ref = "issue" /\ d.kind = "issue.assign"
    BY <1>1, <1>2, <1>4 DEF JobOk
  <1>6. /\ ref \in {"task", "issue"} /\ d.kind \in WriteKinds /\ d.kind \in WritesOf(ref)
    BY <1>5 DEF WriteKinds, WritesOf
  <1>7. PICK c, W : c = Commit(p, i, d.kind, d.data) /\ W = {RegistryOf(chain["registry"])}
    OBVIOUS
  <1>8. c.kind = d.kind /\ c.data = d.data
    BY <1>7 DEF Commit
  <1>9. d.kind = "task.reassign" => "owner" \in DOMAIN d.data
    BY <1>4 DEF Looked
  <1>10. d.new = Named(c)
    BY <1>4, <1>8 DEF Looked, Named
  <1>11. d.new = IF ref = "task" THEN {c.data.owner} ELSE c.data.add
    <2>1. ref = "issue" => "add" \in DOMAIN c.data
      BY <1>4, <1>5, <1>8 DEF Looked
    <2>2. QED
      BY <1>5, <1>8, <1>10, <2>1 DEF Named, Given
  <1>12. ~stale => d.before = InCharge(ref, chain[ref])
    <2>1. IsList(chain[ref])
      BY <1>6 DEF Typed, ChainsTyped, IsChain, Ref
    <2>2. PICK s, l : s = chain[ref] /\ l = Len(s)
      OBVIOUS
    <2>3. l \in Nat
      BY <2>1, <2>2, ListParts
    <2>4. l \in 0 .. Len(s)
      BY <2>2, <2>3
    <2>5. SubSeq(s, 1, l) = s
      BY <2>1, <2>2, <2>4, PrefixKept
    <2>6. QED
      BY <1>1, <1>3, <1>4, <2>2, <2>5 DEF Looked
  <1>13. Newcomers(d) = d.new \ d.before
    BY DEF Newcomers
  <1>14. Whom(c, chain[ref], chain'[ref], W) = d.new \ InCharge(ref, chain[ref])
    BY <1>5, <1>8, <1>11 DEF Whom
  <1>15. Newcomers(d) \subseteq Allowed(c, chain[ref], chain'[ref], stale, W)
    <2>1. CASE stale
      BY <1>5, <1>8, <1>11, <1>13, <2>1 DEF Allowed
    <2>2. CASE ~stale
      <3>1. Allowed(c, chain[ref], chain'[ref], stale, W) = Whom(c, chain[ref], chain'[ref], W)
        BY <1>5, <1>8, <2>2 DEF Allowed
      <3>2. QED
        BY <1>12, <1>13, <1>14, <2>2, <3>1
    <2>3. QED
      BY <2>1, <2>2
  <1>16. stale \/ Whom(c, chain[ref], chain'[ref], W) \ {Me(p)} \subseteq Newcomers(d)
    BY <1>12, <1>13, <1>14
  <1>17. "auto" \in menu.on =>
           \A x \in Named(c) : Knows(ref, x) \/ x \in Newcomers(d) \/ x = Me(p)
    <2>1. "auto" \in menu.on => \A x \in d.before : Knows(ref, x)
      BY <1>1, <1>4 DEF Looked
    <2>2. QED
      BY <1>10, <1>13, <2>1
  <1>18. job[p].at \notin {"tell", "names", "group"}
    BY <1>1, <1>2
  <1>19. PICK kind, data, people, again :
           /\ kind = d.kind /\ data = d.data /\ people = Newcomers(d)
           /\ again = Given(d.data, "twice", {})
    OBVIOUS
  <1>20. kind \in WriteKinds /\ kind \in WritesOf(ref) /\ ref \in {"task", "issue"}
    BY <1>6, <1>19
  <1>21. Write(p, ref, i, kind, data) /\ notice' = NewNotice(i, stale)
    BY <1>3, <1>19
  <1>22. job' = [job EXCEPT ![p] = Announce(p, ref, i, people, again)]
    BY <1>3, <1>19
  <1>23. kind = "task.reassign" => "owner" \in DOMAIN data
    BY <1>9, <1>19
  <1>24. c = Commit(p, i, kind, data) /\ W = {RegistryOf(chain["registry"])}
    BY <1>7, <1>19
  <1>25. people \subseteq Allowed(c, chain[ref], chain'[ref], stale, W)
    BY <1>15, <1>19
  <1>26. stale \/ Whom(c, chain[ref], chain'[ref], W) \ {Me(p)} \subseteq people
    BY <1>16, <1>19
  <1>27. "auto" \in menu.on =>
           \A x \in Named(c) : Knows(ref, x) \/ x \in people \/ x = Me(p)
    BY <1>17, <1>19
  <1>28. config' = config
    BY <1>2
  <1>29. Write(p, ref, i, kind, data)
    BY <1>21
  <1>30. notice' = NewNotice(i, stale)
    BY <1>21
  <1>31. c = Commit(p, i, kind, data)
    BY <1>24
  <1>32. W = {RegistryOf(chain["registry"])}
    BY <1>24
  <1>33. QED
    BY <1>18, <1>20, <1>22, <1>23, <1>25, <1>26, <1>27, <1>28, <1>29, <1>30, <1>31, <1>32,
       AnnounceStep, ZenonT(90)

\* task status.
LEMMA TaskStatusInforms ==
    ASSUME Typed, Typed', Informs, Longer, NEW p \in Proc, TaskStatus(p)
    PROVE  Informs'
  <1>1. PICK to, i : /\ i \in NewIds
                     /\ Write(p, "task", i, "task.status", [to |-> to, note |-> FALSE])
                     /\ notice' = NewNotice(i, FALSE)
                     /\ job' = [job EXCEPT ![p] =
                                  Announce(p, "task", i, DoneFor(chain'["task"], to), {})]
    BY DEF TaskStatus
  <1>2. PICK d, people : /\ d = [to |-> to, note |-> FALSE]
                         /\ people = DoneFor(chain'["task"], to)
    OBVIOUS
  <1>3. PICK c, W : c = Commit(p, i, "task.status", d) /\ W = {RegistryOf(chain["registry"])}
    OBVIOUS
  <1>4. c.kind = "task.status" /\ c.data = d /\ d.to = to
    BY <1>2, <1>3 DEF Commit
  <1>5. PICK before, after : before = chain["task"] /\ after = chain'["task"]
    OBVIOUS
  <1>6. people = IF c.data.to = "done" /\ TaskOf(after).meta.status = "done"
                 THEN {TaskOf(after).meta.created_by} ELSE {}
    BY <1>2, <1>4, <1>5 DEF DoneFor
  <1>7. people = Allowed(c, before, after, FALSE, W)
    BY <1>4, <1>6 DEF Allowed
  <1>8. Whom(c, before, after, W) \subseteq people
    BY <1>4, <1>6 DEF Whom
  <1>9. Named(c) = {}
    BY <1>4 DEF Named
  <1>10. config' = config /\ job[p].at \notin {"tell", "names", "group"}
    BY DEF TaskStatus, Idle
  <1>11. "task.status" \in WriteKinds /\ "task.status" \in WritesOf("task")
    BY DEF WriteKinds, WritesOf
  <1>12. /\ people \subseteq Allowed(c, chain["task"], chain'["task"], FALSE, W)
         /\ Whom(c, chain["task"], chain'["task"], W) \ {Me(p)} \subseteq people
    BY <1>5, <1>7, <1>8
  <1>13. Write(p, "task", i, "task.status", d)
    BY <1>1, <1>2
  <1>14. job' = [job EXCEPT ![p] = Announce(p, "task", i, people, {})]
    BY <1>1, <1>2
  <1>15. QED
    BY <1>1, <1>3, <1>9, <1>10, <1>11, <1>12, <1>13, <1>14, AnnounceStep

\* issue comment, a reply.
LEMMA IssueCommentInforms ==
    ASSUME Typed, Typed', Informs, Longer, NEW p \in Proc, IssueComment(p)
    PROVE  Informs'
  <1>1. PICK comments : comments = Given(IssueOf(chain["issue"]).coll, "comments", <<>>)
    OBVIOUS
  <1>2. PICK prior, i : /\ prior \in DOMAIN comments /\ i \in NewIds
                        /\ Write(p, "issue", i, "issue.comment", [reply_to |-> prior])
                        /\ notice' = NewNotice(i, FALSE)
                        /\ job' = [job EXCEPT ![p] =
                                     Announce(p, "issue", i, {comments[prior].author}, {})]
    BY <1>1 DEF IssueComment
  <1>3. PICK d, people : d = [reply_to |-> prior] /\ people = {comments[prior].author}
    OBVIOUS
  <1>4. PICK c, W : c = Commit(p, i, "issue.comment", d) /\ W = {RegistryOf(chain["registry"])}
    OBVIOUS
  <1>5. c.kind = "issue.comment" /\ c.data = d /\ d.reply_to = prior
    BY <1>3, <1>4 DEF Commit
  <1>6. PICK before, after : before = chain["issue"] /\ after = chain'["issue"]
    OBVIOUS
  <1>7. comments = IssueOf(before).coll.comments
    BY <1>1, <1>2, <1>6 DEF Given
  <1>8. Whom(c, before, after, W) = people
    BY <1>3, <1>5, <1>7 DEF Whom
  <1>9. Allowed(c, before, after, FALSE, W) = people
    BY <1>5, <1>8 DEF Allowed
  <1>10. Named(c) = {}
    BY <1>5 DEF Named
  <1>11. config' = config /\ job[p].at \notin {"tell", "names", "group"}
    BY DEF IssueComment, Idle
  <1>12. "issue.comment" \in WriteKinds /\ "issue.comment" \in WritesOf("issue")
    BY DEF WriteKinds, WritesOf
  <1>13. /\ people \subseteq Allowed(c, chain["issue"], chain'["issue"], FALSE, W)
         /\ Whom(c, chain["issue"], chain'["issue"], W) \ {Me(p)} \subseteq people
    BY <1>6, <1>8, <1>9
  <1>14. Write(p, "issue", i, "issue.comment", d)
    BY <1>2, <1>3
  <1>15. job' = [job EXCEPT ![p] = Announce(p, "issue", i, people, {})]
    BY <1>2, <1>3
  <1>16. QED
    BY <1>2, <1>4, <1>10, <1>11, <1>12, <1>13, <1>14, <1>15, AnnounceStep

\* chat post.
LEMMA ChatPostInforms ==
    ASSUME Typed, Typed', Informs, Longer, NEW p \in Proc, ChatPost(p)
    PROVE  Informs'
  <1>1. PICK names, i :
          /\ names \in menu.mentions /\ i \in NewIds
          /\ Write(p, "chat", i, "chat.post", [names |-> names])
          /\ notice' = NewNotice(i, FALSE)
          /\ job' = [job EXCEPT ![p] =
                     IF "mentions" \in menu.on
                     THEN [at |-> "names", cause |-> i, names |-> names,
                           members |-> <<>>, found |-> {}]
                     ELSE Idle]
    BY DEF ChatPost
  <1>2. PICK d : d = [names |-> names]
    OBVIOUS
  <1>3. PICK j : j = IF "mentions" \in menu.on
                     THEN [at |-> "names", cause |-> i, names |-> names,
                           members |-> <<>>, found |-> {}]
                     ELSE Idle
    OBVIOUS
  <1>4. JobSet(p, j)
    BY <1>1, <1>3 DEF JobSet
  <1>5. /\ j.at = IF "mentions" \in menu.on THEN "names" ELSE "idle"
        /\ "mentions" \in menu.on =>
             /\ j.cause = i /\ j.names = names /\ j.members = <<>> /\ j.found = {}
    BY <1>3 DEF Idle
  <1>6. PICK c, W : c = Commit(p, i, "chat.post", d) /\ W = {RegistryOf(chain["registry"])}
    OBVIOUS
  <1>7. c.kind = "chat.post" /\ c.data = d /\ d.names = names /\ c.id = i /\ c.actor = Me(p)
    BY <1>2, <1>6 DEF Commit
  <1>8. /\ \A k : Owed(j, k) = {}
        /\ \A k : k # i => ~Seeking(j, k)
        /\ "mentions" \in menu.on => Seeking(j, i)
    BY <1>5 DEF Owed, Seeking
  <1>9. "mentions" \in menu.on => Resolving(i)'
    BY <1>4, <1>8, ResolvingIs
  <1>10. Setting("chat") = "mentions"
    BY DEF Setting
  <1>11. Right("chat", c, chain["chat"], chain'["chat"], FALSE, W, Owed(j, i))
    BY <1>7, <1>8, <1>9, <1>10 DEF Right
  <1>12. config' = config /\ job[p].at \notin {"tell", "names", "group"} /\ menu' = menu
    BY DEF ChatPost, Idle
  <1>13. Write(p, "chat", i, "chat.post", d)
    BY <1>1, <1>2
  <1>14. "chat.post" \in WriteKinds
    BY DEF WriteKinds
  <1>15. JobInforms(p)'
    <2>1. job'[p] = j
      BY <1>4, JobSetIs
    <2>2. chain' = [chain EXCEPT !["chat"] = Append(@, c)]
      BY <1>6, <1>13 DEF Write
    <2>3. DOMAIN chain = Ref /\ IsList(chain["chat"])
      BY DEF Typed, ChainsTyped, Ref, IsChain
    <2>4. c \in Range(chain'["chat"])
      BY <2>2, <2>3, Appended DEF Ref
    <2>5. PICK V : V = Window(i)'
      OBVIOUS
    <2>6. Finding(j, c, V) \/ "mentions" \notin menu.on
      <3>1. Range(j.members) = {} \/ "mentions" \notin menu.on
        BY <1>5, EmptyList
      <3>2. QED
        BY <1>5, <1>7, <3>1 DEF Finding
    <2>7. Me(p)' = Me(p)
      BY <1>12 DEF Me
    <2>8. "mentions" \in menu.on => \E e \in Range(chain'["chat"]) :
                  /\ e.id = j.cause /\ e.kind = "chat.post" /\ e.actor = Me(p)'
                  /\ "mentions" \in menu'.on /\ Finding(j, e, Window(j.cause)')
      BY <1>5, <1>7, <1>12, <2>4, <2>5, <2>6, <2>7
    <2>9. QED
      BY <1>5, <2>1, <2>8 DEF JobInforms, Finding
  <1>16. QED
    BY <1>1, <1>4, <1>6, <1>8, <1>11, <1>12, <1>13, <1>14, <1>15, WriteStep

-----------------------------------------------------------------------------
(* All states.                                                             *)

\* The chains that a menu starts with have no notices.
LEMMA InitInforms ==
    ASSUME Init
    PROVE  Informs
  <1>1. /\ chain = [r \in Ref |-> Given(menu.start, r, <<>>)]
        /\ job = [p \in Proc |-> Idle] /\ notice = <<>>
    BY DEF Init
  <1>2. DOMAIN notice = {}
    BY <1>1
  <1>3. NoticesOk /\ AllFit
    BY <1>2 DEF NoticesOk, OneRef, AllFit
  <1>4. \A r \in {"task", "issue"} : chain[r] = Start(r) /\ NewWrites(r) = {}
    <2>1. \A r \in {"task", "issue"} : chain[r] = Start(r)
      BY <1>1 DEF Ref, Start
    <2>2. QED
      BY <2>1 DEF NewWrites
  <1>5. Since /\ NewAreKnown
    BY <1>4 DEF Since, NewAreKnown
  <1>6. ASSUME NEW p \in Proc
        PROVE  JobInforms(p)
    <2>1. job[p].at = "idle"
      BY <1>1 DEF Idle
    <2>2. QED
      BY <2>1 DEF JobInforms
  <1>7. QED
    BY <1>3, <1>5, <1>6 DEF Informs

\* A call of a list tool, and no step at all.
LEMMA NoStepInforms ==
    ASSUME Informs, UNCHANGED vars
    PROVE  Informs'
  <1>1. menu' = menu /\ chain' = chain /\ config' = config /\ job' = job /\ notice' = notice
    BY DEF vars
  <1>2. \A i : /\ Pending(i)' = Pending(i) /\ Window(i)' = Window(i)
               /\ Resolving(i)' <=> Resolving(i)
    BY <1>1 DEF Pending, Window, Resolving
  <1>3. NoticesOk'
    BY <1>1 DEF Informs, NoticesOk, OneRef, HasId
  <1>4. \A r : Start(r)' = Start(r) /\ NewWrites(r)' = NewWrites(r)
    BY <1>1 DEF NewWrites, Start
  <1>5. Since'
    BY <1>1, <1>4 DEF Informs, Since, WritesOf
  <1>6. \A r, x : Knows(r, x) => Knows(r, x)'
    BY <1>1, <1>2 DEF Knows, InCharge, Posted, Noticed, HasId, OwnDoing
  <1>7. NewAreKnown'
    BY <1>1, <1>4, <1>6 DEF Informs, NewAreKnown, Named
  <1>8. ASSUME NEW r \in {"task", "issue", "chat"}, NEW n \in DOMAIN chain[r],
               chain[r][n].id \in DOMAIN notice
        PROVE  Fits(r, n)'
    <2>1. Fits(r, n)
      BY <1>8 DEF Informs, AllFit
    <2>2. \A i : Sent(i)' = Sent(i) /\ Reached(i)' = Reached(i)
      BY <1>1, <1>2 DEF Sent, Reached
    <2>3. QED
      BY <1>1, <1>2, <2>1, <2>2 DEF Fits, Setting
  <1>9. AllFit'
    BY <1>1, <1>8 DEF AllFit
  <1>10. ASSUME NEW p \in Proc
         PROVE  JobInforms(p)'
    <2>1. JobInforms(p)
      BY DEF Informs
    <2>2. Looked(job[p]) => Looked(job[p])'
      BY <1>1, <1>6 DEF Looked, InCharge
    <2>3. QED
      BY <1>1, <1>2, <2>1, <2>2 DEF JobInforms, HasId, Me, Finding
  <1>11. QED
    BY <1>3, <1>5, <1>7, <1>9, <1>10 DEF Informs

\* Each kind of step, by its lemma.
LEMMA StepInforms ==
    ASSUME Typed, Informs, [ServerNext]_serverVars
    PROVE  Informs'
  <1>1. Typed' /\ Longer
    BY StepTyped DEF Longer
  <1>2. ASSUME NEW p \in Proc, Passing(p) /\ NewIsFine("task") /\ NewIsFine("issue")
        PROVE  Informs'
    BY <1>1, <1>2, PassingStep
  <1>3. CASE UNCHANGED serverVars
    BY <1>3, NoStepInforms DEF serverVars
  <1>4. CASE \E p \in Proc : \E list \in menu.lists, limit \in menu.limits : Page(p, list, limit)
    BY <1>4, NoStepInforms DEF Page
  <1>5. CASE \E p \in Proc : NotifyPost(p) \/ NotifyAck(p) \/ AckNext(p)
    BY <1>2, <1>5, NotifyPostPasses, NotifyAckPasses, AckNextPasses
  <1>6. CASE Next
    <2>1. PICK p \in Proc :
            \/ TaskShow(p) \/ IssueShow(p) \/ Change(p)
            \/ TaskStatus(p) \/ IssueComment(p)
            \/ ChatPost(p) \/ ResolveName(p) \/ ResolveGroup(p)
            \/ ResolveMember(p) \/ SendMentions(p)
            \/ Tell(p) \/ TellFails(p) \/ Stop(p)
            \/ Manage(p) \/ AgentKeygen(p) \/ AgentUser(p) \/ AgentKey(p)
            \/ Configure(p) \/ TaskNote(p)
      BY <1>6 DEF Next
    <2>2. CASE TaskShow(p) \/ IssueShow(p) \/ Change(p) \/ TaskStatus(p) \/ IssueComment(p)
      BY <1>1, <2>2, TaskShowInforms, IssueShowInforms, ChangeInforms, TaskStatusInforms,
         IssueCommentInforms
    <2>3. CASE ChatPost(p) \/ ResolveName(p) \/ ResolveGroup(p) \/ ResolveMember(p)
               \/ SendMentions(p)
      BY <1>1, <2>3, ChatPostInforms, ResolveNameInforms, ResolveGroupInforms,
         ResolveMemberInforms, SendMentionsInforms
    <2>4. CASE Tell(p) \/ TellFails(p) \/ Stop(p)
      BY <1>1, <2>4, TellInforms, TellFailsInforms, StopInforms
    <2>5. CASE Manage(p) \/ AgentKeygen(p) \/ AgentUser(p) \/ AgentKey(p)
      BY <1>2, <2>5, ManagePasses, AgentKeygenPasses, AgentUserPasses, AgentKeyPasses
    <2>6. CASE Configure(p) \/ TaskNote(p)
      BY <1>2, <2>6, ConfigurePasses, TaskNotePasses
    <2>7. QED
      BY <2>1, <2>2, <2>3, <2>4, <2>5, <2>6
  <1>7. QED
    BY <1>3, <1>4, <1>5, <1>6 DEF ServerNext

\* Informs in all states.
LEMMA InformsHolds == ServerSpec => []Informs
  <1>1. ServerInit => Informs
    BY InitInforms DEF ServerInit
  <1>2. Typed /\ Informs /\ [ServerNext]_serverVars => Informs'
    BY StepInforms
  <1>3. QED
    BY <1>1, <1>2, TypedHolds, PTL DEF ServerSpec

\* Whoever knows of a task or an issue is one of those HoldersKnow has.
LEMMA WhoKnows ==
    ASSUME NEW r, NEW x, Knows(r, x)
    PROVE  x \in InCharge(r, menu.start[r]) \cup Informed(r) \cup OwnDoing(r)
  <1>1. CASE Posted(r, x)
    <2>1. PICK c \in Range(chain["stream"]) :
            /\ c.kind = "notify.post" /\ c.data.source = r
            /\ \E t \in c.data.targets : t[2] = x
      BY <1>1 DEF Posted
    <2>2. PICK t \in c.data.targets : t[2] = x
      BY <2>1
    <2>3. t \in UNION {d.data.targets :
                  d \in {d \in Range(chain["stream"]) :
                           d.kind = "notify.post" /\ d.data.source = r}}
      BY <2>1, <2>2
    <2>4. x \in Informed(r)
      BY <2>2, <2>3 DEF Informed
    <2>5. QED
      BY <2>4
  <1>2. CASE Noticed(r, x)
    <2>1. PICK i \in DOMAIN notice : HasId(r, i) /\ x \in Pending(i) \cup notice[i].lost
      BY <1>2 DEF Noticed
    <2>2. i \in {c.id : c \in Range(chain[r])} \cap DOMAIN notice
      BY <2>1 DEF HasId
    <2>3. x \in Informed(r)
      BY <2>1, <2>2 DEF Informed
    <2>4. QED
      BY <2>3
  <1>3. QED
    BY <1>1, <1>2 DEF Knows

(***************************************************************************)
(* However commands that read before they write overlap, whoever has a     *)
(* task or an issue had it from the start, took it, or was told; and a     *)
(* notification goes to those whom its write concerns, as the registry had *)
(* them while it was read, never to its author, and misses nobody but for  *)
(* a failure.                                                              *)
(***************************************************************************)
THEOREM TheRightPeopleAreToldHolds == ServerSpec => []TheRightPeopleAreTold
  <1>1. Typed /\ Informs => TheRightPeopleAreTold
    <2>1. SUFFICES ASSUME Typed, Informs
                   PROVE  TheRightPeopleAreTold
      OBVIOUS
    <2>2. HoldersKnow
      <3>1. ASSUME NEW r \in {"task", "issue"}, "auto" \in menu.on, chain[r] # <<>>,
                   NEW x \in InCharge(r, chain[r])
            PROVE  x \in InCharge(r, menu.start[r]) \cup Informed(r) \cup OwnDoing(r)
        <4>1. Knows(r, x)
          BY <2>1, <3>1, InChargeKnows
        <4>2. QED
          BY <4>1, WhoKnows
      <3>2. QED
        BY <3>1 DEF HoldersKnow
    <2>3. \A r \in {"task", "issue", "chat"} : \A n \in DOMAIN chain[r] :
            chain[r][n].id \in DOMAIN notice => NoticeFits(r, n)
      <3>1. ASSUME NEW r \in {"task", "issue", "chat"}, NEW n \in DOMAIN chain[r],
                   chain[r][n].id \in DOMAIN notice
            PROVE  NoticeFits(r, n)
        <4>1. Fits(r, n)
          BY <2>1, <3>1 DEF Informs, AllFit
        <4>2. QED
          BY <4>1, FitsIs
      <3>2. QED
        BY <3>1
    <2>4. QED
      BY <2>2, <2>3 DEF TheRightPeopleAreTold
  <1>2. QED
    BY <1>1, TypedHolds, InformsHolds, PTL

=============================================================================
