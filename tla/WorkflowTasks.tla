--------------------------- MODULE WorkflowTasks ---------------------------
(***************************************************************************)
(* The local human-task service over the in-memory repository, for one     *)
(* case: findings of a stored review become purpose-specific tasks; an     *)
(* accepted answer confirms, corrects, approves or authorizes, makes a new *)
(* revision and a new run, and the run re-enters with a full review.       *)
(* People act on copies of tasks they read earlier, and repeat commands    *)
(* whose answers were lost, while others answer.  The repository does      *)
(* every operation under one lock.  The durable store with its jobs and    *)
(* receipts is the subject of HumanTasks, the reviewer of CaseReview.      *)
(***************************************************************************)
EXTENDS Naturals, Sequences, FiniteSets, SequencesExt

CONSTANTS
  People,     \* principals: name, kind, permissions
  Subjects,   \* configured material subjects: context, factor, side
  Materials,  \* the materials the case may be registered with
  Plans,      \* side tasks the application may choose: sets of <<kind, subject>>
  Proposals,  \* values people may propose in a correction
  MaxActiveRuns, MaxTasks  \* bounds

Ids == {s.id : s \in Subjects}
Contexts == {s.context : s \in Subjects}
SideKinds == {"fact", "correction", "evidence"}
Names == {"nobody"} \cup {u.name : u \in People} \cup {m.sides[id].by : m \in Materials, id \in Ids}
SideRows == [value : Nat, evidence : BOOLEAN, clear : BOOLEAN, method : {"native", "proposed", "confirmed"}, by : Names]
MaterialRows == [rules : SUBSET {"candidate", "approved", "rejected"}, sides : [Ids -> SideRows], wrong : SUBSET Contexts]

ASSUME TaskAssumption ==
  /\ {MaxActiveRuns, MaxTasks} \subseteq Nat \ {0}
  /\ People \subseteq [name : STRING, kind : {"human", "system"}, permissions : SUBSET STRING]
  /\ Subjects \subseteq [id : STRING, context : STRING, factor : STRING, side : {"target", "comparable"}]
  /\ Materials \subseteq MaterialRows
  /\ \A plan \in Plans : IsFiniteSet(plan) /\ plan \subseteq SideKinds \X Ids
  /\ Proposals # {} /\ Proposals \subseteq [value : Nat, unit : BOOLEAN, measured : BOOLEAN, text : BOOLEAN, source : STRING, anchors : BOOLEAN]

VARIABLES
  material,   \* the current material: statuses of its rule sets, factor sides, contexts computed wrong
  rev,        \* its revision
  run,        \* the active run
  review,     \* the stored review of the active run
  pending,    \* the active run waits for its own review
  tasks,      \* every task ever created
  confirmed,  \* _confirmations: who confirmed which side input
  paused,     \* the tasks of the checkpoint of the active run, {} without one
  signed,     \* the approval store holds a signed receipt for the current material
  handoff,    \* the last handoff derived
  batch,      \* the tasks last created from a handoff
  held,       \* held[u]: the command u formed on a task read earlier
  reply,      \* reply[u]: how u's command was last answered
  answered,   \* answered[u]: of _responses, the accepted command u may still repeat
  heard,      \* history: confirmations accepted since the last other change
  authorized  \* the publication tasks whose authorization was recorded

store == <<material, rev, run, review, pending, confirmed, paused>>
localVars == <<store, tasks, signed, handoff, batch, held, reply, answered, heard, authorized>>

NoSide == [subject |-> "none", value |-> 0, evidence |-> FALSE]
NoReview == [rev |-> 0, bad |-> {}]
NoAnswer == [task |-> 0, version |-> 0, rev |-> 0, side |-> NoSide, result |-> NoReview, action |-> "none",
              proposal |-> CHOOSE p \in Proposals : TRUE]
NoHandoff == [rev |-> 0, run |-> 0, blockers |-> {}]

-----------------------------------------------------------------------------
(* Material and its revisions. *)

SubjectOf(id) == CHOOSE s \in Subjects : s.id = id
SideReference(m, id) == [subject |-> id, value |-> m.sides[id].value, evidence |-> m.sides[id].evidence]

\* revise: only a native side that is unchanged keeps its method
Revise(old, m) ==
  [m EXCEPT !.sides = [id \in Ids |->
     [m.sides[id] EXCEPT !.by = "nobody",
        !.method = IF @ = "native" /\ SideReference(old, id) = SideReference(m, id) THEN "native" ELSE "proposed"]]]

Confirmable(side) == side.value > 0 /\ side.evidence /\ side.clear
ConfirmSide(m, id, u) == [m EXCEPT !.sides[id].method = "confirmed", !.sides[id].by = u]

\* confirm: an earlier confirmation survives only when the same person gave it here and its input is unchanged
KeepAll(m, id, u, retained) == {o \in Ids \ {id} : m.sides[o].method = "confirmed"}
Retained(m, id, u, retained) ==
  {o \in Ids \ {id} : /\ m.sides[o].method = "confirmed" /\ m.sides[o].by = u
                      /\ SideReference(m, o) \in retained /\ Confirmable(m.sides[o])}
Confirm(m, id, u, retained) ==
  LET base == ConfirmSide(Revise(m, m), id, u)
      keep == Retained(m, id, u, retained)
  IN [base EXCEPT !.sides = [o \in Ids |->
        IF o \in keep THEN [@[o] EXCEPT !.method = "confirmed", !.by = m.sides[o].by] ELSE @[o]]]

Supported(p) == p.text /\ p.source = "forms"
Correctable(side, p, supply) ==
  /\ p.unit /\ p.measured                     \* type, unit and measured confidence stay
  /\ supply \/ (side.value > 0 /\ side.evidence)
  /\ Supported(p)
  /\ side.evidence => p.anchors               \* source anchors stay
Correct(m, id, p) == Revise(m, [m EXCEPT !.sides[id].value = p.value, !.sides[id].evidence = TRUE])

ApproveRules(m) == [Revise(m, m) EXCEPT !.rules = {"approved"}]
Permits == signed   \* the receipt names the revision with the material

-----------------------------------------------------------------------------
(* The deterministic review, as far as tasks depend on it. *)

Finding(kind, c, f) == [kind |-> kind, context |-> c, factor |-> f]
FactorOf(id) == Finding("factor", SubjectOf(id).context, SubjectOf(id).factor)
GovernanceKinds == {"approval", "rule"}
AllFindings == {FactorOf(id) : id \in Ids} \cup {Finding("calculation", s.context, "all") : s \in Subjects} \cup
               {Finding(k, "none", "none") : k \in GovernanceKinds}

Reliable(side) == side.value > 0 /\ side.evidence /\ side.method \in {"native", "confirmed"}
Unverified(m, permits) ==
  LET factors == {FactorOf(id) : id \in {i \in Ids : ~Reliable(m.sides[i])}} IN
  factors \cup {Finding("calculation", c, "all") : c \in m.wrong \cup {f.context : f \in factors}} \cup
  (IF m.rules = {"approved"} THEN {} ELSE {Finding("rule", "none", "none")}) \cup
  (IF permits THEN {} ELSE {Finding("approval", "none", "none")})

TasksInit ==
  /\ material \in Materials /\ rev = 1 /\ run = 1
  /\ signed \in BOOLEAN
  /\ review = [rev |-> 1, bad |-> Unverified(material, Permits)]
  /\ pending = FALSE /\ tasks = <<>> /\ confirmed = {} /\ paused = {}
  /\ handoff = NoHandoff /\ batch = {}
  /\ held = [u \in People |-> NoAnswer] /\ reply = [u \in People |-> "none"] /\ answered = [u \in People |-> {}]
  /\ heard = {} /\ authorized = {}

-----------------------------------------------------------------------------
(* Building tasks from stored findings. *)

Permission(kind) == CASE kind = "fact" -> "confirm" [] kind \in {"correction", "evidence"} -> "correct"
                      [] kind = "rules" -> "approve_rules" [] kind = "material" -> "approve_material"
                      [] kind = "publication" -> "publish"
Positive(kind) == CASE kind = "fact" -> "confirm" [] kind = "correction" -> "correct" [] kind = "evidence" -> "supply"
                    [] kind \in {"rules", "material"} -> "approve" [] kind = "publication" -> "authorize"

Governing == {f \in review.bad : f.kind \in GovernanceKinds}
Binding(kind, id, findings) == [kind |-> kind, subject |-> id, findings |-> findings]

(* HumanTaskBinding: the application's choice of purposes for a plan. *)
Bindings(plan) ==
  {Binding(b[1], b[2], {FactorOf(b[2])}) : b \in {x \in plan : FactorOf(x[2]) \in review.bad}} \cup
  (IF Governing = {} THEN {} ELSE {Binding(IF "candidate" \in material.rules THEN "rules" ELSE "material", "none", Governing)})

SideTask(b) ==
  /\ b.subject \in Ids
  /\ \A f \in b.findings : f.context = SubjectOf(b.subject).context /\ f.factor = SubjectOf(b.subject).factor
GovernanceTask(b) ==
  /\ b.subject = "none" /\ \A f \in b.findings : f.kind \in GovernanceKinds
  /\ b.kind = "rules" => "candidate" \in material.rules /\ b.findings = Governing
Buildable(b) ==
  /\ b.findings # {} /\ b.findings \subseteq AllFindings
  /\ IF b.kind = "publication" THEN review.bad = {} /\ Permits ELSE b.findings \subseteq review.bad
  /\ b.kind \in SideKinds => SideTask(b)
  /\ b.kind \in {"rules", "material"} => GovernanceTask(b)

BuildTask(b) ==
  [kind |-> b.kind, subject |-> b.subject, findings |-> b.findings, run |-> run, rev |-> rev, state |-> "open", version |-> 1,
   side |-> IF b.kind \in SideKinds THEN SideReference(material, b.subject) ELSE NoSide,
   result |-> IF b.kind = "publication" THEN review ELSE NoReview]

\* _context: the run must be the active one and hold its own review
MayRead(u) == "review" \in u.permissions
Context(u) == MayRead(u) /\ ~pending
Staffed == \E u \in People : u.kind \in {"system", "human"} /\ Context(u)

Open == {i \in DOMAIN tasks : tasks[i].state = "open"}
Same(t, x) == t.run = x.run /\ t.kind = x.kind /\ t.findings = x.findings /\ t.subject = x.subject

\* create_tasks: all or none; an equal open task is returned instead of a second one
Unasked(new) == {x \in new : ~\E i \in Open : Same(tasks[i], x)}
Create(new) ==
  /\ Len(tasks) + Cardinality(Unasked(new)) <= MaxTasks
  /\ tasks' = tasks \o SetToSeq(Unasked(new))

CreateTask(b) ==
  /\ Staffed /\ Buildable(b)
  /\ Create({BuildTask(b)})
  /\ UNCHANGED <<store, signed, handoff, batch, held, reply, answered, heard, authorized>>

Blocker(b) == [id |-> <<b.kind, b.subject>>, reason |-> {f.kind : f \in b.findings}, subject |-> b.subject]

\* A calculation is deferred to the next review when a cause in its own comparison is covered
CoveredContexts(covered) == {f.context : f \in {x \in review.bad : x \in covered}} \ {"none"}
Required(covered) == {f \in review.bad : ~(f.kind = "calculation" /\ f.context \in CoveredContexts(covered))}

HandoffForRun(plan) ==
  LET bs == Bindings(plan)
      covered == UNION {b.findings : b \in bs}
  IN /\ Staffed /\ handoff.run # run   \* bound: one handoff a run
     /\ Required(covered) # {} /\ Required(covered) = covered
     /\ \A b \in bs : Buildable(b)
     /\ handoff' = [rev |-> rev, run |-> run, blockers |-> {Blocker(b) : b \in bs}]
     /\ UNCHANGED <<store, tasks, signed, batch, held, reply, answered, heard, authorized>>

CreateFromHandoff(plan) ==
  LET bs == Bindings(plan)
      new == {BuildTask(b) : b \in bs}
  IN /\ Staffed
     /\ handoff.rev = rev /\ handoff.blockers # {}
     /\ {Blocker(b) : b \in bs} = handoff.blockers /\ \A b \in bs : Buildable(b)
     /\ Create(new)
     /\ batch' = {i \in DOMAIN tasks' : tasks'[i].state = "open" /\ \E x \in new : Same(tasks'[i], x)}
     /\ UNCHANGED <<store, signed, handoff, held, reply, answered, heard, authorized>>

\* pause: the workflow's human action created exactly the tasks that are open
Pause ==
  /\ Staffed
  /\ paused = {} /\ batch # {} /\ {i \in Open : tasks[i].run = run} = batch
  /\ paused' = batch
  /\ UNCHANGED <<material, rev, run, review, pending, confirmed, tasks, signed, handoff, batch, held, reply, answered, heard, authorized>>

-----------------------------------------------------------------------------
(* Answers. *)

Form(u) == \E i \in DOMAIN tasks, reject \in BOOLEAN, p \in Proposals :
  LET t == tasks[i] IN
  /\ MayRead(u) /\ u.kind = "human" /\ t.state = "open"
  /\ Permission(t.kind) \in u.permissions   \* anybody else is refused whatever the answer
  /\ held[u].task = 0 \/ reply[u] = "accepted"   \* one command at a time
  /\ held' = [held EXCEPT ![u] =
       [task |-> i, version |-> t.version, rev |-> t.rev, side |-> t.side, result |-> t.result,
        action |-> IF reject THEN "reject" ELSE Positive(t.kind),
        proposal |-> IF ~reject /\ t.kind \in {"correction", "evidence"} THEN p ELSE NoAnswer.proposal]]
  /\ reply' = [reply EXCEPT ![u] = "none"] /\ answered' = [answered EXCEPT ![u] = {}]
  /\ UNCHANGED <<store, tasks, signed, handoff, batch, heard, authorized>>

\* admit_response
Admitted(t, command) ==
  /\ t.state = "open" /\ command.version = t.version
  /\ command.rev = rev /\ t.rev = rev
  /\ command.result = t.result /\ command.side = t.side
  /\ command.action \in {Positive(t.kind), "reject"}

\* transition: whether the answer may take effect on the current snapshot
SideUnchanged(t) == t.kind \in SideKinds => SideReference(material, t.subject) = t.side
Publishable(t) == t.kind = "publication" => t.result = review /\ review.bad = {} /\ Permits
Effective(t, command) ==
  \/ command.action = "reject"
  \/ CASE t.kind = "fact" -> Confirmable(material.sides[t.subject])
       [] t.kind \in {"correction", "evidence"} -> Correctable(material.sides[t.subject], command.proposal, t.kind = "evidence")
       [] t.kind = "rules" -> "rejected" \notin material.rules
       [] t.kind = "material" -> Permits /\ material.rules = {"approved"}
       [] t.kind = "publication" -> TRUE

Own(u) == {c[2] : c \in {x \in confirmed : x[1] = u.name}}
NextMaterial(t, command, u) ==
  IF command.action = "reject" THEN material
  ELSE CASE t.kind = "fact" -> Confirm(material, t.subject, u.name, Own(u))
         [] t.kind \in {"correction", "evidence"} -> Correct(material, t.subject, command.proposal)
         [] t.kind = "rules" -> ApproveRules(material)
         [] t.kind \in {"material", "publication"} -> material

Supersede(i, moved, changed) ==
  [j \in DOMAIN tasks |->
     IF j = i THEN [tasks[j] EXCEPT !.state = "answered", !.version = @ + 1]
     ELSE IF moved /\ tasks[j].rev = rev /\ tasks[j].state = "open"
     THEN [tasks[j] EXCEPT !.state = "superseded", !.version = @ + 1] ELSE tasks[j]]

Answerable(u, t, i, command) ==
  /\ Context(u) /\ t.run = run /\ Admitted(t, command)
  /\ SideUnchanged(t) /\ Publishable(t) /\ Effective(t, command)
  /\ (command.action # "reject" /\ t.kind # "publication" /\ paused # {}) => i \in paused

Accept(u, i, command) ==
  LET t == tasks[i]
      moved == command.action # "reject" /\ t.kind # "publication"
      changed == moved /\ t.kind # "material"
  IN /\ Answerable(u, t, i, command) /\ (moved => run < MaxActiveRuns)
     /\ tasks' = Supersede(i, moved, changed)
     /\ material' = NextMaterial(t, command, u)
     /\ rev' = IF changed THEN rev + 1 ELSE rev
     /\ confirmed' = IF ~changed THEN confirmed
                     ELSE IF t.kind = "fact" THEN {<<u.name, s>> : s \in Own(u) \cup {t.side}} ELSE {}
     /\ heard' = IF ~changed THEN heard ELSE IF t.kind = "fact" THEN heard \cup {<<u.name, t.side>>} ELSE {}
     /\ run' = IF moved THEN run + 1 ELSE run
     /\ pending' = moved   \* the previous findings stay as context until the re-entry
     /\ paused' = IF moved THEN {} ELSE paused
     /\ answered' = [answered EXCEPT ![u] = {command}]
     /\ authorized' = IF t.kind = "publication" /\ command.action # "reject" THEN authorized \cup {i} ELSE authorized
     /\ signed' = (signed /\ ~changed)
     /\ handoff' = IF changed THEN NoHandoff ELSE handoff   \* one of an earlier revision is refused for good
     /\ batch' = IF moved THEN {} ELSE batch
     /\ reply' = [reply EXCEPT ![u] = "accepted"]
     /\ UNCHANGED <<review, held>>

\* an exact repetition is recognised before the task's state is looked at
Recorded(u, command) == command \in answered[u]

Respond(u) ==
  LET command == held[u]
      t == tasks[command.task]
  IN /\ command.task # 0 /\ u.kind = "human" /\ Permission(t.kind) \in u.permissions
     /\ \/ /\ Recorded(u, command)
           /\ reply' = [reply EXCEPT ![u] = "accepted"]
           /\ UNCHANGED <<store, tasks, signed, handoff, batch, held, answered, heard, authorized>>
        \/ ~Recorded(u, command) /\ Accept(u, command.task, command)
        \/ /\ ~Recorded(u, command) /\ ~Answerable(u, t, command.task, command)
           /\ reply' = [reply EXCEPT ![u] = "refused"] /\ held' = [held EXCEPT ![u] = NoAnswer]
           /\ UNCHANGED <<store, tasks, signed, handoff, batch, answered, heard, authorized>>

\* reenter: the full review, under the repository's lock
Reenter ==
  /\ (\E u \in People : MayRead(u)) /\ pending /\ paused = {}
  /\ review' = [rev |-> rev, bad |-> Unverified(material, Permits)] /\ pending' = FALSE
  /\ UNCHANGED <<material, rev, run, confirmed, paused, tasks, signed, handoff, batch, held, reply, answered, heard, authorized>>

\* The operator signs the exact material with the approval store, or withdraws
Sign ==
  /\ signed' = ~signed
  /\ UNCHANGED <<store, tasks, handoff, batch, held, reply, answered, heard, authorized>>

Done == run = MaxActiveRuns /\ UNCHANGED localVars

Single == {Binding("publication", "none", {f}) : f \in {Finding("approval", "none", "none")}} \cup
          {Binding("material", "none", Governing)}

TasksNext ==
  \/ \E plan \in Plans : HandoffForRun(plan) \/ CreateFromHandoff(plan)
  \/ \E b \in Single : CreateTask(b)
  \/ Pause \/ Reenter \/ Sign
  \/ \E u \in People : Form(u) \/ Respond(u)
  \/ Done

TasksSpec == TasksInit /\ [][TasksNext]_localVars

-----------------------------------------------------------------------------
(* Properties. *)

Shown == [subject : Ids \cup {"none"}, value : Nat, evidence : BOOLEAN]
Reviews == [rev : Nat, bad : SUBSET AllFindings]
LocalTasks ==
  [kind : SideKinds \cup {"rules", "material", "publication"}, subject : Ids \cup {"none"}, findings : SUBSET AllFindings,
   run : Nat, rev : Nat, state : {"open", "answered", "superseded"}, version : 1 .. 2, side : Shown, result : Reviews]
Actions == {"none", "confirm", "correct", "supply", "approve", "authorize", "reject"}
Answers == [task : Nat, version : Nat, rev : Nat, side : Shown, result : Reviews, action : Actions, proposal : Proposals]

\* Types of the state; what is remembered of tasks is about tasks that exist.
LocalTypeOK ==
  /\ material \in MaterialRows /\ review \in Reviews /\ pending \in BOOLEAN /\ signed \in BOOLEAN
  /\ rev \in 1 .. MaxActiveRuns /\ run \in rev .. MaxActiveRuns
  /\ tasks \in Seq(LocalTasks) /\ UNION {paused, batch, authorized} \subseteq DOMAIN tasks
  /\ held \in [People -> Answers] /\ \A u \in People : held[u].task \in 0 .. Len(tasks)
  /\ reply \in [People -> {"none", "accepted", "refused"}] /\ answered \in [People -> SUBSET Answers]
  /\ confirmed \cup heard \subseteq Names \X Shown

\* An open task always asks about the active run, and a side it asks about
\* still needs an answer in the current material: whatever the answer that
\* made the next run changed, no question of an earlier run survives it.
OpenTasksAreCurrent ==
  \A i \in Open :
    /\ tasks[i].run = run /\ tasks[i].rev = rev
    /\ tasks[i].kind \in SideKinds => tasks[i].findings \subseteq Unverified(material, signed)

\* After the first answer, every side that counts as confirmed was confirmed
\* by an accepted fact answer about exactly its present value and evidence,
\* with no correction or rule approval since, and all of them by one person;
\* a confirmation that came with the registered material proves nothing.
ConfirmationsAreProven ==
  rev > 1 =>
    LET sides == {id \in Ids : material.sides[id].method = "confirmed"} IN
    /\ \A id \in sides : <<material.sides[id].by, SideReference(material, id)>> \in heard
    /\ Cardinality({material.sides[id].by : id \in sides}) <= 1

\* A publication is authorized only on the review its question showed, of
\* the current revision, when a full review of the material, with the
\* receipt as it is now, would find nothing wrong.
PublicationIsExact ==
  [][\A i \in authorized' \ authorized :
       /\ tasks[i].result = review /\ review.rev = rev /\ tasks[i].rev = rev
       /\ Unverified(material, signed) = {}]_localVars

\* A person who repeats a command that was accepted, because its answer was
\* lost, is never told that it was refused, however far the case has moved.
RepetitionIsRecognised ==
  [][\A u \in People : held[u] # NoAnswer /\ reply'[u] = "refused" /\ reply[u] # "refused" => held[u] \notin answered[u]]_localVars

\* A batch created from a handoff leaves no finding of the active run's
\* review without a task, except calculations of a comparison whose cause
\* has one.
NothingIsHidden ==
  (batch # {} /\ \A i \in batch : tasks[i].run = run) =>
    LET covered == UNION {tasks[i].findings : i \in batch} IN
    \A f \in review.bad : f \in covered \/ (f.kind = "calculation" /\ \E x \in covered : x.context = f.context)

\* Every open task asks what the case still needs and every confirmation in
\* the material was really given, about what the material now says.
TasksAreSound == LocalTypeOK /\ OpenTasksAreCurrent /\ ConfirmationsAreProven

\* The same, and a batch of tasks hides no finding.
LocalTasksAreSound == TasksAreSound /\ NothingIsHidden

\* No answer takes effect on anything but what its author saw, and none is
\* refused after it took effect.
LocalAnswersAreExact == PublicationIsExact /\ RepetitionIsRecognised
=============================================================================
