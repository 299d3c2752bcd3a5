------------------------ MODULE HumanTasks_proofs ------------------------
(***************************************************************************)
(* Theorems about the human tasks of a job, for every set of observations, *)
(* keys and concurrent calls, and for any number of runs: every question   *)
(* is settled once, receipts tell the truth, the current material holds    *)
(* every answer that was committed, and an exact retry is honoured.  The   *)
(* last part says of the local task service that its open tasks are        *)
(* current, its confirmations were given, and its batches hide nothing.    *)
(*                                                                         *)
(* A call decides on rows it has read steps earlier; all that the proofs   *)
(* keep of these reads is that an admitted call has seen its question      *)
(* open, because the commit compares the row it has seen with the stored.  *)
(***************************************************************************)
EXTENDS HumanTasks, WorkflowTasks, JobState_proofs, FiniteSetTheorems

JobRows == [status : Statuses, run : Runs, revision : Runs, attempt : Nat, claims : Nat,
            attempts : Nat, takeovers : Nat, cancel : BOOLEAN, open : SUBSET Sides]
CallRows == [pc : {"idle", "sent", "read", "admitted", "accepted", "refused"},
             key : Keys \cup {None}, command : Commands, seen : TaskRows,
             head : Runs \cup {None}]

\* Every revision starts the run that reviews it; the chain of a job that has not been
\* prepared is that of its first run.
RunsFollowRevisions ==
    /\ job.revision = job.run
    /\ head \in {None, job.run}
    /\ head = None => job.run = 1 /\ \A t \in TaskIds : task[t] = NoTask

\* A stored question was asked about the material of its own run; it is open only in the
\* current run of a live job, and a waiting job waits for exactly the open ones.
TasksAreOfTheirRun ==
    /\ \A t \in TaskIds :
          \/ task[t] = NoTask
          \/ /\ task[t].state # "none" /\ task[t].version >= 1
             /\ task[t].revision = t[1] /\ t[1] <= job.run
             /\ task[t].state = "open" => t[1] = job.run /\ job.status \notin Terminal
    /\ job.status = "waiting_for_human" =>
          job.open # {} /\ job.open = {s \in Sides : task[<<job.run, s>>].state = "open"}

\* The live attempt that has registered its questions has stored every one of its run.
BatchIsComplete ==
    job.status = "running" /\ asked =>
        \A s \in Sides : task[<<job.run, s>>] # NoTask => task[<<job.run, s>>].attempt = job.attempt

\* A call answers a stored question; one that was admitted has seen it open.
CallsAreAdmitted ==
    \A c \in Calls : call[c].pc # "idle" =>
        /\ call[c].key \in Keys /\ call[c].command.version >= 1
        /\ call[c].pc = "admitted" => call[c].seen.state = "open"

\* A receipt is of an answer to a stored question, and its revision is there already.
ReceiptsAreOfThePast ==
    \A k \in Keys :
        /\ Committed(k) => receipts[k].command.version >= 1
        /\ receipts[k].revision <= job.run

\* The corrections of one observation.
Corrections(s) == {k \in Keys : /\ Committed(k)
                                /\ receipts[k].command.action = "correct"
                                /\ receipts[k].command.task[2] = s}

\* The chain up to the current run is linear, and its last revision holds the answers.
ChainIsCurrent ==
    /\ \A n \in 2..job.run : chain[n].parent = n - 1
    /\ \A s \in Sides : /\ IsFiniteSet(Corrections(s))
                        /\ chain[job.run].value[s] = Cardinality(Corrections(s))
    /\ \A s \in chain[job.run].confirmed : \E k \in Keys :
          /\ receipts[k].command.action = "confirm"
          /\ receipts[k].command.task[2] = s
          /\ \A l \in Keys : receipts[l].command.action = "correct" =>
                receipts[l].revision < receipts[k].revision

Inv == /\ TypeOK /\ RunsFollowRevisions /\ TasksAreOfTheirRun /\ BatchIsComplete
       /\ CallsAreAdmitted /\ AnsweredOnce /\ ReceiptsTellTheTruth /\ ReceiptsAreOfThePast
       /\ ChainIsCurrent

(***************************************************************************)
(* Types, and what the transition table does to the job                    *)
(***************************************************************************)

LEMMA Constants ==
  /\ MaxRuns \in Nat /\ 1 \in Runs /\ Runs \subseteq Nat /\ None \notin Runs
  /\ NoCommand \in Commands /\ NoCommand.version = 0 /\ NoCommand.action = "reject"
  /\ NoTask \in TaskRows /\ NoTask.state = "none" /\ NoTask.version = 0
  /\ NoReceipt \in Receipts /\ NoReceipt.command = NoCommand /\ NoReceipt.revision = None
  /\ IdleCall \in CallRows /\ IdleCall.pc = "idle"
<1>1. /\ MaxRuns \in Nat /\ 1 \in Runs /\ Runs \subseteq Nat /\ None \notin Runs
  BY TasksAssumption DEF Runs, None
<1>2. PICK t \in TaskIds : t = <<1, CHOOSE s \in Sides : TRUE>>
  BY <1>1, TasksAssumption DEF TaskIds
<1>3. NoCommand \in Commands /\ NoCommand.version = 0 /\ NoCommand.action = "reject"
  BY <1>1, <1>2 DEF NoCommand, Commands
<1>4. NoTask \in TaskRows /\ NoTask.state = "none" /\ NoTask.version = 0
  BY DEF NoTask, TaskRows, None
<1>5. NoReceipt \in Receipts /\ NoReceipt.command = NoCommand /\ NoReceipt.revision = None
  BY <1>3 DEF NoReceipt, Receipts
<1>6. IdleCall \in CallRows /\ IdleCall.pc = "idle"
  BY <1>3, <1>4 DEF IdleCall, CallRows
<1> QED  BY <1>1, <1>3, <1>4, <1>5, <1>6

LEMMA Types ==
  ASSUME TypeOK
  PROVE  /\ job \in JobRows /\ asked \in BOOLEAN /\ chain \in [Runs -> Snapshots]
         /\ head \in Runs \cup {None} /\ task \in [TaskIds -> TaskRows]
         /\ receipts \in [Keys -> Receipts] /\ call \in [Calls -> CallRows]
  BY DEF TypeOK, JobRows, CallRows

LEMMA Typed ==
  ASSUME job \in JobRows, asked \in BOOLEAN, chain \in [Runs -> Snapshots],
         head \in Runs \cup {None}, task \in [TaskIds -> TaskRows],
         receipts \in [Keys -> Receipts], call \in [Calls -> CallRows]
  PROVE  TypeOK
  BY DEF TypeOK, JobRows, CallRows

LEMMA Table ==
  ASSUME TypeOK, NEW e, NEW open \in BOOLEAN, NEW t, t = Transition(e, open), t # Conflict
  PROVE  /\ t \in Transitions /\ t.status \in Statuses
         /\ job.status \notin Terminal
         /\ \E f \in FactRows : /\ t = NextState(f, e) /\ f.status = job.status
                                 /\ (f.open <=> open)
<1>1. PICK f : f = [status |-> job.status, attempts |-> job.attempts, takeovers |-> job.takeovers,
                    cancel |-> job.cancel, open |-> open]
  OBVIOUS
<1>2. f \in FactRows /\ f.status = job.status /\ (f.open <=> open)
  BY <1>1, Types DEF JobRows, FactRows
<1>3. t = NextState(f, e)  BY <1>1 DEF Transition
<1> QED  BY <1>2, <1>3, NextStateType, TerminalRefuses

LEMMA MovedType ==
  ASSUME TypeOK, NEW t \in Transitions, t.status \in Statuses, NEW open \in SUBSET Sides
  PROVE  /\ Moved(t, open) \in JobRows /\ Moved(t, open).status = t.status
         /\ Moved(t, open).run = job.run /\ Moved(t, open).revision = job.revision
         /\ Moved(t, open).open = open
         /\ ~t.release => Moved(t, open).attempt = job.attempt
<1>1. PICK x, y, z, u : /\ x = job.attempts + t.attempt /\ y = job.takeovers + t.takeover
                        /\ z = (job.cancel \/ t.cancel)
                        /\ u = (IF t.release THEN None ELSE job.attempt)
  OBVIOUS
<1>2. job \in JobRows  BY Types
<1>3. x \in Nat /\ y \in Nat /\ z \in BOOLEAN /\ u \in Nat
  BY <1>1, <1>2 DEF JobRows, Transitions, None
<1>4. Moved(t, open) = [job EXCEPT !.status = t.status, !.attempts = x, !.takeovers = y,
                                   !.cancel = z, !.open = open, !.attempt = u]
  BY <1>1 DEF Moved
<1>5. Moved(t, open) \in JobRows  BY <1>2, <1>3, <1>4 DEF JobRows
<1> QED  BY <1>1, <1>2, <1>4, <1>5 DEF JobRows

\* What happens to a stored question when its job, or its material, moves on.
Closed(old, new) ==
    old.state = "open" /\ new.state = "superseded" /\ new.version >= 1
      /\ new.revision = old.revision /\ new.attempt = old.attempt

LEMMA Closes ==
  ASSUME NEW row \in TaskRows, row.state = "open", NEW new,
         new = [row EXCEPT !.state = "superseded", !.version = @ + 1]
  PROVE  new \in TaskRows /\ Closed(row, new)
<1>1. PICK v : v = row.version + 1  OBVIOUS
<1>2. v \in Nat /\ v >= 1  BY <1>1 DEF TaskRows
<1>3. new = [row EXCEPT !.state = "superseded", !.version = v]  BY <1>1
<1>4. new \in TaskRows  BY <1>2, <1>3 DEF TaskRows
<1>5. /\ new.state = "superseded" /\ new.version = v /\ new.revision = row.revision
      /\ new.attempt = row.attempt
  BY <1>3 DEF TaskRows
<1> QED  BY <1>2, <1>4, <1>5 DEF Closed

LEMMA TerminalCloses ==
  ASSUME NEW rows \in [TaskIds -> TaskRows], NEW status
  PROVE  /\ CloseTerminal(status, rows) \in [TaskIds -> TaskRows]
         /\ status \notin Terminal => CloseTerminal(status, rows) = rows
         /\ \A t \in TaskIds :
               LET new == CloseTerminal(status, rows)[t]
               IN  (new = rows[t] \/ Closed(rows[t], new))
                     /\ (status \in Terminal => new.state # "open")
<1>2. ASSUME NEW t \in TaskIds, NEW new, new = CloseTerminal(status, rows)[t]
      PROVE  /\ new \in TaskRows
             /\ new = rows[t] \/ Closed(rows[t], new)
             /\ status \in Terminal => new.state # "open"
  <2>1. rows[t] \in TaskRows  OBVIOUS
  <2>2. CASE status \in Terminal /\ rows[t].state = "open"
    <3>1. new = [rows[t] EXCEPT !.state = "superseded", !.version = @ + 1]
      BY <1>2, <2>2 DEF CloseTerminal
    <3>2. new \in TaskRows /\ Closed(rows[t], new)  BY <2>1, <2>2, <3>1, Closes
    <3> QED  BY <3>2 DEF Closed
  <2>3. CASE ~(status \in Terminal /\ rows[t].state = "open")
    <3>1. new = rows[t]  BY <1>2, <2>3 DEF CloseTerminal
    <3> QED  BY <2>1, <2>3, <3>1
  <2> QED  BY <2>2, <2>3
<1>3. status \notin Terminal => CloseTerminal(status, rows) = rows
  BY DEF CloseTerminal
<1>4. CloseTerminal(status, rows) \in [TaskIds -> TaskRows]
  <2>1. \A t \in TaskIds : CloseTerminal(status, rows)[t] \in TaskRows  BY <1>2
  <2> QED  BY <2>1 DEF CloseTerminal
<1> QED  BY <1>2, <1>3, <1>4

(***************************************************************************)
(* Steps of the job plane                                                  *)
(***************************************************************************)

\* The parts of the invariant that a step keeps which leaves the receipts, the calls and
\* the chain alone and closes questions at most.
LEMMA ReceiptsStay ==
  ASSUME Inv, UNCHANGED <<chain, receipts, call>>, job'.run = job.run,
         \A t \in TaskIds : task'[t] = task[t] \/ task[t] = NoTask \/ Closed(task[t], task'[t])
  PROVE  /\ CallsAreAdmitted' /\ AnsweredOnce' /\ ReceiptsTellTheTruth' /\ ReceiptsAreOfThePast'
         /\ ChainIsCurrent'
<1>1. CallsAreAdmitted'  BY DEF Inv, CallsAreAdmitted
<1>2. AnsweredOnce'  BY DEF Inv, AnsweredOnce, Committed
<1>3. \A t \in TaskIds : task[t].state \in {"answered", "superseded"} => task'[t] = task[t]
  BY Constants DEF Closed
<1>4. ReceiptsTellTheTruth'
  <2>1. ASSUME NEW k \in Keys, Committed(k)
        PROVE  /\ task'[receipts[k].command.task].state = "answered"
               /\ receipts[k].revision # None =>
                     chain[receipts[k].revision].parent = receipts[k].command.revision
               /\ \A t \in receipts[k].superseded : task'[t].state = "superseded"
    <3>1. receipts[k] \in Receipts  BY Types DEF Inv
    <3>2. receipts[k].command.task \in TaskIds /\ receipts[k].superseded \subseteq TaskIds
      BY <3>1 DEF Receipts, Commands
    <3> QED  BY <1>3, <2>1, <3>2 DEF Inv, ReceiptsTellTheTruth
  <2>2. \A c \in Calls : call[c].pc = "accepted" => receipts[call[c].key].command = call[c].command
    BY DEF Inv, ReceiptsTellTheTruth
  <2> QED  BY <2>1, <2>2 DEF ReceiptsTellTheTruth, Committed
<1>5. ReceiptsAreOfThePast'  BY DEF Inv, ReceiptsAreOfThePast, Committed
<1>6. ChainIsCurrent'
  <2>1. \A s \in Sides : Corrections(s)' = Corrections(s)  BY DEF Corrections, Committed
  <2> QED  BY <2>1 DEF Inv, ChainIsCurrent
<1> QED  BY <1>1, <1>2, <1>4, <1>5, <1>6

LEMMA JobStep ==
  ASSUME Inv, UNCHANGED <<chain, head, receipts, call>>, asked' \in BOOLEAN,
         job' \in JobRows, job'.run = job.run, job'.revision = job.revision,
         task' \in [TaskIds -> TaskRows],
         \A t \in TaskIds : task'[t] = task[t] \/ Closed(task[t], task'[t]),
         job'.status \in Terminal => \A t \in TaskIds : task'[t].state # "open",
         job'.status = "waiting_for_human" =>
            job'.open # {} /\ job'.open = {s \in Sides : task'[<<job.run, s>>].state = "open"},
         job.status \notin Terminal,
         BatchIsComplete'
  PROVE  Inv'
<1>1. TypeOK'
  <2>1. /\ chain \in [Runs -> Snapshots] /\ head \in Runs \cup {None}
        /\ receipts \in [Keys -> Receipts] /\ call \in [Calls -> CallRows]
    BY Types DEF Inv
  <2> QED  BY <2>1 DEF TypeOK, JobRows, CallRows
<1>2. RunsFollowRevisions'
  <2>1. \A t \in TaskIds : task[t] = NoTask => task'[t] = NoTask
    BY Constants DEF Closed
  <2> QED  BY <2>1 DEF Inv, RunsFollowRevisions
<1>3. TasksAreOfTheirRun'
  <2>1. ASSUME NEW t \in TaskIds
        PROVE  \/ task'[t] = NoTask
               \/ /\ task'[t].state # "none" /\ task'[t].version >= 1
                  /\ task'[t].revision = t[1] /\ t[1] <= job'.run
                  /\ task'[t].state = "open" => t[1] = job'.run /\ job'.status \notin Terminal
    <3>1. CASE task'[t] = task[t]
      BY <3>1 DEF Inv, TasksAreOfTheirRun
    <3>2. CASE Closed(task[t], task'[t])
      <4>1. task[t] # NoTask  BY <3>2, Constants DEF Closed
      <4> QED  BY <3>2, <4>1 DEF Inv, TasksAreOfTheirRun, Closed
    <3> QED  BY <3>1, <3>2
  <2> QED  BY <2>1 DEF TasksAreOfTheirRun
<1>4. /\ CallsAreAdmitted' /\ AnsweredOnce' /\ ReceiptsTellTheTruth' /\ ReceiptsAreOfThePast'
      /\ ChainIsCurrent'
  BY ReceiptsStay
<1> QED  BY <1>1, <1>2, <1>3, <1>4 DEF Inv

\* A transition of the job that stores no question and does not make it wait.
LEMMA JobMoves ==
  ASSUME Inv, NEW e, NEW t, t = Transition(e, FALSE), t # Conflict,
         t.status # "waiting_for_human",
         t.status = "running" => job.status = "running" /\ t.release = FALSE,
         job' = Moved(t, {}), task' = CloseTerminal(t.status, task),
         UNCHANGED <<asked, chain, head, receipts, call>>
  PROVE  Inv'
<1>1. TypeOK  BY DEF Inv
<1>2. t \in Transitions /\ t.status \in Statuses /\ job.status \notin Terminal
  <2>1. PICK open \in BOOLEAN : t = Transition(e, open)  OBVIOUS
  <2> QED  BY <1>1, <2>1, Table
<1>3. /\ job' \in JobRows /\ job'.status = t.status
      /\ job'.run = job.run /\ job'.revision = job.revision
      /\ ~t.release => job'.attempt = job.attempt
  BY <1>1, <1>2, MovedType
<1>4. /\ task' \in [TaskIds -> TaskRows]
      /\ \A u \in TaskIds : /\ task'[u] = task[u] \/ Closed(task[u], task'[u])
                            /\ t.status \in Terminal => task'[u].state # "open"
  BY <1>1, Types, TerminalCloses
<1>5. BatchIsComplete'
  <2>1. SUFFICES ASSUME t.status = "running" PROVE BatchIsComplete'
    BY <1>3 DEF BatchIsComplete
  <2>2. task' = task  BY <1>1, <2>1, Types, TerminalCloses DEF Terminal
  <2> QED  BY <1>3, <2>1, <2>2 DEF Inv, BatchIsComplete
<1>6. asked' \in BOOLEAN  BY <1>1, Types
<1> QED  BY <1>2, <1>3, <1>4, <1>5, <1>6, JobStep

LEMMA ClaimStep ==
  ASSUME Inv, Claim
  PROVE  Inv'
<1>1. TypeOK  BY DEF Inv
<1>2. PICK open \in BOOLEAN : open = FALSE  OBVIOUS
<1>3. PICK t : t = Transition("claim", open)  OBVIOUS
<1>4. t # Conflict /\ asked' = FALSE /\ UNCHANGED <<chain, head, task, receipts, call>>
  BY <1>2, <1>3 DEF Claim
<1>5. t \in Transitions /\ t.status \in Statuses /\ job.status \notin Terminal
  BY <1>1, <1>3, <1>4, Table
<1>6. t.status = "running"
  <2>1. PICK f \in FactRows : t = NextState(f, "claim")  BY <1>1, <1>3, <1>4, Table
  <2>2. t = Move("running")  BY <1>4, <2>1 DEF NextState, Decide, LeaseBound
  <2> QED  BY <2>2 DEF Move
<1>7. PICK j : j = Moved(t, {})  OBVIOUS
<1>8. /\ j \in JobRows /\ j.status = "running" /\ j.run = job.run /\ j.revision = job.revision
  BY <1>1, <1>5, <1>6, <1>7, MovedType
<1>9. PICK a, b \in Nat : a = job.claims + 1 /\ b = j.claims + 1
  BY <1>1, <1>8, Types DEF JobRows
<1>10. job' = [j EXCEPT !.attempt = a, !.claims = b]
  BY <1>2, <1>3, <1>7, <1>9 DEF Claim
<1>11. job' \in JobRows /\ job'.status = "running" /\ job'.run = job.run /\ job'.revision = job.revision
  BY <1>8, <1>9, <1>10 DEF JobRows
<1>12. BatchIsComplete'  BY <1>4 DEF BatchIsComplete
<1>13. task' \in [TaskIds -> TaskRows] /\ \A u \in TaskIds : task'[u] = task[u]
  BY <1>1, <1>4, Types
<1> QED  BY <1>4, <1>5, <1>11, <1>12, <1>13, JobStep DEF Terminal

LEMMA PrepareStep ==
  ASSUME Inv, Prepare
  PROVE  Inv'
<1>1. UNCHANGED <<job, asked, chain, task, receipts, call>> /\ head' = job.revision
  BY DEF Prepare
<1>2. head' = job.run /\ head' \in Runs  BY <1>1, Types DEF Inv, RunsFollowRevisions, JobRows
<1>3. TypeOK'  BY <1>1, <1>2 DEF Inv, TypeOK
<1>4. RunsFollowRevisions'  BY <1>1, <1>2, Constants DEF Inv, RunsFollowRevisions
<1>5. TasksAreOfTheirRun' /\ BatchIsComplete'
  BY <1>1 DEF Inv, TasksAreOfTheirRun, BatchIsComplete
<1>6. /\ CallsAreAdmitted' /\ AnsweredOnce' /\ ReceiptsTellTheTruth' /\ ReceiptsAreOfThePast'
      /\ ChainIsCurrent'
  BY <1>1, ReceiptsStay
<1> QED  BY <1>3, <1>4, <1>5, <1>6 DEF Inv

LEMMA RegisterStep ==
  ASSUME Inv, NEW questions \in SUBSET Sides, Register(questions)
  PROVE  Inv'
<1> DEFINE new == {job.run} \X questions
<1>1. /\ job.status = "running" /\ questions \in Questions /\ head = job.revision /\ asked' = TRUE
      /\ UNCHANGED <<job, chain, head, receipts, call>>
  BY DEF Register
<1>2. job \in JobRows /\ job.run \in Runs /\ job.revision = job.run /\ task \in [TaskIds -> TaskRows]
  BY Types DEF Inv, RunsFollowRevisions, JobRows
<1>3. PICK row : row = [state |-> "open", version |-> 1, attempt |-> job.attempt,
                        revision |-> job.revision]
  OBVIOUS
<1>4. /\ row \in TaskRows /\ row.state = "open" /\ row.version = 1 /\ row.attempt = job.attempt
      /\ row.revision = job.run
  BY <1>2, <1>3 DEF TaskRows, JobRows
<1>5. DOMAIN Batch(questions) = new /\ \A t \in new : Batch(questions)[t] = row
  BY <1>3 DEF Batch
<1>6. new \subseteq TaskIds  BY <1>2 DEF TaskIds
<1>7. \A t \in new : task[t] \in {NoTask, row}  BY <1>5 DEF Register
<1>8. task' = [t \in TaskIds |-> IF t \in new THEN row ELSE task[t]]
  BY <1>5 DEF Register
<1>9. task' \in [TaskIds -> TaskRows]  BY <1>2, <1>4, <1>8
<1>10. \A t \in TaskIds : /\ t \in new => task'[t] = row /\ t[1] = job.run
                          /\ t \notin new => task'[t] = task[t]
  BY <1>8
<1>11. TypeOK'
  <2>1. asked' \in BOOLEAN  BY <1>1
  <2> QED  BY <1>1, <1>9, <2>1 DEF Inv, TypeOK
<1>12. RunsFollowRevisions'
  BY <1>1, <1>2, Constants DEF Inv, RunsFollowRevisions
<1>13. TasksAreOfTheirRun'
  <2>1. ASSUME NEW t \in TaskIds
        PROVE  \/ task'[t] = NoTask
               \/ /\ task'[t].state # "none" /\ task'[t].version >= 1
                  /\ task'[t].revision = t[1] /\ t[1] <= job'.run
                  /\ task'[t].state = "open" => t[1] = job'.run /\ job'.status \notin Terminal
    <3>1. CASE t \in new
      <4>1. task'[t] = row /\ t[1] = job.run /\ job.run \in Nat  BY <1>2, <1>10, <3>1, Constants
      <4> QED  BY <1>1, <1>4, <4>1 DEF Terminal
    <3>2. CASE t \notin new  BY <1>1, <1>10, <3>2 DEF Inv, TasksAreOfTheirRun
    <3> QED  BY <3>1, <3>2
  <2> QED  BY <1>1, <2>1 DEF TasksAreOfTheirRun
<1>14. BatchIsComplete'
  <2>1. ASSUME NEW s \in Sides, task'[<<job.run, s>>] # NoTask
        PROVE  task'[<<job.run, s>>].attempt = job.attempt
    <3>1. <<job.run, s>> \in TaskIds  BY <1>2 DEF TaskIds
    <3>2. CASE s \in questions
      BY <1>4, <1>10, <3>1, <3>2
    <3>3. CASE s \notin questions
      <4>1. task[<<job.run, s>>] # NoTask  BY <1>10, <2>1, <3>1, <3>3
      <4> QED  BY <1>1, <3>3, <4>1 DEF Questions
    <3> QED  BY <3>2, <3>3
  <2> QED  BY <1>1, <2>1 DEF BatchIsComplete
<1>15. \A t \in TaskIds : task'[t] = task[t] \/ task[t] = NoTask \/ Closed(task[t], task'[t])
  BY <1>7, <1>10
<1>16. /\ CallsAreAdmitted' /\ AnsweredOnce' /\ ReceiptsTellTheTruth' /\ ReceiptsAreOfThePast'
       /\ ChainIsCurrent'
  BY <1>1, <1>15, ReceiptsStay
<1> QED  BY <1>11, <1>12, <1>13, <1>14, <1>16 DEF Inv

LEMMA ParkStep ==
  ASSUME Inv, Park
  PROVE  Inv'
<1>1. PICK open : open = {s \in Sides : /\ task[<<job.run, s>>].state = "open"
                                        /\ task[<<job.run, s>>].attempt = job.attempt}
  OBVIOUS
<1>2. PICK some \in BOOLEAN : some = (open # {})  OBVIOUS
<1>3. PICK t : t = Transition("needs_human", some)  OBVIOUS
<1>4. /\ asked /\ t # Conflict
      /\ job' = Moved(t, IF t.status = "cancelled" THEN {} ELSE open)
      /\ task' = CloseTerminal(t.status, task)
      /\ UNCHANGED <<asked, chain, head, receipts, call>>
  BY <1>1, <1>2, <1>3 DEF Park
<1>5. TypeOK  BY DEF Inv
<1>6. PICK f \in FactRows : /\ t = NextState(f, "needs_human") /\ f.status = job.status
                            /\ (f.open <=> some)
  BY <1>3, <1>4, <1>5, Table
<1>7. t \in Transitions /\ t.status \in Statuses /\ job.status \notin Terminal
  BY <1>3, <1>4, <1>5, Table
<1>8. /\ job.status = "running"
      /\ t.status \in {"waiting_for_human", "cancelled"}
      /\ t.status = "waiting_for_human" => open # {}
  <2>1. t \in {Release("waiting_for_human"), Release("cancelled")} /\ f.status = "running"
        /\ (t # Release("cancelled") => f.open)
    BY <1>4, <1>6 DEF NextState, Decide, NeedsHuman, CancelPreempted, LeaseBound
  <2>2. Release("cancelled").status = "cancelled"
        /\ Release("waiting_for_human").status = "waiting_for_human"
    BY DEF Release, Move
  <2> QED  BY <1>2, <1>6, <2>1, <2>2
<1>9. PICK o \in SUBSET Sides : /\ job' = Moved(t, o)
                                /\ t.status = "waiting_for_human" => o = open
  <2>1. PICK o : o = IF t.status = "cancelled" THEN {} ELSE open  OBVIOUS
  <2>2. o \in SUBSET Sides /\ (t.status = "waiting_for_human" => o = open)  BY <1>1, <2>1
  <2>3. job' = Moved(t, o)  BY <1>4, <2>1
  <2> QED  BY <2>2, <2>3
<1>10. /\ job' \in JobRows /\ job'.status = t.status /\ job'.open = o
       /\ job'.run = job.run /\ job'.revision = job.revision
  BY <1>5, <1>7, <1>9, MovedType
<1>11. /\ task' \in [TaskIds -> TaskRows]
       /\ t.status \notin Terminal => task' = task
       /\ \A u \in TaskIds : /\ task'[u] = task[u] \/ Closed(task[u], task'[u])
                             /\ t.status \in Terminal => task'[u].state # "open"
  BY <1>4, <1>5, Types, TerminalCloses
<1>12. ASSUME t.status = "waiting_for_human"
       PROVE  o # {} /\ o = {s \in Sides : task'[<<job.run, s>>].state = "open"}
  <2>1. ASSUME NEW s \in Sides, task[<<job.run, s>>].state = "open"
        PROVE  task[<<job.run, s>>].attempt = job.attempt
    BY <1>4, <1>8, <2>1, Constants DEF Inv, BatchIsComplete
  <2>2. task' = task  BY <1>11, <1>12 DEF Terminal
  <2> QED  BY <1>1, <1>8, <1>9, <1>12, <2>1, <2>2
<1>13. BatchIsComplete'  BY <1>8, <1>10 DEF BatchIsComplete
<1>14. asked' \in BOOLEAN  BY <1>4, <1>5, Types
<1> QED  BY <1>4, <1>7, <1>10, <1>11, <1>12, <1>13, <1>14, JobStep

LEMMA EndAttemptStep ==
  ASSUME Inv, NEW e \in {"publish_result", "retryable_error", "permanent_error", "lease_expired",
                         "cancel_acknowledged"}, EndAttempt(e)
  PROVE  Inv'
<1>1. PICK t : t = Transition(e, FALSE)  OBVIOUS
<1>2. /\ t # Conflict /\ job' = Moved(t, {}) /\ task' = CloseTerminal(t.status, task)
      /\ UNCHANGED <<asked, chain, head, receipts, call>>
  BY <1>1 DEF EndAttempt
<1>3. PICK f \in FactRows : t = NextState(f, e) /\ ~f.open
  <2>1. PICK open \in BOOLEAN : open = FALSE  OBVIOUS
  <2>2. TypeOK /\ t = Transition(e, open)  BY <1>1, <2>1 DEF Inv
  <2>3. \E f \in FactRows : t = NextState(f, e) /\ (f.open <=> open)  BY <1>2, <2>2, Table
  <2> QED  BY <2>1, <2>3
<1>4. t.status \notin {"waiting_for_human", "running"}
  <2>1. CASE e = "lease_expired"
    <3>1. f.status = "running"
      BY <1>2, <1>3, <2>1 DEF NextState, Decide, LeaseExpired, LeaseBound
    <3> QED  BY <1>3, <2>1, <3>1, ExpiryReleases
  <2>2. CASE e # "lease_expired"
    <3>1. e \in FinishEvents  BY <2>2 DEF FinishEvents
    <3> QED  BY <1>2, <1>3, <3>1, FinishReleases
  <2> QED  BY <2>1, <2>2
<1> QED  BY <1>1, <1>2, <1>4, JobMoves

LEMMA ScheduleRetryStep ==
  ASSUME Inv, ScheduleRetry
  PROVE  Inv'
<1>1. PICK t : t = Transition("schedule_retry", FALSE)  OBVIOUS
<1>2. /\ t # Conflict /\ job' = Moved(t, {})
      /\ UNCHANGED <<asked, chain, head, task, receipts, call>>
  BY <1>1 DEF ScheduleRetry
<1>3. PICK f \in FactRows : t = NextState(f, "schedule_retry")
  <2>1. PICK open \in BOOLEAN : open = FALSE  OBVIOUS
  <2> QED  BY <1>1, <1>2, <2>1, Table DEF Inv
<1>4. t.status = "queued"  BY <1>2, <1>3, UnleasedEvents DEF Enqueue, Move
<1>5. task' = CloseTerminal(t.status, task)
  BY <1>2, <1>4, Types, TerminalCloses DEF Inv, Terminal
<1> QED  BY <1>1, <1>2, <1>4, <1>5, JobMoves

LEMMA CancelStep ==
  ASSUME Inv, Cancel
  PROVE  Inv'
<1>1. PICK t : t = Transition("cancel", FALSE)  OBVIOUS
<1>2. /\ t # Conflict /\ job' = Moved(t, {}) /\ task' = CloseTerminal(t.status, task)
      /\ UNCHANGED <<asked, chain, head, receipts, call>>
  BY <1>1 DEF Cancel
<1>3. PICK f \in FactRows : t = NextState(f, "cancel") /\ f.status = job.status
  <2>1. PICK open \in BOOLEAN : open = FALSE  OBVIOUS
  <2>2. TypeOK /\ t = Transition("cancel", open)  BY <1>1, <2>1 DEF Inv
  <2> QED  BY <1>2, <2>2, Table
<1>4. \/ f.status = "running" /\ t = [Move("running") EXCEPT !.cancel = TRUE]
      \/ t = Release("cancelled")
  BY <1>2, <1>3 DEF NextState, Decide, LeaseBound
<1>5. \/ job.status = "running" /\ t.status = "running" /\ t.release = FALSE
      \/ t.status = "cancelled"
  BY <1>3, <1>4 DEF Move, Release
<1>6. CASE t.status = "cancelled"  BY <1>1, <1>2, <1>6, JobMoves
<1>7. CASE job.status = "running" /\ t.status = "running" /\ t.release = FALSE
  BY <1>1, <1>2, <1>7, JobMoves
<1> QED  BY <1>5, <1>6, <1>7

(***************************************************************************)
(* Steps of respond() up to its commit                                     *)
(***************************************************************************)

LEMMA CallStep ==
  ASSUME Inv, NEW c \in Calls, NEW x \in CallRows, call' = [call EXCEPT ![c] = x],
         UNCHANGED <<job, asked, chain, head, task, receipts>>,
         x.pc # "idle" => (x.key \in Keys /\ x.command.version >= 1),
         x.pc = "admitted" => x.seen.state = "open",
         x.pc = "accepted" => receipts[x.key].command = x.command
  PROVE  Inv'
<1>1. call \in [Calls -> CallRows]  BY Types DEF Inv
<1>2. call' \in [Calls -> CallRows] /\ \A d \in Calls : call'[d] = IF d = c THEN x ELSE call[d]
  BY <1>1
<1>3. TypeOK'  BY <1>2 DEF Inv, TypeOK, CallRows
<1>4. /\ RunsFollowRevisions' /\ TasksAreOfTheirRun' /\ BatchIsComplete' /\ AnsweredOnce'
      /\ ReceiptsAreOfThePast'
  BY DEF Inv, RunsFollowRevisions, TasksAreOfTheirRun, BatchIsComplete, AnsweredOnce,
         ReceiptsAreOfThePast, Committed
<1>5. CallsAreAdmitted'  BY <1>2 DEF Inv, CallsAreAdmitted
<1>6. ReceiptsTellTheTruth'  BY <1>2 DEF Inv, ReceiptsTellTheTruth, Committed
<1>7. ChainIsCurrent'
  <2>1. \A s \in Sides : Corrections(s)' = Corrections(s)  BY DEF Corrections, Committed
  <2> QED  BY <2>1 DEF Inv, ChainIsCurrent
<1> QED  BY <1>3, <1>4, <1>5, <1>6, <1>7 DEF Inv

LEMMA BeginStep ==
  ASSUME Inv, NEW c \in Calls, NEW k \in Keys, NEW t \in TaskIds,
         NEW a \in {"confirm", "correct", "reject"}, Begin(c, k, t, a)
  PROVE  Inv'
<1>1. PICK cmd : cmd = [task |-> t, action |-> a, version |-> task[t].version,
                        revision |-> task[t].revision]
  OBVIOUS
<1>2. PICK x : x = [IdleCall EXCEPT !.pc = "sent", !.key = k, !.command = cmd]
  OBVIOUS
<1>3. /\ call' = [call EXCEPT ![c] = x] /\ UNCHANGED <<job, asked, chain, head, task, receipts>>
      /\ task[t].state = "open"
  BY <1>1, <1>2 DEF Begin
<1>4. task[t] \in TaskRows /\ t[1] \in Runs  BY Types DEF Inv, TaskIds
<1>5. task[t].version \in Nat /\ task[t].version >= 1 /\ task[t].revision \in Runs
  BY <1>3, <1>4, Constants DEF Inv, TasksAreOfTheirRun, TaskRows
<1>6. cmd \in Commands /\ cmd.version >= 1  BY <1>1, <1>5 DEF Commands
<1>7. x \in CallRows /\ x.pc = "sent" /\ x.key = k /\ x.command = cmd
  BY <1>2, <1>6, Constants DEF CallRows
<1> QED  BY <1>3, <1>6, <1>7, CallStep

LEMMA RetryStep ==
  ASSUME Inv, NEW c \in Calls, NEW d \in Calls, Retry(c, d)
  PROVE  Inv'
<1>1. PICK x : x = [IdleCall EXCEPT !.pc = "sent", !.key = call[d].key,
                                    !.command = call[d].command]
  OBVIOUS
<1>2. /\ call' = [call EXCEPT ![c] = x] /\ UNCHANGED <<job, asked, chain, head, task, receipts>>
      /\ call[d].pc # "idle"
  BY <1>1 DEF Retry
<1>3. call[d] \in CallRows  BY Types DEF Inv
<1>4. x \in CallRows /\ x.pc = "sent" /\ x.key = call[d].key /\ x.command = call[d].command
  BY <1>1, <1>3, Constants DEF CallRows
<1>5. x.key \in Keys /\ x.command.version >= 1  BY <1>2, <1>4 DEF Inv, CallsAreAdmitted
<1> QED  BY <1>2, <1>4, <1>5, CallStep

LEMMA ReadTaskStep ==
  ASSUME Inv, NEW c \in Calls, ReadTask(c)
  PROVE  Inv'
<1>1. PICK x : x = [call[c] EXCEPT !.pc = "read", !.seen = task[call[c].command.task],
                                   !.head = head]
  OBVIOUS
<1>2. call \in [Calls -> CallRows] /\ call[c] \in CallRows  BY Types DEF Inv
<1>3. /\ call' = [call EXCEPT ![c] = x] /\ UNCHANGED <<job, asked, chain, head, task, receipts>>
      /\ call[c].pc = "sent"
  BY <1>1, <1>2 DEF ReadTask
<1>4. task[call[c].command.task] \in TaskRows /\ head \in Runs \cup {None}
  BY <1>2, Types DEF Inv, CallRows, Commands
<1>5. x \in CallRows /\ x.pc = "read" /\ x.key = call[c].key /\ x.command = call[c].command
  BY <1>1, <1>2, <1>4 DEF CallRows
<1>6. x.key \in Keys /\ x.command.version >= 1  BY <1>3, <1>5 DEF Inv, CallsAreAdmitted
<1> QED  BY <1>3, <1>5, <1>6, CallStep

\* A step that only decides what becomes of a call.
LEMMA DecideStep ==
  ASSUME Inv, NEW c \in Calls, NEW pc \in {"admitted", "accepted", "refused"},
         call[c].pc # "idle", call' = [call EXCEPT ![c].pc = pc],
         UNCHANGED <<job, asked, chain, head, task, receipts>>,
         pc = "admitted" => call[c].seen.state = "open",
         pc = "accepted" => Replayed(c)
  PROVE  Inv'
<1>1. PICK x : x = [call[c] EXCEPT !.pc = pc]  OBVIOUS
<1>2. call \in [Calls -> CallRows] /\ call[c] \in CallRows  BY Types DEF Inv
<1>3. call' = [call EXCEPT ![c] = x]  BY <1>1, <1>2
<1>4. /\ x \in CallRows /\ x.pc = pc /\ x.key = call[c].key /\ x.command = call[c].command
      /\ x.seen = call[c].seen
  BY <1>1, <1>2 DEF CallRows
<1>5. x.key \in Keys /\ x.command.version >= 1  BY <1>4 DEF Inv, CallsAreAdmitted
<1>6. x.pc = "accepted" => receipts[x.key].command = x.command  BY <1>4 DEF Replayed
<1>7. x.pc = "admitted" => x.seen.state = "open"  BY <1>4
<1> QED  BY <1>3, <1>4, <1>5, <1>6, <1>7, CallStep

LEMMA ReadReceiptStep ==
  ASSUME Inv, NEW c \in Calls, ReadReceipt(c)
  PROVE  Inv'
<1>1. PICK pc : pc = IF Committed(call[c].key)
                     THEN IF Replayed(c) THEN "accepted" ELSE "refused"
                     ELSE IF Admissible(c) THEN "admitted" ELSE "refused"
  OBVIOUS
<1>2. /\ call' = [call EXCEPT ![c].pc = pc] /\ call[c].pc # "idle"
      /\ UNCHANGED <<job, asked, chain, head, task, receipts>>
  BY <1>1 DEF ReadReceipt
<1>3. /\ pc \in {"admitted", "accepted", "refused"}
      /\ pc = "admitted" => Admissible(c)
      /\ pc = "accepted" => Replayed(c)
  BY <1>1
<1>4. pc = "admitted" => call[c].seen.state = "open"  BY <1>3 DEF Admissible
<1> QED  BY <1>2, <1>3, <1>4, DecideStep

LEMMA RefusedStep ==
  ASSUME Inv, NEW c \in Calls, call[c].pc = "admitted",
         call' = [call EXCEPT ![c].pc =
                     IF Committed(call[c].key) /\ Replayed(c) THEN "accepted" ELSE "refused"],
         UNCHANGED <<job, asked, chain, head, task, receipts>>
  PROVE  Inv'
<1>1. PICK pc : pc = IF Committed(call[c].key) /\ Replayed(c) THEN "accepted" ELSE "refused"
  OBVIOUS
<1>2. /\ pc \in {"admitted", "accepted", "refused"} /\ pc # "admitted"
      /\ pc = "accepted" => Replayed(c)
  BY <1>1
<1>3. call' = [call EXCEPT ![c].pc = pc]  BY <1>1
<1> QED  BY <1>2, <1>3, DecideStep

LEMMA ForgetStep ==
  ASSUME Inv, NEW c \in Calls, Forget(c)
  PROVE  Inv'
  BY CallStep, Constants DEF Forget

(***************************************************************************)
(* The commit of an answer                                                 *)
(***************************************************************************)

LEMMA AcceptedIsCommitted ==
  ASSUME Inv, NEW d \in Calls, call[d].pc = "accepted"
  PROVE  call[d].key \in Keys /\ Committed(call[d].key)
<1>1. call[d].key \in Keys /\ call[d].command.version >= 1
  BY DEF Inv, CallsAreAdmitted
<1>2. receipts[call[d].key].command = call[d].command  BY DEF Inv, ReceiptsTellTheTruth
<1>3. NoReceipt.command.version = 0  BY Constants
<1> QED  BY <1>1, <1>2, <1>3 DEF Committed

\* The command that is about to commit, and the question it answers.
LEMMA CommitsOpen ==
  ASSUME Inv, NEW c \in Calls, call[c].pc = "admitted", Current(c),
         NEW cmd, cmd = call[c].command
  PROVE  /\ cmd \in Commands /\ cmd.version >= 1 /\ call[c].key \in Keys
         /\ cmd.task \in TaskIds /\ cmd.task = <<job.run, cmd.task[2]>> /\ cmd.task[2] \in Sides
         /\ task[cmd.task] \in TaskRows /\ task[cmd.task].state = "open"
         /\ task[cmd.task].revision = job.run
         /\ job \in JobRows /\ job.run \in Runs /\ job.status = "waiting_for_human"
         /\ cmd.revision = job.run /\ head = job.run /\ call[c].head = job.run
         /\ job.open = {s \in Sides : task[<<job.run, s>>].state = "open"}
<1>1. call[c] \in CallRows  BY Types DEF Inv
<1>2. cmd \in Commands /\ call[c].key \in Keys /\ cmd.version >= 1 /\ call[c].seen.state = "open"
  BY <1>1 DEF CallRows, Inv, CallsAreAdmitted
<1>3. /\ task[cmd.task] = call[c].seen /\ cmd.task[1] = job.run
      /\ cmd.revision = job.revision /\ cmd.revision = head /\ call[c].head = head
      /\ job.status = "waiting_for_human"
  BY DEF Current
<1>4. job \in JobRows /\ job.run \in Runs /\ job.revision = job.run
  BY Types DEF Inv, RunsFollowRevisions, JobRows
<1>5. cmd.task \in TaskIds  BY <1>2 DEF Commands
<1>6. cmd.task = <<job.run, cmd.task[2]>> /\ cmd.task[2] \in Sides  BY <1>3, <1>5 DEF TaskIds
<1>7. task[cmd.task] \in TaskRows  BY <1>5, Types DEF Inv
<1>8. task[cmd.task] # NoTask  BY <1>2, <1>3, Constants
<1>9. task[cmd.task].revision = job.run  BY <1>3, <1>5, <1>8 DEF Inv, TasksAreOfTheirRun
<1>10. job.open = {s \in Sides : task[<<job.run, s>>].state = "open"}
  BY <1>3 DEF Inv, TasksAreOfTheirRun
<1> QED  BY <1>2, <1>3, <1>4, <1>5, <1>6, <1>7, <1>9, <1>10

\* The rows after the answer to question t.
Answered(t) == [task EXCEPT ![t].state = "answered", ![t].version = @ + 1]

\* The questions that this answer supersedes.
Stale(t) == {u \in TaskIds : Answered(t)[u].state = "open" /\ Answered(t)[u].revision = head}

LEMMA AnswersOne ==
  ASSUME Inv, NEW t \in TaskIds, task[t].state = "open"
  PROVE  /\ Answered(t) \in [TaskIds -> TaskRows]
         /\ Answered(t)[t].state = "answered" /\ Answered(t)[t].version >= 1
         /\ Answered(t)[t].revision = task[t].revision
         /\ \A u \in TaskIds : u # t => Answered(t)[u] = task[u]
<1>1. task \in [TaskIds -> TaskRows] /\ task[t] \in TaskRows  BY Types DEF Inv
<1>2. PICK v : v = task[t].version + 1  OBVIOUS
<1>3. v \in Nat /\ v >= 1  BY <1>1, <1>2 DEF TaskRows
<1>4. PICK row : row = [task[t] EXCEPT !.state = "answered", !.version = v]  OBVIOUS
<1>5. /\ row \in TaskRows /\ row.state = "answered" /\ row.version = v
      /\ row.revision = task[t].revision
  BY <1>1, <1>3, <1>4 DEF TaskRows
<1>6. Answered(t) = [task EXCEPT ![t] = row]  BY <1>1, <1>2, <1>4 DEF Answered
<1> QED  BY <1>1, <1>3, <1>5, <1>6

\* What a new receipt leaves true of the receipts and the calls, if the step keeps the
\* closed questions and the past of the chain.
LEMMA ReceiptAdded ==
  ASSUME Inv, NEW c \in Calls, call[c].pc = "admitted", ~Committed(call[c].key), Current(c),
         NEW r \in Receipts, r.command = call[c].command,
         receipts' = [receipts EXCEPT ![call[c].key] = r],
         call' = [call EXCEPT ![c].pc = "accepted"],
         task'[r.command.task].state = "answered",
         \A t \in r.superseded : task'[t].state = "superseded",
         \A t \in TaskIds : task[t].state \in {"answered", "superseded"} =>
            task'[t].state = task[t].state,
         \A n \in 1..job.run : chain'[n] = chain[n],
         r.revision # None => chain'[r.revision].parent = r.command.revision,
         job'.run \in Nat, job.run <= job'.run, r.revision <= job'.run
  PROVE  /\ call' \in [Calls -> CallRows] /\ receipts' \in [Keys -> Receipts]
         /\ CallsAreAdmitted' /\ AnsweredOnce' /\ ReceiptsTellTheTruth' /\ ReceiptsAreOfThePast'
         /\ \A l \in Keys : receipts'[l] = IF l = call[c].key THEN r ELSE receipts[l]
<1>1. PICK k \in Keys : k = call[c].key  BY CommitsOpen
<1>2. receipts \in [Keys -> Receipts] /\ call \in [Calls -> CallRows] /\ call[c] \in CallRows
  BY Types DEF Inv
<1>3. receipts' \in [Keys -> Receipts] /\ receipts'[k] = r
      /\ \A l \in Keys : l # k => receipts'[l] = receipts[l]
  BY <1>1, <1>2
<1>4. PICK x : x = [call[c] EXCEPT !.pc = "accepted"]  OBVIOUS
<1>5. x \in CallRows /\ x.pc = "accepted" /\ x.key = k /\ x.command = r.command
  BY <1>1, <1>2, <1>4 DEF CallRows
<1>6. call' = [call EXCEPT ![c] = x]  BY <1>2, <1>4
<1>7. call' \in [Calls -> CallRows] /\ call'[c] = x /\ \A d \in Calls : d # c => call'[d] = call[d]
  BY <1>2, <1>5, <1>6
<1>8. r.command.version >= 1 /\ task[r.command.task].state = "open"  BY CommitsOpen
<1>9. CallsAreAdmitted'  BY <1>5, <1>7, <1>8 DEF Inv, CallsAreAdmitted
<1>10. \A l \in Keys : l # k => (Committed(l)' <=> Committed(l))  BY <1>3 DEF Committed
<1>11. ASSUME NEW l \in Keys, Committed(l)
       PROVE  /\ l # k /\ receipts[l].command.task \in TaskIds
              /\ receipts[l].superseded \subseteq TaskIds
              /\ task[receipts[l].command.task].state = "answered"
  <2>1. receipts[l] \in Receipts  BY <1>2
  <2>2. receipts[l].command.task \in TaskIds /\ receipts[l].superseded \subseteq TaskIds
    BY <2>1 DEF Receipts, Commands
  <2> QED  BY <1>1, <1>11, <2>2 DEF Inv, ReceiptsTellTheTruth
<1>12. AnsweredOnce'
  <2>1. ASSUME NEW l \in Keys, NEW m \in Keys, Committed(l)', Committed(m)',
               receipts'[l].command.task = receipts'[m].command.task
        PROVE  l = m
    <3>1. CASE l # k /\ m # k  BY <1>3, <1>10, <2>1, <3>1 DEF Inv, AnsweredOnce
    <3>2. CASE l = k /\ m # k
      <4>1. task[receipts[m].command.task].state = "answered"  BY <1>10, <1>11, <2>1, <3>2
      <4>2. receipts[m].command.task = r.command.task  BY <1>3, <2>1, <3>2
      <4> QED  BY <1>8, <4>1, <4>2
    <3>3. CASE l # k /\ m = k
      <4>1. task[receipts[l].command.task].state = "answered"  BY <1>10, <1>11, <2>1, <3>3
      <4>2. receipts[l].command.task = r.command.task  BY <1>3, <2>1, <3>3
      <4> QED  BY <1>8, <4>1, <4>2
    <3> QED  BY <3>1, <3>2, <3>3
  <2> QED  BY <2>1 DEF AnsweredOnce
<1>13. ReceiptsTellTheTruth'
  <2>1. ASSUME NEW l \in Keys, Committed(l)'
        PROVE  /\ task'[receipts'[l].command.task].state = "answered"
               /\ receipts'[l].revision # None =>
                     chain'[receipts'[l].revision].parent = receipts'[l].command.revision
               /\ \A t \in receipts'[l].superseded : task'[t].state = "superseded"
    <3>1. CASE l = k  BY <1>3, <3>1
    <3>2. CASE l # k
      <4>1. Committed(l) /\ receipts'[l] = receipts[l]  BY <1>3, <1>10, <2>1, <3>2
      <4>2. task'[receipts[l].command.task].state = "answered"  BY <1>11, <4>1
      <4>3. ASSUME receipts[l].revision # None
            PROVE  chain'[receipts[l].revision].parent = receipts[l].command.revision
        <5>1. receipts[l].revision \in Runs  BY <1>2, <4>3 DEF Receipts
        <5>2. receipts[l].revision <= job.run  BY DEF Inv, ReceiptsAreOfThePast
        <5>3. job.run \in Nat  BY CommitsOpen, Constants
        <5>4. receipts[l].revision \in 1..job.run  BY <5>1, <5>2, <5>3 DEF Runs
        <5>5. chain[receipts[l].revision].parent = receipts[l].command.revision
          BY <4>1, <4>3 DEF Inv, ReceiptsTellTheTruth
        <5> QED  BY <5>4, <5>5
      <4>4. \A t \in receipts[l].superseded : task[t].state = "superseded"
        BY <4>1 DEF Inv, ReceiptsTellTheTruth
      <4>5. receipts[l].superseded \subseteq TaskIds  BY <1>11, <4>1
      <4>6. \A t \in receipts[l].superseded : task'[t].state = "superseded"  BY <4>4, <4>5
      <4> QED  BY <4>1, <4>2, <4>3, <4>6
    <3> QED  BY <3>1, <3>2
  <2>2. ASSUME NEW d \in Calls, call'[d].pc = "accepted"
        PROVE  receipts'[call'[d].key].command = call'[d].command
    <3>1. CASE d = c  BY <1>3, <1>5, <1>7, <3>1
    <3>2. CASE d # c
      <4>1. call'[d] = call[d] /\ call[d].pc = "accepted"  BY <1>7, <2>2, <3>2
      <4>2. call[d].key \in Keys /\ Committed(call[d].key)  BY <4>1, AcceptedIsCommitted
      <4>3. receipts'[call[d].key] = receipts[call[d].key]  BY <1>3, <1>11, <4>2
      <4>4. receipts[call[d].key].command = call[d].command
        BY <4>1 DEF Inv, ReceiptsTellTheTruth
      <4> QED  BY <4>1, <4>3, <4>4
    <3> QED  BY <3>1, <3>2
  <2> QED  BY <2>1, <2>2 DEF ReceiptsTellTheTruth
<1>14. ReceiptsAreOfThePast'
  <2>1. ASSUME NEW l \in Keys
        PROVE  /\ Committed(l)' => receipts'[l].command.version >= 1
               /\ receipts'[l].revision <= job'.run
    <3>1. CASE l = k  BY <1>3, <1>8, <3>1
    <3>2. CASE l # k
      <4>1. receipts'[l] = receipts[l] /\ (Committed(l)' <=> Committed(l))  BY <1>3, <1>10, <3>2
      <4>2. PICK n \in Nat : n = receipts[l].revision
        BY <1>2, Constants DEF Receipts, None
      <4>3. n <= job.run /\ job.run \in Nat
        BY <4>2, CommitsOpen, Constants DEF Inv, ReceiptsAreOfThePast
      <4>4. n <= job'.run  BY <4>3
      <4> QED  BY <4>1, <4>2, <4>4 DEF Inv, ReceiptsAreOfThePast
    <3> QED  BY <3>1, <3>2
  <2> QED  BY <2>1 DEF ReceiptsAreOfThePast
<1> QED  BY <1>1, <1>3, <1>7, <1>9, <1>12, <1>13, <1>14

\* The transitions of an answer, with what they do to the waiting job.
LEMMA AnswerMoves ==
  ASSUME TypeOK, NEW e \in {"human_rejected", "human_response_committed"}, NEW some \in BOOLEAN,
         NEW t, t = Transition(e, some), t # Conflict, NEW open \in SUBSET Sides
  PROVE  /\ e = "human_response_committed" => t.status = "queued"
         /\ e = "human_rejected" => t.status = IF some THEN "waiting_for_human" ELSE "failed"
         /\ Moved(t, open) \in JobRows /\ Moved(t, open).status = t.status
         /\ Moved(t, open).run = job.run /\ Moved(t, open).revision = job.revision
         /\ Moved(t, open).open = open
<1>1. PICK f \in FactRows : t = NextState(f, e) /\ (f.open <=> some)  BY Table
<1>2. t \in Transitions /\ t.status \in Statuses  BY Table
<1>3. e = "human_response_committed" => t = Enqueue("queued")  BY <1>1, UnleasedEvents
<1>4. e = "human_rejected" => t = Move(IF some THEN "waiting_for_human" ELSE "failed")
  BY <1>1, UnleasedEvents
<1>5. /\ e = "human_response_committed" => t.status = "queued"
      /\ e = "human_rejected" => t.status = IF some THEN "waiting_for_human" ELSE "failed"
  BY <1>3, <1>4 DEF Enqueue, Move
<1> QED  BY <1>2, <1>5, MovedType

LEMMA RejectStep ==
  ASSUME Inv, NEW c \in Calls, call[c].pc = "admitted", ~Committed(call[c].key), Current(c),
         Apply(c), call[c].command.action = "reject",
         call' = [call EXCEPT ![c].pc = "accepted"], asked' = asked
  PROVE  Inv'
<1>1. PICK cmd : cmd = call[c].command  OBVIOUS
<1>2. PICK replied : replied = Answered(cmd.task)  OBVIOUS
<1>3. PICK remaining : remaining = job.open \ {cmd.task[2]}  OBVIOUS
<1>4. PICK some \in BOOLEAN : some = (remaining # {})  OBVIOUS
<1>5. PICK t : t = Transition("human_rejected", some)  OBVIOUS
<1>6. PICK r : r = [NoReceipt EXCEPT !.command = cmd]  OBVIOUS
<1>7. /\ t # Conflict /\ job' = Moved(t, remaining) /\ task' = CloseTerminal(t.status, replied)
      /\ receipts' = [receipts EXCEPT ![call[c].key] = r] /\ UNCHANGED <<chain, head>>
  BY <1>1, <1>2, <1>3, <1>4, <1>5, <1>6 DEF Apply, Answered
<1>8. /\ cmd \in Commands /\ cmd.version >= 1 /\ call[c].key \in Keys
      /\ cmd.task \in TaskIds /\ cmd.task = <<job.run, cmd.task[2]>> /\ cmd.task[2] \in Sides
      /\ task[cmd.task] \in TaskRows /\ task[cmd.task].state = "open"
      /\ task[cmd.task].revision = job.run
      /\ job \in JobRows /\ job.run \in Runs /\ job.status = "waiting_for_human"
      /\ head = job.run
      /\ job.open = {s \in Sides : task[<<job.run, s>>].state = "open"}
  BY <1>1, CommitsOpen
<1>9. /\ replied \in [TaskIds -> TaskRows]
      /\ replied[cmd.task].state = "answered" /\ replied[cmd.task].version >= 1
      /\ replied[cmd.task].revision = job.run
      /\ \A u \in TaskIds : u # cmd.task => replied[u] = task[u]
  BY <1>2, <1>8, AnswersOne
<1>10. TypeOK /\ remaining \in SUBSET Sides  BY <1>3, <1>8 DEF Inv, JobRows
<1>11. /\ t.status = IF some THEN "waiting_for_human" ELSE "failed"
       /\ job' \in JobRows /\ job'.status = t.status /\ job'.run = job.run
       /\ job'.revision = job.revision /\ job'.open = remaining
  BY <1>5, <1>7, <1>10, AnswerMoves
<1>12. /\ task' \in [TaskIds -> TaskRows]
       /\ t.status \notin Terminal => task' = replied
       /\ \A u \in TaskIds : /\ task'[u] = replied[u] \/ Closed(replied[u], task'[u])
                             /\ t.status \in Terminal => task'[u].state # "open"
  BY <1>7, <1>9, TerminalCloses
<1>13. r \in Receipts /\ r.command = cmd /\ r.revision = None /\ r.superseded = {}
  BY <1>6, <1>8, Constants DEF Receipts, NoReceipt
<1>14. task'[cmd.task].state = "answered"  BY <1>8, <1>9, <1>12 DEF Closed
<1>15. ASSUME NEW u \in TaskIds, task[u].state \in {"answered", "superseded"}
       PROVE  task'[u].state = task[u].state
  <2>1. replied[u] = task[u]  BY <1>8, <1>9, <1>15
  <2> QED  BY <1>12, <1>15, <2>1 DEF Closed
<1>16. job.run \in Nat /\ 0 <= job.run  BY <1>8, Constants
<1>17. /\ call' \in [Calls -> CallRows] /\ receipts' \in [Keys -> Receipts]
       /\ CallsAreAdmitted' /\ AnsweredOnce' /\ ReceiptsTellTheTruth' /\ ReceiptsAreOfThePast'
       /\ \A l \in Keys : receipts'[l] = IF l = call[c].key THEN r ELSE receipts[l]
  <2>1. r.command = call[c].command  BY <1>1, <1>13
  <2>2. job'.run \in Nat /\ job.run <= job'.run /\ r.revision <= job'.run
    BY <1>11, <1>13, <1>16 DEF None
  <2>3. \A u \in r.superseded : task'[u].state = "superseded"  BY <1>13
  <2>4. r.revision # None => chain'[r.revision].parent = r.command.revision  BY <1>13
  <2>5. \A n \in 1..job.run : chain'[n] = chain[n]  BY <1>7
  <2>6. task'[r.command.task].state = "answered"  BY <1>13, <1>14
  <2> QED  BY <1>7, <1>13, <1>15, <2>1, <2>2, <2>3, <2>4, <2>5, <2>6, ReceiptAdded
<1>18. TypeOK'
  <2>1. asked' \in BOOLEAN /\ chain' \in [Runs -> Snapshots] /\ head' \in Runs \cup {None}
    BY <1>7, Types DEF Inv
  <2> QED  BY <1>11, <1>12, <1>17, <2>1 DEF TypeOK, JobRows, CallRows
<1>19. RunsFollowRevisions'
  <2>1. head # None  BY <1>8, Constants
  <2> QED  BY <1>7, <1>11, <2>1 DEF Inv, RunsFollowRevisions
<1>20. TasksAreOfTheirRun'
  <2>1. ASSUME NEW u \in TaskIds
        PROVE  \/ task'[u] = NoTask
               \/ /\ task'[u].state # "none" /\ task'[u].version >= 1
                  /\ task'[u].revision = u[1] /\ u[1] <= job'.run
                  /\ task'[u].state = "open" => u[1] = job'.run /\ job'.status \notin Terminal
    <3>1. CASE u = cmd.task
      <4>1. u[1] = job.run  BY <1>8, <3>1
      <4>2. task'[u] = replied[u]  BY <1>9, <1>12, <3>1 DEF Closed
      <4> QED  BY <1>9, <1>11, <1>16, <3>1, <4>1, <4>2
    <3>2. CASE u # cmd.task
      <4>1. replied[u] = task[u]  BY <1>9, <3>2
      <4>2. CASE task[u] = NoTask
        <5>1. task'[u] = NoTask  BY <1>12, <4>1, <4>2, Constants DEF Closed
        <5> QED  BY <5>1
      <4>3. CASE task[u] # NoTask
        BY <1>11, <1>12, <4>1, <4>3 DEF Closed, Inv, TasksAreOfTheirRun
      <4> QED  BY <4>2, <4>3
    <3> QED  BY <3>1, <3>2
  <2>2. ASSUME job'.status = "waiting_for_human"
        PROVE  /\ job'.open # {}
               /\ job'.open = {s \in Sides : task'[<<job'.run, s>>].state = "open"}
    <3>1. remaining # {} /\ task' = replied  BY <1>4, <1>11, <1>12, <2>2 DEF Terminal
    <3>2. ASSUME NEW s \in Sides
          PROVE  s \in remaining <=> replied[<<job.run, s>>].state = "open"
      <4>1. <<job.run, s>> \in TaskIds  BY <1>8 DEF TaskIds
      <4>2. s = cmd.task[2] <=> <<job.run, s>> = cmd.task  BY <1>8
      <4> QED  BY <1>3, <1>8, <1>9, <4>1, <4>2
    <3> QED  BY <1>10, <1>11, <3>1, <3>2
  <2> QED  BY <2>1, <2>2 DEF TasksAreOfTheirRun
<1>21. BatchIsComplete'  BY <1>11 DEF BatchIsComplete
<1>22. ChainIsCurrent'
  <2>1. receipts[call[c].key] = NoReceipt /\ NoReceipt.command.action = "reject"
    BY Constants DEF Committed
  <2>2. \A l \in Keys : receipts'[l].command.action \in {"confirm", "correct"} <=>
                           receipts[l].command.action \in {"confirm", "correct"}
    BY <1>1, <1>13, <1>17, <2>1
  <2>3. \A l \in Keys : \/ receipts'[l] = receipts[l]
                        \/ receipts'[l].command.action = "reject" /\ receipts[l].command.action = "reject"
    BY <1>1, <1>13, <1>17, <2>1
  <2>4. ASSUME NEW s \in Sides PROVE Corrections(s)' = Corrections(s)
    <3>1. \A l \in Keys : l \in Corrections(s)' <=> l \in Corrections(s)
      BY <2>3 DEF Corrections, Committed
    <3> QED  BY <3>1 DEF Corrections
  <2>5. ASSUME NEW s \in chain[job.run].confirmed
        PROVE  \E k \in Keys : /\ receipts'[k].command.action = "confirm"
                               /\ receipts'[k].command.task[2] = s
                               /\ \A l \in Keys : receipts'[l].command.action = "correct" =>
                                     receipts'[l].revision < receipts'[k].revision
    <3>1. PICK k \in Keys : /\ receipts[k].command.action = "confirm"
                            /\ receipts[k].command.task[2] = s
                            /\ \A l \in Keys : receipts[l].command.action = "correct" =>
                                  receipts[l].revision < receipts[k].revision
      BY DEF Inv, ChainIsCurrent
    <3>2. receipts'[k] = receipts[k]  BY <2>3, <3>1
    <3>3. \A l \in Keys : receipts'[l].command.action = "correct" => receipts'[l] = receipts[l]
      BY <2>3
    <3> QED  BY <3>1, <3>2, <3>3
  <2> QED  BY <1>7, <1>11, <2>4, <2>5 DEF Inv, ChainIsCurrent
<1> QED  BY <1>17, <1>18, <1>19, <1>20, <1>21, <1>22 DEF Inv

LEMMA RevisionType ==
  ASSUME NEW snapshot \in Snapshots, NEW parent \in Runs, NEW action, NEW s \in Sides,
         NEW new, new = NextRevision(snapshot, parent, action, s)
  PROVE  /\ new \in Snapshots /\ new.parent = parent
         /\ action = "confirm" => /\ new.value = snapshot.value
                                  /\ new.confirmed = snapshot.confirmed \cup {s}
         /\ action # "confirm" => /\ new.confirmed = {} /\ new.value[s] = snapshot.value[s] + 1
                                  /\ \A u \in Sides : u # s => new.value[u] = snapshot.value[u]
<1>1. snapshot.value \in [Sides -> Nat] /\ snapshot.confirmed \in SUBSET Sides  BY DEF Snapshots
<1>2. CASE action = "confirm"
  <2>1. PICK set \in SUBSET Sides : set = snapshot.confirmed \cup {s}  BY <1>1
  <2>2. new = [snapshot EXCEPT !.parent = parent, !.confirmed = set]
    BY <1>2, <2>1 DEF NextRevision
  <2> QED  BY <1>1, <1>2, <2>1, <2>2 DEF Snapshots
<1>3. CASE action # "confirm"
  <2>1. PICK v \in Nat : v = snapshot.value[s] + 1  BY <1>1
  <2>2. PICK value : value = [snapshot.value EXCEPT ![s] = v]  OBVIOUS
  <2>3. value \in [Sides -> Nat] /\ value[s] = v
        /\ \A u \in Sides : u # s => value[u] = snapshot.value[u]
    BY <1>1, <2>2
  <2>4. new = [snapshot EXCEPT !.parent = parent, !.value = value, !.confirmed = {}]
    BY <1>3, <2>1, <2>2 DEF NextRevision
  <2>5. new \in Snapshots /\ new.parent = parent /\ new.value = value /\ new.confirmed = {}
    BY <2>3, <2>4 DEF Snapshots
  <2> QED  BY <1>3, <2>1, <2>3, <2>5
<1> QED  BY <1>2, <1>3

\* The new revision holds the answer besides those of its parent.
LEMMA ChainGrows ==
  ASSUME Inv, NEW c \in Calls, call[c].pc = "admitted", ~Committed(call[c].key), Current(c),
         NEW cmd, cmd = call[c].command, cmd.action \in {"confirm", "correct"},
         NEW next \in Runs, next = job.run + 1, job'.run = next,
         NEW new, new = NextRevision(chain[job.run], job.run, cmd.action, cmd.task[2]),
         chain' = [chain EXCEPT ![next] = new],
         NEW r, r.command = cmd, r.revision = next,
         \A l \in Keys : receipts'[l] = IF l = call[c].key THEN r ELSE receipts[l]
  PROVE  chain' \in [Runs -> Snapshots] /\ ChainIsCurrent'
<1>1. /\ cmd \in Commands /\ cmd.version >= 1 /\ cmd.task[2] \in Sides /\ job.run \in Runs
      /\ cmd.revision = job.run
  BY CommitsOpen
<1>2. PICK key \in Keys : key = call[c].key  BY CommitsOpen
<1>3. receipts[key] = NoReceipt /\ NoReceipt.command.action = "reject"
  BY <1>2, Constants DEF Committed
<1>4. chain \in [Runs -> Snapshots] /\ chain[job.run] \in Snapshots  BY <1>1, Types DEF Inv
<1>5. PICK s \in Sides : s = cmd.task[2]  BY <1>1
<1>6. PICK action : action = cmd.action  OBVIOUS
<1>7. /\ new \in Snapshots /\ new.parent = job.run
      /\ action = "confirm" => /\ new.value = chain[job.run].value
                               /\ new.confirmed = chain[job.run].confirmed \cup {s}
      /\ action # "confirm" =>
            /\ new.confirmed = {} /\ new.value[s] = chain[job.run].value[s] + 1
            /\ \A u \in Sides : u # s => new.value[u] = chain[job.run].value[u]
  <2>1. new = NextRevision(chain[job.run], job.run, action, s)  BY <1>5, <1>6
  <2> QED  BY <1>1, <1>4, <2>1, RevisionType
<1>8. /\ chain' \in [Runs -> Snapshots] /\ chain'[next] = new
      /\ \A n \in Runs : n # next => chain'[n] = chain[n]
  BY <1>4, <1>7
<1>9. PICK old \in Nat : old = job.run /\ next = old + 1  BY <1>1, Constants
<1>10. \A n \in 2..next : chain'[n].parent = n - 1
  <2>1. SUFFICES ASSUME NEW n \in 2..next PROVE chain'[n].parent = n - 1
    OBVIOUS
  <2>2. CASE n = next  BY <1>7, <1>8, <1>9, <2>2
  <2>3. CASE n # next
    <3>1. n \in 2..old /\ n \in Runs
      <4>1. n \in Nat /\ 2 <= n /\ n <= old + 1 /\ n # old + 1  BY <1>9, <2>3
      <4>2. n <= old  BY <4>1
      <4>3. old \in Runs /\ MaxRuns \in Nat  BY <1>1, <1>9, Constants
      <4> QED  BY <4>1, <4>2, <4>3 DEF Runs
    <3>2. chain[n].parent = n - 1  BY <1>9, <3>1 DEF Inv, ChainIsCurrent
    <3> QED  BY <1>8, <2>3, <3>1, <3>2
  <2> QED  BY <2>2, <2>3
<1>11. receipts'[key] = r /\ \A l \in Keys : l # key => receipts'[l] = receipts[l]
  BY <1>2
<1>12. r # NoReceipt  BY <1>1, Constants
<1>13. ASSUME NEW u \in Sides
       PROVE  Corrections(u)' = IF action = "correct" /\ u = s
                                THEN Corrections(u) \cup {key} ELSE Corrections(u)
  <2>1. key \notin Corrections(u)  BY <1>3 DEF Corrections, Committed
  <2>2. key \in Corrections(u)' <=> action = "correct" /\ u = s
    BY <1>5, <1>6, <1>11, <1>12 DEF Corrections, Committed
  <2>3. \A l \in Keys : l # key => (l \in Corrections(u)' <=> l \in Corrections(u))
    BY <1>11 DEF Corrections, Committed
  <2>4. Corrections(u) \subseteq Keys /\ Corrections(u)' \subseteq Keys  BY DEF Corrections
  <2>5. CASE action = "correct" /\ u = s
    <3>1. \A l \in Keys : l \in Corrections(u)' <=> l \in Corrections(u) \cup {key}
      BY <2>2, <2>3, <2>5
    <3> QED  BY <2>4, <2>5, <3>1
  <2>6. CASE ~(action = "correct" /\ u = s)
    <3>1. \A l \in Keys : l \in Corrections(u)' <=> l \in Corrections(u)
      BY <2>1, <2>2, <2>3, <2>6
    <3>2. Corrections(u)' = Corrections(u)  BY <2>4, <3>1
    <3> QED  BY <2>6, <3>2
  <2> QED  BY <2>5, <2>6
<1>14. ASSUME NEW u \in Sides
       PROVE  IsFiniteSet(Corrections(u)') /\ new.value[u] = Cardinality(Corrections(u)')
  <2>1. IsFiniteSet(Corrections(u)) /\ chain[job.run].value[u] = Cardinality(Corrections(u))
    BY DEF Inv, ChainIsCurrent
  <2>2. key \notin Corrections(u)  BY <1>3 DEF Corrections, Committed
  <2>3. CASE action = "correct" /\ u = s
    <3>1. Corrections(u)' = Corrections(u) \cup {key}  BY <1>13, <2>3
    <3>2. /\ IsFiniteSet(Corrections(u) \cup {key})
          /\ Cardinality(Corrections(u) \cup {key}) = Cardinality(Corrections(u)) + 1
      BY <2>1, <2>2, FS_AddElement
    <3>3. new.value[u] = chain[job.run].value[u] + 1  BY <1>7, <2>3
    <3>4. new.value[u] = Cardinality(Corrections(u) \cup {key})  BY <2>1, <3>2, <3>3
    <3> QED  BY <3>1, <3>2, <3>4
  <2>4. CASE ~(action = "correct" /\ u = s)
    <3>1. Corrections(u)' = Corrections(u)  BY <1>13, <2>4
    <3>2. new.value[u] = chain[job.run].value[u]  BY <1>6, <1>7, <2>4
    <3> QED  BY <2>1, <3>1, <3>2
  <2> QED  BY <2>3, <2>4
<1>15. ASSUME NEW u \in new.confirmed
       PROVE  \E k \in Keys : /\ receipts'[k].command.action = "confirm"
                              /\ receipts'[k].command.task[2] = u
                              /\ \A l \in Keys : receipts'[l].command.action = "correct" =>
                                    receipts'[l].revision < receipts'[k].revision
  <2>1. action = "confirm" /\ (u = s \/ u \in chain[job.run].confirmed)
    BY <1>7, <1>15
  <2>2. \A l \in Keys : receipts'[l].command.action = "correct" => receipts'[l] = receipts[l]
    BY <1>6, <1>11, <2>1
  <2>3. CASE u = s
    <3>1. receipts'[key].command.action = "confirm" /\ receipts'[key].command.task[2] = u
          /\ receipts'[key].revision = next
      BY <1>5, <1>6, <1>11, <2>1, <2>3
    <3>2. ASSUME NEW l \in Keys, receipts'[l].command.action = "correct"
          PROVE  receipts'[l].revision < next
      <4>1. receipts'[l] = receipts[l] /\ receipts[l] \in Receipts
        BY <2>2, <3>2, Types DEF Inv
      <4>2. PICK n \in Nat : n = receipts[l].revision  BY <4>1, Constants DEF Receipts, None
      <4>3. n <= old  BY <1>9, <4>2 DEF Inv, ReceiptsAreOfThePast
      <4>4. n < old + 1  BY <4>3
      <4> QED  BY <1>9, <4>1, <4>2, <4>4
    <3> QED  BY <3>1, <3>2
  <2>4. CASE u \in chain[job.run].confirmed
    <3>1. PICK k \in Keys : /\ receipts[k].command.action = "confirm"
                            /\ receipts[k].command.task[2] = u
                            /\ \A l \in Keys : receipts[l].command.action = "correct" =>
                                  receipts[l].revision < receipts[k].revision
      BY <2>4 DEF Inv, ChainIsCurrent
    <3>2. receipts'[k] = receipts[k]  BY <1>3, <1>11, <3>1
    <3> QED  BY <2>2, <3>1, <3>2
  <2> QED  BY <2>1, <2>3, <2>4
<1>16. ChainIsCurrent'
  <2>1. \A n \in 2..job'.run : chain'[n].parent = n - 1  BY <1>10
  <2>2. chain'[job'.run] = new  BY <1>8
  <2>3. \A u \in Sides : /\ IsFiniteSet(Corrections(u)')
                         /\ chain'[job'.run].value[u] = Cardinality(Corrections(u)')
    BY <1>14, <2>2
  <2>4. \A u \in chain'[job'.run].confirmed : \E k \in Keys :
           /\ receipts'[k].command.action = "confirm"
           /\ receipts'[k].command.task[2] = u
           /\ \A l \in Keys : receipts'[l].command.action = "correct" =>
                 receipts'[l].revision < receipts'[k].revision
    BY <1>15, <2>2
  <2> QED  BY <2>1, <2>3, <2>4 DEF ChainIsCurrent
<1> QED  BY <1>8, <1>16

LEMMA ResumeStep ==
  ASSUME Inv, NEW c \in Calls, call[c].pc = "admitted", ~Committed(call[c].key), Current(c),
         Apply(c), call[c].command.action # "reject",
         call' = [call EXCEPT ![c].pc = "accepted"], asked' = asked
  PROVE  Inv'
<1>1. PICK cmd : cmd = call[c].command  OBVIOUS
<1>2. PICK replied : replied = Answered(cmd.task)  OBVIOUS
<1>3. PICK stale : stale = Stale(cmd.task)  OBVIOUS
<1>4. PICK some \in BOOLEAN : some = TRUE  OBVIOUS
<1>5. PICK t : t = Transition("human_response_committed", some)  OBVIOUS
<1>6. /\ cmd \in Commands /\ cmd.version >= 1 /\ call[c].key \in Keys
      /\ cmd.task \in TaskIds /\ cmd.task = <<job.run, cmd.task[2]>> /\ cmd.task[2] \in Sides
      /\ task[cmd.task] \in TaskRows /\ task[cmd.task].state = "open"
      /\ task[cmd.task].revision = job.run
      /\ job \in JobRows /\ job.run \in Runs
      /\ cmd.revision = job.run /\ head = job.run /\ call[c].head = job.run
  BY <1>1, CommitsOpen
<1>7. PICK old \in Nat : old = job.run  BY <1>6, Constants
<1>8. PICK next : next = old + 1  OBVIOUS
<1>9. PICK new : new = NextRevision(chain[job.run], job.run, cmd.action, cmd.task[2])  OBVIOUS
<1>10. PICK r : r = [command |-> cmd, revision |-> next, superseded |-> stale]  OBVIOUS
<1>11. PICK j : j = Moved(t, {})  OBVIOUS
<1>writes. /\ Transition("human_response_committed", TRUE) # Conflict
      /\ job.run + 1 \in Runs /\ head' = head + 1
      /\ job' = [Moved(Transition("human_response_committed", TRUE), {})
                    EXCEPT !.run = @ + 1, !.revision = head + 1]
      /\ task' = [u \in TaskIds |->
                    IF u \in Stale(call[c].command.task)
                    THEN [Answered(call[c].command.task)[u] EXCEPT !.state = "superseded",
                                                                   !.version = @ + 1]
                    ELSE Answered(call[c].command.task)[u]]
      /\ chain' = [chain EXCEPT ![head + 1] =
                      NextRevision(chain[call[c].head], call[c].head, call[c].command.action,
                                   call[c].command.task[2])]
      /\ receipts' = [receipts EXCEPT ![call[c].key] =
                         [command |-> call[c].command, revision |-> head + 1,
                          superseded |-> Stale(call[c].command.task)]]
  BY DEF Apply, Answered, Stale
<1>12. /\ t # Conflict /\ next \in Runs /\ head' = next
       /\ job' = [j EXCEPT !.run = @ + 1, !.revision = next]
       /\ chain' = [chain EXCEPT ![next] = new]
       /\ receipts' = [receipts EXCEPT ![call[c].key] = r]
  BY <1>1, <1>3, <1>4, <1>5, <1>6, <1>7, <1>8, <1>9, <1>10, <1>11, <1>writes
<1>13. /\ task' = [u \in TaskIds |->
                     IF u \in stale
                     THEN [replied[u] EXCEPT !.state = "superseded", !.version = @ + 1]
                     ELSE replied[u]]
       /\ stale = {u \in TaskIds : replied[u].state = "open" /\ replied[u].revision = head}
  <2>1. task' = [u \in TaskIds |->
                     IF u \in stale
                     THEN [replied[u] EXCEPT !.state = "superseded", !.version = @ + 1]
                     ELSE replied[u]]
    BY <1>1, <1>2, <1>3, <1>writes
  <2>2. stale = {u \in TaskIds : replied[u].state = "open" /\ replied[u].revision = head}
    BY <1>2, <1>3 DEF Stale
  <2> QED  BY <2>1, <2>2
<1>14. /\ replied \in [TaskIds -> TaskRows]
       /\ replied[cmd.task].state = "answered" /\ replied[cmd.task].version >= 1
       /\ replied[cmd.task].revision = job.run
       /\ \A u \in TaskIds : u # cmd.task => replied[u] = task[u]
  BY <1>2, <1>6, AnswersOne
<1>15. /\ j \in JobRows /\ j.status = "queued" /\ j.run = job.run /\ j.revision = job.revision
       /\ j.open = {}
  BY <1>5, <1>11, <1>12, AnswerMoves DEF Inv
<1>16. /\ job' \in JobRows /\ job'.status = "queued" /\ job'.run = next /\ job'.revision = next
       /\ job'.open = {}
  <2>1. job' = [j EXCEPT !.run = next, !.revision = next]  BY <1>7, <1>8, <1>12, <1>15 DEF JobRows
  <2> QED  BY <1>12, <1>15, <2>1 DEF JobRows
<1>17. ASSUME NEW u \in TaskIds
       PROVE  /\ task'[u] \in TaskRows
              /\ u \in stale => Closed(replied[u], task'[u])
              /\ u \notin stale => task'[u] = replied[u]
  <2>1. replied[u] \in TaskRows  BY <1>14
  <2>2. CASE u \in stale
    <3>1. PICK row : row = task'[u]  OBVIOUS
    <3>2. row = [replied[u] EXCEPT !.state = "superseded", !.version = @ + 1]
      BY <1>13, <2>2, <3>1
    <3>3. replied[u].state = "open"  BY <1>13, <2>2
    <3>4. row \in TaskRows /\ Closed(replied[u], row)  BY <2>1, <3>2, <3>3, Closes
    <3> QED  BY <2>2, <3>1, <3>4
  <2>3. CASE u \notin stale  BY <1>13, <2>1, <2>3
  <2> QED  BY <2>2, <2>3
<1>18. task' \in [TaskIds -> TaskRows]
  <2>1. \A u \in TaskIds : task'[u] \in TaskRows  BY <1>17
  <2> QED  BY <1>13, <2>1
<1>19. r \in Receipts /\ r.command = cmd /\ r.revision = next /\ r.superseded = stale
  BY <1>13, <1>6, <1>10, <1>12 DEF Receipts
<1>20. ASSUME NEW u \in TaskIds, task[u].state \in {"answered", "superseded"}
       PROVE  task'[u].state = task[u].state
  <2>1. replied[u] = task[u]  BY <1>6, <1>14, <1>20
  <2>2. u \notin stale  BY <1>13, <1>20, <2>1
  <2> QED  BY <1>17, <2>1, <2>2
<1>21. cmd.action \in {"confirm", "correct"}  BY <1>1, <1>6 DEF Commands
<1>22. next \in Nat /\ old <= next /\ next # old  BY <1>7, <1>8
<1>23. chain' \in [Runs -> Snapshots] /\ chain'[next] = new
       /\ new.parent = job.run /\ \A n \in Runs : n # next => chain'[n] = chain[n]
  <2>1. chain \in [Runs -> Snapshots] /\ chain[job.run] \in Snapshots  BY <1>6, Types DEF Inv
  <2>2. new \in Snapshots /\ new.parent = job.run  BY <1>6, <1>9, <2>1, RevisionType
  <2> QED  BY <1>12, <2>1, <2>2
<1>24. /\ call' \in [Calls -> CallRows] /\ receipts' \in [Keys -> Receipts]
       /\ CallsAreAdmitted' /\ AnsweredOnce' /\ ReceiptsTellTheTruth' /\ ReceiptsAreOfThePast'
       /\ \A l \in Keys : receipts'[l] = IF l = call[c].key THEN r ELSE receipts[l]
  <2>1. r.command = call[c].command  BY <1>1, <1>19
  <2>2. job'.run \in Nat /\ job.run <= job'.run /\ r.revision <= job'.run
    BY <1>7, <1>16, <1>19, <1>22
  <2>3. \A u \in r.superseded : task'[u].state = "superseded"
    <3>1. stale \subseteq TaskIds  BY <1>13
    <3> QED  BY <1>17, <1>19, <3>1 DEF Closed
  <2>4. r.revision # None => chain'[r.revision].parent = r.command.revision
    BY <1>6, <1>19, <1>23
  <2>5. \A n \in 1..job.run : chain'[n] = chain[n]
    <3>1. ASSUME NEW n \in 1..job.run PROVE n \in Runs /\ n # next
      <4>1. n \in Nat /\ 1 <= n /\ n <= old  BY <1>7
      <4>2. old \in Runs /\ MaxRuns \in Nat  BY <1>6, <1>7, Constants
      <4> QED  BY <1>8, <4>1, <4>2 DEF Runs
    <3> QED  BY <1>23, <3>1
  <2>6. task'[r.command.task].state = "answered"
    <3>1. cmd.task \notin stale  BY <1>13, <1>14
    <3> QED  BY <1>6, <1>14, <1>17, <1>19, <3>1
  <2> QED  BY <1>12, <1>19, <1>20, <2>1, <2>2, <2>3, <2>4, <2>5, <2>6, ReceiptAdded
<1>25. TypeOK'
  <2>1. asked' \in BOOLEAN /\ head' \in Runs \cup {None}  BY <1>12, Types DEF Inv
  <2> QED  BY <1>16, <1>18, <1>23, <1>24, <2>1 DEF TypeOK, JobRows, CallRows
<1>26. RunsFollowRevisions'
  BY <1>12, <1>16, Constants DEF RunsFollowRevisions
<1>27. TasksAreOfTheirRun'
  <2>1. ASSUME NEW u \in TaskIds
        PROVE  \/ task'[u] = NoTask
               \/ /\ task'[u].state # "none" /\ task'[u].version >= 1
                  /\ task'[u].revision = u[1] /\ u[1] <= job'.run
                  /\ task'[u].state # "open"
    <3>1. CASE u = cmd.task
      <4>1. u[1] = old /\ u \notin stale
        <5>1. u[1] = old  BY <1>6, <1>7, <3>1
        <5>2. u \notin stale  BY <1>13, <1>14, <3>1
        <5> QED  BY <5>1, <5>2
      <4>2. task'[u] = replied[u]  BY <1>17, <4>1
      <4> QED  BY <1>7, <1>14, <1>16, <1>22, <3>1, <4>1, <4>2
    <3>2. CASE u # cmd.task
      <4>1. replied[u] = task[u]  BY <1>14, <3>2
      <4>2. CASE task[u] = NoTask
        BY <1>13, <1>17, <4>1, <4>2, Constants
      <4>3. CASE task[u] # NoTask
        <5>1. /\ task[u].state # "none" /\ task[u].version >= 1
              /\ task[u].revision = u[1] /\ u[1] <= job.run
              /\ task[u].state = "open" => u[1] = job.run
          BY <4>3 DEF Inv, TasksAreOfTheirRun
        <5>2. PICK n \in Nat : n = u[1]  BY Constants DEF TaskIds
        <5>3. u[1] <= job'.run  BY <1>7, <1>16, <1>22, <5>1, <5>2
        <5>4. task[u].state = "open" => u \in stale  BY <1>13, <1>6, <4>1, <5>1
        <5>5. CASE u \in stale  BY <1>17, <4>1, <5>1, <5>3, <5>5 DEF Closed
        <5>6. CASE u \notin stale  BY <1>17, <4>1, <5>1, <5>3, <5>4, <5>6
        <5> QED  BY <5>5, <5>6
      <4> QED  BY <4>2, <4>3
    <3> QED  BY <3>1, <3>2
  <2> QED  BY <1>16, <2>1 DEF TasksAreOfTheirRun
<1>28. BatchIsComplete'  BY <1>16 DEF BatchIsComplete
<1>29. ChainIsCurrent'
  <2>1. next = job.run + 1 /\ job'.run = next  BY <1>7, <1>8, <1>16
  <2> QED  BY <1>1, <1>9, <1>12, <1>19, <1>21, <1>24, <2>1, ChainGrows
<1> QED  BY <1>24, <1>25, <1>26, <1>27, <1>28, <1>29 DEF Inv

LEMMA CommitStep ==
  ASSUME Inv, NEW c \in Calls, Commit(c)
  PROVE  Inv'
<1>1. call[c].pc = "admitted"  BY DEF Commit
<1>2. CASE /\ ~Committed(call[c].key) /\ Current(c) /\ Apply(c)
           /\ call' = [call EXCEPT ![c].pc = "accepted"] /\ UNCHANGED asked
  <2>1. CASE call[c].command.action = "reject"  BY <1>1, <1>2, <2>1, RejectStep
  <2>2. CASE call[c].command.action # "reject"  BY <1>1, <1>2, <2>2, ResumeStep
  <2> QED  BY <2>1, <2>2
<1>3. CASE /\ call' = [call EXCEPT ![c].pc =
                     IF Committed(call[c].key) /\ Replayed(c) THEN "accepted" ELSE "refused"]
           /\ UNCHANGED <<job, asked, chain, head, task, receipts>>
  BY <1>1, <1>3, RefusedStep
<1> QED  BY <1>2, <1>3 DEF Commit

(***************************************************************************)
(* The invariant holds                                                     *)
(***************************************************************************)

LEMMA InitInv == Init => Inv
<1> SUFFICES ASSUME Init PROVE Inv
  OBVIOUS
<1>1. PICK value : value = [s \in Sides |-> 0]  OBVIOUS
<1>2. value \in [Sides -> Nat] /\ \A s \in Sides : value[s] = 0  BY <1>1
<1>3. PICK row : row = [parent |-> None, value |-> value, confirmed |-> {}]  OBVIOUS
<1>4. row \in Snapshots /\ row.value = value /\ row.confirmed = {}
  BY <1>2, <1>3 DEF Snapshots
<1>5. chain = [n \in Runs |-> row]  BY <1>1, <1>3 DEF Init
<1>6. /\ job = [status |-> "queued", run |-> 1, revision |-> 1, attempt |-> 0, claims |-> 0,
                attempts |-> 0, takeovers |-> 0, cancel |-> FALSE, open |-> {}]
      /\ asked = FALSE /\ head = None /\ task = [t \in TaskIds |-> NoTask]
      /\ receipts = [k \in Keys |-> NoReceipt] /\ call = [c \in Calls |-> IdleCall]
  BY DEF Init, None
<1>7. job \in JobRows /\ job.status = "queued" /\ job.run = 1 /\ job.revision = 1
  BY <1>6, Constants DEF JobRows, Statuses, Claimable
<1>8. TypeOK
  <2>1. chain \in [Runs -> Snapshots]  BY <1>4, <1>5
  <2>2. /\ task \in [TaskIds -> TaskRows] /\ receipts \in [Keys -> Receipts]
        /\ call \in [Calls -> CallRows]
    BY <1>6, Constants
  <2> QED  BY <1>6, <1>7, <2>1, <2>2, Typed
<1>9. RunsFollowRevisions  BY <1>6, <1>7 DEF RunsFollowRevisions
<1>10. TasksAreOfTheirRun  BY <1>6, <1>7 DEF TasksAreOfTheirRun
<1>11. BatchIsComplete  BY <1>6 DEF BatchIsComplete
<1>12. CallsAreAdmitted  BY <1>6, Constants DEF CallsAreAdmitted
<1>13. \A k \in Keys : ~Committed(k) /\ receipts[k] = NoReceipt  BY <1>6 DEF Committed
<1>14. AnsweredOnce  BY <1>13 DEF AnsweredOnce
<1>15. ReceiptsTellTheTruth  BY <1>6, <1>13, Constants DEF ReceiptsTellTheTruth
<1>16. ReceiptsAreOfThePast  BY <1>7, <1>13, Constants DEF ReceiptsAreOfThePast, None
<1>17. ChainIsCurrent
  <2>1. \A s \in Sides : Corrections(s) = {}  BY <1>13 DEF Corrections
  <2>2. IsFiniteSet({}) /\ Cardinality({}) = 0  BY FS_EmptySet
  <2>3. chain[1].value = value /\ chain[1].confirmed = {}  BY <1>4, <1>5, Constants
  <2>4. 2..1 = {}  OBVIOUS
  <2> QED  BY <1>2, <1>7, <2>1, <2>2, <2>3, <2>4 DEF ChainIsCurrent
<1> QED  BY <1>8, <1>9, <1>10, <1>11, <1>12, <1>14, <1>15, <1>16, <1>17 DEF Inv

LEMMA NextInv == Inv /\ [Next]_vars => Inv'
<1> SUFFICES ASSUME Inv, [Next]_vars PROVE Inv'
  OBVIOUS
<1>1. CASE JobNext
  BY <1>1, ClaimStep, PrepareStep, RegisterStep, ParkStep, EndAttemptStep, ScheduleRetryStep,
     CancelStep DEF JobNext
<1>2. CASE \E c \in Calls : CallNext(c)
  BY <1>2, BeginStep, RetryStep, ReadTaskStep, ReadReceiptStep, CommitStep, ForgetStep
     DEF CallNext
<1>3. CASE UNCHANGED vars
  <2>1. \A s \in Sides : Corrections(s)' = Corrections(s)
    BY <1>3 DEF vars, Corrections, Committed
  <2> QED
    BY <1>3, <2>1 DEF vars, Inv, TypeOK, RunsFollowRevisions, TasksAreOfTheirRun,
       BatchIsComplete, CallsAreAdmitted, AnsweredOnce, ReceiptsTellTheTruth,
       ReceiptsAreOfThePast, ChainIsCurrent, Committed
<1> QED  BY <1>1, <1>2, <1>3 DEF Next

\* The inductive invariant of the tasks: a question is open only in the current run of a
\* live job, an admitted call has seen its question open, and the chain up to the
\* current run holds what the receipts say.
THEOREM InvHolds == Spec => []Inv
<1> QED  BY InitInv, NextInv, PTL DEF Spec

\* Concurrent responses, under keys and from pages of any age, never both commit for one
\* question, and what is shown as open could be replied.
THEOREM QuestionsSettledOnce == Spec => []QuestionsAreSettledOnce
<1>1. Inv => QuestionsAreSettledOnce
  <2> SUFFICES ASSUME Inv PROVE QuestionsAreSettledOnce
    OBVIOUS
  <2>1. ASSUME NEW t \in TaskIds, task[t].state = "open"
        PROVE  /\ t[1] = job.run /\ task[t].revision = job.revision /\ head = job.revision
               /\ job.status \notin Terminal
    <3>1. task[t] # NoTask  BY <2>1, Constants
    <3> QED  BY <2>1, <3>1 DEF Inv, TasksAreOfTheirRun, RunsFollowRevisions
  <2>2. OpenQuestionsAreCurrent
    BY <2>1 DEF Inv, TasksAreOfTheirRun, OpenQuestionsAreCurrent
  <2> QED  BY <2>2 DEF Inv, QuestionsAreSettledOnce
<1> QED  BY <1>1, InvHolds, PTL

\* What a receipt says happened has happened and stays so, and an accepted call holds the
\* receipt of its own command.
THEOREM ReceiptsTrue == Spec => []ReceiptsTellTheTruth
<1>1. Inv => ReceiptsTellTheTruth  BY DEF Inv
<1> QED  BY <1>1, InvHolds, PTL

\* The material of the current revision holds every committed correction, on one linear
\* chain, and no confirmation that was given before one.
THEOREM MaterialHolds == Spec => []MaterialIsWhatWasAnswered
<1>1. Inv => MaterialIsWhatWasAnswered
  <2> SUFFICES ASSUME Inv PROVE MaterialIsWhatWasAnswered
    OBVIOUS
  <2>1. head # None => head = job.run  BY DEF Inv, RunsFollowRevisions
  <2>2. NoAnswerLost  BY <2>1 DEF Inv, ChainIsCurrent, NoAnswerLost, Corrections
  <2>3. ConfirmationsAreCurrent
    BY <2>1 DEF Inv, ChainIsCurrent, ConfirmationsAreCurrent
  <2> QED  BY <2>2, <2>3 DEF MaterialIsWhatWasAnswered
<1> QED  BY <1>1, InvHolds, PTL

\* However a retry overlaps the call it repeats, it is never refused once that committed.
THEOREM RetryHonoured == Spec => ExactRetryIsHonoured
<1>1. Inv /\ [Next]_vars =>
        [\A c \in Calls :
            /\ call[c].pc \in {"sent", "read", "admitted"}
            /\ Committed(call[c].key)
            /\ receipts[call[c].key].command = call[c].command
            => call'[c].pc # "refused"]_vars
  <2> SUFFICES ASSUME Inv, Next, NEW c \in Calls,
                      call[c].pc \in {"sent", "read", "admitted"}, Committed(call[c].key),
                      receipts[call[c].key].command = call[c].command
               PROVE  call'[c].pc # "refused"
    OBVIOUS
  <2>1. call \in [Calls -> CallRows]  BY Types DEF Inv
  <2>2. CASE JobNext
    <3>1. call' = call
      BY <2>2 DEF JobNext, Claim, Prepare, Register, Park, EndAttempt, ScheduleRetry, Cancel
    <3> QED  BY <3>1
  <2>3. ASSUME NEW d \in Calls, CallNext(d), d # c
        PROVE  call'[c].pc # "refused"
    <3>1. call'[c] = call[c]
      BY <2>1, <2>3 DEF CallNext, Begin, Retry, ReadTask, ReadReceipt, Commit, Forget
    <3> QED  BY <3>1
  <2>4. CASE CallNext(c)
    <3>1. CASE ReadTask(c)  BY <2>1, <3>1 DEF ReadTask, CallRows
    <3>2. CASE ReadReceipt(c)  BY <2>1, <3>2 DEF ReadReceipt, Replayed, CallRows
    <3>3. CASE Commit(c)  BY <2>1, <3>3 DEF Commit, Replayed, CallRows
    <3> QED  BY <2>4, <3>1, <3>2, <3>3 DEF CallNext, Begin, Retry, Forget
  <2> QED  BY <2>2, <2>3, <2>4 DEF Next
<1> QED  BY <1>1, InvHolds, PTL DEF Spec, ExactRetryIsHonoured

-----------------------------------------------------------------------------
(* The local task service (WorkflowTasks).  The stored review is compared     *)
(* with the one the current material would get, because the receipt may come  *)
(* and go between them without changing what else is wrong.                   *)

\* An open question is about the active run and revision and has not been answered; one
\* about a side asks a factor finding that a review of the current material would make.
OpenTasksAskNow ==
    \A i \in Open :
       /\ tasks[i].run = run /\ tasks[i].rev = rev /\ tasks[i].version = 1
       /\ tasks[i].kind \in SideKinds =>
             tasks[i].subject \in Ids /\ tasks[i].findings \subseteq Unverified(material, TRUE)

\* The stored review of a run that does not wait for one found what is wrong with the
\* current material; only the receipt may have come or gone since.
ReviewIsOfTheRevision ==
    ~pending => /\ review.rev = rev
                /\ review.bad \ {Finding("approval", "none", "none")} = Unverified(material, TRUE)

\* Confirmations the service holds were given since the last other change, and after the
\* first answer every confirmed side is confirmed by the one person who gave the last.
ConfirmedByOne(n) ==
    \A id \in Ids : material.sides[id].method = "confirmed" =>
       material.sides[id].by = n /\ <<n, SideReference(material, id)>> \in heard
ConfirmationsWereHeard ==
    /\ confirmed \subseteq heard
    /\ rev > 1 => \E n \in Names : ConfirmedByOne(n)

\* A handoff of the current revision has a blocker for every factor finding, and one in
\* the same comparison for every calculation finding.
Asks(blockers, id) == \E blocker \in blockers, k \in SideKinds : blocker.id = <<k, id>>
HandoffCoversTheMaterial ==
    handoff.rev = rev /\ handoff.blockers # {} =>
       \A f \in Unverified(material, TRUE) : f.kind \in {"factor", "calculation"} =>
          \E id \in Ids : /\ Asks(handoff.blockers, id) /\ FactorOf(id).context = f.context
                          /\ f.kind = "factor" => FactorOf(id) = f

\* The last batch belongs to a run that has been reviewed and covers the findings.
Hides(covered, bad) ==
    \E f \in bad : f \notin covered /\ ~(f.kind = "calculation" /\ \E x \in covered : x.context = f.context)
BatchCoversTheReview ==
    batch # {} => ~pending /\ ~Hides(UNION {tasks[i].findings : i \in batch}, review.bad)

LocalInv ==
    /\ LocalTypeOK /\ OpenTasksAskNow /\ ReviewIsOfTheRevision
    /\ ConfirmationsWereHeard /\ HandoffCoversTheMaterial /\ BatchCoversTheReview

-----------------------------------------------------------------------------
(* The local task service.  Sequences of finite sets.                        *)

LEMMA SequenceOfSet ==
  ASSUME NEW S, IsFiniteSet(S)
  PROVE  /\ SetToSeq(S) \in Seq(S) /\ Len(SetToSeq(S)) = Cardinality(S)
         /\ \A x \in S : \E i \in 1 .. Cardinality(S) : SetToSeq(S)[i] = x
<1> DEFINE n == Cardinality(S)
           q == SetToSeq(S)
<1>1. n \in Nat /\ ExistsBijection(1 .. n, S)  BY FS_CardinalityType
<1>2. PICK f : f \in [1 .. n -> S] /\ \A i, j \in 1 .. n : f[i] = f[j] => i = j
  BY <1>1 DEF ExistsBijection, Bijection, Injection, IsInjective
<1>3. f \in [1 .. n -> S] /\ IsInjective(f)  BY <1>2 DEF IsInjective
<1>4. q \in [1 .. n -> S] /\ IsInjective(q)  BY <1>3 DEF SetToSeq
<1>5. q \in Seq(S) /\ Len(q) = n  BY <1>1, <1>4
<1>6. ASSUME NEW x \in S, \A i \in 1 .. n : q[i] # x  PROVE FALSE
  <2> DEFINE R == S \ {x}
  <2>1. IsFiniteSet(R) /\ Cardinality(R) = n - 1  BY FS_RemoveElement, <1>6
  <2>2. q \in [1 .. n -> R] /\ \A i, j \in 1 .. n : q[i] = q[j] => i = j  BY <1>4, <1>6 DEF IsInjective
  <2>3. IsFiniteSet(1 .. n) /\ Cardinality(1 .. n) = n  BY <1>1, FS_Interval
  <2>4. q \in Injection(1 .. n, R)  BY <2>2 DEF Injection, IsInjective
  <2>5. Cardinality(1 .. n) <= Cardinality(R)  BY <2>1, <2>4, FS_Injection
  <2> QED  BY <1>1, <2>1, <2>3, <2>5
<1> QED  BY <1>5, <1>6

\* Tasks created together are appended, and each new one is asked by an open task.
LEMMA CreateAppends ==
  ASSUME NEW new, IsFiniteSet(new), new \subseteq LocalTasks, \A x \in new : x.state = "open",
         tasks \in Seq(LocalTasks), Create(new)
  PROVE  /\ tasks' \in Seq(LocalTasks) /\ Len(tasks) <= Len(tasks')
         /\ \A i \in DOMAIN tasks : i \in DOMAIN tasks' /\ tasks'[i] = tasks[i]
         /\ \A i \in DOMAIN tasks' : i \in DOMAIN tasks \/ tasks'[i] \in new
         /\ \A x \in new : \E i \in DOMAIN tasks' : tasks'[i].state = "open" /\ Same(tasks'[i], x)
<1> DEFINE S == Unasked(new)
           q == SetToSeq(S)
<1>1. S \in SUBSET new  BY DEF Unasked
<1>2. IsFiniteSet(S)  BY <1>1, FS_Subset
<1>3. q \in Seq(S) /\ Len(q) = Cardinality(S) /\ \A x \in S : \E i \in 1 .. Cardinality(S) : q[i] = x
  BY <1>2, SequenceOfSet
<1>4. q \in Seq(LocalTasks) /\ \A i \in 1 .. Len(q) : q[i] \in S
  <2>1. \A i \in 1 .. Len(q) : q[i] \in S  BY <1>3
  <2> QED  BY <1>1, <1>3, <2>1
<1>5. tasks' = tasks \o q  BY DEF Create
<1> HIDE DEF q, S
<1>6. /\ tasks' \in Seq(LocalTasks) /\ Len(tasks') = Len(tasks) + Len(q)
      /\ \A i \in 1 .. Len(tasks') : tasks'[i] = IF i <= Len(tasks) THEN tasks[i] ELSE q[i - Len(tasks)]
  BY <1>4, <1>5
<1>7. Len(tasks) \in Nat /\ Len(q) \in Nat /\ DOMAIN tasks = 1 .. Len(tasks) /\ DOMAIN tasks' = 1 .. Len(tasks')
  BY <1>4, <1>6
<1>8. \A i \in DOMAIN tasks : i \in DOMAIN tasks' /\ tasks'[i] = tasks[i]  BY <1>6, <1>7
<1>9. \A i \in DOMAIN tasks' : i \in DOMAIN tasks \/ tasks'[i] \in new
  <2> TAKE i \in DOMAIN tasks'
  <2>1. CASE i <= Len(tasks)  BY <2>1, <1>7
  <2>2. CASE i > Len(tasks)
    <3>1. i - Len(tasks) \in 1 .. Len(q) /\ tasks'[i] = q[i - Len(tasks)]  BY <2>2, <1>6, <1>7
    <3> QED  BY <3>1, <1>1, <1>4
  <2> QED  BY <2>1, <2>2, <1>7
<1>10. ASSUME NEW x \in new  PROVE \E i \in DOMAIN tasks' : tasks'[i].state = "open" /\ Same(tasks'[i], x)
  <2>1. CASE x \in S
    <3>1. PICK i \in 1 .. Len(q) : q[i] = x  BY <2>1, <1>3
    <3>2. Len(tasks) + i \in DOMAIN tasks' /\ tasks'[Len(tasks) + i] = x  BY <3>1, <1>6, <1>7
    <3> QED  BY <3>2 DEF Same
  <2>2. CASE x \notin S
    <3>1. PICK i \in Open : Same(tasks[i], x)  BY <2>2 DEF S, Unasked
    <3>2. i \in DOMAIN tasks /\ tasks[i].state = "open"  BY <3>1 DEF Open
    <3> QED  BY <3>1, <3>2, <1>8
  <2> QED  BY <2>1, <2>2
<1> QED  BY <1>6, <1>7, <1>8, <1>9, <1>10

-----------------------------------------------------------------------------
(* Material, findings and tasks.                                             *)

LEMMA ReferenceIsTyped ==
  ASSUME NEW m \in MaterialRows, NEW id \in Ids
  PROVE  SideReference(m, id) \in Shown /\ m.sides[id] \in SideRows
BY DEF SideReference, MaterialRows, SideRows, Shown

\* Revising keeps every side's value and evidence and leaves none confirmed.
LEMMA ReviseForgets ==
  ASSUME NEW old, NEW m \in MaterialRows
  PROVE  /\ Revise(old, m) \in MaterialRows
         /\ \A id \in Ids : /\ Revise(old, m).sides[id].method # "confirmed"
                            /\ SideReference(Revise(old, m), id) = SideReference(m, id)
<1> DEFINE side(id) == [m.sides[id] EXCEPT !.by = "nobody",
                          !.method = IF @ = "native" /\ SideReference(old, id) = SideReference(m, id) THEN "native" ELSE "proposed"]
<1>1. ASSUME NEW id \in Ids
      PROVE  /\ side(id) \in SideRows /\ side(id).method # "confirmed"
             /\ side(id).value = m.sides[id].value /\ side(id).evidence = m.sides[id].evidence
  <2>1. m.sides[id] \in SideRows  BY ReferenceIsTyped
  <2>2. PICK b \in {"native", "proposed"} :
           b = IF m.sides[id].method = "native" /\ SideReference(old, id) = SideReference(m, id) THEN "native" ELSE "proposed"
    OBVIOUS
  <2>3. side(id) = [m.sides[id] EXCEPT !.by = "nobody", !.method = b]  BY <2>2
  <2> HIDE DEF side
  <2>4. PICK x : x = side(id)  OBVIOUS
  <2>5. x = [m.sides[id] EXCEPT !.by = "nobody", !.method = b]  BY <2>3, <2>4
  <2>6. x.method = b  BY <2>1, <2>5 DEF SideRows
  <2>7. "nobody" \in Names  BY DEF Names
  <2>8. x \in SideRows  BY <2>1, <2>5, <2>7 DEF SideRows
  <2>9. x.value = m.sides[id].value /\ x.evidence = m.sides[id].evidence  BY <2>1, <2>5 DEF SideRows
  <2> QED  BY <2>4, <2>6, <2>8, <2>9
<1> HIDE DEF side
<1>2. Revise(old, m) = [m EXCEPT !.sides = [id \in Ids |-> side(id)]]  BY DEF Revise, side
<1>3. Revise(old, m) \in MaterialRows /\ Revise(old, m).sides = [id \in Ids |-> side(id)]
  BY <1>1, <1>2 DEF MaterialRows
<1> QED  BY <1>1, <1>3 DEF SideReference

LEMMA ApproveRulesForgets ==
  ASSUME NEW m \in MaterialRows
  PROVE  /\ ApproveRules(m) \in MaterialRows
         /\ \A id \in Ids : ApproveRules(m).sides[id].method # "confirmed"
<1>1. Revise(m, m) \in MaterialRows /\ \A id \in Ids : Revise(m, m).sides[id].method # "confirmed"
  BY ReviseForgets
<1> QED  BY <1>1 DEF ApproveRules, MaterialRows

LEMMA CorrectForgets ==
  ASSUME NEW m \in MaterialRows, NEW id \in Ids, NEW p \in Proposals
  PROVE  /\ Correct(m, id, p) \in MaterialRows
         /\ \A o \in Ids : Correct(m, id, p).sides[o].method # "confirmed"
<1> DEFINE changed == [m EXCEPT !.sides[id].value = p.value, !.sides[id].evidence = TRUE]
<1>1. p.value \in Nat  BY TaskAssumption
<1>2. m.sides[id] \in SideRows  BY ReferenceIsTyped
<1>3. changed \in MaterialRows  BY <1>1, <1>2 DEF MaterialRows, SideRows
<1> QED  BY <1>3, ReviseForgets DEF Correct

\* After a confirmation, the confirmed sides are the one now confirmed and those the same
\* person confirmed before, about the same value and evidence.
LEMMA ConfirmRetains ==
  ASSUME NEW m \in MaterialRows, NEW id \in Ids, NEW n \in Names, NEW retained
  PROVE  /\ Confirm(m, id, n, retained) \in MaterialRows
         /\ \A o \in Ids :
              /\ SideReference(Confirm(m, id, n, retained), o) = SideReference(m, o)
              /\ Confirm(m, id, n, retained).sides[o].method = "confirmed" =>
                   /\ Confirm(m, id, n, retained).sides[o].by = n
                   /\ o = id \/ SideReference(m, o) \in retained
<1> DEFINE rm == Revise(m, m)
           base == ConfirmSide(rm, id, n)
           keep == Retained(m, id, n, retained)
           side(o) == IF o \in keep THEN [base.sides[o] EXCEPT !.method = "confirmed", !.by = m.sides[o].by] ELSE base.sides[o]
<1>1. /\ rm \in MaterialRows
      /\ \A o \in Ids : rm.sides[o].method # "confirmed" /\ SideReference(rm, o) = SideReference(m, o)
  BY ReviseForgets
<1>2. ASSUME NEW o \in Ids  PROVE rm.sides[o] \in SideRows /\ m.sides[o] \in SideRows
  BY <1>1, ReferenceIsTyped
<1> HIDE DEF rm
<1>3. /\ base \in MaterialRows
      /\ base.sides[id] = [rm.sides[id] EXCEPT !.method = "confirmed", !.by = n]
      /\ \A o \in Ids : o # id => base.sides[o] = rm.sides[o]
  <2>1. rm \in MaterialRows /\ rm.sides[id] \in SideRows /\ rm.sides \in [Ids -> SideRows]
    BY <1>1, <1>2 DEF MaterialRows
  <2>2. base \in MaterialRows  BY <2>1 DEF ConfirmSide, MaterialRows, SideRows
  <2>3. base.sides[id] = [rm.sides[id] EXCEPT !.method = "confirmed", !.by = n]
    BY <2>1 DEF ConfirmSide, MaterialRows, SideRows
  <2>4. \A o \in Ids : o # id => base.sides[o] = rm.sides[o]  BY <2>1 DEF ConfirmSide, MaterialRows, SideRows
  <2> QED  BY <2>2, <2>3, <2>4
<1>4. ASSUME NEW o \in Ids  PROVE base.sides[o] \in SideRows
  BY <1>3, ReferenceIsTyped
<1> HIDE DEF base
<1>5. ASSUME NEW o \in Ids
      PROVE  side(o) \in SideRows /\ side(o).value = m.sides[o].value /\ side(o).evidence = m.sides[o].evidence
  <2>1. rm.sides[o].value = m.sides[o].value /\ rm.sides[o].evidence = m.sides[o].evidence
    BY <1>1 DEF SideReference
  <2>2. base.sides[o].value = rm.sides[o].value /\ base.sides[o].evidence = rm.sides[o].evidence
    <3>1. CASE o = id  BY <3>1, <1>2, <1>3 DEF SideRows
    <3>2. CASE o # id  BY <3>2, <1>3
    <3> QED  BY <3>1, <3>2
  <2> QED  BY <2>1, <2>2, <1>2, <1>4 DEF SideRows
<1>6. ASSUME NEW o \in Ids, side(o).method = "confirmed"
      PROVE  side(o).by = n /\ (o = id \/ SideReference(m, o) \in retained)
  <2>1. CASE o \in keep
    <3>1. m.sides[o].by = n /\ SideReference(m, o) \in retained  BY <2>1 DEF Retained
    <3> QED  BY <2>1, <3>1, <1>4 DEF SideRows
  <2>2. CASE o \notin keep
    <3>1. o = id  BY <2>2, <1>6, <1>1, <1>3
    <3>2. side(o).by = n  BY <2>2, <3>1, <1>2, <1>3 DEF SideRows
    <3> QED  BY <3>1, <3>2
  <2> QED  BY <2>1, <2>2
<1> HIDE DEF side
<1>7. Confirm(m, id, n, retained) = [base EXCEPT !.sides = [o \in Ids |-> side(o)]]
  BY DEF Confirm, base, rm, side, keep
<1>8. Confirm(m, id, n, retained) \in MaterialRows /\ Confirm(m, id, n, retained).sides = [o \in Ids |-> side(o)]
  BY <1>3, <1>5, <1>7 DEF MaterialRows
<1> QED  BY <1>5, <1>6, <1>8 DEF SideReference

Approval == Finding("approval", "none", "none")

\* What a review finds are findings, and withdrawing the receipt only adds that it is missing.
LEMMA UnverifiedIsTyped ==
  ASSUME NEW m \in MaterialRows, NEW permits \in BOOLEAN
  PROVE  /\ Unverified(m, permits) \subseteq AllFindings
         /\ Unverified(m, permits) \ {Approval} = Unverified(m, TRUE)
         /\ permits => Unverified(m, permits) = Unverified(m, TRUE)
<1> DEFINE factors == {FactorOf(id) : id \in {i \in Ids : ~Reliable(m.sides[i])}}
           calculations == {Finding("calculation", c, "all") : c \in m.wrong \cup {f.context : f \in factors}}
           rule == IF m.rules = {"approved"} THEN {} ELSE {Finding("rule", "none", "none")}
<1>1. ASSUME NEW id \in Ids  PROVE SubjectOf(id) \in Subjects  BY DEF SubjectOf, Ids
<1>2. factors \subseteq AllFindings  BY DEF AllFindings
<1>3. ASSUME NEW f \in factors  PROVE f.context \in Contexts
  <2>1. PICK id \in Ids : f = FactorOf(id)  OBVIOUS
  <2> QED  BY <1>1, <2>1 DEF FactorOf, Finding, Contexts
<1>4. m.wrong \subseteq Contexts  BY DEF MaterialRows
<1>5. calculations \subseteq AllFindings  BY <1>3, <1>4 DEF AllFindings, Contexts
<1>6. rule \cup {Approval} \subseteq AllFindings  BY DEF AllFindings, GovernanceKinds, Approval
<1>7. /\ \A f \in factors : f.kind = "factor"
      /\ \A f \in calculations : f.kind = "calculation"
      /\ \A f \in rule : f.kind = "rule"
      /\ Approval.kind = "approval"
  BY DEF FactorOf, Finding, Approval
<1>8. Approval \notin factors \cup calculations \cup rule  BY <1>7
<1>9. \A p \in BOOLEAN : Unverified(m, p) = factors \cup calculations \cup rule \cup (IF p THEN {} ELSE {Approval})
  BY DEF Unverified, Approval
<1> HIDE DEF factors, calculations, rule
<1> QED  BY <1>2, <1>5, <1>6, <1>8, <1>9

\* The factor and calculation findings of a stored review are those a review would make now.
LEMMA BadIsCurrent ==
  ASSUME LocalTypeOK, ReviewIsOfTheRevision, ~pending, NEW f \in AllFindings, f # Approval
  PROVE  f \in review.bad <=> f \in Unverified(material, TRUE)
BY DEF ReviewIsOfTheRevision, Approval

-----------------------------------------------------------------------------
(* What the bindings of a plan build.                                        *)

SideBinding(b) ==
    /\ b.kind \in SideKinds /\ b.subject \in Ids
    /\ b = Binding(b.kind, b.subject, {FactorOf(b.subject)}) /\ FactorOf(b.subject) \in review.bad
GovernanceBinding(b) ==
    /\ b.kind \in {"rules", "material"} /\ Governing # {} /\ b = Binding(b.kind, "none", Governing)

LEMMA PlanBindings ==
  ASSUME NEW plan \in Plans
  PROVE  /\ IsFiniteSet(Bindings(plan))
         /\ \A b \in Bindings(plan) : SideBinding(b) \/ GovernanceBinding(b)
         /\ Governing # {} => \E b \in Bindings(plan) : GovernanceBinding(b)
<1> DEFINE P == {x \in plan : FactorOf(x[2]) \in review.bad}
           sideOf(x) == Binding(x[1], x[2], {FactorOf(x[2])})
           S == {sideOf(x) : x \in P}
           kind == IF "candidate" \in material.rules THEN "rules" ELSE "material"
           G == IF Governing = {} THEN {} ELSE {Binding(kind, "none", Governing)}
<1>1. IsFiniteSet(plan) /\ plan \subseteq SideKinds \X Ids  BY TaskAssumption
<1>2. P \in SUBSET plan  OBVIOUS
<1>3. IsFiniteSet(P)  BY <1>1, <1>2, FS_Subset
<1>4. IsFiniteSet(S)
  <2> DEFINE g == [x \in P |-> sideOf(x)]
  <2>1. g \in Surjection(P, S)  BY DEF Surjection
  <2> QED  BY <1>3, <2>1, FS_Surjection
<1>5. Bindings(plan) = S \cup G  BY DEF Bindings
<1>6. kind \in {"rules", "material"}  OBVIOUS
<1>7. ASSUME NEW b \in S  PROVE SideBinding(b)
  <2>1. PICK x \in P : b = sideOf(x)  OBVIOUS
  <2>2. x[1] \in SideKinds /\ x[2] \in Ids /\ FactorOf(x[2]) \in review.bad  BY <1>1
  <2>3. b.kind = x[1] /\ b.subject = x[2]  BY <2>1 DEF Binding
  <2> QED  BY <2>1, <2>2, <2>3 DEF SideBinding
<1>8. ASSUME NEW b \in G  PROVE GovernanceBinding(b)
  <2>1. b = Binding(kind, "none", Governing) /\ Governing # {}  OBVIOUS
  <2>2. b.kind = kind  BY <2>1 DEF Binding
  <2> QED  BY <1>6, <2>1, <2>2 DEF GovernanceBinding
<1> HIDE DEF kind
<1>9. IsFiniteSet(S \cup G)
  <2>1. CASE Governing = {}  BY <1>4, <2>1
  <2>2. CASE Governing # {}
    <3>1. S \cup G = S \cup {Binding(kind, "none", Governing)}  BY <2>2
    <3> HIDE DEF S
    <3> QED  BY <1>4, <3>1, FS_AddElement
  <2> QED  BY <2>1, <2>2
<1>10. Governing # {} => Binding(kind, "none", Governing) \in G  OBVIOUS
<1> HIDE DEF S, G
<1> QED  BY <1>5, <1>7, <1>8, <1>9, <1>10

LEMMA BuiltTasks ==
  ASSUME LocalTypeOK, NEW b, Buildable(b), SideBinding(b) \/ GovernanceBinding(b) \/ b \in Single
  PROVE  /\ BuildTask(b) \in LocalTasks
         /\ BuildTask(b).state = "open" /\ BuildTask(b).version = 1
         /\ BuildTask(b).run = run /\ BuildTask(b).rev = rev /\ BuildTask(b).kind = b.kind
         /\ BuildTask(b).subject = b.subject /\ BuildTask(b).findings = b.findings
<1>1. /\ b.kind \in SideKinds \cup {"rules", "material", "publication"}
      /\ b.kind \in SideKinds => b.subject \in Ids
      /\ b.kind \notin SideKinds => b.subject = "none"
  BY DEF SideBinding, GovernanceBinding, Single, Binding, SideKinds
<1>2. PICK side : side = IF b.kind \in SideKinds THEN SideReference(material, b.subject) ELSE NoSide  OBVIOUS
<1>3. side \in Shown
  <2>1. CASE b.kind \in SideKinds  BY <1>1, <1>2, <2>1, ReferenceIsTyped DEF LocalTypeOK
  <2>2. CASE b.kind \notin SideKinds  BY <1>2, <2>2 DEF NoSide, Shown
  <2> QED  BY <2>1, <2>2
<1>4. PICK result : result = IF b.kind = "publication" THEN review ELSE NoReview  OBVIOUS
<1>5. result \in Reviews  BY <1>4 DEF LocalTypeOK, NoReview, Reviews
<1>6. BuildTask(b) = [kind |-> b.kind, subject |-> b.subject, findings |-> b.findings, run |-> run, rev |-> rev,
                      state |-> "open", version |-> 1, side |-> side, result |-> result]
  BY <1>2, <1>4 DEF BuildTask
<1>7. b.findings \in SUBSET AllFindings /\ run \in Nat /\ rev \in Nat
  BY TaskAssumption DEF Buildable, LocalTypeOK
<1>8. b.subject \in Ids \cup {"none"}  BY <1>1
<1> QED  BY <1>1, <1>3, <1>5, <1>6, <1>7, <1>8 DEF LocalTasks

-----------------------------------------------------------------------------
(* Steps that leave the case alone.                                          *)

\* What a person reads, forms or repeats, and what the operator signs, changes no task.
LEMMA CaseUntouched ==
  ASSUME LocalInv, LocalTypeOK', UNCHANGED <<material, rev, run, review, pending, confirmed, tasks, handoff, batch, heard>>
  PROVE  LocalInv'
<1>1. OpenTasksAskNow'  BY DEF LocalInv, OpenTasksAskNow, Open
<1>2. ReviewIsOfTheRevision'  BY DEF LocalInv, ReviewIsOfTheRevision
<1>3. ConfirmationsWereHeard'  BY DEF LocalInv, ConfirmationsWereHeard, ConfirmedByOne
<1>4. HandoffCoversTheMaterial'  BY DEF LocalInv, HandoffCoversTheMaterial
<1>5. BatchCoversTheReview'  BY DEF LocalInv, BatchCoversTheReview
<1> QED  BY <1>1, <1>2, <1>3, <1>4, <1>5 DEF LocalInv

LEMMA FormStep ==
  ASSUME LocalInv, NEW u \in People, Form(u)
  PROVE  LocalInv'
<1> USE DEF LocalInv
<1>1. PICK i \in DOMAIN tasks, reject \in BOOLEAN, p \in Proposals :
        /\ held' = [held EXCEPT ![u] =
              [task |-> i, version |-> tasks[i].version, rev |-> tasks[i].rev, side |-> tasks[i].side, result |-> tasks[i].result,
               action |-> IF reject THEN "reject" ELSE Positive(tasks[i].kind),
               proposal |-> IF ~reject /\ tasks[i].kind \in {"correction", "evidence"} THEN p ELSE NoAnswer.proposal]]
        /\ reply' = [reply EXCEPT ![u] = "none"] /\ answered' = [answered EXCEPT ![u] = {}]
        /\ UNCHANGED <<store, tasks, signed, handoff, batch, heard, authorized>>
  BY DEF Form
<1>2. PICK action : action = IF reject THEN "reject" ELSE Positive(tasks[i].kind)  OBVIOUS
<1>3. PICK q : q = IF ~reject /\ tasks[i].kind \in {"correction", "evidence"} THEN p ELSE NoAnswer.proposal  OBVIOUS
<1>4. tasks[i] \in LocalTasks /\ i \in 1 .. Len(tasks)  BY DEF LocalTypeOK
<1>5. action \in Actions  BY <1>2, <1>4 DEF Positive, LocalTasks, SideKinds, Actions
<1>6. q \in Proposals
  <2>1. \E x \in Proposals : TRUE  OBVIOUS
  <2>2. NoAnswer.proposal \in Proposals  BY <2>1 DEF NoAnswer
  <2> QED  BY <1>3, <2>2
<1>7. PICK c : c = [task |-> i, version |-> tasks[i].version, rev |-> tasks[i].rev, side |-> tasks[i].side,
                    result |-> tasks[i].result, action |-> action, proposal |-> q]  OBVIOUS
<1>8. c \in Answers /\ c.task = i  BY <1>4, <1>5, <1>6, <1>7 DEF Answers, LocalTasks
<1>9. held' = [held EXCEPT ![u] = c]  BY <1>1, <1>2, <1>3, <1>7
<1>10. LocalTypeOK'
  <2>1. held' \in [People -> Answers] /\ \A v \in People : held'[v].task \in 0 .. Len(tasks)
    BY <1>4, <1>8, <1>9 DEF LocalTypeOK
  <2>2. reply' \in [People -> {"none", "accepted", "refused"}] /\ answered' \in [People -> SUBSET Answers]
    BY <1>1 DEF LocalTypeOK
  <2> QED  BY <1>1, <2>1, <2>2 DEF LocalTypeOK, store
<1> QED  BY <1>1, <1>10, CaseUntouched DEF store

LEMMA TurnedAwayStep ==
  ASSUME LocalInv, NEW u \in People, reply' = [reply EXCEPT ![u] = "refused"], held' = [held EXCEPT ![u] = NoAnswer],
         UNCHANGED <<store, tasks, signed, handoff, batch, answered, heard, authorized>>
  PROVE  LocalInv'
<1> USE DEF LocalInv
<1>1. NoAnswer \in Answers /\ NoAnswer.task = 0
  <2>1. PICK p : p = CHOOSE x \in Proposals : TRUE  OBVIOUS
  <2>2. p \in Proposals  BY <2>1, TaskAssumption
  <2>3. NoAnswer = [task |-> 0, version |-> 0, rev |-> 0, side |-> NoSide, result |-> NoReview, action |-> "none", proposal |-> p]
    BY <2>1 DEF NoAnswer
  <2>4. NoSide \in Shown /\ NoReview \in Reviews  BY DEF NoSide, Shown, NoReview, Reviews
  <2> QED  BY <2>2, <2>3, <2>4 DEF Answers, Actions
<1>2. held' \in [People -> Answers] /\ \A v \in People : held'[v].task \in 0 .. Len(tasks)
  BY <1>1 DEF LocalTypeOK
<1>3. reply' \in [People -> {"none", "accepted", "refused"}]  BY DEF LocalTypeOK
<1>4. LocalTypeOK'  BY <1>2, <1>3 DEF LocalTypeOK, store
<1> QED  BY <1>4, CaseUntouched DEF store

LEMMA RepeatedStep ==
  ASSUME LocalInv, NEW u \in People, reply' = [reply EXCEPT ![u] = "accepted"],
         UNCHANGED <<store, tasks, signed, handoff, batch, held, answered, heard, authorized>>
  PROVE  LocalInv'
<1>1. LocalTypeOK'  BY DEF LocalInv, LocalTypeOK, store
<1> QED  BY <1>1, CaseUntouched DEF store

LEMMA SignStep ==
  ASSUME LocalInv, Sign
  PROVE  LocalInv'
<1>1. LocalTypeOK'  BY DEF LocalInv, LocalTypeOK, store, Sign
<1> QED  BY <1>1, CaseUntouched DEF store, Sign

LEMMA PauseStep ==
  ASSUME LocalInv, Pause
  PROVE  LocalInv'
<1>1. LocalTypeOK'  BY DEF LocalInv, LocalTypeOK, Pause
<1> QED  BY <1>1, CaseUntouched DEF Pause

LEMMA ReenterStep ==
  ASSUME LocalInv, Reenter
  PROVE  LocalInv'
<1> USE DEF LocalInv
<1>1. Unverified(material, signed) \subseteq AllFindings /\ Unverified(material, signed) \ {Approval} = Unverified(material, TRUE)
  BY UnverifiedIsTyped DEF LocalTypeOK
<1>2. review' = [rev |-> rev, bad |-> Unverified(material, signed)] /\ pending' = FALSE /\ pending
      /\ UNCHANGED <<material, rev, run, confirmed, paused, tasks, signed, handoff, batch, held, reply, answered, heard, authorized>>
  BY DEF Reenter, Permits
<1>3. rev \in Nat  BY TaskAssumption DEF LocalTypeOK
<1>4. review' \in Reviews  BY <1>1, <1>2, <1>3 DEF Reviews
<1>5. LocalTypeOK'  BY <1>2, <1>4 DEF LocalTypeOK
<1>6. OpenTasksAskNow'  BY <1>2 DEF OpenTasksAskNow, Open
<1>7. ReviewIsOfTheRevision'  BY <1>1, <1>2 DEF ReviewIsOfTheRevision, Approval
<1>8. ConfirmationsWereHeard'  BY <1>2 DEF ConfirmationsWereHeard, ConfirmedByOne
<1>9. HandoffCoversTheMaterial'  BY <1>2 DEF HandoffCoversTheMaterial
<1>10. BatchCoversTheReview'  BY <1>2 DEF BatchCoversTheReview
<1> QED  BY <1>5, <1>6, <1>7, <1>8, <1>9, <1>10

-----------------------------------------------------------------------------
(* Creating tasks.                                                           *)

LEMMA FactorFindings ==
  ASSUME NEW id \in Ids
  PROVE  /\ FactorOf(id) \in AllFindings /\ FactorOf(id).kind = "factor" /\ FactorOf(id) # Approval
<1>1. FactorOf(id).kind = "factor" /\ Approval.kind = "approval"  BY DEF FactorOf, Finding, Approval
<1>2. FactorOf(id) \in AllFindings  BY DEF AllFindings
<1> QED  BY <1>1, <1>2

LEMMA AppendedTasks ==
  ASSUME LocalInv, ~pending, NEW bs, IsFiniteSet({BuildTask(b) : b \in bs}), Create({BuildTask(b) : b \in bs}),
         \A b \in bs : Buildable(b) /\ (SideBinding(b) \/ GovernanceBinding(b) \/ b \in Single),
         batch' \subseteq DOMAIN tasks', UNCHANGED <<store, signed, handoff, held, reply, answered, heard, authorized>>
  PROVE  /\ LocalTypeOK' /\ OpenTasksAskNow' /\ ReviewIsOfTheRevision' /\ ConfirmationsWereHeard' /\ HandoffCoversTheMaterial'
         /\ \A i \in DOMAIN tasks : i \in DOMAIN tasks' /\ tasks'[i] = tasks[i]
         /\ \A b \in bs : \E i \in DOMAIN tasks' : tasks'[i].state = "open" /\ Same(tasks'[i], BuildTask(b))
<1> DEFINE new == {BuildTask(b) : b \in bs}
<1> USE DEF LocalInv
<1>1. ASSUME NEW b \in bs
      PROVE  /\ BuildTask(b) \in LocalTasks
             /\ BuildTask(b).state = "open" /\ BuildTask(b).version = 1
             /\ BuildTask(b).run = run /\ BuildTask(b).rev = rev /\ BuildTask(b).kind = b.kind
             /\ BuildTask(b).subject = b.subject /\ BuildTask(b).findings = b.findings
  BY BuiltTasks
<1>2. new \subseteq LocalTasks /\ \A x \in new : x.state = "open"  BY <1>1
<1>3. tasks \in Seq(LocalTasks)  BY DEF LocalTypeOK
<1>4. /\ tasks' \in Seq(LocalTasks) /\ Len(tasks) <= Len(tasks')
      /\ \A i \in DOMAIN tasks : i \in DOMAIN tasks' /\ tasks'[i] = tasks[i]
      /\ \A i \in DOMAIN tasks' : i \in DOMAIN tasks \/ tasks'[i] \in new
      /\ \A x \in new : \E i \in DOMAIN tasks' : tasks'[i].state = "open" /\ Same(tasks'[i], x)
  BY <1>2, <1>3, CreateAppends
<1>5. LocalTypeOK'
  <2>1. \A u \in People : held'[u].task \in 0 .. Len(tasks')
    <3> TAKE u \in People
    <3>1. held[u].task \in 0 .. Len(tasks) /\ Len(tasks) \in Nat /\ Len(tasks') \in Nat  BY <1>4 DEF LocalTypeOK
    <3> QED  BY <1>4, <3>1
  <2>2. UNION {paused', batch', authorized'} \subseteq DOMAIN tasks'  BY <1>4 DEF LocalTypeOK, store
  <2> QED  BY <1>4, <2>1, <2>2 DEF LocalTypeOK, store
<1>6. OpenTasksAskNow'
  <2> SUFFICES ASSUME NEW i \in Open'
               PROVE  /\ tasks'[i].run = run /\ tasks'[i].rev = rev /\ tasks'[i].version = 1
                      /\ tasks'[i].kind \in SideKinds =>
                            tasks'[i].subject \in Ids /\ tasks'[i].findings \subseteq Unverified(material, TRUE)
    BY DEF OpenTasksAskNow, store
  <2>1. i \in DOMAIN tasks' /\ tasks'[i].state = "open"  BY DEF Open
  <2>2. CASE i \in DOMAIN tasks  BY <2>1, <2>2, <1>4 DEF OpenTasksAskNow, Open
  <2>3. CASE i \notin DOMAIN tasks
    <3>1. PICK b \in bs : tasks'[i] = BuildTask(b)  BY <2>1, <2>3, <1>4
    <3>2. ASSUME b.kind \in SideKinds
          PROVE  b.subject \in Ids /\ b.findings \subseteq Unverified(material, TRUE)
      <4>1. SideBinding(b)  BY <3>2 DEF GovernanceBinding, Single, Binding, SideKinds
      <4>2. b.subject \in Ids /\ b.findings = {FactorOf(b.subject)} /\ FactorOf(b.subject) \in review.bad
        BY <4>1 DEF SideBinding, Binding
      <4>3. FactorOf(b.subject) \in Unverified(material, TRUE)  BY <4>2, FactorFindings, BadIsCurrent
      <4> QED  BY <4>2, <4>3
    <3> QED  BY <3>1, <3>2, <1>1
  <2> QED  BY <2>2, <2>3
<1>7. ReviewIsOfTheRevision'  BY DEF ReviewIsOfTheRevision, store
<1>8. ConfirmationsWereHeard'  BY DEF ConfirmationsWereHeard, ConfirmedByOne, store
<1>9. HandoffCoversTheMaterial'  BY DEF HandoffCoversTheMaterial, store
<1> QED  BY <1>4, <1>5, <1>6, <1>7, <1>8, <1>9

LEMMA CreateTaskStep ==
  ASSUME LocalInv, NEW b \in Single, CreateTask(b)
  PROVE  LocalInv'
<1>1. /\ ~pending /\ Buildable(b) /\ Create({BuildTask(b)})
      /\ UNCHANGED <<store, signed, handoff, batch, held, reply, answered, heard, authorized>>
  BY DEF CreateTask, Staffed, Context
<1>2. {BuildTask(x) : x \in {b}} = {BuildTask(b)}  OBVIOUS
<1>3. IsFiniteSet({BuildTask(b)})  BY FS_Singleton
<1>4. LocalTypeOK  BY DEF LocalInv
<1>5. batch \subseteq DOMAIN tasks  BY <1>4 DEF LocalTypeOK
<1>6. BuildTask(b) \in LocalTasks /\ BuildTask(b).state = "open"  BY <1>1, <1>4, BuiltTasks
<1>7. \A i \in DOMAIN tasks : i \in DOMAIN tasks' /\ tasks'[i] = tasks[i]
  BY <1>1, <1>3, <1>4, <1>6, CreateAppends DEF LocalTypeOK
<1>8. batch' \subseteq DOMAIN tasks'  BY <1>1, <1>5, <1>7
<1>9. LocalTypeOK' /\ OpenTasksAskNow' /\ ReviewIsOfTheRevision' /\ ConfirmationsWereHeard' /\ HandoffCoversTheMaterial'
  <2> DEFINE bs == {b}
  <2>1. IsFiniteSet({BuildTask(x) : x \in bs}) /\ Create({BuildTask(x) : x \in bs})  BY <1>1, <1>2, <1>3
  <2>2. \A x \in bs : Buildable(x) /\ (SideBinding(x) \/ GovernanceBinding(x) \/ x \in Single)  BY <1>1
  <2> HIDE DEF bs
  <2> QED  BY <1>1, <1>8, <2>1, <2>2, AppendedTasks
<1>10. BatchCoversTheReview'
  <2>1. {tasks'[i].findings : i \in batch'} = {tasks[i].findings : i \in batch}  BY <1>1, <1>5, <1>7
  <2> QED  BY <1>1, <2>1 DEF LocalInv, BatchCoversTheReview, store
<1> QED  BY <1>9, <1>10 DEF LocalInv

\* The kinds of findings, and what each is about.
LEMMA FindingKinds ==
  ASSUME NEW f \in AllFindings
  PROVE  /\ f.kind \in {"factor", "calculation"} \cup GovernanceKinds
         /\ f.kind \in GovernanceKinds => f.context = "none"
<1>1. CASE \E id \in Ids : f = FactorOf(id)  BY <1>1, FactorFindings DEF GovernanceKinds
<1>2. CASE \E s \in Subjects : f = Finding("calculation", s.context, "all")
  <2>1. f.kind = "calculation"  BY <1>2 DEF Finding
  <2> QED  BY <2>1 DEF GovernanceKinds
<1>3. CASE \E k \in GovernanceKinds : f = Finding(k, "none", "none")
  <2>1. f.kind \in GovernanceKinds /\ f.context = "none"  BY <1>3 DEF Finding
  <2> QED  BY <2>1
<1> QED  BY <1>1, <1>2, <1>3 DEF AllFindings

LEMMA HandoffStep ==
  ASSUME LocalInv, NEW plan \in Plans, HandoffForRun(plan)
  PROVE  LocalInv'
<1> USE DEF LocalInv
<1>1. PICK bs : bs = Bindings(plan)  OBVIOUS
<1>2. PICK covered : covered = UNION {b.findings : b \in bs}  OBVIOUS
<1>3. /\ ~pending /\ Required(covered) = covered
      /\ handoff' = [rev |-> rev, run |-> run, blockers |-> {Blocker(b) : b \in bs}]
      /\ UNCHANGED <<store, tasks, signed, batch, held, reply, answered, heard, authorized>>
  BY <1>1, <1>2 DEF HandoffForRun, Staffed, Context
<1>4. \A b \in bs : SideBinding(b) \/ GovernanceBinding(b)  BY <1>1, PlanBindings
<1>5. ASSUME NEW f \in Unverified(material, TRUE), f.kind \in {"factor", "calculation"}
      PROVE  \E id \in Ids : /\ Asks(handoff'.blockers, id) /\ FactorOf(id).context = f.context
                             /\ f.kind = "factor" => FactorOf(id) = f
  <2>1. Unverified(material, TRUE) \subseteq AllFindings  BY UnverifiedIsTyped DEF LocalTypeOK
  <2>2. f # Approval  BY <1>5 DEF Approval, Finding
  <2>3. f \in review.bad  BY <1>3, <2>1, <2>2, BadIsCurrent
  <2>4. ASSUME NEW x \in covered, x \in review.bad, x.kind \notin GovernanceKinds
        PROVE  \E id \in Ids : Asks(handoff'.blockers, id) /\ x = FactorOf(id)
    <3>1. PICK b \in bs : x \in b.findings  BY <1>2
    <3>2. ~GovernanceBinding(b)
      <4>1. ASSUME GovernanceBinding(b)  PROVE FALSE
        <5>1. b.findings = Governing  BY <4>1 DEF GovernanceBinding, Binding
        <5> QED  BY <2>4, <3>1, <5>1 DEF Governing
      <4> QED  BY <4>1
    <3>3. SideBinding(b)  BY <1>4, <3>2
    <3>4. x = FactorOf(b.subject) /\ b.subject \in Ids /\ b.kind \in SideKinds
      BY <3>1, <3>3 DEF SideBinding, Binding
    <3>5. Blocker(b) \in handoff'.blockers /\ Blocker(b).id = <<b.kind, b.subject>>  BY <1>3 DEF Blocker
    <3> QED  BY <3>4, <3>5 DEF Asks
  <2>5. CASE f.kind = "factor"
    <3>1. f \in covered  BY <1>3, <2>3, <2>5 DEF Required
    <3>2. f.kind \notin GovernanceKinds  BY <2>5 DEF GovernanceKinds
    <3> QED  BY <2>3, <2>4, <3>1, <3>2
  <2>6. CASE f.kind = "calculation"
    <3>1. f \notin covered
      <4>1. ASSUME f \in covered  PROVE FALSE
        <5>1. f.kind \notin GovernanceKinds  BY <2>6 DEF GovernanceKinds
        <5>2. PICK id \in Ids : f = FactorOf(id)  BY <2>3, <2>4, <4>1, <5>1
        <5> QED  BY <2>6, <5>2, FactorFindings
      <4> QED  BY <4>1
    <3>2. f.context \in CoveredContexts(covered)  BY <1>3, <2>3, <3>1 DEF Required
    <3>3. PICK x \in covered : x \in review.bad /\ x.context = f.context /\ x.context # "none"
      BY <3>2 DEF CoveredContexts
    <3>4. x \in AllFindings  BY <3>3 DEF LocalTypeOK, Reviews
    <3>5. x.kind \notin GovernanceKinds  BY <3>3, <3>4, FindingKinds
    <3>6. PICK id \in Ids : Asks(handoff'.blockers, id) /\ x = FactorOf(id)  BY <2>4, <3>3, <3>5
    <3>7. f.kind # "factor"  BY <2>6
    <3> QED  BY <3>3, <3>6, <3>7
  <2> QED  BY <1>5, <2>5, <2>6
<1>6. HandoffCoversTheMaterial'
  <2>1. material' = material  BY <1>3 DEF store
  <2> QED  BY <1>5, <2>1 DEF HandoffCoversTheMaterial
<1>7. LocalTypeOK'  BY <1>3 DEF LocalTypeOK, store
<1>8. OpenTasksAskNow'  BY <1>3 DEF OpenTasksAskNow, Open, store
<1>9. ReviewIsOfTheRevision'  BY <1>3 DEF ReviewIsOfTheRevision, store
<1>10. ConfirmationsWereHeard'  BY <1>3 DEF ConfirmationsWereHeard, ConfirmedByOne, store
<1>11. BatchCoversTheReview'  BY <1>3 DEF BatchCoversTheReview, store
<1> QED  BY <1>6, <1>7, <1>8, <1>9, <1>10, <1>11

LEMMA FromHandoffStep ==
  ASSUME LocalInv, NEW plan \in Plans, CreateFromHandoff(plan)
  PROVE  LocalInv'
<1> USE DEF LocalInv
<1>1. PICK bs : bs = Bindings(plan)  OBVIOUS
<1>2. PICK new : new = {BuildTask(b) : b \in bs}  OBVIOUS
<1>3. /\ ~pending /\ handoff.rev = rev /\ handoff.blockers # {} /\ {Blocker(b) : b \in bs} = handoff.blockers
      /\ \A b \in bs : Buildable(b)
      /\ Create(new)
      /\ batch' = {i \in DOMAIN tasks' : tasks'[i].state = "open" /\ \E x \in new : Same(tasks'[i], x)}
      /\ UNCHANGED <<store, signed, handoff, held, reply, answered, heard, authorized>>
  BY <1>1, <1>2 DEF CreateFromHandoff, Staffed, Context
<1>4. /\ IsFiniteSet(bs) /\ \A b \in bs : SideBinding(b) \/ GovernanceBinding(b)
      /\ Governing # {} => \E b \in bs : GovernanceBinding(b)
  BY <1>1, PlanBindings
<1>5. IsFiniteSet(new)
  <2> DEFINE g == [b \in bs |-> BuildTask(b)]
  <2>1. g \in Surjection(bs, new)  BY <1>2 DEF Surjection
  <2> QED  BY <1>4, <2>1, FS_Surjection
<1>6. batch' \subseteq DOMAIN tasks'  BY <1>3
<1>7. /\ LocalTypeOK' /\ OpenTasksAskNow' /\ ReviewIsOfTheRevision' /\ ConfirmationsWereHeard' /\ HandoffCoversTheMaterial'
      /\ \A b \in bs : \E i \in DOMAIN tasks' : tasks'[i].state = "open" /\ Same(tasks'[i], BuildTask(b))
  BY <1>2, <1>3, <1>4, <1>5, <1>6, AppendedTasks
<1>8. PICK covered : covered = UNION {tasks'[i].findings : i \in batch'}  OBVIOUS
<1>9. ASSUME NEW b \in bs  PROVE b.findings \subseteq covered
  <2>1. BuildTask(b).findings = b.findings  BY <1>3, <1>4, BuiltTasks
  <2>2. PICK i \in DOMAIN tasks' : tasks'[i].state = "open" /\ Same(tasks'[i], BuildTask(b))  BY <1>7
  <2>3. i \in batch' /\ tasks'[i].findings = b.findings  BY <1>2, <1>3, <2>1, <2>2 DEF Same
  <2> QED  BY <1>8, <2>3
<1>10. ASSUME NEW f \in review.bad
       PROVE  f \in covered \/ (f.kind = "calculation" /\ \E x \in covered : x.context = f.context)
  <2>1. f \in AllFindings  BY DEF LocalTypeOK, Reviews
  <2>2. CASE f.kind \in GovernanceKinds
    <3>1. f \in Governing  BY <2>2 DEF Governing
    <3>2. PICK b \in bs : GovernanceBinding(b)  BY <1>4, <3>1
    <3>3. b.findings = Governing  BY <3>2 DEF GovernanceBinding, Binding
    <3> QED  BY <1>9, <3>1, <3>3
  <2>3. CASE f.kind \notin GovernanceKinds
    <3>1. f.kind \in {"factor", "calculation"} /\ f # Approval
      BY <2>1, <2>3, FindingKinds DEF Approval, Finding, GovernanceKinds
    <3>2. f \in Unverified(material, TRUE)  BY <1>3, <2>1, <3>1, BadIsCurrent
    <3>3. PICK id \in Ids : /\ Asks(handoff.blockers, id) /\ FactorOf(id).context = f.context
                            /\ f.kind = "factor" => FactorOf(id) = f
      BY <1>3, <3>1, <3>2 DEF HandoffCoversTheMaterial
    <3>4. PICK b \in bs, k \in SideKinds : Blocker(b).id = <<k, id>>  BY <1>3, <3>3 DEF Asks
    <3>5. b.kind = k /\ b.subject = id  BY <3>4 DEF Blocker
    <3>6. SideBinding(b)  BY <1>4, <3>4, <3>5 DEF GovernanceBinding, SideKinds
    <3>7. FactorOf(id) \in b.findings  BY <3>5, <3>6 DEF SideBinding, Binding
    <3>8. FactorOf(id) \in covered  BY <1>9, <3>7
    <3> QED  BY <3>1, <3>3, <3>8
  <2> QED  BY <2>2, <2>3
<1>11. BatchCoversTheReview'
  <2>1. ~pending' /\ review' = review  BY <1>3 DEF store
  <2>2. ~Hides(covered, review.bad)  BY <1>10 DEF Hides
  <2> QED  BY <1>8, <2>1, <2>2 DEF BatchCoversTheReview
<1> QED  BY <1>7, <1>11

-----------------------------------------------------------------------------
(* Answering.                                                                *)

\* Answering a task closes it, and every open task of the revision with it when the run moves.
LEMMA SupersededTasks ==
  ASSUME LocalInv, NEW i \in Open, NEW moved \in BOOLEAN, NEW changed, tasks' = Supersede(i, moved, changed)
  PROVE  /\ tasks' \in Seq(LocalTasks) /\ Len(tasks') = Len(tasks) /\ DOMAIN tasks' = DOMAIN tasks
         /\ \A j \in DOMAIN tasks : tasks'[j].findings = tasks[j].findings
         /\ \A j \in Open' : j \in Open /\ tasks'[j] = tasks[j] /\ ~moved
<1> USE DEF LocalInv
<1>1. tasks \in Seq(LocalTasks) /\ i \in DOMAIN tasks /\ DOMAIN tasks = 1 .. Len(tasks) /\ Len(tasks) \in Nat
  BY DEF LocalTypeOK, Open
<1> DEFINE closed(j, state) == [tasks[j] EXCEPT !.state = state, !.version = @ + 1]
           row(j) == IF j = i THEN closed(j, "answered")
                     ELSE IF moved /\ tasks[j].rev = rev /\ tasks[j].state = "open" THEN closed(j, "superseded") ELSE tasks[j]
<1>2. tasks' = [j \in DOMAIN tasks |-> row(j)]  BY DEF Supersede
<1>3. ASSUME NEW j \in Open, NEW state \in {"answered", "superseded"}
      PROVE  /\ closed(j, state) \in LocalTasks /\ closed(j, state).findings = tasks[j].findings
             /\ closed(j, state).state # "open"
  <2>1. j \in DOMAIN tasks /\ tasks[j].version = 1  BY DEF OpenTasksAskNow, Open
  <2>2. tasks[j] \in LocalTasks /\ tasks[j].version + 1 = 2  BY <1>1, <2>1
  <2>3. PICK x : x = closed(j, state)  OBVIOUS
  <2>4. x = [tasks[j] EXCEPT !.state = state, !.version = 2]  BY <2>2, <2>3
  <2>5. x.findings = tasks[j].findings /\ x.state = state  BY <2>2, <2>4 DEF LocalTasks
  <2>6. x \in LocalTasks
    <3>1. state \in {"open", "answered", "superseded"} /\ 2 \in 1 .. 2  OBVIOUS
    <3> HIDE DEF closed
    <3> QED  BY <2>2, <2>4, <3>1 DEF LocalTasks
  <2> QED  BY <2>3, <2>5, <2>6
<1>4. ASSUME NEW j \in DOMAIN tasks
      PROVE  /\ row(j) \in LocalTasks /\ row(j).findings = tasks[j].findings
             /\ row(j).state = "open" => row(j) = tasks[j] /\ j \in Open /\ ~moved
  <2> HIDE DEF closed
  <2>1. tasks[j] \in LocalTasks  BY <1>1
  <2>2. CASE j = i
    <3>1. row(j) = closed(i, "answered")  BY <2>2
    <3> QED  BY <2>2, <3>1, <1>3
  <2>3. CASE j # i /\ moved /\ tasks[j].rev = rev /\ tasks[j].state = "open"
    <3>1. row(j) = closed(j, "superseded") /\ j \in Open  BY <2>3 DEF Open
    <3> QED  BY <3>1, <1>3
  <2>4. CASE j # i /\ ~(moved /\ tasks[j].rev = rev /\ tasks[j].state = "open")
    <3>1. row(j) = tasks[j]  BY <2>4
    <3>2. ASSUME tasks[j].state = "open"  PROVE j \in Open /\ ~moved
      <4>1. j \in Open  BY <3>2 DEF Open
      <4>2. tasks[j].rev = rev  BY <4>1 DEF OpenTasksAskNow
      <4> QED  BY <4>1, <4>2, <3>2, <2>4
    <3> QED  BY <2>1, <3>1, <3>2
  <2> QED  BY <2>2, <2>3, <2>4
<1> HIDE DEF row
<1>5. tasks' \in Seq(LocalTasks) /\ Len(tasks') = Len(tasks) /\ DOMAIN tasks' = DOMAIN tasks
  BY <1>1, <1>2, <1>4
<1>6. ASSUME NEW j \in Open'  PROVE j \in Open /\ tasks'[j] = tasks[j] /\ ~moved
  <2>1. j \in DOMAIN tasks /\ tasks'[j] = row(j) /\ row(j).state = "open"  BY <1>2, <1>5 DEF Open
  <2> QED  BY <2>1, <1>4
<1> QED  BY <1>2, <1>4, <1>5, <1>6

\* The confirmations a person holds were given by that person.
LEMMA OwnWasHeard ==
  ASSUME LocalInv, NEW u \in People, NEW s \in Own(u)
  PROVE  <<u.name, s>> \in heard /\ s \in Shown
<1>1. PICK x \in confirmed : x[1] = u.name /\ s = x[2]  BY DEF Own
<1>2. x \in Names \X Shown /\ x \in heard  BY <1>1 DEF LocalInv, LocalTypeOK, ConfirmationsWereHeard
<1> QED  BY <1>1, <1>2

\* An answer that leaves the run: a rejection, or the authorization of a publication.
LEMMA SettledHere ==
  ASSUME LocalInv, NEW i \in Open, NEW moved \in BOOLEAN, ~moved, NEW changed, tasks' = Supersede(i, moved, changed),
         material' = material, LocalTypeOK',
         UNCHANGED <<rev, run, review, confirmed, heard, handoff, batch>>, ~pending, ~pending'
  PROVE  LocalInv'
<1> USE DEF LocalInv
<1>1. /\ DOMAIN tasks' = DOMAIN tasks /\ \A j \in DOMAIN tasks : tasks'[j].findings = tasks[j].findings
      /\ \A j \in Open' : j \in Open /\ tasks'[j] = tasks[j]
  BY SupersededTasks
<1>2. OpenTasksAskNow'
  <2> SUFFICES ASSUME NEW j \in Open'
               PROVE  /\ tasks'[j].run = run /\ tasks'[j].rev = rev /\ tasks'[j].version = 1
                      /\ tasks'[j].kind \in SideKinds =>
                            tasks'[j].subject \in Ids /\ tasks'[j].findings \subseteq Unverified(material, TRUE)
    BY DEF OpenTasksAskNow
  <2> QED  BY <1>1 DEF OpenTasksAskNow
<1>3. ReviewIsOfTheRevision'  BY DEF ReviewIsOfTheRevision
<1>4. ConfirmationsWereHeard'  BY DEF ConfirmationsWereHeard, ConfirmedByOne
<1>5. HandoffCoversTheMaterial'  BY DEF HandoffCoversTheMaterial
<1>6. BatchCoversTheReview'
  <2>1. batch \subseteq DOMAIN tasks  BY DEF LocalTypeOK
  <2>2. {tasks'[j].findings : j \in batch'} = {tasks[j].findings : j \in batch}  BY <1>1, <2>1
  <2> QED  BY <2>2 DEF BatchCoversTheReview
<1> QED  BY <1>2, <1>3, <1>4, <1>5, <1>6

LEMMA AcceptStep ==
  ASSUME LocalInv, NEW u \in People, held[u].task # 0, Accept(u, held[u].task, held[u])
  PROVE  LocalInv'
<1> USE DEF LocalInv
<1>1. PICK command : command = held[u]  OBVIOUS
<1>2. PICK i : i = command.task  OBVIOUS
<1>3. PICK t : t = tasks[i]  OBVIOUS
<1>4. PICK moved \in BOOLEAN : moved = (command.action # "reject" /\ t.kind # "publication")  OBVIOUS
<1>5. PICK changed \in BOOLEAN : changed = (moved /\ t.kind # "material")  OBVIOUS
<1>6. command \in Answers /\ i \in 1 .. Len(tasks) /\ i \in DOMAIN tasks /\ t \in LocalTasks
  BY <1>1, <1>2, <1>3 DEF LocalTypeOK, Answers
<1>7. /\ Answerable(u, t, i, command) /\ (moved => run < MaxActiveRuns)
      /\ tasks' = Supersede(i, moved, changed)
      /\ material' = NextMaterial(t, command, u)
      /\ rev' = IF changed THEN rev + 1 ELSE rev
      /\ confirmed' = IF ~changed THEN confirmed
                      ELSE IF t.kind = "fact" THEN {<<u.name, s>> : s \in Own(u) \cup {t.side}} ELSE {}
      /\ heard' = IF ~changed THEN heard ELSE IF t.kind = "fact" THEN heard \cup {<<u.name, t.side>>} ELSE {}
      /\ run' = IF moved THEN run + 1 ELSE run
      /\ pending' = moved
      /\ paused' = IF moved THEN {} ELSE paused
      /\ answered' = [answered EXCEPT ![u] = {command}]
      /\ authorized' = IF t.kind = "publication" /\ command.action # "reject" THEN authorized \cup {i} ELSE authorized
      /\ signed' = (signed /\ ~changed)
      /\ handoff' = IF changed THEN NoHandoff ELSE handoff
      /\ batch' = IF moved THEN {} ELSE batch
      /\ reply' = [reply EXCEPT ![u] = "accepted"]
      /\ UNCHANGED <<review, held>>
  BY <1>1, <1>2, <1>3, <1>4, <1>5 DEF Accept
<1>8. /\ ~pending /\ t.state = "open" /\ i \in Open /\ t.rev = rev /\ t.run = run
      /\ t.kind \in SideKinds => SideReference(material, t.subject) = t.side /\ t.subject \in Ids
  BY <1>3, <1>6, <1>7 DEF Answerable, Admitted, Context, SideUnchanged, Open, OpenTasksAskNow
<1>9. /\ tasks' \in Seq(LocalTasks) /\ Len(tasks') = Len(tasks) /\ DOMAIN tasks' = DOMAIN tasks
      /\ \A j \in DOMAIN tasks : tasks'[j].findings = tasks[j].findings
      /\ \A j \in Open' : j \in Open /\ tasks'[j] = tasks[j] /\ ~moved
  BY <1>7, <1>8, SupersededTasks
<1>10. material \in MaterialRows /\ u.name \in Names /\ command.proposal \in Proposals /\ rev \in Nat /\ run \in Nat /\ rev <= run
  BY <1>6, TaskAssumption DEF LocalTypeOK, Names, Answers
<1>11. /\ material' \in MaterialRows /\ confirmed' \cup heard' \subseteq Names \X Shown
       /\ confirmed' \subseteq heard'
       /\ rev' > 1 => \E n \in Names : ConfirmedByOne(n)'
       /\ ~changed => material' = material
  <2>1. CASE t.kind = "fact" /\ changed
    <3>1. material' = Confirm(material, t.subject, u.name, Own(u))
      BY <1>4, <1>5, <1>7, <2>1 DEF NextMaterial
    <3>2. t.subject \in Ids /\ SideReference(material, t.subject) = t.side  BY <1>8, <2>1 DEF SideKinds
    <3>3. /\ material' \in MaterialRows
          /\ \A o \in Ids :
               /\ SideReference(material', o) = SideReference(material, o)
               /\ material'.sides[o].method = "confirmed" =>
                    /\ material'.sides[o].by = u.name
                    /\ o = t.subject \/ SideReference(material, o) \in Own(u)
      BY <1>10, <3>1, <3>2, ConfirmRetains
    <3>4. /\ confirmed' = {<<u.name, s>> : s \in Own(u) \cup {t.side}} /\ heard' = heard \cup {<<u.name, t.side>>}
      BY <1>7, <2>1
    <3>5. confirmed' \subseteq heard'  BY <3>4, OwnWasHeard
    <3>6. ASSUME NEW o \in Ids, material'.sides[o].method = "confirmed"
          PROVE  material'.sides[o].by = u.name /\ <<u.name, SideReference(material', o)>> \in heard'
      <4>1. CASE o = t.subject  BY <3>2, <3>3, <3>4, <3>6, <4>1
      <4>2. CASE SideReference(material, o) \in Own(u)  BY <3>3, <3>4, <3>6, <4>2, OwnWasHeard
      <4> QED  BY <3>3, <3>6, <4>1, <4>2
    <3>7. <<u.name, t.side>> \in Names \X Shown  BY <1>6, <1>10 DEF LocalTasks
    <3>8. heard' \subseteq Names \X Shown  BY <3>4, <3>7 DEF LocalTypeOK
    <3>9. ConfirmedByOne(u.name)'  BY <3>6 DEF ConfirmedByOne
    <3> QED  BY <3>3, <3>5, <3>8, <3>9, <1>10, <2>1
  <2>2. CASE t.kind # "fact" /\ changed
    <3>1. confirmed' = {} /\ heard' = {}  BY <1>7, <2>2
    <3>2. material' \in MaterialRows /\ \A o \in Ids : material'.sides[o].method # "confirmed"
      <4>1. CASE t.kind = "rules"
        <5>1. material' = ApproveRules(material)  BY <1>4, <1>5, <1>7, <2>2, <4>1 DEF NextMaterial
        <5> QED  BY <1>10, <5>1, ApproveRulesForgets
      <4>2. CASE t.kind \in {"correction", "evidence"}
        <5>1. material' = Correct(material, t.subject, command.proposal)
          BY <1>4, <1>5, <1>7, <2>2, <4>2 DEF NextMaterial
        <5>2. t.subject \in Ids  BY <1>8, <4>2 DEF SideKinds
        <5> QED  BY <1>10, <5>1, <5>2, CorrectForgets
      <4>3. t.kind \in {"rules", "correction", "evidence"}  BY <1>4, <1>5, <1>6, <2>2 DEF LocalTasks, SideKinds
      <4> QED  BY <4>1, <4>2, <4>3
    <3>3. ConfirmedByOne("nobody")'  BY <3>2 DEF ConfirmedByOne
    <3>4. "nobody" \in Names  BY DEF Names
    <3> QED  BY <3>1, <3>2, <3>3, <3>4, <2>2
  <2>3. CASE ~changed
    <3>1. material' = material
      <4>1. command.action = "reject" \/ t.kind \in {"material", "publication"}  BY <1>4, <1>5, <2>3
      <4> QED  BY <1>7, <4>1 DEF NextMaterial
    <3>2. confirmed' = confirmed /\ heard' = heard /\ rev' = rev  BY <1>7, <2>3
    <3>3. rev' > 1 => \E n \in Names : ConfirmedByOne(n)'  BY <3>1, <3>2 DEF ConfirmationsWereHeard, ConfirmedByOne
    <3>4. confirmed' \cup heard' \subseteq Names \X Shown  BY <3>2 DEF LocalTypeOK
    <3> QED  BY <3>1, <3>2, <3>3, <3>4, <1>10 DEF ConfirmationsWereHeard
  <2> QED  BY <2>1, <2>2, <2>3
<1>12. LocalTypeOK'
  <2>1. rev' \in 1 .. MaxActiveRuns /\ run' \in rev' .. MaxActiveRuns
    BY <1>4, <1>5, <1>7, <1>10, TaskAssumption DEF LocalTypeOK
  <2>2. UNION {paused', batch', authorized'} \subseteq DOMAIN tasks'
    <3>1. paused' \subseteq DOMAIN tasks /\ batch' \subseteq DOMAIN tasks /\ authorized' \subseteq DOMAIN tasks
      BY <1>6, <1>7 DEF LocalTypeOK
    <3> QED  BY <1>9, <3>1
  <2>3. review' \in Reviews /\ pending' \in BOOLEAN /\ signed' \in BOOLEAN  BY <1>4, <1>7 DEF LocalTypeOK
  <2>4. held' \in [People -> Answers] /\ \A v \in People : held'[v].task \in 0 .. Len(tasks')
    BY <1>7, <1>9 DEF LocalTypeOK
  <2>5. reply' \in [People -> {"none", "accepted", "refused"}] /\ answered' \in [People -> SUBSET Answers]
    BY <1>6, <1>7 DEF LocalTypeOK
  <2> QED  BY <1>9, <1>11, <2>1, <2>2, <2>3, <2>4, <2>5 DEF LocalTypeOK
<1>13. CASE moved
  <2>1. Open' = {} /\ batch' = {} /\ pending' = TRUE  BY <1>7, <1>9, <1>13
  <2>2. OpenTasksAskNow' /\ ReviewIsOfTheRevision' /\ BatchCoversTheReview'
    BY <2>1 DEF OpenTasksAskNow, ReviewIsOfTheRevision, BatchCoversTheReview
  <2>3. HandoffCoversTheMaterial'
    <3>1. CASE changed
      <4>1. handoff'.rev = 0 /\ rev' # 0  BY <1>7, <1>10, <3>1 DEF NoHandoff
      <4> QED  BY <4>1 DEF HandoffCoversTheMaterial
    <3>2. CASE ~changed  BY <1>7, <1>11, <3>2 DEF HandoffCoversTheMaterial
    <3> QED  BY <3>1, <3>2
  <2> QED  BY <1>11, <1>12, <2>2, <2>3 DEF ConfirmationsWereHeard
<1>14. CASE ~moved
  <2>1. ~changed  BY <1>5, <1>14
  <2>2. UNCHANGED <<rev, run, review, confirmed, heard, handoff, batch>> /\ ~pending'  BY <1>7, <1>14, <2>1
  <2> QED  BY <1>7, <1>8, <1>11, <1>12, <1>14, <2>1, <2>2, SettledHere
<1> QED  BY <1>13, <1>14

-----------------------------------------------------------------------------
(* The invariant of the local service and its theorems.                      *)

LEMMA LocalInitInv == TasksInit => LocalInv
<1> SUFFICES ASSUME TasksInit  PROVE LocalInv  OBVIOUS
<1> USE DEF TasksInit
<1>1. material \in MaterialRows  BY TaskAssumption
<1>2. Unverified(material, signed) \subseteq AllFindings /\ Unverified(material, signed) \ {Approval} = Unverified(material, TRUE)
  BY <1>1, UnverifiedIsTyped
<1>3. review \in Reviews /\ review.rev = 1 /\ review.bad = Unverified(material, signed)  BY <1>2 DEF Reviews, Permits
<1>4. NoAnswer \in Answers /\ NoAnswer.task = 0
  <2>1. PICK p : p = CHOOSE x \in Proposals : TRUE  OBVIOUS
  <2>2. p \in Proposals  BY <2>1, TaskAssumption
  <2>3. NoAnswer = [task |-> 0, version |-> 0, rev |-> 0, side |-> NoSide, result |-> NoReview, action |-> "none", proposal |-> p]
    BY <2>1 DEF NoAnswer
  <2>4. NoSide \in Shown /\ NoReview \in Reviews  BY DEF NoSide, Shown, NoReview, Reviews
  <2> QED  BY <2>2, <2>3, <2>4 DEF Answers, Actions
<1>5. Len(tasks) = 0 /\ DOMAIN tasks = {} /\ tasks \in Seq(LocalTasks)  OBVIOUS
<1>6. LocalTypeOK
  <2>1. rev \in 1 .. MaxActiveRuns /\ run \in rev .. MaxActiveRuns  BY TaskAssumption
  <2>2. UNION {paused, batch, authorized} \subseteq DOMAIN tasks  OBVIOUS
  <2>3. held \in [People -> Answers] /\ \A u \in People : held[u].task \in 0 .. Len(tasks)  BY <1>4, <1>5
  <2>4. reply \in [People -> {"none", "accepted", "refused"}] /\ answered \in [People -> SUBSET Answers]  OBVIOUS
  <2>5. confirmed \cup heard \subseteq Names \X Shown  OBVIOUS
  <2> QED  BY <1>1, <1>3, <1>5, <2>1, <2>2, <2>3, <2>4, <2>5 DEF LocalTypeOK
<1>7. OpenTasksAskNow  BY <1>5 DEF OpenTasksAskNow, Open
<1>8. ReviewIsOfTheRevision  BY <1>2, <1>3 DEF ReviewIsOfTheRevision, Approval
<1>9. ConfirmationsWereHeard /\ HandoffCoversTheMaterial /\ BatchCoversTheReview
  BY DEF ConfirmationsWereHeard, HandoffCoversTheMaterial, BatchCoversTheReview, NoHandoff
<1> QED  BY <1>6, <1>7, <1>8, <1>9 DEF LocalInv

LEMMA LocalInvIsKept == LocalInv /\ [TasksNext]_localVars => LocalInv'
<1> SUFFICES ASSUME LocalInv, [TasksNext]_localVars  PROVE LocalInv'  OBVIOUS
<1>1. ASSUME NEW plan \in Plans, HandoffForRun(plan)  PROVE LocalInv'  BY <1>1, HandoffStep
<1>2. ASSUME NEW plan \in Plans, CreateFromHandoff(plan)  PROVE LocalInv'  BY <1>2, FromHandoffStep
<1>3. ASSUME NEW b \in Single, CreateTask(b)  PROVE LocalInv'  BY <1>3, CreateTaskStep
<1>4. CASE Pause  BY <1>4, PauseStep
<1>5. CASE Reenter  BY <1>5, ReenterStep
<1>6. CASE Sign  BY <1>6, SignStep
<1>7. ASSUME NEW u \in People, Form(u)  PROVE LocalInv'  BY <1>7, FormStep
<1>8. ASSUME NEW u \in People, Respond(u)  PROVE LocalInv'
  <2>1. CASE /\ reply' = [reply EXCEPT ![u] = "accepted"]
             /\ UNCHANGED <<store, tasks, signed, handoff, batch, held, answered, heard, authorized>>
    BY <2>1, RepeatedStep
  <2>2. CASE held[u].task # 0 /\ Accept(u, held[u].task, held[u])  BY <2>2, AcceptStep
  <2>3. CASE /\ reply' = [reply EXCEPT ![u] = "refused"] /\ held' = [held EXCEPT ![u] = NoAnswer]
             /\ UNCHANGED <<store, tasks, signed, handoff, batch, answered, heard, authorized>>
    BY <2>3, TurnedAwayStep
  <2> QED  BY <1>8, <2>1, <2>2, <2>3 DEF Respond
<1>9. CASE UNCHANGED localVars
  <2>1. LocalTypeOK'  BY <1>9 DEF LocalInv, LocalTypeOK, localVars, store
  <2> QED  BY <1>9, <2>1, CaseUntouched DEF localVars, store
<1> QED  BY <1>1, <1>2, <1>3, <1>4, <1>5, <1>6, <1>7, <1>8, <1>9 DEF TasksNext, Done

LEMMA LocalInvImplies == LocalInv => LocalTasksAreSound
<1> SUFFICES ASSUME LocalInv  PROVE LocalTasksAreSound  OBVIOUS
<1> USE DEF LocalInv
<1>1. OpenTasksAreCurrent
  <2>1. Unverified(material, TRUE) \subseteq Unverified(material, signed)  BY UnverifiedIsTyped DEF LocalTypeOK
  <2> QED  BY <2>1 DEF OpenTasksAskNow, OpenTasksAreCurrent
<1>2. ConfirmationsAreProven
  <2> DEFINE sides == {id \in Ids : material.sides[id].method = "confirmed"}
             by == {material.sides[id].by : id \in sides}
  <2>1. ASSUME rev > 1
        PROVE  /\ \A id \in sides : <<material.sides[id].by, SideReference(material, id)>> \in heard
               /\ Cardinality(by) <= 1
    <3>1. PICK n \in Names : ConfirmedByOne(n)  BY <2>1 DEF ConfirmationsWereHeard
    <3>2. \A id \in sides : material.sides[id].by = n /\ <<n, SideReference(material, id)>> \in heard
      BY <3>1 DEF ConfirmedByOne
    <3>3. by \in SUBSET {n}  BY <3>2
    <3> HIDE DEF by
    <3>4. IsFiniteSet({n}) /\ Cardinality({n}) = 1  BY FS_Singleton
    <3>5. Cardinality(by) <= 1  BY <3>3, <3>4, FS_Subset
    <3> QED  BY <3>2, <3>5
  <2> QED  BY <2>1 DEF ConfirmationsAreProven
<1>3. NothingIsHidden  BY DEF BatchCoversTheReview, Hides, NothingIsHidden
<1> QED  BY <1>1, <1>2, <1>3 DEF LocalTasksAreSound, TasksAreSound

\* For every case, every set of people and every plan of questions: an open task of the
\* local service asks about the active run and about a side that still needs an answer;
\* every confirmation counted after the first answer was given by one person about exactly
\* the present value; and a batch created from a handoff leaves no finding unasked.
THEOREM LocalTasksSound == TasksSpec => []LocalTasksAreSound
<1>1. TasksInit => LocalInv  BY LocalInitInv
<1>2. LocalInv /\ [TasksNext]_localVars => LocalInv'  BY LocalInvIsKept
<1>3. LocalInv => LocalTasksAreSound  BY LocalInvImplies
<1> QED  BY <1>1, <1>2, <1>3, PTL DEF TasksSpec

\* What an accepted answer authorizes.
LEMMA AuthorizationStep ==
  ASSUME LocalInv, [TasksNext]_localVars, NEW i \in authorized' \ authorized
  PROVE  /\ tasks[i].result = review /\ review.rev = rev /\ tasks[i].rev = rev
         /\ Unverified(material, signed) = {}
<1>1. PICK u \in People : Accept(u, held[u].task, held[u])
  <2>1. authorized' # authorized  OBVIOUS
  <2> QED
    BY <2>1 DEF TasksNext, localVars, HandoffForRun, CreateFromHandoff, CreateTask, Pause, Reenter, Sign, Form, Respond, Done
<1>2. PICK t : t = tasks[held[u].task]  OBVIOUS
<1>3. /\ i = held[u].task /\ t.kind = "publication" /\ ~pending
      /\ t.rev = rev /\ t.result = review /\ review.bad = {} /\ signed
  BY <1>1, <1>2 DEF Accept, Answerable, Admitted, Publishable, Context, Permits
<1>4. review.rev = rev /\ Unverified(material, TRUE) = {}  BY <1>3 DEF LocalInv, ReviewIsOfTheRevision
<1>5. Unverified(material, signed) = {}  BY <1>3, <1>4, UnverifiedIsTyped DEF LocalInv, LocalTypeOK
<1> QED  BY <1>2, <1>3, <1>4, <1>5

LEMMA RepetitionStep ==
  ASSUME LocalInv, [TasksNext]_localVars, NEW u \in People, reply'[u] = "refused", reply[u] # "refused"
  PROVE  held[u] \notin answered[u]
<1>1. reply \in [People -> {"none", "accepted", "refused"}]  BY DEF LocalInv, LocalTypeOK
<1>2. reply' # reply  OBVIOUS
<1>3. PICK v \in People : Form(v) \/ Respond(v)
  BY <1>2 DEF TasksNext, localVars, HandoffForRun, CreateFromHandoff, CreateTask, Pause, Reenter, Sign, Done
<1>4. ~Form(v)  BY <1>1 DEF Form
<1>5. Respond(v)  BY <1>3, <1>4
<1>6. reply' # [reply EXCEPT ![v] = "accepted"]  BY <1>1
<1>7. reply' = [reply EXCEPT ![v] = "refused"] /\ ~Recorded(v, held[v])  BY <1>5, <1>6 DEF Respond, Accept
<1>8. u = v  BY <1>1, <1>7
<1> QED  BY <1>7, <1>8 DEF Recorded

\* Whatever other people answer in between, a publication is authorized only on the review
\* its question showed, of the current revision, when a review of the material would find
\* nothing wrong; and whoever repeats an accepted command is never told it was refused.
THEOREM LocalAnswersExact == TasksSpec => LocalAnswersAreExact
<1>1. TasksInit => LocalInv  BY LocalInitInv
<1>2. LocalInv /\ [TasksNext]_localVars => LocalInv'  BY LocalInvIsKept
<1>3. LocalInv /\ [TasksNext]_localVars =>
        [\A i \in authorized' \ authorized :
           /\ tasks[i].result = review /\ review.rev = rev /\ tasks[i].rev = rev
           /\ Unverified(material, signed) = {}]_localVars
  BY AuthorizationStep
<1>4. LocalInv /\ [TasksNext]_localVars =>
        [\A u \in People : held[u] # NoAnswer /\ reply'[u] = "refused" /\ reply[u] # "refused" => held[u] \notin answered[u]]_localVars
  BY RepetitionStep
<1>5. TasksSpec => PublicationIsExact  BY <1>1, <1>2, <1>3, PTL DEF TasksSpec, PublicationIsExact
<1>6. TasksSpec => RepetitionIsRecognised  BY <1>1, <1>2, <1>4, PTL DEF TasksSpec, RepetitionIsRecognised
<1> QED  BY <1>5, <1>6 DEF LocalAnswersAreExact
=============================================================================
