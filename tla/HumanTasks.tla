----------------------------- MODULE HumanTasks -----------------------------
(***************************************************************************)
(* Human tasks of one job: a worker registers the questions of its run and *)
(* parks the job, a reviewer answers one of them, and the answer commits a *)
(* new material revision together with the run that will review it.        *)
(*                                                                         *)
(* A call of HumanTaskService.respond reads the task, reads the receipt of *)
(* its idempotency key, and commits; each of the three is one step, so the *)
(* calls of several browser tabs, and retries of a call whose answer was   *)
(* lost while it may still be running, interleave freely.  A transaction   *)
(* of SQLiteReviewStore is one step, including the closing of questions    *)
(* that belong to a job it ended.                                          *)
(*                                                                         *)
(* Only the job's principal gets past the visibility check, so every call  *)
(* here is that principal's.  Leases are the matter of ReviewJobs; here a  *)
(* running job has one live attempt, which may be lost at any time.        *)
(***************************************************************************)
EXTENDS JobState, Sequences, FiniteSets

CONSTANTS
    Sides,          \* the observations a question can be about (task bindings)
    Facts,          \* those whose task asks to confirm; the others, to correct
    Keys,           \* idempotency keys of the principal
    Calls,          \* concurrent calls of respond()
    MaxRuns         \* bound: runs of the job; every revision starts one

ASSUME TasksAssumption ==
    /\ Sides # {} /\ Facts \subseteq Sides
    /\ MaxRuns \in Nat \ {0}

VARIABLES
    job,        \* the job row, with the attempt id and revision of its current run
    asked,      \* the live attempt has registered its questions
    chain,      \* chain[n]: the stored snapshot of revision n
    head,       \* the current revision of the job's chain; 0 before registration
    task,       \* task[<<r, s>>]: the task uuid5(run r, side s)
    receipts,   \* receipts[k]: the committed responses, by idempotency key
    call        \* call[c]: a call of respond()

vars == <<job, asked, chain, head, task, receipts, call>>

Runs == 1..MaxRuns
TaskIds == Runs \X Sides
None == 0

Commands == [task : TaskIds, action : {"confirm", "correct", "reject"},
             version : Nat, revision : Runs]
TaskRows == [state : {"none", "open", "answered", "superseded"}, version : Nat,
             attempt : Nat, revision : Runs \cup {None}]
Snapshots == [parent : Runs \cup {None}, value : [Sides -> Nat], confirmed : SUBSET Sides]
Receipts == [command : Commands, revision : Runs \cup {None}, superseded : SUBSET TaskIds]

NoTask == [state |-> "none", version |-> 0, attempt |-> None, revision |-> None]
NoCommand == [task |-> <<1, CHOOSE s \in Sides : TRUE>>, action |-> "reject", version |-> 0,
              revision |-> 1]
NoReceipt == [command |-> NoCommand, revision |-> None, superseded |-> {}]
IdleCall == [pc |-> "idle", key |-> None, command |-> NoCommand, seen |-> NoTask,
             head |-> None]

Committed(k) == receipts[k] # NoReceipt

\* HumanTask.allowed_responses, by kind.
Allowed(s) == {"reject", IF s \in Facts THEN "confirm" ELSE "correct"}

Transition(e, open) ==
    NextState([status |-> job.status, attempts |-> job.attempts, takeovers |-> job.takeovers,
               cancel |-> job.cancel, open |-> open], e)

\* Mutant: the questions of a finished job stay open.
KeepsOpen(status, rows) == rows

\* _close_terminal_tasks, at the end of every transaction.
CloseTerminal(status, rows) ==
    [t \in TaskIds |->
        IF status \in Terminal /\ rows[t].state = "open"
        THEN [rows[t] EXCEPT !.state = "superseded", !.version = @ + 1] ELSE rows[t]]

(***************************************************************************)
(* The job plane                                                           *)
(***************************************************************************)

\* A transition of the job row; a released lease loses its attempt.
Moved(t, open) ==
    [job EXCEPT !.status = t.status,
                !.attempts = @ + t.attempt,
                !.takeovers = @ + t.takeover,
                !.cancel = @ \/ t.cancel,
                !.open = open,
                !.attempt = IF t.release THEN None ELSE @]

Claim ==
    LET t == Transition("claim", FALSE)
    IN  /\ t # Conflict
        /\ job' = [Moved(t, {}) EXCEPT !.attempt = job.claims + 1, !.claims = @ + 1]
        /\ asked' = FALSE
        /\ UNCHANGED <<chain, head, task, receipts, call>>

\* The rows a registration by the live attempt would store.
Batch(questions) ==
    [t \in {job.run} \X questions |->
        [state |-> "open", version |-> 1, attempt |-> job.attempt, revision |-> job.revision]]

\* The findings, hence the questions, are a function of the revision's material; an
\* exact confirmation in it is not asked for again.
Questions ==
    LET known == {s \in Sides : task[<<job.run, s>>] # NoTask}
        asking == Sides \ chain[job.revision].confirmed
    IN  IF known # {} THEN {known} ELSE (SUBSET asking) \ {{}}

\* CurrentSourceExecution registers the run's revision before it executes: the first
\* run installs it as the head of the chain, a resumed run must find it there.
Prepare ==
    /\ job.status = "running"
    /\ ~job.cancel
    /\ head = None
    /\ head' = job.revision
    /\ UNCHANGED <<job, asked, chain, task, receipts, call>>

\* SQLiteExecutionAuthority.register -> seed, by the live attempt.  A task that is
\* already stored must be the same row, its run's attempt id included.
Register(questions) ==
    /\ job.status = "running"
    /\ ~job.cancel
    /\ ~asked
    /\ questions \in Questions
    /\ head = job.revision
    /\ \A t \in DOMAIN Batch(questions) : task[t] \in {NoTask, Batch(questions)[t]}
    /\ task' = [t \in TaskIds |->
                   IF t \in DOMAIN Batch(questions) THEN Batch(questions)[t] ELSE task[t]]
    /\ asked' = TRUE
    /\ UNCHANGED <<job, chain, head, receipts, call>>

\* wait_for_human with the persisted open tasks of this very run and attempt.
Park ==
    LET open == {s \in Sides : /\ task[<<job.run, s>>].state = "open"
                              /\ task[<<job.run, s>>].attempt = job.attempt}
        t == Transition("needs_human", open # {})
    IN  /\ asked
        /\ t # Conflict
        /\ job' = Moved(t, IF t.status = "cancelled" THEN {} ELSE open)
        /\ task' = CloseTerminal(t.status, task)
        /\ UNCHANGED <<asked, chain, head, receipts, call>>

\* Every other end of the live attempt, the reclaim of its lease included; the store
\* refuses to publish under a pending cancel.
EndAttempt(e) ==
    LET t == Transition(e, FALSE)
    IN  /\ t # Conflict
        /\ e = "publish_result" => ~job.cancel
        /\ job' = Moved(t, {})
        /\ task' = CloseTerminal(t.status, task)
        /\ UNCHANGED <<asked, chain, head, receipts, call>>

ScheduleRetry ==
    LET t == Transition("schedule_retry", FALSE)
    IN  /\ t # Conflict
        /\ job' = Moved(t, {})
        /\ UNCHANGED <<asked, chain, head, task, receipts, call>>

Cancel ==
    LET t == Transition("cancel", FALSE)
    IN  /\ t # Conflict
        /\ job' = Moved(t, {})
        /\ task' = CloseTerminal(t.status, task)
        /\ UNCHANGED <<asked, chain, head, receipts, call>>

(***************************************************************************)
(* respond()                                                               *)
(***************************************************************************)

\* A reviewer answers the open task on the page; the key is fresh or reused.
Begin(c, k, t, a) ==
    /\ call[c].pc = "idle"
    /\ task[t].state = "open"
    /\ a \in Allowed(t[2])
    /\ call' = [call EXCEPT ![c] = [IdleCall EXCEPT
                    !.pc = "sent", !.key = k,
                    !.command = [task |-> t, action |-> a, version |-> task[t].version,
                                 revision |-> task[t].revision]]]
    /\ UNCHANGED <<job, asked, chain, head, task, receipts>>

\* The same command and key again: the first answer was lost, or is not there yet.
Retry(c, d) ==
    /\ call[c].pc = "idle"
    /\ call[d].pc # "idle"
    /\ call' = [call EXCEPT ![c] = [IdleCall EXCEPT !.pc = "sent", !.key = call[d].key,
                                                    !.command = call[d].command]]
    /\ UNCHANGED <<job, asked, chain, head, task, receipts>>

\* _authorized: the task and the current revision as they are now.
ReadTask(c) ==
    /\ call[c].pc = "sent"
    /\ call' = [call EXCEPT ![c].pc = "read", ![c].seen = task[call[c].command.task],
                            ![c].head = head]
    /\ UNCHANGED <<job, asked, chain, head, task, receipts>>

\* admit_response, on what the call has read.
Admissible(c) ==
    LET cmd == call[c].command
    IN  /\ call[c].seen.state = "open"
        /\ call[c].seen.version = cmd.version
        /\ call[c].seen.revision = call[c].head
        /\ cmd.revision = call[c].head
        /\ cmd.action \in Allowed(cmd.task[2])

\* Mutant: a key is enough, whatever it was used for.
KeyOnly(c) == TRUE

\* The stored payload digest is that of this command.
Replayed(c) == receipts[call[c].key].command = call[c].command

\* Mutant: admission before replay.
AdmitsFirst(c) ==
    /\ call[c].pc = "read"
    /\ call' = [call EXCEPT ![c].pc =
                   IF ~Admissible(c) THEN "refused"
                   ELSE IF ~Committed(call[c].key) THEN "admitted"
                   ELSE IF Replayed(c) THEN "accepted" ELSE "refused"]
    /\ UNCHANGED <<job, asked, chain, head, task, receipts>>

\* read_receipt: replay before admission, then admission and the next revision.
ReadReceipt(c) ==
    /\ call[c].pc = "read"
    /\ call' = [call EXCEPT ![c].pc =
                   IF Committed(call[c].key)
                   THEN IF Replayed(c) THEN "accepted" ELSE "refused"
                   ELSE IF Admissible(c) THEN "admitted" ELSE "refused"]
    /\ UNCHANGED <<job, asked, chain, head, task, receipts>>

\* _confirm captures the material with one more confirmation; _correct revises it,
\* which clears every confirmation.
NextRevision(snapshot, parent, action, s) ==
    IF action = "confirm"
    THEN [snapshot EXCEPT !.parent = parent, !.confirmed = @ \cup {s}]
    ELSE [snapshot EXCEPT !.parent = parent, !.value[s] = @ + 1, !.confirmed = {}]

\* Mutant: the write trusts what the call has read.
TrustsTheRead(c) == job.status = "waiting_for_human"

\* commit_response: everything the call decided on is compared with stored state.
Current(c) ==
    LET cmd == call[c].command
    IN  /\ task[cmd.task] = call[c].seen
        /\ job.status = "waiting_for_human"
        /\ ~job.cancel
        /\ cmd.task[1] = job.run
        /\ cmd.task[2] \in job.open
        /\ cmd.revision = job.revision
        /\ cmd.revision = head
        /\ call[c].head = head
        /\ cmd.action \in Allowed(cmd.task[2])

\* The write of an answer: the task, and with a new revision its siblings' fate, the
\* head and the resumed run, or with a rejection the job's remaining questions.
Apply(c) ==
    LET cmd == call[c].command
        answered == [task EXCEPT ![cmd.task].state = "answered", ![cmd.task].version = @ + 1]
        stale == {t \in TaskIds : answered[t].state = "open" /\ answered[t].revision = head}
        remaining == job.open \ {cmd.task[2]}
        resume == Transition("human_response_committed", TRUE)
        reject == Transition("human_rejected", remaining # {})
        next == head + 1
    IN  IF cmd.action = "reject"
        THEN /\ reject # Conflict
             /\ job' = Moved(reject, remaining)
             /\ task' = CloseTerminal(reject.status, answered)
             /\ receipts' = [receipts EXCEPT ![call[c].key] =
                                [NoReceipt EXCEPT !.command = cmd]]
             /\ UNCHANGED <<chain, head>>
        ELSE /\ resume # Conflict
             /\ job.run + 1 \in Runs
             /\ job' = [Moved(resume, {}) EXCEPT !.run = @ + 1, !.revision = next]
             /\ task' = [t \in TaskIds |->
                            IF t \in stale
                            THEN [answered[t] EXCEPT !.state = "superseded", !.version = @ + 1]
                            ELSE answered[t]]
             /\ chain' = [chain EXCEPT ![next] = NextRevision(chain[call[c].head], call[c].head,
                                                              cmd.action, cmd.task[2])]
             /\ head' = next
             /\ receipts' = [receipts EXCEPT ![call[c].key] =
                                [command |-> cmd, revision |-> next, superseded |-> stale]]

\* commit_response as a whole: the key is authoritative, then the conditions, then the
\* write; a failed condition leaves everything as it was.
Commit(c) ==
    /\ call[c].pc = "admitted"
    /\ \/ /\ ~Committed(call[c].key)
          /\ Current(c)
          /\ Apply(c)
          /\ call' = [call EXCEPT ![c].pc = "accepted"]
          /\ UNCHANGED asked
       \/ /\ Committed(call[c].key) \/ ~Current(c)
          /\ call' = [call EXCEPT ![c].pc =
                         IF Committed(call[c].key) /\ Replayed(c) THEN "accepted" ELSE "refused"]
          /\ UNCHANGED <<job, asked, chain, head, task, receipts>>

Forget(c) ==
    /\ call[c].pc \in {"accepted", "refused"}
    /\ call' = [call EXCEPT ![c] = IdleCall]
    /\ UNCHANGED <<job, asked, chain, head, task, receipts>>

(***************************************************************************)
(* The specification                                                       *)
(***************************************************************************)

Init ==
    /\ job = [status |-> "queued", run |-> 1, revision |-> 1, attempt |-> None, claims |-> 0,
              attempts |-> 0, takeovers |-> 0, cancel |-> FALSE, open |-> {}]
    /\ asked = FALSE
    /\ chain = [n \in Runs |-> [parent |-> None, value |-> [s \in Sides |-> 0],
                               confirmed |-> {}]]
    /\ head = None
    /\ task = [t \in TaskIds |-> NoTask]
    /\ receipts = [k \in Keys |-> NoReceipt]
    /\ call = [c \in Calls |-> IdleCall]

JobNext ==
    \/ Claim
    \/ Prepare
    \/ \E questions \in SUBSET Sides : Register(questions)
    \/ Park
    \/ \E e \in {"publish_result", "retryable_error", "permanent_error", "lease_expired",
                 "cancel_acknowledged"} : EndAttempt(e)
    \/ ScheduleRetry
    \/ Cancel

CallNext(c) ==
    \/ \E k \in Keys, t \in TaskIds, a \in {"confirm", "correct", "reject"} : Begin(c, k, t, a)
    \/ \E d \in Calls : Retry(c, d)
    \/ ReadTask(c)
    \/ ReadReceipt(c)
    \/ Commit(c)
    \/ Forget(c)

Next == JobNext \/ \E c \in Calls : CallNext(c)

Spec == Init /\ [][Next]_vars

(***************************************************************************)
(* Properties                                                              *)
(***************************************************************************)

\* Types of the job row, the stored rows and the calls' locals.
TypeOK ==
    /\ job \in [status : Statuses, run : Runs, revision : Runs, attempt : Nat, claims : Nat,
                attempts : Nat, takeovers : Nat, cancel : BOOLEAN, open : SUBSET Sides]
    /\ asked \in BOOLEAN
    /\ chain \in [Runs -> Snapshots]
    /\ head \in Runs \cup {None}
    /\ task \in [TaskIds -> TaskRows]
    /\ receipts \in [Keys -> Receipts]
    /\ call \in [Calls -> [pc : {"idle", "sent", "read", "admitted", "accepted", "refused"},
                           key : Keys \cup {None}, command : Commands, seen : TaskRows,
                           head : Runs \cup {None}]]

\* One question has one answer: concurrent responses under different keys, from pages
\* of any age, never both commit for the same task.
AnsweredOnce ==
    \A k, l \in Keys :
        /\ Committed(k)
        /\ Committed(l)
        /\ receipts[k].command.task = receipts[l].command.task
        => k = l

\* No committed correction is overwritten by one that was derived from an older
\* revision: the chain is linear and the head holds every correction made so far.
NoAnswerLost ==
    head # None =>
        /\ \A n \in 2..head : chain[n].parent = n - 1
        /\ \A s \in Sides : chain[head].value[s] =
              Cardinality({k \in Keys : /\ Committed(k)
                                       /\ receipts[k].command.action = "correct"
                                       /\ receipts[k].command.task[2] = s})

\* A confirmation in the current material was given after the last correction of any
\* value: what was confirmed against older material has been cleared.
ConfirmationsAreCurrent ==
    head # None =>
        \A s \in chain[head].confirmed : \E k \in Keys :
            /\ receipts[k].command.action = "confirm"
            /\ receipts[k].command.task[2] = s
            /\ \A l \in Keys : receipts[l].command.action = "correct" =>
                  receipts[l].revision < receipts[k].revision

\* An open question is about the current run and material of a live job, and the
\* questions a waiting job lists are exactly the open ones, so none is shown that
\* could not be answered and none is waited for that is already closed.
OpenQuestionsAreCurrent ==
    /\ \A t \in TaskIds : task[t].state = "open" =>
          /\ t[1] = job.run
          /\ task[t].revision = job.revision
          /\ head = job.revision
          /\ job.status \notin Terminal
    /\ job.status = "waiting_for_human" =>
          /\ job.open # {}
          /\ job.open = {s \in Sides : task[<<job.run, s>>].state = "open"}

\* What a receipt says happened: its task is answered, its revision's parent is the one
\* that was answered, its siblings are superseded; and an accepted call holds the
\* receipt of its own command.
ReceiptsTellTheTruth ==
    /\ \A k \in Keys : Committed(k) =>
          LET r == receipts[k]
          IN  /\ task[r.command.task].state = "answered"
              /\ r.revision # None => chain[r.revision].parent = r.command.revision
              /\ \A t \in r.superseded : task[t].state = "superseded"
    /\ \A c \in Calls : call[c].pc = "accepted" =>
          receipts[call[c].key].command = call[c].command

\* A retry of a response that committed gets its receipt, never a conflict, however it
\* overlaps the first call.
ExactRetryIsHonoured ==
    [][\A c \in Calls :
          /\ call[c].pc \in {"sent", "read", "admitted"}
          /\ Committed(call[c].key)
          /\ receipts[call[c].key].command = call[c].command
          => call'[c].pc # "refused"]_vars

\* Every question is well formed, asked about the current run and material, and
\* answered at most once.
QuestionsAreSettledOnce == TypeOK /\ AnsweredOnce /\ OpenQuestionsAreCurrent

\* The current material holds every committed answer and nothing confirmed against
\* older material: what the next run reviews is what the reviewers said.
MaterialIsWhatWasAnswered == NoAnswerLost /\ ConfirmationsAreCurrent
=============================================================================
