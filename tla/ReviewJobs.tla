----------------------------- MODULE ReviewJobs -----------------------------
(***************************************************************************)
(* The durable job control plane: the job store, its outbox and the result *)
(* bodies (SQLite: every operation is one serialized transaction), the     *)
(* dispatch queue, and the processes that work on them: callers, outbox    *)
(* dispatchers, the reconciler, and runtime workers that execute a claimed *)
(* run under a lease.  Workers and dispatchers make several store calls in *)
(* a row; each call is one action, so everything another process does in   *)
(* between, and a crash at any point, is a behaviour of the model.         *)
(*                                                                         *)
(* Time is abstracted to what the code tests.  A lease is "valid" until it *)
(* lapses; `now` is read before the transaction starts, so a test of       *)
(* lease_expires_at against `now` may still pass on a lease that has       *)
(* lapsed meanwhile.  A round's delay is a flag that elapses.              *)
(*                                                                         *)
(* Each claim draws a fresh owner, a fresh attempt id and the next fencing *)
(* token of its run, so the token stands for all three identities.         *)
(***************************************************************************)
EXTENDS JobState, Sequences, FiniteSets

CONSTANTS
    Jobs,           \* accepted submissions, one per (principal, idempotency key)
    Workers,        \* processes that run RuntimeWorker.process
    Dispatchers,    \* processes that run OutboxDispatcher.run_once
    Tasks,          \* human tasks an execution may open
    MaxRuns,        \* bound: runs of one job (a committed response starts one)
    MaxCrashes      \* bound: process deaths in one behaviour

ASSUME BoundsAssumption ==
    /\ Jobs # {}
    /\ MaxRuns \in Nat \ {0}
    /\ MaxCrashes \in Nat

VARIABLES
    \* the _Job row of each job
    status, current, attempts, takeovers, cancel, tasks, problem,
    \* the _Run row of each run <<j, r>>
    token, holder, lease, version, runStatus,
    outbox,     \* outbox[j]: the job's dispatch rounds, in outbox_seq order
    bodies,     \* staged result bodies (review_results)
    results,    \* committed result references
    queue,      \* messages <<j, n>>: round n of job j, not acknowledged yet
    batch, out, \* a dispatcher's pass: rounds to send, round sent but not marked
    wk,         \* wk[w]: the worker's call of process()
    crashes     \* process deaths so far

\* One row of each table.
JobRow(j) == <<status[j], current[j], attempts[j], takeovers[j], cancel[j], tasks[j], problem[j]>>
RunRow(x) == <<token[x], holder[x], lease[x], version[x], runStatus[x]>>

jobVars == <<status, current, attempts, takeovers, cancel, tasks, problem>>
runVars == <<token, holder, lease, version, runStatus>>
store == <<jobVars, runVars, outbox, bodies, results>>
disp == <<batch, out>>
vars == <<store, queue, disp, wk, crashes>>

Runs == 1..MaxRuns
None == 0       \* no token, no run

Rounds == [run : Runs, state : {"pending", "sent", "abandoned"}, due : BOOLEAN]
Bodies == [job : Jobs, run : Runs, version : Nat, attempt : Nat, by : Nat]
References == [job : Jobs, run : Runs, version : Nat, token : Nat, digest : Nat]
Messages == Jobs \X (Nat \ {0})

\* The attempt a worker claimed, where process() is, and what it read.
WorkerRows == [pc : {"idle", "claimed", "executing", "ready", "staged", "stopping",
                     "retrying", "done"},
               msg : Messages, run : Runs, token : Nat, expected : Nat, seen : Nat]

IdleWorker == [pc |-> "idle", msg |-> <<CHOOSE j \in Jobs : TRUE, 1>>, run |-> 1,
               token |-> 0, expected |-> 0, seen |-> None]

\* process() has returned; only its message is still of use to the caller.
Returned(m) == [pc |-> "done", msg |-> m, run |-> 1, token |-> 0, expected |-> 0,
                seen |-> None]

Exists(j) == status[j] # "absent"

\* _facts(): what next_state may look at; finish and reject override `open`.
Facts(j, open) == [status |-> status[j], attempts |-> attempts[j],
                   takeovers |-> takeovers[j], cancel |-> cancel[j], open |-> open]
Transition(j, e) == NextState(Facts(j, tasks[j] # {}), e)

\* _enqueue: a new round, due now unless the caller schedules it for later.
Enqueued(j, r, due) ==
    outbox' = [outbox EXCEPT ![j] = Append(@, [run |-> r, state |-> "pending", due |-> due])]

\* The status of a job is written to its row and to a run's row; a released lease
\* loses owner, deadline and attempt id together (_release).
SetStatus(j, r, s, release) ==
    /\ status' = [status EXCEPT ![j] = s]
    /\ runStatus' = [runStatus EXCEPT ![<<j, r>>] = s]
    /\ holder' = [holder EXCEPT ![<<j, r>>] = IF release THEN None ELSE @]
    /\ lease' = [lease EXCEPT ![<<j, r>>] = IF release THEN "none" ELSE @]

(***************************************************************************)
(* Callers                                                                 *)
(***************************************************************************)

\* submit -> create_job.  A replay of the same key finds the job and changes nothing.
Submit(j) ==
    /\ ~Exists(j)
    /\ status' = [status EXCEPT ![j] = InitialTransition.status]
    /\ current' = [current EXCEPT ![j] = 1]
    /\ Enqueued(j, 1, TRUE)
    /\ UNCHANGED <<attempts, takeovers, cancel, tasks, problem, runVars, bodies, results,
                   queue, disp, wk, crashes>>

\* cancel: a running attempt is only asked to stop, everything else stops now.
Cancel(j) ==
    LET t == Transition(j, "cancel")
    IN  /\ Exists(j)
        /\ t # Conflict
        /\ IF t.cancel
           THEN /\ cancel' = [cancel EXCEPT ![j] = TRUE]
                /\ UNCHANGED <<status, tasks, problem, runVars>>
           ELSE /\ SetStatus(j, current[j], t.status, t.release)
                /\ problem' = [problem EXCEPT ![j] = TRUE]
                /\ tasks' = [tasks EXCEPT ![j] = {}]
                /\ UNCHANGED <<cancel, token, version>>
        /\ UNCHANGED <<current, attempts, takeovers, outbox, bodies, results, queue, disp, wk,
                       crashes>>

\* A committed response to one open task: commit_response on a waiting job without
\* a cancel request, then resume_after_human with a fresh run in the same transaction.
Resume(j) ==
    LET t == Transition(j, "human_response_committed")
        r == current[j] + 1
    IN  /\ Exists(j)
        /\ t # Conflict
        /\ ~cancel[j]
        /\ tasks[j] # {}
        /\ r \in Runs
        /\ status' = [status EXCEPT ![j] = t.status]
        /\ current' = [current EXCEPT ![j] = r]
        /\ tasks' = [tasks EXCEPT ![j] = {}]
        /\ Enqueued(j, r, TRUE)
        /\ UNCHANGED <<attempts, takeovers, cancel, problem, runVars, bodies, results, queue,
                       disp, wk, crashes>>

\* A committed rejection of one open task: the job fails with its last task.
RejectHumanTask(j, task) ==
    LET remaining == tasks[j] \ {task}
        t == NextState(Facts(j, remaining # {}), "human_rejected")
    IN  /\ Exists(j)
        /\ ~cancel[j]
        /\ task \in tasks[j]
        /\ t # Conflict
        /\ SetStatus(j, current[j], t.status, t.release)
        /\ tasks' = [tasks EXCEPT ![j] = remaining]
        /\ problem' = [problem EXCEPT ![j] = t.status = "failed"]
        /\ UNCHANGED <<current, attempts, takeovers, cancel, token, version, outbox, bodies,
                       results, queue, disp, wk, crashes>>

(***************************************************************************)
(* Outbox dispatchers                                                      *)
(***************************************************************************)

Round(m) == outbox[m[1]][m[2]]
Issued == UNION {{j} \X DOMAIN outbox[j] : j \in Jobs}
DueRounds == {m \in Issued : Round(m).state = "pending" /\ Round(m).due}
Idle(d) == batch[d] = {} /\ out[d] = {}

\* due_dispatches: the candidates of one pass, read once and used after more steps.
DueDispatches(d) ==
    /\ Idle(d)
    /\ DueRounds # {}
    /\ batch' = [batch EXCEPT ![d] = DueRounds]
    /\ UNCHANGED <<store, queue, out, wk, crashes>>

\* send(): the queue accepts the message; the round is not marked yet.  The queue
\* keeps one message per dispatch token.
Send(d, m) ==
    /\ m \in batch[d]
    /\ out[d] = {}
    /\ queue' = queue \cup {m}
    /\ batch' = [batch EXCEPT ![d] = @ \ {m}]
    /\ out' = [out EXCEPT ![d] = {m}]
    /\ UNCHANGED <<store, wk, crashes>>

\* Mutant: the status follows the mark whatever the job did since the send.
MarkAlwaysMoves(j, n) ==
    /\ outbox' = [outbox EXCEPT ![j][n].state = "sent"]
    /\ status' = [status EXCEPT ![j] = IF @ = "running" THEN @ ELSE "dispatched"]
    /\ UNCHANGED <<current, attempts, takeovers, cancel, tasks, problem, runVars>>

\* mark_dispatched on a pending round.  Only the job status is conditional; it is also
\* written to the row of the run the round was made for.
MarkDispatched(j, n) ==
    LET t == Transition(j, "dispatch_succeeded")
    IN  /\ outbox' = [outbox EXCEPT ![j][n].state = "sent"]
        /\ IF status[j] = "queued"
           THEN SetStatus(j, outbox[j][n].run, t.status, t.release)
           ELSE UNCHANGED <<status, runStatus, holder, lease>>
        /\ UNCHANGED <<current, attempts, takeovers, cancel, tasks, problem, token, version>>

\* confirm_dispatch after the send; ConditionFailed only means superseded.
ConfirmDispatch(d) ==
    /\ \E m \in out[d] :
          IF Round(m).state = "pending"
          THEN MarkDispatched(m[1], m[2])
          ELSE UNCHANGED <<jobVars, runVars, outbox>>
    /\ out' = [out EXCEPT ![d] = {}]
    /\ UNCHANGED <<bodies, results, queue, batch, wk, crashes>>

\* Mutant: a failed send keeps the round only while the job is queued.
DeferQueuedOnly(d, m) ==
    /\ m \in batch[d]
    /\ out[d] = {}
    /\ outbox' = [outbox EXCEPT ![m[1]][m[2]] =
                     IF status[m[1]] # "queued"
                     THEN [@ EXCEPT !.state = "abandoned"]
                     ELSE [@ EXCEPT !.due = FALSE]]
    /\ batch' = [batch EXCEPT ![d] = @ \ {m}]
    /\ UNCHANGED <<jobVars, runVars, bodies, results, queue, out, wk, crashes>>

\* TransientDispatchError, then defer_dispatch -> reschedule_dispatch: the round is
\* backed off, or abandoned with its job.  ConditionFailed is not caught on this path
\* and ends the pass.
DeferDispatch(d, m) ==
    /\ m \in batch[d]
    /\ out[d] = {}
    /\ IF Round(m).state = "pending"
       THEN /\ IF status[m[1]] \in Terminal
               THEN outbox' = [outbox EXCEPT ![m[1]][m[2]].state = "abandoned"]
               ELSE outbox' = [outbox EXCEPT ![m[1]][m[2]].due = FALSE]
            /\ batch' = [batch EXCEPT ![d] = @ \ {m}]
       ELSE /\ batch' = [batch EXCEPT ![d] = {}]
            /\ UNCHANGED outbox
    /\ UNCHANGED <<jobVars, runVars, bodies, results, queue, out, wk, crashes>>

(***************************************************************************)
(* The reconciler                                                          *)
(***************************************************************************)

\* expire_lease applied to a running job whose lease has lapsed.
Reclaim(j, r) ==
    LET t == Transition(j, "lease_expired")
    IN  /\ SetStatus(j, r, t.status, t.release)
        /\ takeovers' = [takeovers EXCEPT ![j] = @ + t.takeover]
        /\ problem' = [problem EXCEPT ![j] = @ \/ t.status \in {"failed", "cancelled"}]
        /\ tasks' = [tasks EXCEPT ![j] = IF t.status = "cancelled" THEN {} ELSE @]
        /\ IF t.enqueue THEN Enqueued(j, r, TRUE) ELSE UNCHANGED outbox
        /\ UNCHANGED <<current, attempts, cancel, token, version, bodies, results, queue,
                       disp, wk, crashes>>

\* Mutant: the scan leaves attempts alone that were asked to stop.
ExpireSkipsCancelled(j, r) ==
    /\ lease[<<j, r>>] = "lapsed"
    /\ status[j] = "running"
    /\ ~cancel[j]
    /\ Reclaim(j, r)

\* reclaim_expired_leases -> expire_lease.  The scan yields candidates; the write
\* tests token, deadline and status again.
ExpireLease(j, r) ==
    /\ lease[<<j, r>>] = "lapsed"
    /\ status[j] = "running"
    /\ Reclaim(j, r)

\* Mutant: the retry is written without asking the transition table.
RetryUnchecked(j) ==
    LET t == Transition(j, "schedule_retry")
    IN  /\ Exists(j)
        /\ SetStatus(j, current[j], t.status, t.release)
        /\ problem' = [problem EXCEPT ![j] = FALSE]
        /\ Enqueued(j, current[j], FALSE)
        /\ UNCHANGED <<current, attempts, takeovers, cancel, tasks, token, version>>

\* schedule_retry, delayed by the backoff.
ScheduleRetry(j) ==
    LET t == Transition(j, "schedule_retry")
    IN  /\ Exists(j)
        /\ t # Conflict
        /\ SetStatus(j, current[j], t.status, t.release)
        /\ problem' = [problem EXCEPT ![j] = FALSE]
        /\ Enqueued(j, current[j], FALSE)
        /\ UNCHANGED <<current, attempts, takeovers, cancel, tasks, token, version>>

\* recover_job, and recover_stranded_retryables once its cutoff has passed.
RecoverRetryable(j) ==
    /\ ScheduleRetry(j)
    /\ UNCHANGED <<bodies, results, queue, disp, wk, crashes>>

(***************************************************************************)
(* Runtime workers                                                         *)
(***************************************************************************)

\* The claim of run r is granted: a current run without a lease in force.
Grantable(j, r) ==
    /\ Exists(j)
    /\ current[j] = r
    /\ lease[<<j, r>>] # "valid"
    /\ Transition(j, "claim") # Conflict

\* A message is delivered and process() claims its run.  A refused claim is
\* "superseded": the call returns.
Claim(w, m) ==
    LET j == m[1]
        r == Round(m).run
        next == token[<<j, r>>] + 1
    IN  /\ wk[w].pc = "idle"
        /\ m \in queue
        /\ IF Grantable(j, r)
           THEN /\ status' = [status EXCEPT ![j] = "running"]
                /\ runStatus' = [runStatus EXCEPT ![<<j, r>>] = "running"]
                /\ token' = [token EXCEPT ![<<j, r>>] = next]
                /\ holder' = [holder EXCEPT ![<<j, r>>] = next]
                /\ lease' = [lease EXCEPT ![<<j, r>>] = "valid"]
                /\ wk' = [wk EXCEPT ![w] = [pc |-> "claimed", msg |-> m, run |-> r,
                                            token |-> next, expected |-> version[<<j, r>>],
                                            seen |-> None]]
           ELSE /\ wk' = [wk EXCEPT ![w] = Returned(m)]
                /\ UNCHANGED <<status, runStatus, token, holder, lease>>
        /\ UNCHANGED <<current, attempts, takeovers, cancel, tasks, problem, version, outbox,
                       bodies, results, queue, disp, crashes>>

JobOf(w) == wk[w].msg[1]
RunOf(w) == <<JobOf(w), wk[w].run>>
Goto(w, pc) == wk' = [wk EXCEPT ![w].pc = pc]

Return(w) == wk' = [wk EXCEPT ![w] = Returned(wk[w].msg)]

\* Mutant: owner, attempt id and fencing token are not compared.
OwnsByStatus(w) ==
    /\ status[JobOf(w)] = "running"
    /\ current[JobOf(w)] = wk[w].run
    /\ version[RunOf(w)] = wk[w].expected

\* _authority without the deadline: this attempt still holds its run's lease.
Owns(w) ==
    /\ status[JobOf(w)] = "running"
    /\ current[JobOf(w)] = wk[w].run
    /\ token[RunOf(w)] = wk[w].token
    /\ holder[RunOf(w)] = wk[w].token
    /\ version[RunOf(w)] = wk[w].expected

\* The read after the claim.  Its run reference carries the attempt id stored now,
\* which is what the execution's result will carry.
ReadJob(w) ==
    LET j == JobOf(w)
    IN  /\ wk[w].pc = "claimed"
        /\ IF current[j] # wk[w].run
           THEN Return(w)
           ELSE wk' = [wk EXCEPT ![w] =
                  [@ EXCEPT !.pc = IF cancel[j] THEN "stopping" ELSE "executing",
                            !.seen = IF status[j] = "running" THEN holder[RunOf(w)]
                                     ELSE None]]
        /\ UNCHANGED <<store, queue, disp, crashes>>

\* Mutant: the lease is renewed for whoever asks.
HeartbeatUnfenced(w) ==
    /\ wk[w].pc = "executing"
    /\ lease' = [lease EXCEPT ![RunOf(w)] = IF @ = "none" THEN @ ELSE "valid"]
    /\ IF cancel[JobOf(w)]
       THEN Goto(w, "stopping")
       ELSE Goto(w, "executing") \/ Goto(w, "ready")
    /\ UNCHANGED <<jobVars, token, holder, version, runStatus, outbox, bodies, results, queue,
                   disp, crashes>>

\* heartbeat: renew the lease and learn of a cancel request; go on, or leave the
\* loop with the finished execution.
Heartbeat(w) ==
    /\ wk[w].pc = "executing"
    /\ Owns(w)
    /\ lease' = [lease EXCEPT ![RunOf(w)] = "valid"]
    /\ IF cancel[JobOf(w)]
       THEN Goto(w, "stopping")
       ELSE Goto(w, "executing") \/ Goto(w, "ready")
    /\ UNCHANGED <<jobVars, token, holder, version, runStatus, outbox, bodies, results, queue,
                   disp, crashes>>

\* results.put: stage the body.  The store compares the body's attempt id, not the
\* caller's token, and reads the clock inside the transaction.
Put(w) ==
    LET j == JobOf(w)
    IN  /\ wk[w].pc = "ready"
        /\ current[j] = wk[w].run
        /\ status[j] = "running"
        /\ ~cancel[j]
        /\ holder[RunOf(w)] = wk[w].seen
        /\ lease[RunOf(w)] = "valid"
        /\ version[RunOf(w)] = wk[w].expected
        /\ bodies' = bodies \cup {[job |-> j, run |-> wk[w].run,
                                   version |-> wk[w].expected + 1,
                                   attempt |-> wk[w].seen, by |-> wk[w].token]}
        /\ Goto(w, "staged")
        /\ UNCHANGED <<jobVars, runVars, outbox, results, queue, disp, crashes>>

\* finish(event, open_task_ids): apply the transition and release the lease.
Finish(w, e, open) ==
    LET j == JobOf(w)
        t == NextState(Facts(j, open # {}), e)
    IN  /\ Owns(w)
        /\ t # Conflict
        /\ SetStatus(j, wk[w].run, t.status, t.release)
        /\ attempts' = [attempts EXCEPT ![j] = @ + t.attempt]
        /\ problem' = [problem EXCEPT ![j] = t.status \in {"failed", "cancelled"}]
        /\ tasks' = [tasks EXCEPT ![j] = IF t.status = "cancelled" THEN {} ELSE open]
        /\ version' = IF e = "publish_result"
                      THEN [version EXCEPT ![RunOf(w)] = @ + 1] ELSE version
        /\ UNCHANGED <<current, takeovers, cancel, token>>

\* The staged candidates of the version this attempt publishes.
Candidates(w) == {b \in bodies : /\ b.job = JobOf(w)
                                 /\ b.run = wk[w].run
                                 /\ b.version = wk[w].expected + 1}

\* finish(PUBLISH_RESULT): refused once a cancel is requested, and for a digest that
\* this attempt did not stage; versions are append-only.
Publish(w) ==
    LET reference == [job |-> JobOf(w), run |-> wk[w].run, version |-> wk[w].expected + 1,
                      token |-> wk[w].token, digest |-> wk[w].seen]
    IN  /\ wk[w].pc = "staged"
        /\ ~cancel[JobOf(w)]
        /\ \/ Candidates(w) = {}
           \/ \E b \in Candidates(w) : b.attempt = wk[w].token /\ b.attempt = wk[w].seen
        /\ ~\E x \in results : /\ x.job = reference.job
                               /\ x.run = reference.run
                               /\ x.version = reference.version
        /\ Finish(w, "publish_result", {})
        /\ results' = results \cup {reference}
        /\ Return(w)
        /\ UNCHANGED <<outbox, bodies, queue, disp, crashes>>

\* wait_for_human with the tasks the execution persisted.
WaitForHuman(w, open) ==
    /\ wk[w].pc = "ready"
    /\ open # {}
    /\ Finish(w, "needs_human", open)
    /\ Return(w)
    /\ UNCHANGED <<outbox, bodies, results, queue, disp, crashes>>

\* fail(retryable): a timeout, an infrastructure fault or any other exception.  The
\* retry is a second transaction, due only if the finish left retryable_failed.
FailRetryable(w) ==
    /\ wk[w].pc \in {"claimed", "executing", "ready", "staged", "stopping"}
    /\ Finish(w, "retryable_error", {})
    /\ IF status'[JobOf(w)] = "retryable_failed" THEN Goto(w, "retrying") ELSE Return(w)
    /\ UNCHANGED <<outbox, bodies, results, queue, disp, crashes>>

\* fail(permanent): validation, authorization and not-found faults of the execution.
FailPermanent(w) ==
    /\ wk[w].pc = "ready"
    /\ Finish(w, "permanent_error", {})
    /\ Return(w)
    /\ UNCHANGED <<outbox, bodies, results, queue, disp, crashes>>

\* acknowledge_cancel
AcknowledgeCancel(w) ==
    /\ wk[w].pc = "stopping"
    /\ Finish(w, "cancel_acknowledged", {})
    /\ Return(w)
    /\ UNCHANGED <<outbox, bodies, results, queue, disp, crashes>>

\* _reschedule by the worker that failed; the reconciler, a claim or a cancel may
\* have moved the job first, which ends the call.
Reschedule(w) ==
    /\ wk[w].pc = "retrying"
    /\ IF status[JobOf(w)] = "retryable_failed"
       THEN ScheduleRetry(JobOf(w))
       ELSE UNCHANGED <<jobVars, runVars, outbox>>
    /\ Return(w)
    /\ UNCHANGED <<bodies, results, queue, disp, crashes>>

\* ConditionFailed from heartbeat, put or finish: the attempt lost its lease, its
\* deadline has passed, or a cancel closed publication.
Superseded(w) ==
    /\ wk[w].pc \in {"claimed", "executing", "ready", "staged", "stopping"}
    /\ \/ ~Owns(w)
       \/ lease[RunOf(w)] = "lapsed"
       \/ wk[w].pc \in {"ready", "staged"} /\ cancel[JobOf(w)]
    /\ Return(w)
    /\ UNCHANGED <<store, queue, disp, crashes>>

\* process() returned: the message is deleted.
Acknowledge(w) ==
    /\ wk[w].pc = "done"
    /\ queue' = queue \ {wk[w].msg}
    /\ wk' = [wk EXCEPT ![w] = IdleWorker]
    /\ UNCHANGED <<store, disp, crashes>>

(***************************************************************************)
(* Time and failures                                                       *)
(***************************************************************************)

\* The deadline of a lease passes without a renewal.
LeaseLapses(j, r) ==
    /\ lease[<<j, r>>] = "valid"
    /\ lease' = [lease EXCEPT ![<<j, r>>] = "lapsed"]
    /\ UNCHANGED <<jobVars, token, holder, version, runStatus, outbox, bodies, results, queue,
                   disp, wk, crashes>>

\* The backoff of a pending round elapses.
DelayElapses(j, n) ==
    /\ n \in DOMAIN outbox[j]
    /\ outbox[j][n].state = "pending"
    /\ ~outbox[j][n].due
    /\ outbox' = [outbox EXCEPT ![j][n].due = TRUE]
    /\ UNCHANGED <<jobVars, runVars, bodies, results, queue, disp, wk, crashes>>

\* A worker dies: its message stays in the queue, its lease stays in the store.
WorkerCrash(w) ==
    /\ crashes < MaxCrashes
    /\ wk[w].pc # "idle"
    /\ wk' = [wk EXCEPT ![w] = IdleWorker]
    /\ crashes' = crashes + 1
    /\ UNCHANGED <<store, queue, disp>>

\* A dispatcher dies in its pass.
DispatcherCrash(d) ==
    /\ crashes < MaxCrashes
    /\ ~Idle(d)
    /\ batch' = [batch EXCEPT ![d] = {}]
    /\ out' = [out EXCEPT ![d] = {}]
    /\ crashes' = crashes + 1
    /\ UNCHANGED <<store, queue, wk>>

-----------------------------------------------------------------------------
Init ==
    /\ status = [j \in Jobs |-> "absent"]
    /\ current = [j \in Jobs |-> None]
    /\ attempts = [j \in Jobs |-> 0]
    /\ takeovers = [j \in Jobs |-> 0]
    /\ cancel = [j \in Jobs |-> FALSE]
    /\ tasks = [j \in Jobs |-> {}]
    /\ problem = [j \in Jobs |-> FALSE]
    /\ token = [x \in Jobs \X Runs |-> 0]
    /\ holder = [x \in Jobs \X Runs |-> None]
    /\ lease = [x \in Jobs \X Runs |-> "none"]
    /\ version = [x \in Jobs \X Runs |-> 0]
    /\ runStatus = [x \in Jobs \X Runs |-> "queued"]
    /\ outbox = [j \in Jobs |-> << >>]
    /\ bodies = {}
    /\ results = {}
    /\ queue = {}
    /\ batch = [d \in Dispatchers |-> {}]
    /\ out = [d \in Dispatchers |-> {}]
    /\ wk = [w \in Workers |-> IdleWorker]
    /\ crashes = 0

CallerNext(j) ==
    \/ Submit(j)
    \/ Cancel(j)
    \/ Resume(j)
    \/ \E task \in Tasks : RejectHumanTask(j, task)

DispatcherNext(d) ==
    \/ DueDispatches(d)
    \/ \E m \in batch[d] : Send(d, m)
    \/ ConfirmDispatch(d)
    \/ \E m \in batch[d] : DeferDispatch(d, m)

ReconcilerNext(j) ==
    \/ \E r \in Runs : ExpireLease(j, r)
    \/ RecoverRetryable(j)

\* The steps of a worker that are not the delivery of a message.
WorkerStep(w) ==
    \/ ReadJob(w)
    \/ Heartbeat(w)
    \/ Put(w)
    \/ Publish(w)
    \/ \E open \in SUBSET Tasks : WaitForHuman(w, open)
    \/ FailRetryable(w)
    \/ FailPermanent(w)
    \/ AcknowledgeCancel(w)
    \/ Reschedule(w)
    \/ Superseded(w)
    \/ Acknowledge(w)

TimeNext(j) ==
    \/ \E r \in Runs : LeaseLapses(j, r)
    \/ \E n \in DOMAIN outbox[j] : DelayElapses(j, n)

Next ==
    \/ \E j \in Jobs : CallerNext(j) \/ ReconcilerNext(j) \/ TimeNext(j)
    \/ \E d \in Dispatchers : DispatcherNext(d) \/ DispatcherCrash(d)
    \/ \E w \in Workers :
          \/ \E m \in queue : Claim(w, m)
          \/ WorkerStep(w)
          \/ WorkerCrash(w)

Spec == Init /\ [][Next]_vars
(***************************************************************************)
(* Safety                                                                  *)
(***************************************************************************)

JobTypes ==
    /\ status \in [Jobs -> Statuses \cup {"absent"}]
    /\ current \in [Jobs -> Runs \cup {None}]
    /\ \A j \in Jobs : Exists(j) => current[j] \in Runs
    /\ attempts \in [Jobs -> Nat]
    /\ takeovers \in [Jobs -> Nat]
    /\ cancel \in [Jobs -> BOOLEAN]
    /\ tasks \in [Jobs -> SUBSET Tasks]
    /\ problem \in [Jobs -> BOOLEAN]

RunTypes ==
    /\ token \in [Jobs \X Runs -> Nat]
    /\ holder \in [Jobs \X Runs -> Nat]
    /\ lease \in [Jobs \X Runs -> {"none", "valid", "lapsed"}]
    /\ version \in [Jobs \X Runs -> Nat]
    /\ runStatus \in [Jobs \X Runs -> Statuses]

StoreTypes ==
    /\ outbox \in [Jobs -> Seq(Rounds)]
    /\ bodies \subseteq Bodies
    /\ results \subseteq References

\* A message in the queue, in a dispatcher's pass or in a worker's hands is a round
\* the outbox has recorded.
ProcessTypes ==
    /\ queue \subseteq Issued
    /\ batch \in [Dispatchers -> SUBSET Issued]
    /\ out \in [Dispatchers -> SUBSET Issued]
    /\ wk \in [Workers -> WorkerRows]
    /\ \A w \in Workers : wk[w].pc # "idle" => wk[w].msg \in Issued
    /\ crashes \in Nat

\* Types of the stored rows, the messages and the processes' locals; every message
\* names a recorded round, so claim and mark_dispatched always find their row.
TypeOK == JobTypes /\ RunTypes /\ StoreTypes /\ ProcessTypes

\* A lease exists exactly while its job is running, on the job's current run and
\* under that run's newest token: claim, finish, expire_lease, cancel and
\* resume_after_human together never leave a lease behind that would refuse the next
\* claim, nor a running job without one that the reconciler could reclaim.
LeaseIffRunning ==
    \A j \in Jobs, r \in Runs :
        LET leased == status[j] = "running" /\ current[j] = r
        IN  /\ lease[<<j, r>>] # "none" <=> leased
            /\ holder[<<j, r>>] # None <=> leased
            /\ leased => holder[<<j, r>>] = token[<<j, r>>]

\* No accepted job is lost, whatever the order of sends, marks, claims, crashes and
\* acknowledgements.  A job that waits for a worker owns a newest round, for its
\* current run, that is still pending or whose message is still in the queue and in
\* no worker's hands; a running job has a lease to reclaim; a waiting job has a task
\* to answer.  (A retryable failure is found by its own scan.)
NoLostWork ==
    \A j \in Jobs :
        LET n == Len(outbox[j])
        IN  /\ status[j] \in {"queued", "dispatched"} =>
                  /\ n > 0
                  /\ outbox[j][n].run = current[j]
                  /\ outbox[j][n].state = "pending" \/ <<j, n>> \in queue
                  /\ \A w \in Workers : wk[w].pc # "idle" => wk[w].msg # <<j, n>>
            /\ status[j] = "running" => lease[<<j, current[j]>>] # "none"
            /\ status[j] = "waiting_for_human" => tasks[j] # {}

\* Every stored job passes JobStatusView.honest_status, so the status endpoint can
\* always report it: a problem exactly on failed and cancelled jobs, a committed
\* version on succeeded ones, open tasks on waiting ones, and a pending cancel only
\* on a running or terminal job (CANCEL_PENDING_STATUSES).
HonestStatus ==
    \A j \in Jobs : Exists(j) =>
        /\ status[j] \in {"failed", "cancelled"} <=> problem[j]
        /\ status[j] = "succeeded" => version[<<j, current[j]>>] >= 1
        /\ status[j] = "waiting_for_human" <=> tasks[j] # {}
        /\ cancel[j] => status[j] \in Terminal \cup {"running"}

\* ReviewJobService.result never fails on a succeeded job: its current run has one
\* committed reference, and the body with that digest was staged by the very attempt
\* that committed it.  No other job has a committed reference.
CommittedResultSound ==
    /\ \A x \in results :
          /\ status[x.job] = "succeeded"
          /\ current[x.job] = x.run
          /\ version[<<x.job, x.run>>] = x.version
          /\ token[<<x.job, x.run>>] = x.token
          /\ [job |-> x.job, run |-> x.run, version |-> x.version,
              attempt |-> x.digest, by |-> x.token] \in bodies
    /\ \A x, y \in results : x.job = y.job => x = y
    /\ \A j \in Jobs : status[j] = "succeeded" => \E x \in results : x.job = j

\* A body is only ever staged by the attempt whose id it carries, although put()
\* compares the id read after the claim and never the caller's token.
StagedByItsAttempt == \A b \in bodies : b.attempt = b.by

\* The policy bounds the work one submission can cause: both counters stop below their
\* limit while the job is alive, so a claim can still end in either way.
LimitsAreKept ==
    \A j \in Jobs :
        /\ attempts[j] <= MaxAttempts
        /\ takeovers[j] <= MaxTakeovers
        /\ status[j] \notin Terminal =>
              attempts[j] < MaxAttempts /\ takeovers[j] < MaxTakeovers

\* Every claim is paid for by a business attempt, a takeover or a run, so that the limits
\* on those bound how often a job is worked on.  A claim draws one token of one run.
ClaimsOf(j) == UNION {{r} \X (1..token[<<j, r>>]) : r \in Runs}
EveryClaimIsPaid ==
    \A j \in Jobs : Cardinality(ClaimsOf(j)) <= attempts[j] + takeovers[j] + current[j]

(***************************************************************************)
(* Steps that may never happen                                             *)
(***************************************************************************)

\* A terminal job absorbs nothing: no late worker, dispatcher, reviewer or caller
\* changes its row, its runs, its rounds' number or its committed result.
TerminalIsFinal ==
    [][\A j \in Jobs : status[j] \in Terminal =>
          /\ JobRow(j)' = JobRow(j)
          /\ \A r \in Runs : RunRow(<<j, r>>)' = RunRow(<<j, r>>)
          /\ Len(outbox'[j]) = Len(outbox[j])
          /\ {x \in results' : x.job = j} = {x \in results : x.job = j}]_vars

\* A recorded cancel outranks every recovery path: from then on no claim, round,
\* waiting state or publication follows, and the request itself is never dropped.
CancelStopsWork ==
    [][\A j \in Jobs : cancel[j] =>
          /\ cancel'[j]
          /\ status'[j] \in {status[j], "cancelled", "failed"}
          /\ \A r \in Runs : token'[<<j, r>>] = token[<<j, r>>]
          /\ Len(outbox'[j]) = Len(outbox[j])]_vars

\* Fencing: a step of a worker that does not hold its run's lease leaves the job's
\* rows, bodies and results alone.  (Its scheduled retry is not lease-bound.)
StaleAttemptsAreFenced ==
    [][\A w \in Workers :
          /\ wk'[w] # wk[w]
          /\ wk[w].pc \in {"executing", "ready", "staged", "stopping"}
          /\ ~Owns(w)
          => UNCHANGED store]_vars

\* What is stored of a job is what one attempt of it did: a committed result has its
\* body, a body its author, a status its evidence, and the work stays within the policy.
RecordsAreHonest ==
    CommittedResultSound /\ StagedByItsAttempt /\ HonestStatus /\ LimitsAreKept

\* A terminal status and a recorded cancel request are decisions nothing undoes.
DecisionsStand == TerminalIsFinal /\ CancelStopsWork

(***************************************************************************)
(* What the repository says and this store does not do                     *)
(***************************************************************************)

\* adapters/aws/job_store.py: "Late confirmation for an old run must not move the new
\* run to dispatched."  A dispatched job has had a round of its current run sent.
DispatchedIsHandedOver ==
    \A j \in Jobs : status[j] = "dispatched" =>
        \E n \in DOMAIN outbox[j] : /\ outbox[j][n].run = current[j]
                                   /\ outbox[j][n].state = "sent"

\* job_state._cancel_preempted: "A completed publication is the one outcome that
\* survives a pending cancel."  An attempt that staged its result and still holds a
\* lease in force is not turned away.
PublicationSurvivesCancel ==
    [][\A w \in Workers :
          /\ wk[w].pc = "staged"
          /\ Owns(w)
          /\ lease[RunOf(w)] = "valid"
          /\ wk'[w].pc = "done"
          => status'[JobOf(w)] # status[JobOf(w)]]_vars

\* OutboxDispatcher.run_once: "One round failing must not end the pass either."  Only
\* a crash takes more than one round out of a dispatcher's batch.
OneFailureKeepsThePass ==
    [][crashes' = crashes =>
          \A d \in Dispatchers : Cardinality(batch[d] \ batch'[d]) <= 1]_vars

(***************************************************************************)
(* Liveness                                                                *)
(***************************************************************************)

\* Rounds of one job: the submission's, and one per takeover, retry and resume.
MaxRounds == MaxTakeovers + MaxAttempts + MaxRuns - 2
RoundIds == Jobs \X (1..MaxRounds)

\* A live worker still renews this lease.
Renewed(j, r) == \E w \in Workers : /\ wk[w].pc \in {"claimed", "executing", "ready",
                                                      "staged", "stopping"}
                                    /\ JobOf(w) = j
                                    /\ wk[w].run = r
                                    /\ Owns(w)

\* The tick loop runs the reconciler and the dispatcher again and again and hands
\* every queued message to a worker; a send that is retried for ever succeeds at
\* last; the worker's deadline makes it leave its heartbeat loop; time passes.
Fairness ==
    /\ \A j \in Jobs :
          /\ WF_vars(RecoverRetryable(j))
          /\ \A r \in Runs : /\ WF_vars(ExpireLease(j, r))
                              /\ WF_vars(~Renewed(j, r) /\ LeaseLapses(j, r))
          /\ \A n \in 1..MaxRounds : WF_vars(DelayElapses(j, n))
    /\ \A d \in Dispatchers :
          /\ WF_vars(DueDispatches(d))
          /\ WF_vars(ConfirmDispatch(d))
          /\ WF_vars(DispatcherNext(d))
          /\ \A m \in RoundIds : SF_vars(Send(d, m))
    /\ \A w \in Workers : WF_vars(WorkerStep(w) /\ wk'[w].pc # wk[w].pc)
    /\ \A m \in RoundIds : SF_vars(\E w \in Workers : Claim(w, m))

FairSpec == Spec /\ Fairness

\* Every accepted job comes to rest: it ends, or it waits for a reviewer.
EveryJobSettles ==
    \A j \in Jobs :
        Exists(j) ~> status[j] \in Terminal \cup {"waiting_for_human"}

\* A cancel request ends its job, even when the worker dies, loses its lease or
\* has its publication refused before it acknowledges.
CancelLands == \A j \in Jobs : cancel[j] ~> status[j] \in Terminal
=============================================================================
