------------------------------ MODULE JobState ------------------------------
(***************************************************************************)
(* The transition table of a durable review job, as decided by             *)
(* next_state() in application/job_state.py: given the stored facts of a   *)
(* job and an event, either one transition or CONFLICT.  The table is pure;*)
(* the stores apply the transition it returns.                             *)
(***************************************************************************)
EXTENDS Naturals

CONSTANTS
    MaxAttempts,    \* JobPolicy.max_attempts: business attempts of one job
    MaxTakeovers    \* JobPolicy.max_lease_takeovers: leases reclaimed of one job

\* JobPolicy.__post_init__: "limits must allow at least one attempt".
ASSUME PolicyAssumption ==
    /\ MaxAttempts \in Nat \ {0}
    /\ MaxTakeovers \in Nat \ {0}

Terminal == {"failed", "succeeded", "cancelled"}
Claimable == {"queued", "dispatched", "retryable_failed"}
Cancellable == {"queued", "dispatched", "waiting_for_human", "retryable_failed"}
Statuses == Terminal \cup Claimable \cup {"running", "waiting_for_human"}

\* Events only the attempt that holds the lease may raise.
LeaseBound == {"heartbeat", "needs_human", "publish_result", "retryable_error",
               "permanent_error", "cancel_acknowledged"}

\* The events with which an attempt ends and gives its lease back.
FinishEvents == {"needs_human", "publish_result", "retryable_error", "permanent_error",
                 "cancel_acknowledged"}

\* What a transition decides: the new status, the two counter deltas, and whether
\* the lease is released, an outbox round is enqueued, a cancel request recorded.
Move(s) == [status |-> s, attempt |-> 0, takeover |-> 0,
            release |-> FALSE, enqueue |-> FALSE, cancel |-> FALSE]
Release(s) == [Move(s) EXCEPT !.release = TRUE]
Enqueue(s) == [Move(s) EXCEPT !.enqueue = TRUE]

\* ServiceFault(CONFLICT): the event is illegal here and nothing may change.
Conflict == Move("conflict")

\* A recorded cancel outranks every path that would hand the work forward.
CancelPreempted == Release("cancelled")

InitialTransition == Enqueue("queued")

\* Mutants of LeaseExpired: the lease stays with the dead attempt; recovery relies on
\* a redelivery instead of a fresh round; a pending cancel is forgotten.
ExpiredKeepsLease(f) ==
    IF f.status # "running" THEN Conflict
    ELSE IF f.cancel THEN CancelPreempted
    ELSE IF f.takeovers + 1 >= MaxTakeovers THEN [Move("failed") EXCEPT !.takeover = 1]
    ELSE [Enqueue("queued") EXCEPT !.takeover = 1]
ExpiredToDispatched(f) ==
    IF f.status # "running" THEN Conflict
    ELSE IF f.cancel THEN CancelPreempted
    ELSE IF f.takeovers + 1 >= MaxTakeovers THEN [Release("failed") EXCEPT !.takeover = 1]
    ELSE [Release("dispatched") EXCEPT !.takeover = 1]

\* Mutant: a lease taken over in time is not counted.
ExpiredUncounted(f) ==
    IF f.status # "running" THEN Conflict
    ELSE IF f.cancel THEN CancelPreempted
    ELSE IF f.takeovers + 1 >= MaxTakeovers
    THEN [Release("failed") EXCEPT !.takeover = 1]
    ELSE [Release("queued") EXCEPT !.enqueue = TRUE]

\* A dead worker consumes no attempt: the work goes back to the queue with a fresh
\* round, unless this was the last takeover the policy allows.
LeaseExpired(f) ==
    IF f.status # "running" THEN Conflict
    ELSE IF f.cancel THEN CancelPreempted
    ELSE IF f.takeovers + 1 >= MaxTakeovers
    THEN [Release("failed") EXCEPT !.takeover = 1]
    ELSE [Release("queued") EXCEPT !.takeover = 1, !.enqueue = TRUE]

NeedsHuman(f) ==
    IF f.cancel THEN CancelPreempted
    ELSE IF f.open THEN Release("waiting_for_human") ELSE Conflict

\* Mutant: one attempt more than the policy allows.
RetriesOnceMore(f) ==
    IF f.cancel THEN CancelPreempted
    ELSE [Release(IF f.attempts >= MaxAttempts THEN "failed" ELSE "retryable_failed")
             EXCEPT !.attempt = 1]

RetryableError(f) ==
    IF f.cancel THEN CancelPreempted
    ELSE [Release(IF f.attempts + 1 >= MaxAttempts THEN "failed" ELSE "retryable_failed")
             EXCEPT !.attempt = 1]

\* The legal outcome of an event on a job that is not terminal.
Decide(f, e) ==
    CASE e = "dispatch_succeeded" ->
            IF f.status = "queued" THEN Move("dispatched") ELSE Conflict
      [] e = "dispatch_failed" -> Move(f.status)
      [] e = "claim" ->
            IF f.status \in Claimable THEN Move("running") ELSE Conflict
      [] e = "heartbeat" -> Move("running")
      [] e = "lease_expired" -> LeaseExpired(f)
      [] e = "needs_human" -> NeedsHuman(f)
      [] e = "publish_result" -> Release("succeeded")
      [] e = "retryable_error" -> RetryableError(f)
      [] e = "permanent_error" -> Release("failed")
      [] e = "schedule_retry" ->
            IF f.status = "retryable_failed" THEN Enqueue("queued") ELSE Conflict
      [] e = "human_rejected" ->
            IF f.status # "waiting_for_human" THEN Conflict
            ELSE Move(IF f.open THEN "waiting_for_human" ELSE "failed")
      [] e = "human_response_committed" ->
            IF f.status = "waiting_for_human" THEN Enqueue("queued") ELSE Conflict
      [] e = "cancel" ->
            IF f.status = "running" THEN [Move("running") EXCEPT !.cancel = TRUE]
            ELSE IF f.status \in Cancellable THEN Release("cancelled") ELSE Conflict
      [] e = "cancel_acknowledged" ->
            IF f.cancel THEN Release("cancelled") ELSE Conflict
      [] OTHER -> Conflict

\* next_state(facts, event): terminal jobs reject everything, lease-bound events
\* need a running job, and the table decides the rest.
NextState(f, e) ==
    IF f.status \in Terminal \/ (e \in LeaseBound /\ f.status # "running")
    THEN Conflict
    ELSE Decide(f, e)
=============================================================================
