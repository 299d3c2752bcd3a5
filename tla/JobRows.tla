------------------------------ MODULE JobRows -------------------------------
(***************************************************************************)
(* The operations of the JobStore port as functions of the stored rows of  *)
(* one job: its job row, run rows, attempt rows, outbox rounds and result  *)
(* references.  An operation yields the set of row states it may lead to,  *)
(* which is empty where the store raises ConditionFailed or CONFLICT.      *)
(* JobLedger applies them atomically, DynamoJobs to rows read earlier.     *)
(*                                                                         *)
(* A lease is valid until it lapses.  An operation takes `now` before it   *)
(* reads, so it may still find a lease in force that has lapsed since.     *)
(***************************************************************************)
EXTENDS JobState, Sequences, FiniteSets

CONSTANTS
    Tasks,          \* human tasks a run may open
    MaxRuns,        \* bound: runs of the job
    MaxDefers       \* bound: how often one round is rescheduled

ASSUME RowsAssumption == MaxRuns \in Nat \ {0} /\ MaxDefers \in Nat

RunIds == 1..MaxRuns
None == 0

JobRow == [status : Statuses \cup {"absent"}, run : RunIds, attempts : 0..MaxAttempts,
           takeovers : 0..MaxTakeovers, cancel : BOOLEAN, open : SUBSET Tasks, problem : BOOLEAN]
RunRow == [status : Statuses \cup {"absent"}, token : Nat, holder : Nat,
           lease : {"none", "valid", "lapsed"}, version : Nat]
OutboxRow == [run : RunIds, state : {"pending", "sent", "abandoned"}, due : BOOLEAN, gen : 0..MaxDefers]
Outcomes == {"running", "publish_result", "needs_human", "retryable_error", "permanent_error",
             "cancel_acknowledged", "lease_expired"}
AttemptRow == [run : RunIds, token : Nat \ {0}, outcome : Outcomes]
ResultRow == [run : RunIds, version : Nat \ {0}, token : Nat \ {0}]

\* ClaimedAttempt: the token stands for owner and attempt id, which are drawn with it.
ClaimedAttempt == [run : RunIds, token : Nat \ {0}, expected : Nat]

NoRun == [status |-> "absent", token |-> 0, holder |-> None, lease |-> "none", version |-> 0]

Empty == [job |-> [status |-> "absent", run |-> 1, attempts |-> 0, takeovers |-> 0, cancel |-> FALSE,
                   open |-> {}, problem |-> FALSE],
          runs |-> [r \in RunIds |-> NoRun],
          attempts |-> {}, outbox |-> << >>, results |-> {}]

Facts(s, open) == [status |-> s.job.status, attempts |-> s.job.attempts,
                   takeovers |-> s.job.takeovers, cancel |-> s.job.cancel, open |-> open]
Transition(s, e) ==
    IF s.job.status = "absent" THEN Conflict ELSE NextState(Facts(s, s.job.open # {}), e)

\* The new status goes to the job row and to the current run's row; _release.
WithStatus(s, t) ==
    LET row == s.runs[s.job.run]
    IN  [s EXCEPT !.job = [s.job EXCEPT !.status = t.status],
                  !.runs[s.job.run] = [row EXCEPT !.status = t.status,
                                                  !.holder = IF t.release THEN None ELSE row.holder,
                                                  !.lease = IF t.release THEN "none" ELSE row.lease]]

\* _enqueue.
Enqueued(s, r, due) ==
    [s EXCEPT !.outbox = Append(@, [run |-> r, state |-> "pending", due |-> due, gen |-> 0])]

\* _close_attempt: the row of the attempt that holds the lease gets its outcome.
Closed(s, event) ==
    LET a == [run |-> s.job.run, token |-> s.runs[s.job.run].token, outcome |-> "running"]
    IN  [s EXCEPT !.attempts = (@ \ {a}) \cup {[a EXCEPT !.outcome = event]}]

\* create_job: job, run, round and idempotency record, or nothing.
Created(s) ==
    IF s.job.status # "absent" THEN {}
    ELSE {Enqueued([s EXCEPT !.job.status = InitialTransition.status,
                             !.runs[1].status = InitialTransition.status], 1, TRUE)}

Claimed(s, r) ==
    LET n == s.runs[r].token + 1
    IN  IF s.job.run # r \/ s.runs[r].lease = "valid" \/ Transition(s, "claim") = Conflict THEN {}
        ELSE {[WithStatus(s, Transition(s, "claim")) EXCEPT
                  !.runs[r] = [@ EXCEPT !.token = n, !.holder = n, !.lease = "valid"],
                  !.attempts = @ \cup {[run |-> r, token |-> n, outcome |-> "running"]}]}

\* _authority.
Authority(s, a) ==
    /\ s.job.status = "running" /\ s.job.run = a.run
    /\ s.runs[a.run].token = a.token /\ s.runs[a.run].holder = a.token
    /\ s.runs[a.run].lease # "none"
    /\ s.runs[a.run].version = a.expected

Heartbeaten(s, a) ==
    IF Authority(s, a) THEN {[s EXCEPT !.runs[a.run].lease = "valid"]} ELSE {}

\* finish: publication also writes the result reference and the run's version.
Finished(s, a, event, open) ==
    LET t == NextState(Facts(s, open # {}), event)
        x == Closed(WithStatus(s, t), event)
        y == [x EXCEPT !.job = [x.job EXCEPT !.attempts = s.job.attempts + t.attempt,
                                             !.problem = t.status \in {"failed", "cancelled"},
                                             !.open = IF t.status = "cancelled" THEN {} ELSE open]]
    IN  IF ~Authority(s, a) \/ t = Conflict THEN {}
        ELSE IF event # "publish_result" THEN {y}
        ELSE {[y EXCEPT !.runs[a.run].version = a.expected + 1,
                        !.results = @ \cup {[run |-> a.run, version |-> a.expected + 1, token |-> a.token]}]}

\* expire_lease: only the exact lease that was seen to lapse.
Expired(s, r, token) ==
    LET t == Transition(s, "lease_expired")
        x == [Closed(WithStatus(s, t), "lease_expired") EXCEPT !.job.takeovers = @ + t.takeover]
    IN  IF s.job.run # r \/ s.runs[r].token # token \/ s.runs[r].lease # "lapsed" \/ t = Conflict THEN {}
        ELSE {IF t.enqueue THEN Enqueued(x, r, TRUE)
              ELSE [x EXCEPT !.job.problem = TRUE, !.job.open = {}]}

Cancelled(s) ==
    LET t == Transition(s, "cancel")
    IN  IF t = Conflict THEN {}
        ELSE IF t.cancel THEN {[s EXCEPT !.job.cancel = TRUE]}
        ELSE {[WithStatus(s, t) EXCEPT !.job.problem = TRUE, !.job.open = {}]}

RetryScheduled(s) ==
    LET t == Transition(s, "schedule_retry")
    IN  IF t = Conflict THEN {}
        ELSE {Enqueued([WithStatus(s, t) EXCEPT !.job.problem = FALSE], s.job.run, FALSE)}

TaskRejected(s, r, task) ==
    LET left == s.job.open \ {task}
        t == NextState(Facts(s, left # {}), "human_rejected")
    IN  IF s.job.run # r \/ task \notin s.job.open \/ t = Conflict THEN {}
        ELSE {[WithStatus(s, t) EXCEPT !.job.open = left, !.job.problem = t.status = "failed"]}

\* resume_after_human: a new run row; the old run's row is left alone.
Resumed(s) ==
    LET t == Transition(s, "human_response_committed")
        r == s.job.run + 1
    IN  IF t = Conflict \/ r \notin RunIds THEN {}
        ELSE {Enqueued([s EXCEPT !.job = [@ EXCEPT !.status = t.status, !.run = r, !.open = {}],
                                 !.runs[r].status = t.status], r, TRUE)}

IsPending(s, n, gen) ==
    n \in DOMAIN s.outbox /\ s.outbox[n].state = "pending" /\ s.outbox[n].gen = gen /\ s.outbox[n].due

\* Mutant: the confirmation of any round moves the job, and the round's own run row.
MarkedAnyRun(s, n, gen) ==
    IF ~IsPending(s, n, gen) THEN {}
    ELSE LET x == [s EXCEPT !.outbox[n].state = "sent"]
         IN  {IF s.job.status = "queued"
              THEN [x EXCEPT !.job.status = "dispatched", !.runs[s.outbox[n].run].status = "dispatched"]
              ELSE x}

\* mark_dispatched: a late confirmation of an old run's round only marks the round.
Marked(s, n, gen) ==
    IF ~IsPending(s, n, gen) THEN {}
    ELSE LET x == [s EXCEPT !.outbox[n].state = "sent"]
         IN  {IF s.job.status = "queued" /\ s.outbox[n].run = s.job.run
              THEN WithStatus(x, Transition(s, "dispatch_succeeded")) ELSE x}

\* reschedule_dispatch; MaxDefers is the model's bound.
Deferred(s, n, gen) ==
    IF ~IsPending(s, n, gen) \/ gen = MaxDefers THEN {}
    ELSE {[s EXCEPT !.outbox[n] = IF s.job.status \in Terminal THEN [@ EXCEPT !.state = "abandoned"]
                                  ELSE [@ EXCEPT !.due = FALSE, !.gen = gen + 1]]}

\* The calls of the port that may change something in s, by callers that hold the
\* attempts `held` and know the rounds of the outbox.
Calls(s, held) ==
    [kind : {"create", "cancel", "retry", "resume"}]
    \cup [kind : {"claim"}, run : RunIds]
    \cup [kind : {"heartbeat"}, att : held]
    \cup {[kind |-> "finish", att |-> a, event |-> e, open |-> o] :
             a \in held, e \in FinishEvents \ {"needs_human"}, o \in {{}}}
    \cup {[kind |-> "finish", att |-> a, event |-> "needs_human", open |-> o] :
             a \in held, o \in (SUBSET Tasks) \ {{}}}
    \cup {[kind |-> "expire", run |-> r, token |-> s.runs[r].token] : r \in RunIds}
    \cup [kind : {"reject"}, run : RunIds, task : Tasks]
    \cup [kind : {"mark", "defer"}, n : DOMAIN s.outbox, gen : 0..MaxDefers]

Effect(s, o) ==
    CASE o.kind = "create" -> Created(s)
      [] o.kind = "claim" -> Claimed(s, o.run)
      [] o.kind = "heartbeat" -> Heartbeaten(s, o.att)
      [] o.kind = "finish" -> Finished(s, o.att, o.event, o.open)
      [] o.kind = "expire" -> Expired(s, o.run, o.token)
      [] o.kind = "cancel" -> Cancelled(s)
      [] o.kind = "retry" -> RetryScheduled(s)
      [] o.kind = "reject" -> TaskRejected(s, o.run, o.task)
      [] o.kind = "resume" -> Resumed(s)
      [] o.kind = "mark" -> Marked(s, o.n, o.gen)
      [] o.kind = "defer" -> Deferred(s, o.n, o.gen)

\* Time: the current lease lapses, or a round's delay elapses.
Later(s) ==
    {[s EXCEPT !.runs[r].lease = "lapsed"] : r \in {x \in RunIds : s.runs[x].lease = "valid"}}
    \cup {[s EXCEPT !.outbox[n].due = TRUE] : n \in {x \in DOMAIN s.outbox : ~s.outbox[x].due}}
=============================================================================
