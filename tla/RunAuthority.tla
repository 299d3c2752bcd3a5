---------------------------- MODULE RunAuthority ----------------------------
(***************************************************************************)
(* One run of a job under both of its authorities: the job plane, which    *)
(* hands the run from attempt to attempt, and the workflow run ledger,     *)
(* which is bound for good to the run reference it was first acquired      *)
(* with.  That reference carries the attempt, so an attempt that takes the *)
(* run over after a crash or an error is refused by the ledger, and the    *)
(* refusal is reported to the job plane as a retryable error.              *)
(***************************************************************************)
EXTENDS JobState, FiniteSets

CONSTANT MaxAttempt     \* bound: attempts claimed of the run

ASSUME AttemptAssumption == MaxAttempt \in Nat \ {0}

VARIABLES
    facts,      \* the stored facts the transition table decides on
    current,    \* the attempt that was claimed last, 0 before the first
    ledger,        \* the ledger row of the run
    worker,     \* worker[a]: where the process of attempt a stands
    worked,     \* history: attempts that did external work for the run
    errors      \* history: attempts of which the review itself reported an error

authorityVars == <<facts, current, ledger, worker, worked, errors>>
AttemptIds == 1..MaxAttempt

AuthorityInit ==
    /\ facts = [status |-> "dispatched", cancel |-> FALSE, open |-> FALSE,
                attempts |-> 0, takeovers |-> 0]
    /\ current = 0
    /\ ledger = [bound |-> 0, owner |-> 0, quarantined |-> FALSE, result |-> "none"]
    /\ worker = [a \in AttemptIds |-> "none"]
    /\ worked = {} /\ errors = {}

\* The transition the table decides, applied to the facts; CONFLICT changes nothing.
Apply(e) ==
    LET t == NextState(facts, e)
    IN  facts' = IF t = Conflict THEN facts
                 ELSE [facts EXCEPT !.status = t.status, !.attempts = @ + t.attempt,
                                    !.takeovers = @ + t.takeover, !.cancel = @ \/ t.cancel]

Fenced(a) == a = current /\ facts.status = "running"

\* A lease-bound event: refused to an attempt that was superseded.
Report(a, e) ==
    /\ IF Fenced(a) THEN Apply(e) ELSE UNCHANGED facts
    /\ worker' = [worker EXCEPT ![a] = "gone"]

Dispatch ==
    /\ facts.status \in {"queued", "retryable_failed"}
    /\ Apply(IF facts.status = "queued" THEN "dispatch_succeeded" ELSE "schedule_retry")
    /\ UNCHANGED <<current, ledger, worker, worked, errors>>

Claim ==
    /\ facts.status = "dispatched" /\ current < MaxAttempt
    /\ Apply("claim")
    /\ current' = current + 1
    /\ worker' = [worker EXCEPT ![current + 1] = "acquire"]
    /\ UNCHANGED <<ledger, worked, errors>>

\* The lease of a silent attempt is reclaimed; its process may be dead or only slow.
LeaseLapses ==
    /\ facts.status = "running"
    /\ Apply("lease_expired")
    /\ UNCHANGED <<current, ledger, worker, worked, errors>>

\* _same_run: the whole run reference, its attempt included.
SameRun(a) == ledger.bound \in {0, a}

\* Mutant: a reservation whose attempt was superseded is free for the taking.
AcquireLapsed(a) ==
    /\ worker[a] = "acquire"
    /\ IF ~Fenced(a)
       THEN worker' = [worker EXCEPT ![a] = "gone"] /\ UNCHANGED ledger
       ELSE /\ ledger' = [ledger EXCEPT !.bound = a, !.owner = a, !.result = "none"]
            /\ worker' = [worker EXCEPT ![a] = "work"]
    /\ UNCHANGED <<facts, current, worked, errors>>

\* acquire, by BoundedWorkflowRunner.run after the job plane was asked once more.
AcquireRun(a) ==
    /\ worker[a] = "acquire"
    /\ IF ~Fenced(a)
       THEN worker' = [worker EXCEPT ![a] = "gone"] /\ UNCHANGED <<facts, ledger>>
       ELSE IF ~SameRun(a) \/ (ledger.result = "none" /\ (ledger.owner # 0 \/ ledger.quarantined))
       THEN Report(a, "retryable_error") /\ UNCHANGED ledger
       ELSE IF ledger.result # "none"
       THEN worker' = [worker EXCEPT ![a] = "settle"] /\ UNCHANGED <<facts, ledger>>
       ELSE /\ ledger' = [ledger EXCEPT !.bound = a, !.owner = a]
            /\ worker' = [worker EXCEPT ![a] = "work"]
            /\ UNCHANGED facts
    /\ UNCHANGED <<current, worked, errors>>

\* Model calls and tools under the reservation; they may be uncertain (abandon).
Work(a, outcome) ==
    /\ worker[a] = "work"
    /\ worked' = worked \cup {a}
    /\ IF outcome = "unknown"
       THEN /\ ledger' = [ledger EXCEPT !.owner = 0, !.quarantined = TRUE]
            /\ Report(a, "retryable_error")
            /\ errors' = IF Fenced(a) THEN errors \cup {a} ELSE errors
       ELSE /\ ledger' = [ledger EXCEPT !.owner = 0, !.result = outcome]
            /\ worker' = [worker EXCEPT ![a] = "settle"]
            /\ UNCHANGED <<facts, errors>>
    /\ UNCHANGED current

\* execute: a verified run is published, any other termination is a capability fault.
SettleJob(a) ==
    /\ worker[a] = "settle"
    /\ Report(a, IF ledger.result = "verified" THEN "publish_result" ELSE "retryable_error")
    /\ errors' = IF Fenced(a) /\ ledger.result # "verified" THEN errors \cup {a} ELSE errors
    /\ UNCHANGED <<current, ledger, worked>>

Die(a) ==
    /\ worker[a] \in {"acquire", "work", "settle"}
    /\ worker' = [worker EXCEPT ![a] = "gone"]
    /\ UNCHANGED <<facts, current, ledger, worked, errors>>

JobEnded == facts.status \in Terminal \/ (facts.status = "dispatched" /\ current = MaxAttempt)
Halt == JobEnded /\ (\A a \in AttemptIds : worker[a] \in {"none", "gone"}) /\ UNCHANGED authorityVars

AuthorityStep(a) == \/ AcquireRun(a) \/ SettleJob(a)
           \/ \E outcome \in {"verified", "failed", "unknown"} : Work(a, outcome)

AuthorityNext == \/ Dispatch \/ Claim \/ LeaseLapses \/ Halt
        \/ \E a \in AttemptIds : AuthorityStep(a) \/ Die(a)

\* The reconciler, the dispatcher and the workers are loops; a lapse is certain only
\* for an attempt whose process is gone.
AuthorityFairness ==
    /\ WF_authorityVars(Dispatch) /\ WF_authorityVars(Claim)
    /\ WF_authorityVars(LeaseLapses /\ worker[current] = "gone")
    /\ \A a \in AttemptIds : WF_authorityVars(AuthorityStep(a))

AuthoritySpec == AuthorityInit /\ [][AuthorityNext]_authorityVars /\ AuthorityFairness

\* Types of the job's facts, the ledger row and the attempts' processes.
AuthorityTypeOK ==
    /\ facts \in [status : Statuses, cancel : BOOLEAN, open : BOOLEAN,
                  attempts : 0..MaxAttempts, takeovers : 0..MaxTakeovers]
    /\ current \in 0..MaxAttempt
    /\ ledger \in [bound : 0..MaxAttempt, owner : 0..MaxAttempt, quarantined : BOOLEAN,
                result : {"none", "verified", "failed"}]
    /\ worker \in [AttemptIds -> {"none", "acquire", "work", "settle", "gone"}]
    /\ worked \subseteq AttemptIds /\ errors \subseteq AttemptIds

\* Whatever happens to workers and leases, the model calls and tools of a run are made by
\* one attempt at most; a restart or a slow worker never spends a second time.
WorkIsDoneOnce == Cardinality(worked) <= 1

\* A job succeeds with a verified result of the run, committed in the ledger by the very
\* attempt that published it.
SuccessHasItsResult ==
    facts.status = "succeeded" => ledger.result = "verified" /\ ledger.bound = current

\* The ledger and the job plane together pay for one execution of the run and show its
\* result, and only that.
RunIsSettledOnce == AuthorityTypeOK /\ WorkIsDoneOnce /\ SuccessHasItsResult

\* Two authorities that refuse each other's attempts still let the job end.
JobEnds == <>(facts.status \in Terminal)

\* "A retryable error consumes an attempt (ceiling 5). An expired lease does not: a dead
\* worker is infrastructure" (ADR 0015): attempts are consumed by errors of the review.
DeadWorkersCostNoAttempt == facts.attempts <= Cardinality(errors)
=============================================================================
