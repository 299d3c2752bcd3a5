-------------------------- MODULE JobState_proofs --------------------------
(***************************************************************************)
(* What next_state() decides, for every job, event and policy.  The proofs *)
(* of the two job stores rest on these lemmas.                             *)
(***************************************************************************)
EXTENDS JobState, TLAPS

Transitions == [status : Statuses \cup {"conflict"}, attempt : {0, 1}, takeover : {0, 1},
                release : BOOLEAN, enqueue : BOOLEAN, cancel : BOOLEAN]
FactRows == [status : Statuses, attempts : Nat, takeovers : Nat, cancel : BOOLEAN,
             open : BOOLEAN]

\* next_state always decides a well-formed transition.
LEMMA NextStateType ==
    ASSUME NEW f \in FactRows, NEW e
    PROVE  /\ NextState(f, e) \in Transitions
           /\ NextState(f, e) # Conflict => NextState(f, e).status \in Statuses
<1>1. \A s \in Statuses \cup {"conflict"} :
        /\ Move(s) \in Transitions
        /\ Release(s) \in Transitions
        /\ Enqueue(s) \in Transitions
        /\ Move(s).status = s
        /\ Release(s).status = s
        /\ Enqueue(s).status = s
  BY DEF Move, Release, Enqueue, Transitions
<1>2. Conflict \in Transitions
  BY <1>1 DEF Conflict
<1>3. CancelPreempted \in Transitions /\ CancelPreempted.status \in Statuses
  BY <1>1 DEF CancelPreempted, Statuses, Terminal
<1>4. /\ LeaseExpired(f) \in Transitions
      /\ LeaseExpired(f) # Conflict => LeaseExpired(f).status \in Statuses
  <2>1. /\ [Release("failed") EXCEPT !.takeover = 1] \in Transitions
        /\ [Release("failed") EXCEPT !.takeover = 1].status = "failed"
        /\ [Release("queued") EXCEPT !.takeover = 1, !.enqueue = TRUE] \in Transitions
        /\ [Release("queued") EXCEPT !.takeover = 1, !.enqueue = TRUE].status = "queued"
    BY DEF Release, Move, Transitions, Statuses, Terminal, Claimable
  <2> QED
    BY <1>2, <1>3, <2>1, Zenon DEF LeaseExpired, Statuses, Terminal, Claimable
<1>5. /\ NeedsHuman(f) \in Transitions
      /\ NeedsHuman(f) # Conflict => NeedsHuman(f).status \in Statuses
  BY <1>1, <1>2, <1>3 DEF NeedsHuman, Statuses
<1>6. /\ RetryableError(f) \in Transitions
      /\ RetryableError(f).status \in Statuses
  BY <1>3 DEF RetryableError, Release, Move, Transitions, Statuses, Terminal, Claimable
<1>7. /\ Decide(f, e) \in Transitions
      /\ Decide(f, e) # Conflict => Decide(f, e).status \in Statuses
  <2>1. [Move("running") EXCEPT !.cancel = TRUE] \in Transitions
    BY DEF Move, Transitions, Statuses
  <2>2. [Move("running") EXCEPT !.cancel = TRUE].status \in Statuses
    BY DEF Move, Statuses
  <2>3. /\ f.status \in Statuses
        /\ {"failed", "succeeded", "cancelled", "queued", "dispatched", "running",
            "waiting_for_human"} \subseteq Statuses
    BY DEF FactRows, Statuses, Terminal, Claimable
  <2> QED
    BY <1>1, <1>2, <1>4, <1>5, <1>6, <2>1, <2>2, <2>3, ZenonT(60) DEF Decide
<1> QED
  BY <1>2, <1>7 DEF NextState

\* Every way an attempt may end gives the lease back, and none of them puts the job
\* back in line by itself.
LEMMA FinishReleases ==
    ASSUME NEW f \in FactRows, NEW e \in FinishEvents, NextState(f, e) # Conflict
    PROVE  /\ f.status = "running"
           /\ NextState(f, e).release
           /\ NextState(f, e).status \in {"waiting_for_human", "succeeded", "failed",
                                          "cancelled", "retryable_failed"}
           /\ NextState(f, e).status = "waiting_for_human" => f.open
           /\ NextState(f, e).status = "succeeded" <=> e = "publish_result"
<1>1. \A s : /\ Release(s).release /\ Release(s).status = s
             /\ [Release(s) EXCEPT !.attempt = 1].release
             /\ [Release(s) EXCEPT !.attempt = 1].status = s
  BY DEF Release, Move
<1>2. e \in LeaseBound
  BY DEF FinishEvents, LeaseBound
<1>3. f.status = "running" /\ NextState(f, e) = Decide(f, e)
  BY <1>2 DEF NextState
<1>4. CASE e = "needs_human"
  BY <1>1, <1>3, <1>4 DEF Decide, NeedsHuman, CancelPreempted
<1>5. CASE e = "publish_result"
  BY <1>1, <1>3, <1>5 DEF Decide
<1>6. CASE e = "retryable_error"
  <2>1. Decide(f, e) = RetryableError(f)
    BY <1>6 DEF Decide
  <2>2. \/ RetryableError(f) = Release("cancelled")
        \/ RetryableError(f) = [Release("failed") EXCEPT !.attempt = 1]
        \/ RetryableError(f) = [Release("retryable_failed") EXCEPT !.attempt = 1]
    BY DEF RetryableError, CancelPreempted
  <2>3. /\ Release("cancelled").release /\ Release("cancelled").status = "cancelled"
        /\ [Release("failed") EXCEPT !.attempt = 1].release
        /\ [Release("failed") EXCEPT !.attempt = 1].status = "failed"
        /\ [Release("retryable_failed") EXCEPT !.attempt = 1].release
        /\ [Release("retryable_failed") EXCEPT !.attempt = 1].status = "retryable_failed"
    BY <1>1
  <2> QED
    BY <1>3, <1>6, <2>1, <2>2, <2>3
<1>7. CASE e = "permanent_error"
  BY <1>1, <1>3, <1>7 DEF Decide
<1>8. CASE e = "cancel_acknowledged"
  BY <1>1, <1>3, <1>8 DEF Decide
<1> QED
  BY <1>4, <1>5, <1>6, <1>7, <1>8 DEF FinishEvents

\* A reclaimed job gives its lease back, and goes back in line exactly with a round.
LEMMA ExpiryReleases ==
    ASSUME NEW f \in FactRows, f.status = "running"
    PROVE  LET t == NextState(f, "lease_expired")
           IN  /\ t # Conflict
               /\ t.release
               /\ t.status \in {"queued", "failed", "cancelled"}
               /\ t.status = "queued" <=> t.enqueue
<1>1. NextState(f, "lease_expired") = LeaseExpired(f)
  BY DEF NextState, Decide, LeaseBound, Terminal
<1>2. \/ LeaseExpired(f) = Release("cancelled")
      \/ LeaseExpired(f) = [Release("failed") EXCEPT !.takeover = 1]
      \/ LeaseExpired(f) = [Release("queued") EXCEPT !.takeover = 1, !.enqueue = TRUE]
  BY DEF LeaseExpired, CancelPreempted
<1>3. /\ Release("cancelled").release /\ ~Release("cancelled").enqueue
      /\ Release("cancelled").status = "cancelled"
  BY DEF Release, Move
<1>4. LET t == [Release("failed") EXCEPT !.takeover = 1]
      IN  t.release /\ ~t.enqueue /\ t.status = "failed"
  BY DEF Release, Move
<1>5. LET t == [Release("queued") EXCEPT !.takeover = 1, !.enqueue = TRUE]
      IN  t.release /\ t.enqueue /\ t.status = "queued"
  BY DEF Release, Move
<1>6. Conflict.status = "conflict"
  BY DEF Conflict, Move
<1> QED
  BY <1>1, <1>2, <1>3, <1>4, <1>5, <1>6

\* The events that need no lease.
LEMMA UnleasedEvents ==
    ASSUME NEW f \in FactRows
    PROVE  /\ NextState(f, "schedule_retry") # Conflict =>
                 f.status = "retryable_failed" /\ NextState(f, "schedule_retry") = Enqueue("queued")
           /\ NextState(f, "human_response_committed") # Conflict =>
                 /\ f.status = "waiting_for_human"
                 /\ NextState(f, "human_response_committed") = Enqueue("queued")
           /\ NextState(f, "human_rejected") # Conflict =>
                 /\ f.status = "waiting_for_human"
                 /\ NextState(f, "human_rejected") =
                       Move(IF f.open THEN "waiting_for_human" ELSE "failed")
           /\ f.status = "queued" => NextState(f, "dispatch_succeeded") = Move("dispatched")
           /\ NextState(f, "claim") # Conflict <=> f.status \in Claimable
           /\ NextState(f, "cancel") # Conflict =>
                 \/ f.status = "running" /\ NextState(f, "cancel").cancel
                 \/ f.status \in Cancellable /\ NextState(f, "cancel") = Release("cancelled")
<1>1. Move("running") # Conflict
  BY DEF Move, Conflict
<1>2. [Move("running") EXCEPT !.cancel = TRUE].cancel
  BY DEF Move
<1>3. \A s \in Claimable : s \notin Terminal
  BY DEF Claimable, Terminal
<1>4. NextState(f, "claim") # Conflict <=> f.status \in Claimable
  BY <1>1, <1>3 DEF NextState, Decide, LeaseBound
<1>5. NextState(f, "cancel") # Conflict =>
                 \/ f.status = "running" /\ NextState(f, "cancel").cancel
                 \/ f.status \in Cancellable /\ NextState(f, "cancel") = Release("cancelled")
  BY <1>2 DEF NextState, Decide, LeaseBound
<1>6. f.status = "queued" => NextState(f, "dispatch_succeeded") = Move("dispatched")
  BY DEF NextState, Decide, LeaseBound, Terminal
<1>7. NextState(f, "schedule_retry") # Conflict =>
         f.status = "retryable_failed" /\ NextState(f, "schedule_retry") = Enqueue("queued")
  BY DEF NextState, Decide, LeaseBound
<1>8. NextState(f, "human_response_committed") # Conflict =>
         /\ f.status = "waiting_for_human"
         /\ NextState(f, "human_response_committed") = Enqueue("queued")
  BY DEF NextState, Decide, LeaseBound
<1>9. NextState(f, "human_rejected") # Conflict =>
         /\ f.status = "waiting_for_human"
         /\ NextState(f, "human_rejected") =
               Move(IF f.open THEN "waiting_for_human" ELSE "failed")
  BY DEF NextState, Decide, LeaseBound
<1> QED
  BY <1>4, <1>5, <1>6, <1>7, <1>8, <1>9

\* A terminal job refuses every event.
LEMMA TerminalRefuses ==
    ASSUME NEW f, NEW e, f.status \in Terminal
    PROVE  NextState(f, e) = Conflict
BY DEF NextState

\* Whatever ends an attempt that was asked to stop ends its job, unless it publishes.
LEMMA CancelOutranks ==
    ASSUME NEW f \in FactRows, f.cancel, f.status = "running"
    PROVE  /\ \A e \in FinishEvents \ {"publish_result"} :
                NextState(f, e).status \in {"cancelled", "failed"}
           /\ NextState(f, "lease_expired").status = "cancelled"
           /\ ~NextState(f, "lease_expired").enqueue
           /\ NextState(f, "cancel").cancel
           /\ NextState(f, "cancel").status = "running"
<1>1. /\ Release("cancelled").status = "cancelled" /\ Release("failed").status = "failed"
      /\ ~Release("cancelled").enqueue
  BY DEF Release, Move
<1>2. f.status \notin Terminal
  BY DEF Terminal
<1>3. ASSUME NEW e \in FinishEvents \ {"publish_result"}
      PROVE  NextState(f, e).status \in {"cancelled", "failed"}
  <2>1. NextState(f, e) = Decide(f, e)
    BY <1>2 DEF NextState
  <2>2. CASE e = "needs_human"
    BY <1>1, <2>1, <2>2 DEF Decide, NeedsHuman, CancelPreempted
  <2>3. CASE e = "retryable_error"
    BY <1>1, <2>1, <2>3 DEF Decide, RetryableError, CancelPreempted
  <2>4. CASE e = "permanent_error"
    BY <1>1, <2>1, <2>4 DEF Decide
  <2>5. CASE e = "cancel_acknowledged"
    BY <1>1, <2>1, <2>5 DEF Decide
  <2> QED
    BY <2>2, <2>3, <2>4, <2>5 DEF FinishEvents
<1>4. NextState(f, "lease_expired") = Release("cancelled")
  BY <1>2 DEF NextState, Decide, LeaseBound, LeaseExpired, CancelPreempted
<1>5. NextState(f, "cancel") = [Move("running") EXCEPT !.cancel = TRUE]
  BY <1>2 DEF NextState, Decide, LeaseBound
<1>6. /\ [Move("running") EXCEPT !.cancel = TRUE].cancel
      /\ [Move("running") EXCEPT !.cancel = TRUE].status = "running"
  BY DEF Move
<1> QED
  BY <1>1, <1>3, <1>4, <1>5, <1>6

\* The table fails a job with its last attempt and with its last takeover.
LEMMA TableKeepsLimits ==
    ASSUME NEW f \in FactRows, f.attempts < MaxAttempts, f.takeovers < MaxTakeovers
    PROVE  /\ \A e \in FinishEvents :
                LET t == NextState(f, e)
                IN  t # Conflict =>
                      /\ f.attempts + t.attempt <= MaxAttempts
                      /\ t.status \notin Terminal => f.attempts + t.attempt < MaxAttempts
           /\ LET t == NextState(f, "lease_expired")
              IN  t # Conflict =>
                    /\ f.takeovers + t.takeover <= MaxTakeovers
                    /\ t.status \notin Terminal => f.takeovers + t.takeover < MaxTakeovers
<1>1. /\ f.attempts \in Nat /\ f.takeovers \in Nat /\ MaxAttempts \in Nat /\ MaxTakeovers \in Nat
  BY PolicyAssumption DEF FactRows
<1>2. /\ Release("cancelled").attempt = 0 /\ Release("cancelled").takeover = 0
      /\ Release("cancelled").status = "cancelled"
      /\ Release("failed").attempt = 0 /\ Release("succeeded").attempt = 0
      /\ Release("waiting_for_human").attempt = 0
  BY DEF Release, Move
<1>3. ASSUME NEW e \in FinishEvents, NEW t, t = NextState(f, e), t # Conflict
      PROVE  /\ f.attempts + t.attempt <= MaxAttempts
             /\ t.status \notin Terminal => f.attempts + t.attempt < MaxAttempts
  <2>1. t = Decide(f, e)
    BY <1>3 DEF NextState
  <2>2. CASE e = "retryable_error" /\ ~f.cancel
    <3>1. t = [Release(IF f.attempts + 1 >= MaxAttempts THEN "failed" ELSE "retryable_failed")
                  EXCEPT !.attempt = 1]
      BY <2>1, <2>2 DEF Decide, RetryableError
    <3>2. CASE f.attempts + 1 >= MaxAttempts
      <4>1. t = [Release("failed") EXCEPT !.attempt = 1]
        BY <3>1, <3>2
      <4>2. t.attempt = 1 /\ t.status = "failed"
        BY <4>1 DEF Release, Move
      <4> QED
        BY <1>1, <4>2 DEF Terminal
    <3>3. CASE ~(f.attempts + 1 >= MaxAttempts)
      <4>1. t = [Release("retryable_failed") EXCEPT !.attempt = 1]
        BY <3>1, <3>3
      <4>2. t.attempt = 1
        BY <4>1 DEF Release, Move
      <4> QED
        BY <1>1, <3>3, <4>2
    <3> QED
      BY <3>2, <3>3
  <2>3. CASE ~(e = "retryable_error" /\ ~f.cancel)
    <3>1. t.attempt = 0
      <4>1. CASE e = "needs_human"
        BY <1>2, <1>3, <2>1, <4>1 DEF Decide, NeedsHuman, CancelPreempted
      <4>2. CASE e = "publish_result"
        BY <1>2, <2>1, <4>2 DEF Decide
      <4>3. CASE e = "permanent_error"
        BY <1>2, <2>1, <4>3 DEF Decide
      <4>4. CASE e = "cancel_acknowledged"
        BY <1>2, <1>3, <2>1, <4>4 DEF Decide
      <4>5. CASE e = "retryable_error"
        BY <1>2, <2>1, <2>3, <4>5 DEF Decide, RetryableError, CancelPreempted
      <4> QED
        BY <4>1, <4>2, <4>3, <4>4, <4>5 DEF FinishEvents
    <3> QED
      BY <1>1, <3>1
  <2> QED
    BY <2>2, <2>3
<1>4. ASSUME NEW t, t = NextState(f, "lease_expired"), t # Conflict
      PROVE  /\ f.takeovers + t.takeover <= MaxTakeovers
             /\ t.status \notin Terminal => f.takeovers + t.takeover < MaxTakeovers
  <2>1. t = LeaseExpired(f) /\ f.status = "running"
    BY <1>4 DEF NextState, Decide, LeaseExpired
  <2>2. CASE f.cancel
    <3>1. t.takeover = 0 /\ t.status = "cancelled"
      BY <1>2, <2>1, <2>2 DEF LeaseExpired, CancelPreempted
    <3> QED
      BY <1>1, <3>1
  <2>3. CASE ~f.cancel /\ f.takeovers + 1 >= MaxTakeovers
    <3>1. t = [Release("failed") EXCEPT !.takeover = 1]
      BY <2>1, <2>3 DEF LeaseExpired
    <3>2. t.takeover = 1 /\ t.status = "failed"
      BY <3>1 DEF Release, Move
    <3> QED
      BY <1>1, <3>2 DEF Terminal
  <2>4. CASE ~f.cancel /\ ~(f.takeovers + 1 >= MaxTakeovers)
    <3>1. t = [Release("queued") EXCEPT !.takeover = 1, !.enqueue = TRUE]
      BY <2>1, <2>4 DEF LeaseExpired
    <3>2. t.takeover = 1
      BY <3>1 DEF Release, Move
    <3> QED
      BY <1>1, <2>4, <3>2
  <2> QED
    BY <2>2, <2>3, <2>4
<1> QED
  BY <1>3, <1>4

\* A job that is given back to be claimed again has paid for the claim that ended: an error
\* costs an attempt, a reclaimed lease a takeover.
LEMMA TablePays ==
    ASSUME NEW f \in FactRows, f.status = "running"
    PROVE  /\ \A e \in FinishEvents :
                NextState(f, e).status \in Claimable => NextState(f, e).attempt = 1
           /\ NextState(f, "lease_expired").status \in Claimable
                 => NextState(f, "lease_expired").takeover = 1
<1>1. \A s \in Terminal \cup {"waiting_for_human"} : Release(s).status \notin Claimable
  BY DEF Release, Move, Terminal, Claimable
<1>2. Conflict.status \notin Claimable
  BY DEF Conflict, Move, Claimable
<1>3. /\ [Release("retryable_failed") EXCEPT !.attempt = 1].attempt = 1
      /\ [Release("failed") EXCEPT !.attempt = 1].attempt = 1
      /\ [Release("failed") EXCEPT !.takeover = 1].takeover = 1
      /\ [Release("queued") EXCEPT !.takeover = 1, !.enqueue = TRUE].takeover = 1
  BY DEF Release, Move
<1>4. ASSUME NEW e \in FinishEvents
      PROVE  NextState(f, e).status \in Claimable => NextState(f, e).attempt = 1
  <2>1. NextState(f, e) = Decide(f, e)
    BY DEF NextState, Terminal
  <2>2. CASE e = "needs_human"
    BY <1>1, <1>2, <2>1, <2>2 DEF Decide, NeedsHuman, CancelPreempted, Terminal
  <2>3. CASE e = "publish_result"
    BY <1>1, <2>1, <2>3 DEF Decide, Terminal
  <2>4. CASE e = "permanent_error"
    BY <1>1, <2>1, <2>4 DEF Decide, Terminal
  <2>5. CASE e = "cancel_acknowledged"
    BY <1>1, <1>2, <2>1, <2>5 DEF Decide, Terminal
  <2>6. CASE e = "retryable_error"
    <3>1. \/ Decide(f, e) = Release("cancelled")
          \/ Decide(f, e) = [Release("failed") EXCEPT !.attempt = 1]
          \/ Decide(f, e) = [Release("retryable_failed") EXCEPT !.attempt = 1]
      BY <2>6 DEF Decide, RetryableError, CancelPreempted
    <3> QED
      BY <1>1, <1>3, <2>1, <3>1 DEF Terminal
  <2> QED
    BY <2>2, <2>3, <2>4, <2>5, <2>6 DEF FinishEvents
<1>5. NextState(f, "lease_expired").status \in Claimable
         => NextState(f, "lease_expired").takeover = 1
  <2>1. NextState(f, "lease_expired") = LeaseExpired(f)
    BY DEF NextState, Decide, LeaseBound, Terminal
  <2>2. \/ LeaseExpired(f) = Release("cancelled")
        \/ LeaseExpired(f) = [Release("failed") EXCEPT !.takeover = 1]
        \/ LeaseExpired(f) = [Release("queued") EXCEPT !.takeover = 1, !.enqueue = TRUE]
    BY DEF LeaseExpired, CancelPreempted
  <2> QED
    BY <1>1, <1>3, <2>1, <2>2 DEF Terminal
<1> QED
  BY <1>4, <1>5
=============================================================================
