------------------------- MODULE ReviewJobs_proofs -------------------------
(***************************************************************************)
(* Theorems about the job control plane, for every set of jobs, workers,   *)
(* dispatchers and tasks and for every policy and bound.                   *)
(***************************************************************************)
EXTENDS ReviewJobs, JobState_proofs, FiniteSetTheorems

-----------------------------------------------------------------------------
(***************************************************************************)
(* Rounds and messages                                                     *)
(***************************************************************************)

\* A message is issued exactly when the outbox of its job is long enough.
LEMMA IssuedIff ==
    ASSUME StoreTypes, NEW m
    PROVE  m \in Issued <=> m \in Messages /\ m[2] <= Len(outbox[m[1]])
<1>1. \A j \in Jobs : outbox[j] \in Seq(Rounds)
  BY DEF StoreTypes
<1>2. \A j \in Jobs : DOMAIN outbox[j] = 1..Len(outbox[j]) /\ Len(outbox[j]) \in Nat
  BY <1>1
<1>3. ASSUME m \in Issued PROVE m \in Messages /\ m[2] <= Len(outbox[m[1]])
  <2>1. PICK j \in Jobs : m \in {j} \X DOMAIN outbox[j]
    BY <1>3 DEF Issued
  <2> QED
    BY <2>1, <1>2 DEF Messages
<1>4. ASSUME m \in Messages, m[2] <= Len(outbox[m[1]]) PROVE m \in Issued
  <2>1. m[1] \in Jobs /\ m[2] \in DOMAIN outbox[m[1]] /\ m = <<m[1], m[2]>>
    BY <1>4, <1>2 DEF Messages
  <2>2. m \in {m[1]} \X DOMAIN outbox[m[1]]
    BY <2>1
  <2> QED
    BY <2>1, <2>2 DEF Issued
<1> QED
  BY <1>3, <1>4

\* Rounds are never withdrawn, so an issued message stays issued.
LEMMA IssuedStays ==
    ASSUME StoreTypes, StoreTypes',
           \A j \in Jobs : Len(outbox[j]) <= Len(outbox'[j])
    PROVE  Issued \subseteq Issued'
<1> SUFFICES ASSUME NEW m \in Issued PROVE m \in Issued'
  OBVIOUS
<1>1. PICK j \in Jobs : m \in {j} \X DOMAIN outbox[j]
  BY DEF Issued
<1>2. /\ Len(outbox[j]) \in Nat /\ DOMAIN outbox[j] = 1..Len(outbox[j])
      /\ Len(outbox'[j]) \in Nat /\ DOMAIN outbox'[j] = 1..Len(outbox'[j])
  BY DEF StoreTypes
<1>3. m \in {j} \X DOMAIN outbox'[j]
  BY <1>1, <1>2
<1> QED
  BY <1>3 DEF Issued

\* The row of an issued message.
LEMMA RoundType ==
    ASSUME StoreTypes, NEW m \in Issued
    PROVE  /\ m \in Messages
           /\ m[1] \in Jobs
           /\ m[2] \in 1..Len(outbox[m[1]])
           /\ Round(m) \in Rounds
<1>1. m \in Messages /\ m[2] <= Len(outbox[m[1]])
  BY IssuedIff
<1>2. m[1] \in Jobs /\ m[2] \in Nat \ {0}
  BY <1>1 DEF Messages
<1>3. outbox[m[1]] \in Seq(Rounds)
  BY <1>2 DEF StoreTypes
<1> QED
  BY <1>1, <1>2, <1>3 DEF Round

\* A new round is appended to its own job's outbox and to no other.
LEMMA EnqueuedType ==
    ASSUME StoreTypes, NEW j \in Jobs, NEW r \in Runs, NEW due \in BOOLEAN,
           Enqueued(j, r, due)
    PROVE  /\ outbox' \in [Jobs -> Seq(Rounds)]
           /\ \A i \in Jobs : Len(outbox[i]) <= Len(outbox'[i])
           /\ \A i \in Jobs \ {j} : outbox'[i] = outbox[i]
           /\ Len(outbox'[j]) = Len(outbox[j]) + 1
           /\ outbox'[j][Len(outbox'[j])] = [run |-> r, state |-> "pending", due |-> due]
<1> DEFINE x == [run |-> r, state |-> "pending", due |-> due]
<1>1. x \in Rounds
  BY DEF Rounds
<1>2. outbox[j] \in Seq(Rounds) /\ outbox \in [Jobs -> Seq(Rounds)]
  BY DEF StoreTypes
<1>3. outbox' = [outbox EXCEPT ![j] = Append(outbox[j], x)]
  BY DEF Enqueued
<1> HIDE DEF x
<1>4. /\ Append(outbox[j], x) \in Seq(Rounds)
      /\ Len(Append(outbox[j], x)) = Len(outbox[j]) + 1
      /\ Append(outbox[j], x)[Len(outbox[j]) + 1] = x
  BY <1>1, <1>2
<1>5. /\ outbox' \in [Jobs -> Seq(Rounds)]
      /\ outbox'[j] = Append(outbox[j], x)
      /\ \A i \in Jobs \ {j} : outbox'[i] = outbox[i]
  BY <1>2, <1>3, <1>4
<1>6. \A i \in Jobs : Len(outbox[i]) \in Nat
  BY <1>2
<1>7. \A i \in Jobs : Len(outbox[i]) <= Len(outbox'[i])
  BY <1>4, <1>5, <1>6
<1> QED
  BY <1>4, <1>5, <1>7 DEF x

\* Rewriting one issued round changes no other round and no length.
LEMMA RewriteType ==
    ASSUME StoreTypes, NEW m \in Issued, NEW x \in Rounds,
           outbox' = [outbox EXCEPT ![m[1]] = [outbox[m[1]] EXCEPT ![m[2]] = x]]
    PROVE  /\ outbox' \in [Jobs -> Seq(Rounds)]
           /\ \A i \in Jobs : Len(outbox'[i]) = Len(outbox[i])
           /\ \A i \in Jobs : \A n \in 1..Len(outbox[i]) :
                 outbox'[i][n] = IF <<i, n>> = m THEN x ELSE outbox[i][n]
<1> DEFINE j == m[1]
           n == m[2]
           s == [outbox[j] EXCEPT ![n] = x]
<1>1. j \in Jobs /\ n \in 1..Len(outbox[j]) /\ m = <<j, n>>
  BY RoundType DEF Messages
<1>2. outbox[j] \in Seq(Rounds) /\ outbox \in [Jobs -> Seq(Rounds)]
  BY <1>1 DEF StoreTypes
<1>3. s \in Seq(Rounds) /\ Len(s) = Len(outbox[j]) /\ s[n] = x
      /\ \A k \in 1..Len(outbox[j]) : k # n => s[k] = outbox[j][k]
  BY <1>1, <1>2
<1>4. outbox' = [outbox EXCEPT ![j] = s]
  OBVIOUS
<1> HIDE DEF s, j, n
<1>5. outbox' \in [Jobs -> Seq(Rounds)] /\ outbox'[j] = s
      /\ \A i \in Jobs \ {j} : outbox'[i] = outbox[i]
  BY <1>1, <1>2, <1>3, <1>4
<1> QED
  BY <1>1, <1>3, <1>5

\* Writing a status keeps the rows well typed.
LEMMA SetStatusType ==
    ASSUME JobTypes, RunTypes, NEW j \in Jobs, NEW r \in Runs, NEW s \in Statuses,
           NEW release \in BOOLEAN, SetStatus(j, r, s, release)
    PROVE  /\ status' \in [Jobs -> Statuses \cup {"absent"}]
           /\ \A i \in Jobs : Exists(i)' => Exists(i) \/ i = j
           /\ runStatus' \in [Jobs \X Runs -> Statuses]
           /\ holder' \in [Jobs \X Runs -> Nat]
           /\ lease' \in [Jobs \X Runs -> {"none", "valid", "lapsed"}]
  BY DEF JobTypes, RunTypes, SetStatus, Exists, None

\* The facts of an accepted job are well formed.
LEMMA FactsType ==
    ASSUME JobTypes, NEW j \in Jobs, Exists(j), NEW open \in BOOLEAN
    PROVE  Facts(j, open) \in FactRows
  BY DEF JobTypes, Exists, Facts, FactRows

\* Workers start and stop in well-formed states.
LEMMA WorkerRowTypes ==
    /\ IdleWorker \in WorkerRows
    /\ \A m \in Messages : Returned(m) \in WorkerRows
<1>1. (CHOOSE j \in Jobs : TRUE) \in Jobs
  BY BoundsAssumption
<1>2. 1 \in Runs
  BY BoundsAssumption DEF Runs
<1> QED
  BY <1>1, <1>2 DEF IdleWorker, Returned, WorkerRows, Messages, None

-----------------------------------------------------------------------------
(***************************************************************************)
(* What the transition table decides, event by event                       *)
(***************************************************************************)

\* A transition of an accepted job is well formed.
LEMMA TransitionType ==
    ASSUME JobTypes, NEW j \in Jobs, Exists(j), NEW open \in BOOLEAN, NEW e,
           NextState(Facts(j, open), e) # Conflict
    PROVE  /\ NextState(Facts(j, open), e) \in Transitions
           /\ NextState(Facts(j, open), e).status \in Statuses
  BY FactsType, NextStateType

-----------------------------------------------------------------------------
(***************************************************************************)
(* Type correctness                                                        *)
(***************************************************************************)

\* Steps that leave the processes alone keep their types: rounds only get more.
LEMMA ProcessesStay ==
    ASSUME StoreTypes, StoreTypes', ProcessTypes,
           \A j \in Jobs : Len(outbox[j]) <= Len(outbox'[j]),
           UNCHANGED <<queue, batch, out, wk, crashes>>
    PROVE  ProcessTypes'
  BY IssuedStays DEF ProcessTypes

\* The outbox as it is.
LEMMA OutboxStays ==
    ASSUME StoreTypes, UNCHANGED outbox
    PROVE  /\ outbox' \in [Jobs -> Seq(Rounds)]
           /\ \A j \in Jobs : Len(outbox[j]) <= Len(outbox'[j])
           /\ Issued' = Issued
<1>1. \A j \in Jobs : Len(outbox[j]) \in Nat
  BY DEF StoreTypes
<1> QED
  BY <1>1 DEF StoreTypes, Issued

\* The callers' operations keep every row well typed.
LEMMA CallerType ==
    ASSUME TypeOK, NEW j \in Jobs, CallerNext(j)
    PROVE  TypeOK'
<1> USE DEF TypeOK
<1>1. ASSUME Submit(j) PROVE TypeOK'
  <2>1. 1 \in Runs /\ "queued" \in Statuses
    BY BoundsAssumption DEF Runs, Statuses, Claimable
  <2>2. InitialTransition.status = "queued"
    BY DEF InitialTransition, Enqueue, Move
  <2>3. JobTypes'
    BY <1>1, <2>1, <2>2 DEF Submit, JobTypes, Exists
  <2>4. RunTypes'
    BY <1>1 DEF Submit, RunTypes, runVars
  <2>5. StoreTypes' /\ \A i \in Jobs : Len(outbox[i]) <= Len(outbox'[i])
    BY <1>1, <2>1, EnqueuedType DEF Submit, StoreTypes
  <2> QED
    BY <1>1, <2>3, <2>4, <2>5, ProcessesStay DEF Submit, disp
<1>2. ASSUME Cancel(j) PROVE TypeOK'
  <2> DEFINE t == Transition(j, "cancel")
  <2>1. t \in Transitions /\ t.status \in Statuses
    BY <1>2, TransitionType DEF Cancel, Transition
  <2>2. current[j] \in Runs /\ t.release \in BOOLEAN
    BY <1>2, <2>1 DEF Cancel, JobTypes, Transitions
  <2>3. JobTypes' /\ RunTypes'
    <3>1. CASE t.cancel
      BY <1>2, <3>1 DEF Cancel, JobTypes, RunTypes, runVars, Exists
    <3>2. CASE ~t.cancel
      <4>1. /\ SetStatus(j, current[j], t.status, t.release)
            /\ problem' = [problem EXCEPT ![j] = TRUE]
            /\ tasks' = [tasks EXCEPT ![j] = {}]
            /\ UNCHANGED <<current, attempts, takeovers, cancel, token, version>>
            /\ Exists(j)
        BY <1>2, <3>2 DEF Cancel
      <4> HIDE DEF t
      <4> QED
        BY <2>1, <2>2, <4>1, SetStatusType DEF JobTypes, RunTypes, Exists
    <3> QED
      BY <3>1, <3>2
  <2>4. StoreTypes' /\ \A i \in Jobs : Len(outbox[i]) <= Len(outbox'[i])
    BY <1>2, OutboxStays DEF Cancel, StoreTypes
  <2> QED
    BY <1>2, <2>3, <2>4, ProcessesStay DEF Cancel, disp
<1>3. ASSUME Resume(j) PROVE TypeOK'
  <2> DEFINE t == Transition(j, "human_response_committed")
  <2>1. t.status \in Statuses
    BY <1>3, TransitionType DEF Resume, Transition
  <2>2. current[j] + 1 \in Runs
    BY <1>3 DEF Resume
  <2>3. JobTypes'
    BY <1>3, <2>1, <2>2 DEF Resume, JobTypes, Exists
  <2>4. RunTypes'
    BY <1>3 DEF Resume, RunTypes, runVars
  <2>5. StoreTypes' /\ \A i \in Jobs : Len(outbox[i]) <= Len(outbox'[i])
    BY <1>3, <2>2, EnqueuedType DEF Resume, StoreTypes
  <2> QED
    BY <1>3, <2>3, <2>4, <2>5, ProcessesStay DEF Resume, disp
<1>4. ASSUME NEW task \in Tasks, RejectHumanTask(j, task) PROVE TypeOK'
  <2> DEFINE t == NextState(Facts(j, (tasks[j] \ {task}) # {}), "human_rejected")
  <2>1. t \in Transitions /\ t.status \in Statuses
    BY <1>4, TransitionType DEF RejectHumanTask
  <2>2. current[j] \in Runs /\ t.release \in BOOLEAN
    BY <1>4, <2>1 DEF RejectHumanTask, JobTypes, Transitions
  <2>3. SetStatus(j, current[j], t.status, t.release)
    BY <1>4 DEF RejectHumanTask
  <2>4. tasks' = [tasks EXCEPT ![j] = tasks[j] \ {task}]
        /\ problem' = [problem EXCEPT ![j] = t.status = "failed"]
        /\ UNCHANGED <<current, attempts, takeovers, cancel, token, version, outbox, bodies,
                       results, queue, disp, wk, crashes>>
    BY <1>4 DEF RejectHumanTask
  <2> HIDE DEF t
  <2>5. JobTypes' /\ RunTypes'
    BY <1>4, <2>1, <2>2, <2>3, <2>4, SetStatusType DEF RejectHumanTask, JobTypes, RunTypes, Exists
  <2>6. StoreTypes' /\ \A i \in Jobs : Len(outbox[i]) <= Len(outbox'[i])
    BY <2>4, OutboxStays DEF StoreTypes
  <2> QED
    BY <2>4, <2>5, <2>6, ProcessesStay DEF disp
<1> QED
  BY <1>1, <1>2, <1>3, <1>4 DEF CallerNext

\* mark_dispatched, reschedule_dispatch and the passing of time rewrite one round.
LEMMA RoundRewrites ==
    ASSUME StoreTypes, NEW m \in Issued,
           \/ outbox' = [outbox EXCEPT ![m[1]][m[2]].state = "sent"]
           \/ outbox' = [outbox EXCEPT ![m[1]][m[2]].state = "abandoned"]
           \/ outbox' = [outbox EXCEPT ![m[1]][m[2]].due = FALSE]
           \/ outbox' = [outbox EXCEPT ![m[1]][m[2]].due = TRUE]
    PROVE  /\ outbox' \in [Jobs -> Seq(Rounds)]
           /\ \A i \in Jobs : Len(outbox'[i]) = Len(outbox[i])
           /\ \A i \in Jobs : \A n \in 1..Len(outbox[i]) :
                 /\ outbox'[i][n].run = outbox[i][n].run
                 /\ <<i, n>> # m => outbox'[i][n] = outbox[i][n]
<1>1. Round(m) \in Rounds
  BY RoundType
<1>2. PICK x \in Rounds :
         /\ outbox' = [outbox EXCEPT ![m[1]] = [outbox[m[1]] EXCEPT ![m[2]] = x]]
         /\ x.run = Round(m).run
  <2>1. CASE outbox' = [outbox EXCEPT ![m[1]][m[2]].state = "sent"]
    <3>1. [Round(m) EXCEPT !.state = "sent"] \in Rounds
      BY <1>1 DEF Rounds
    <3>2. [Round(m) EXCEPT !.state = "sent"].run = Round(m).run
      BY <1>1 DEF Rounds
    <3> QED
      BY <2>1, <3>1, <3>2 DEF Round
  <2>2. CASE outbox' = [outbox EXCEPT ![m[1]][m[2]].state = "abandoned"]
    <3>1. [Round(m) EXCEPT !.state = "abandoned"] \in Rounds
      BY <1>1 DEF Rounds
    <3>2. [Round(m) EXCEPT !.state = "abandoned"].run = Round(m).run
      BY <1>1 DEF Rounds
    <3> QED
      BY <2>2, <3>1, <3>2 DEF Round
  <2>3. CASE outbox' = [outbox EXCEPT ![m[1]][m[2]].due = FALSE]
    <3>1. [Round(m) EXCEPT !.due = FALSE] \in Rounds
      BY <1>1 DEF Rounds
    <3>2. [Round(m) EXCEPT !.due = FALSE].run = Round(m).run
      BY <1>1 DEF Rounds
    <3> QED
      BY <2>3, <3>1, <3>2 DEF Round
  <2>4. CASE outbox' = [outbox EXCEPT ![m[1]][m[2]].due = TRUE]
    <3>1. [Round(m) EXCEPT !.due = TRUE] \in Rounds
      BY <1>1 DEF Rounds
    <3>2. [Round(m) EXCEPT !.due = TRUE].run = Round(m).run
      BY <1>1 DEF Rounds
    <3> QED
      BY <2>4, <3>1, <3>2 DEF Round
  <2> QED
    BY <2>1, <2>2, <2>3, <2>4
<1>3. /\ outbox' \in [Jobs -> Seq(Rounds)]
      /\ \A i \in Jobs : Len(outbox'[i]) = Len(outbox[i])
      /\ \A i \in Jobs : \A n \in 1..Len(outbox[i]) :
            outbox'[i][n] = IF <<i, n>> = m THEN x ELSE outbox[i][n]
  BY <1>2, RewriteType, ZenonT(60)
<1>4. \A i, n : <<i, n>> = m => outbox[i][n] = Round(m)
  BY DEF Round
<1>5. ASSUME NEW i \in Jobs, NEW n \in 1..Len(outbox[i])
      PROVE  /\ outbox'[i][n].run = outbox[i][n].run
             /\ <<i, n>> # m => outbox'[i][n] = outbox[i][n]
  <2>1. outbox'[i][n] = IF <<i, n>> = m THEN x ELSE outbox[i][n]
    BY <1>3
  <2>2. CASE <<i, n>> = m
    <3>1. outbox'[i][n] = x /\ outbox[i][n] = Round(m)
      BY <1>4, <2>1, <2>2, Zenon
    <3> QED
      BY <1>2, <2>2, <3>1, Zenon
  <2>3. CASE <<i, n>> # m
    BY <2>1, <2>3, Zenon
  <2> QED
    BY <2>2, <2>3, Zenon
<1> QED
  BY <1>3, <1>5, Zenon

\* The dispatchers' operations keep every row well typed.
LEMMA DispatcherType ==
    ASSUME TypeOK, NEW d \in Dispatchers, DispatcherNext(d) \/ DispatcherCrash(d)
    PROVE  TypeOK'
<1> USE DEF TypeOK
<1>1. ASSUME DueDispatches(d) PROVE TypeOK'
  <2>1. JobTypes' /\ RunTypes' /\ StoreTypes' /\ Issued' = Issued
    BY <1>1, OutboxStays DEF DueDispatches, store, jobVars, runVars, JobTypes, RunTypes, StoreTypes, Exists
  <2>2. DueRounds \subseteq Issued
    BY DEF DueRounds
  <2> QED
    BY <1>1, <2>1, <2>2 DEF DueDispatches, ProcessTypes
<1>2. ASSUME NEW m \in batch[d], Send(d, m) PROVE TypeOK'
  <2>1. JobTypes' /\ RunTypes' /\ StoreTypes' /\ Issued' = Issued
    BY <1>2, OutboxStays DEF Send, store, jobVars, runVars, JobTypes, RunTypes, StoreTypes, Exists
  <2>2. m \in Issued
    BY <1>2 DEF ProcessTypes
  <2> QED
    BY <1>2, <2>1, <2>2 DEF Send, ProcessTypes
<1>3. ASSUME ConfirmDispatch(d) PROVE TypeOK'
  <2>1. PICK m \in out[d] : IF Round(m).state = "pending"
                            THEN MarkDispatched(m[1], m[2])
                            ELSE UNCHANGED <<jobVars, runVars, outbox>>
    BY <1>3 DEF ConfirmDispatch
  <2>2. m \in Issued
    BY DEF ProcessTypes
  <2>3. m[1] \in Jobs /\ Round(m) \in Rounds /\ Round(m).run \in Runs
    BY <2>2, RoundType DEF Rounds
  <2>4. JobTypes' /\ RunTypes'
    <3>1. CASE Round(m).state # "pending"
      BY <2>1, <3>1 DEF jobVars, runVars, JobTypes, RunTypes, Exists
    <3>2. CASE Round(m).state = "pending" /\ status[m[1]] # "queued"
      BY <2>1, <3>2 DEF MarkDispatched, JobTypes, RunTypes, Exists
    <3>3. CASE Round(m).state = "pending" /\ status[m[1]] = "queued"
      <4>1. Transition(m[1], "dispatch_succeeded") = Move("dispatched")
        BY <2>3, <3>3, FactsType, UnleasedEvents DEF Transition, Facts, Exists
      <4>2. Move("dispatched").status \in Statuses /\ Move("dispatched").release \in BOOLEAN
        BY DEF Move, Statuses, Claimable
      <4>3. SetStatus(m[1], Round(m).run, Move("dispatched").status, Move("dispatched").release)
        BY <2>1, <3>3, <4>1 DEF MarkDispatched, Round
      <4>4. UNCHANGED <<current, attempts, takeovers, cancel, tasks, problem, token, version>>
        BY <2>1, <3>3 DEF MarkDispatched
      <4> QED
        BY <2>3, <3>3, <4>2, <4>3, <4>4, SetStatusType, SMTT(60) DEF JobTypes, RunTypes, Exists
    <3> QED
      BY <3>1, <3>2, <3>3
  <2>5. StoreTypes' /\ \A i \in Jobs : Len(outbox[i]) <= Len(outbox'[i])
    <3>1. bodies' \subseteq Bodies /\ results' \subseteq References
      BY <1>3 DEF ConfirmDispatch, StoreTypes
    <3>2. \A i \in Jobs : Len(outbox[i]) \in Nat
      BY DEF StoreTypes
    <3>3. CASE Round(m).state # "pending"
      BY <2>1, <3>1, <3>3, OutboxStays DEF StoreTypes
    <3>4. CASE Round(m).state = "pending"
      <4>1. /\ outbox' \in [Jobs -> Seq(Rounds)]
            /\ \A i \in Jobs : Len(outbox'[i]) = Len(outbox[i])
        BY <2>1, <2>2, <3>4, RoundRewrites DEF MarkDispatched
      <4> QED
        BY <3>1, <3>2, <4>1 DEF StoreTypes
    <3> QED
      BY <3>3, <3>4
  <2>6. Issued \subseteq Issued'
    BY <2>5, IssuedStays
  <2> QED
    BY <1>3, <2>4, <2>5, <2>6 DEF ConfirmDispatch, ProcessTypes
<1>4. ASSUME NEW m \in batch[d], DeferDispatch(d, m) PROVE TypeOK'
  <2>1. m \in Issued
    BY <1>4 DEF ProcessTypes
  <2>2. JobTypes' /\ RunTypes'
    BY <1>4 DEF DeferDispatch, jobVars, runVars, JobTypes, RunTypes, Exists
  <2>3. StoreTypes' /\ \A i \in Jobs : Len(outbox[i]) <= Len(outbox'[i])
    <3>1. bodies' \subseteq Bodies /\ results' \subseteq References
      BY <1>4 DEF DeferDispatch, StoreTypes
    <3>2. \A i \in Jobs : Len(outbox[i]) \in Nat
      BY DEF StoreTypes
    <3>3. CASE Round(m).state # "pending"
      BY <1>4, <3>1, <3>3, OutboxStays DEF DeferDispatch, StoreTypes
    <3>4. CASE Round(m).state = "pending"
      <4>1. /\ outbox' \in [Jobs -> Seq(Rounds)]
            /\ \A i \in Jobs : Len(outbox'[i]) = Len(outbox[i])
        BY <1>4, <2>1, <3>4, RoundRewrites DEF DeferDispatch
      <4> QED
        BY <3>1, <3>2, <4>1 DEF StoreTypes
    <3> QED
      BY <3>3, <3>4
  <2>4. Issued \subseteq Issued'
    BY <2>3, IssuedStays
  <2>5. \/ batch' = [batch EXCEPT ![d] = @ \ {m}]
        \/ batch' = [batch EXCEPT ![d] = {}]
    BY <1>4 DEF DeferDispatch
  <2>6. UNCHANGED <<queue, out, wk, crashes>>
    BY <1>4 DEF DeferDispatch
  <2>7. ProcessTypes'
    BY <2>4, <2>5, <2>6 DEF ProcessTypes
  <2> QED
    BY <2>2, <2>3, <2>7
<1>5. ASSUME DispatcherCrash(d) PROVE TypeOK'
  <2>1. JobTypes' /\ RunTypes' /\ StoreTypes' /\ Issued' = Issued
    BY <1>5, OutboxStays
    DEF DispatcherCrash, store, jobVars, runVars, JobTypes, RunTypes, StoreTypes, Exists
  <2> QED
    BY <1>5, <2>1 DEF DispatcherCrash, ProcessTypes
<1> QED
  BY <1>1, <1>2, <1>3, <1>4, <1>5 DEF DispatcherNext

\* The retry of schedule_retry keeps every row well typed.
LEMMA ScheduleRetryType ==
    ASSUME TypeOK, NEW j \in Jobs, ScheduleRetry(j), UNCHANGED <<bodies, results>>
    PROVE  /\ JobTypes' /\ RunTypes' /\ StoreTypes'
           /\ \A i \in Jobs : Len(outbox[i]) <= Len(outbox'[i])
<1> USE DEF TypeOK
<1> DEFINE t == Transition(j, "schedule_retry")
<1>1. t \in Transitions /\ t.status \in Statuses
  BY TransitionType DEF ScheduleRetry, Transition
<1>2. current[j] \in Runs /\ t.release \in BOOLEAN
  BY <1>1 DEF ScheduleRetry, JobTypes, Transitions
<1>3. /\ SetStatus(j, current[j], t.status, t.release)
      /\ problem' = [problem EXCEPT ![j] = FALSE]
      /\ Exists(j)
      /\ UNCHANGED <<current, attempts, takeovers, cancel, tasks, token, version>>
  BY DEF ScheduleRetry
<1>4. Enqueued(j, current[j], FALSE)
  BY DEF ScheduleRetry
<1> HIDE DEF t
<1>5. JobTypes' /\ RunTypes'
  BY <1>1, <1>2, <1>3, SetStatusType DEF JobTypes, RunTypes, Exists
<1>6. StoreTypes' /\ \A i \in Jobs : Len(outbox[i]) <= Len(outbox'[i])
  BY <1>2, <1>4, EnqueuedType DEF StoreTypes
<1> QED
  BY <1>5, <1>6

\* The reconciler's operations and the passing of time keep every row well typed.
LEMMA ReconcilerType ==
    ASSUME TypeOK, NEW j \in Jobs, ReconcilerNext(j) \/ TimeNext(j)
    PROVE  TypeOK'
<1> USE DEF TypeOK
<1>1. ASSUME NEW r \in Runs, ExpireLease(j, r) PROVE TypeOK'
  <2> DEFINE t == Transition(j, "lease_expired")
  <2>1. Exists(j) /\ Facts(j, tasks[j] # {}).status = "running"
    BY <1>1 DEF ExpireLease, Exists, Facts
  <2>2. t # Conflict
    BY <2>1, FactsType, ExpiryReleases DEF Transition
  <2>3. t \in Transitions /\ t.status \in Statuses
    BY <2>1, <2>2, TransitionType DEF Transition
  <2>4. t.release \in BOOLEAN /\ t.takeover \in Nat
    BY <2>3 DEF Transitions
  <2>5. /\ SetStatus(j, r, t.status, t.release)
        /\ takeovers' = [takeovers EXCEPT ![j] = @ + t.takeover]
        /\ problem' = [problem EXCEPT ![j] = @ \/ t.status \in {"failed", "cancelled"}]
        /\ tasks' = [tasks EXCEPT ![j] = IF t.status = "cancelled" THEN {} ELSE @]
        /\ IF t.enqueue THEN Enqueued(j, r, TRUE) ELSE UNCHANGED outbox
        /\ UNCHANGED <<current, attempts, cancel, token, version, bodies, results, queue,
                       disp, wk, crashes>>
    BY <1>1 DEF ExpireLease, Reclaim
  <2> HIDE DEF t
  <2>6. problem' \in [Jobs -> BOOLEAN] /\ tasks' \in [Jobs -> SUBSET Tasks]
        /\ takeovers' \in [Jobs -> Nat]
    BY <2>4, <2>5 DEF JobTypes
  <2>7. JobTypes'
    BY <2>1, <2>3, <2>4, <2>5, <2>6, SetStatusType DEF JobTypes, Exists
  <2>8. RunTypes'
    BY <2>3, <2>4, <2>5, SetStatusType DEF RunTypes
  <2>9. StoreTypes' /\ \A i \in Jobs : Len(outbox[i]) <= Len(outbox'[i])
    BY <2>5, EnqueuedType, OutboxStays DEF StoreTypes
  <2> QED
    BY <2>5, <2>7, <2>8, <2>9, ProcessesStay DEF disp
<1>2. ASSUME RecoverRetryable(j) PROVE TypeOK'
  <2>1. ScheduleRetry(j) /\ UNCHANGED <<bodies, results, queue, disp, wk, crashes>>
    BY <1>2 DEF RecoverRetryable
  <2>2. /\ JobTypes' /\ RunTypes' /\ StoreTypes'
        /\ \A i \in Jobs : Len(outbox[i]) <= Len(outbox'[i])
    BY <2>1, ScheduleRetryType
  <2> QED
    BY <2>1, <2>2, ProcessesStay DEF disp
<1>3. ASSUME NEW r \in Runs, LeaseLapses(j, r) PROVE TypeOK'
  <2>1. JobTypes' /\ RunTypes' /\ StoreTypes' /\ Issued' = Issued
    BY <1>3, OutboxStays DEF LeaseLapses, jobVars, JobTypes, RunTypes, StoreTypes, Exists
  <2> QED
    BY <1>3, <2>1 DEF LeaseLapses, ProcessTypes, disp
<1>4. ASSUME NEW n \in DOMAIN outbox[j], DelayElapses(j, n) PROVE TypeOK'
  <2>1. <<j, n>> \in Issued
    BY <1>4 DEF Issued
  <2>2. outbox' = [outbox EXCEPT ![<<j, n>>[1]][<<j, n>>[2]].due = TRUE]
    BY <1>4 DEF DelayElapses
  <2>3. /\ outbox' \in [Jobs -> Seq(Rounds)]
        /\ \A i \in Jobs : Len(outbox'[i]) = Len(outbox[i])
    BY <2>1, <2>2, RoundRewrites
  <2>4. \A i \in Jobs : Len(outbox[i]) \in Nat
    BY DEF StoreTypes
  <2>5. JobTypes' /\ RunTypes' /\ StoreTypes' /\ \A i \in Jobs : Len(outbox[i]) <= Len(outbox'[i])
    BY <1>4, <2>3, <2>4 DEF DelayElapses, jobVars, runVars, JobTypes, RunTypes, StoreTypes, Exists
  <2> QED
    BY <1>4, <2>5, ProcessesStay DEF DelayElapses, disp
<1> QED
  BY <1>1, <1>2, <1>3, <1>4 DEF ReconcilerNext, TimeNext

\* finish() keeps every row well typed.
LEMMA FinishType ==
    ASSUME TypeOK, NEW w \in Workers, NEW e, NEW open \in SUBSET Tasks, Finish(w, e, open)
    PROVE  JobTypes' /\ RunTypes'
<1> USE DEF TypeOK
<1> DEFINE j == JobOf(w)
           r == wk[w].run
           t == NextState(Facts(j, open # {}), e)
<1>1. j \in Jobs /\ r \in Runs /\ RunOf(w) \in Jobs \X Runs
  BY DEF ProcessTypes, WorkerRows, JobOf, RunOf, Messages
<1>2. Exists(j)
  BY <1>1 DEF Finish, Owns, Exists
<1>3. t \in Transitions /\ t.status \in Statuses
  BY <1>1, <1>2, TransitionType DEF Finish
<1>4. t.release \in BOOLEAN /\ t.attempt \in Nat
  BY <1>3 DEF Transitions
<1>5. /\ SetStatus(j, r, t.status, t.release)
      /\ attempts' = [attempts EXCEPT ![j] = @ + t.attempt]
      /\ problem' = [problem EXCEPT ![j] = t.status \in {"failed", "cancelled"}]
      /\ tasks' = [tasks EXCEPT ![j] = IF t.status = "cancelled" THEN {} ELSE open]
      /\ version' = IF e = "publish_result"
                    THEN [version EXCEPT ![RunOf(w)] = @ + 1] ELSE version
      /\ UNCHANGED <<current, takeovers, cancel, token>>
  BY DEF Finish
<1> HIDE DEF t, j, r
<1>6. attempts' \in [Jobs -> Nat] /\ tasks' \in [Jobs -> SUBSET Tasks]
      /\ problem' \in [Jobs -> BOOLEAN]
  BY <1>1, <1>4, <1>5 DEF JobTypes
<1>7. version' \in [Jobs \X Runs -> Nat]
  BY <1>1, <1>5 DEF RunTypes
<1>8. JobTypes'
  BY <1>1, <1>2, <1>3, <1>4, <1>5, <1>6, SetStatusType DEF JobTypes, Exists
<1>9. RunTypes'
  BY <1>1, <1>3, <1>4, <1>5, <1>7, SetStatusType DEF RunTypes
<1> QED
  BY <1>8, <1>9

\* A worker that moves on or returns keeps its message, so it stays well typed.
LEMMA WorkerMoves ==
    ASSUME TypeOK, NEW w \in Workers, wk[w].pc # "idle",
           \/ Return(w)
           \/ \E pc \in {"executing", "ready", "staged", "stopping", "retrying"} : Goto(w, pc),
           Issued \subseteq Issued', UNCHANGED <<queue, disp, crashes>>
    PROVE  ProcessTypes'
<1> USE DEF TypeOK
<1>1. wk[w] \in WorkerRows /\ wk[w].msg \in Messages /\ wk[w].msg \in Issued
  BY DEF ProcessTypes, WorkerRows
<1>2. PICK row \in WorkerRows : wk' = [wk EXCEPT ![w] = row] /\ row.msg = wk[w].msg
  <2>1. CASE Return(w)
    <3>1. Returned(wk[w].msg) \in WorkerRows /\ Returned(wk[w].msg).msg = wk[w].msg
      BY <1>1, WorkerRowTypes DEF Returned
    <3> QED
      BY <2>1, <3>1 DEF Return
  <2>2. CASE \E pc \in {"executing", "ready", "staged", "stopping", "retrying"} : Goto(w, pc)
    <3>1. PICK pc \in {"executing", "ready", "staged", "stopping", "retrying"} : Goto(w, pc)
      BY <2>2
    <3>2. [wk[w] EXCEPT !.pc = pc] \in WorkerRows
      BY <1>1 DEF WorkerRows
    <3>3. [wk[w] EXCEPT !.pc = pc].msg = wk[w].msg
      BY <1>1 DEF WorkerRows
    <3> QED
      BY <3>1, <3>2, <3>3 DEF Goto
  <2> QED
    BY <2>1, <2>2
<1>3. wk' \in [Workers -> WorkerRows]
  BY <1>2 DEF ProcessTypes
<1>4. \A v \in Workers : wk'[v].pc # "idle" => wk'[v].msg \in Issued'
  BY <1>1, <1>2 DEF ProcessTypes
<1> QED
  BY <1>3, <1>4 DEF ProcessTypes, disp

\* The workers' operations keep every row well typed.
LEMMA WorkerType ==
    ASSUME TypeOK, NEW w \in Workers,
           (\E m \in queue : Claim(w, m)) \/ WorkerStep(w) \/ WorkerCrash(w)
    PROVE  TypeOK'
<1> USE DEF TypeOK
<1>0. /\ wk[w] \in WorkerRows /\ JobOf(w) \in Jobs /\ wk[w].run \in Runs
      /\ RunOf(w) \in Jobs \X Runs
  BY DEF ProcessTypes, WorkerRows, JobOf, RunOf, Messages
<1>1. ASSUME NEW m \in queue, Claim(w, m) PROVE TypeOK'
  <2>1. m \in Issued
    BY <1>1 DEF ProcessTypes
  <2>2. m \in Messages /\ m[1] \in Jobs /\ Round(m).run \in Runs
    BY <2>1, RoundType DEF Rounds
  <2>3. "running" \in Statuses
    BY DEF Statuses
  <2>4. token[<<m[1], Round(m).run>>] + 1 \in Nat /\ version[<<m[1], Round(m).run>>] \in Nat
    <3>1. \A j \in Jobs, r \in Runs : token[<<j, r>>] + 1 \in Nat /\ version[<<j, r>>] \in Nat
      BY DEF RunTypes
    <3> QED
      BY <2>2, <3>1
  <2>5. JobTypes' /\ RunTypes'
    <3>1. PICK j \in Jobs, r \in Runs : j = m[1] /\ r = Round(m).run
      BY <2>2
    <3>2. \/ /\ Exists(j) /\ current[j] = r
             /\ status' = [status EXCEPT ![j] = "running"]
             /\ runStatus' = [runStatus EXCEPT ![<<j, r>>] = "running"]
             /\ token' = [token EXCEPT ![<<j, r>>] = token[<<j, r>>] + 1]
             /\ holder' = [holder EXCEPT ![<<j, r>>] = token[<<j, r>>] + 1]
             /\ lease' = [lease EXCEPT ![<<j, r>>] = "valid"]
          \/ UNCHANGED <<status, runStatus, token, holder, lease>>
      BY <1>1, <3>1 DEF Claim, Grantable
    <3>3. UNCHANGED <<current, attempts, takeovers, cancel, tasks, problem, version>>
      BY <1>1 DEF Claim
    <3>4. token[<<j, r>>] + 1 \in Nat
      BY <2>4, <3>1
    <3>5. JobTypes'
      BY <2>3, <3>2, <3>3 DEF JobTypes, Exists
    <3>6. RunTypes'
      <4>1. PICK n \in Nat : n = token[<<j, r>>] + 1
        BY <3>4
      <4>2. <<j, r>> \in Jobs \X Runs
        OBVIOUS
      <4>3. CASE UNCHANGED <<status, runStatus, token, holder, lease>>
        BY <3>3, <4>3 DEF RunTypes
      <4>4. CASE /\ runStatus' = [runStatus EXCEPT ![<<j, r>>] = "running"]
                 /\ token' = [token EXCEPT ![<<j, r>>] = n]
                 /\ holder' = [holder EXCEPT ![<<j, r>>] = n]
                 /\ lease' = [lease EXCEPT ![<<j, r>>] = "valid"]
        BY <2>3, <3>3, <4>2, <4>4 DEF RunTypes
      <4> QED
        BY <3>2, <4>1, <4>3, <4>4
    <3> QED
      BY <3>5, <3>6
  <2>6. StoreTypes' /\ Issued' = Issued
    BY <1>1, OutboxStays DEF Claim, StoreTypes
  <2>7. PICK row \in WorkerRows : wk' = [wk EXCEPT ![w] = row] /\ row.msg = m
    <3>1. CASE Grantable(m[1], Round(m).run)
      <4> DEFINE row == [pc |-> "claimed", msg |-> m, run |-> Round(m).run,
                         token |-> token[<<m[1], Round(m).run>>] + 1,
                         expected |-> version[<<m[1], Round(m).run>>], seen |-> None]
      <4>1. row \in WorkerRows /\ row.msg = m
        BY <2>2, <2>4 DEF WorkerRows, None
      <4>2. wk' = [wk EXCEPT ![w] = row]
        BY <1>1, <3>1 DEF Claim
      <4> QED
        BY <4>1, <4>2
    <3>2. CASE ~Grantable(m[1], Round(m).run)
      <4>1. Returned(m) \in WorkerRows /\ Returned(m).msg = m
        BY <2>2, WorkerRowTypes DEF Returned
      <4>2. wk' = [wk EXCEPT ![w] = Returned(m)]
        BY <1>1, <3>2 DEF Claim
      <4> QED
        BY <4>1, <4>2
    <3> QED
      BY <3>1, <3>2
  <2>8. UNCHANGED <<queue, disp, crashes>>
    BY <1>1 DEF Claim
  <2>9. ProcessTypes'
    BY <2>1, <2>6, <2>7, <2>8 DEF ProcessTypes, disp
  <2> QED
    BY <2>5, <2>6, <2>9
<1>2. ASSUME ReadJob(w) PROVE TypeOK'
  <2>1. JobTypes' /\ RunTypes' /\ StoreTypes' /\ Issued' = Issued
    BY <1>2, OutboxStays DEF ReadJob, store, jobVars, runVars, JobTypes, RunTypes, StoreTypes, Exists
  <2>2. CASE current[JobOf(w)] # wk[w].run
    BY <1>2, <2>1, <2>2, WorkerMoves DEF ReadJob
  <2>3. CASE current[JobOf(w)] = wk[w].run
    <3> DEFINE pc == IF cancel[JobOf(w)] THEN "stopping" ELSE "executing"
               seen == IF status[JobOf(w)] = "running" THEN holder[RunOf(w)] ELSE None
               row == [wk[w] EXCEPT !.pc = pc, !.seen = seen]
    <3>1. seen \in Nat /\ pc \in {"stopping", "executing"}
      BY <1>0 DEF RunTypes, None
    <3>2. wk' = [wk EXCEPT ![w] = row]
      BY <1>2, <2>3 DEF ReadJob
    <3> HIDE DEF pc, seen
    <3>3. row \in WorkerRows /\ row.msg = wk[w].msg
      BY <1>0, <3>1 DEF WorkerRows
    <3>4. wk[w].msg \in Issued
      BY <1>2 DEF ReadJob, ProcessTypes
    <3>5. UNCHANGED <<queue, disp, crashes>>
      BY <1>2 DEF ReadJob
    <3> HIDE DEF row
    <3>6. ProcessTypes'
      BY <2>1, <3>2, <3>3, <3>4, <3>5 DEF ProcessTypes, disp
    <3> QED
      BY <2>1, <3>6
  <2> QED
    BY <2>2, <2>3
<1>3. ASSUME Heartbeat(w) PROVE TypeOK'
  <2>1. JobTypes' /\ RunTypes' /\ StoreTypes' /\ Issued' = Issued
    BY <1>0, <1>3, OutboxStays DEF Heartbeat, jobVars, JobTypes, RunTypes, StoreTypes, Exists
  <2> QED
    BY <1>3, <2>1, WorkerMoves DEF Heartbeat
<1>4. ASSUME Put(w) PROVE TypeOK'
  <2> DEFINE b == [job |-> JobOf(w), run |-> wk[w].run, version |-> wk[w].expected + 1,
                   attempt |-> wk[w].seen, by |-> wk[w].token]
  <2>1. b \in Bodies
    BY <1>0 DEF Bodies, WorkerRows
  <2>2. bodies' = bodies \cup {b} /\ UNCHANGED <<jobVars, runVars, outbox, results>>
    BY <1>4 DEF Put
  <2> HIDE DEF b
  <2>3. JobTypes' /\ RunTypes' /\ StoreTypes' /\ Issued' = Issued
    BY <2>1, <2>2, OutboxStays DEF jobVars, runVars, JobTypes, RunTypes, StoreTypes, Exists
  <2> QED
    BY <1>4, <2>3, WorkerMoves DEF Put
<1>5. ASSUME Publish(w) PROVE TypeOK'
  <2> DEFINE x == [job |-> JobOf(w), run |-> wk[w].run, version |-> wk[w].expected + 1,
                   token |-> wk[w].token, digest |-> wk[w].seen]
  <2>1. x \in References
    BY <1>0 DEF References, WorkerRows
  <2>2. results' = results \cup {x} /\ UNCHANGED <<outbox, bodies, queue, disp, crashes>>
        /\ Finish(w, "publish_result", {}) /\ Return(w) /\ wk[w].pc # "idle"
    BY <1>5 DEF Publish
  <2> HIDE DEF x
  <2>3. JobTypes' /\ RunTypes'
    BY <2>2, FinishType
  <2>4. StoreTypes' /\ Issued' = Issued
    BY <2>1, <2>2, OutboxStays DEF StoreTypes
  <2> QED
    BY <2>2, <2>3, <2>4, WorkerMoves
<1>6. ASSUME NEW open \in SUBSET Tasks, NEW e, Finish(w, e, open), wk[w].pc # "idle",
             Return(w) \/ Goto(w, "retrying"),
             UNCHANGED <<outbox, bodies, results, queue, disp, crashes>>
      PROVE  TypeOK'
  <2>1. JobTypes' /\ RunTypes'
    BY <1>6, FinishType
  <2>2. StoreTypes' /\ Issued' = Issued
    BY <1>6, OutboxStays DEF StoreTypes
  <2> QED
    BY <1>6, <2>1, <2>2, WorkerMoves
<1>7. ASSUME Reschedule(w) PROVE TypeOK'
  <2>1. /\ JobTypes' /\ RunTypes' /\ StoreTypes'
        /\ \A i \in Jobs : Len(outbox[i]) <= Len(outbox'[i])
    <3>1. CASE status[JobOf(w)] = "retryable_failed"
      BY <1>0, <1>7, <3>1, ScheduleRetryType DEF Reschedule
    <3>2. CASE status[JobOf(w)] # "retryable_failed"
      BY <1>7, <3>2, OutboxStays
      DEF Reschedule, jobVars, runVars, JobTypes, RunTypes, StoreTypes, Exists
    <3> QED
      BY <3>1, <3>2
  <2>2. Issued \subseteq Issued'
    BY <2>1, IssuedStays
  <2> QED
    BY <1>7, <2>1, <2>2, WorkerMoves DEF Reschedule
<1>8. ASSUME Superseded(w) PROVE TypeOK'
  <2>1. JobTypes' /\ RunTypes' /\ StoreTypes' /\ Issued' = Issued
    BY <1>8, OutboxStays
    DEF Superseded, store, jobVars, runVars, JobTypes, RunTypes, StoreTypes, Exists
  <2> QED
    BY <1>8, <2>1, WorkerMoves DEF Superseded
<1>9. ASSUME Acknowledge(w) \/ WorkerCrash(w) PROVE TypeOK'
  <2>1. JobTypes' /\ RunTypes' /\ StoreTypes' /\ Issued' = Issued
    BY <1>9, OutboxStays
    DEF Acknowledge, WorkerCrash, store, jobVars, runVars, JobTypes, RunTypes, StoreTypes, Exists
  <2>2. IdleWorker \in WorkerRows /\ IdleWorker.pc = "idle"
    BY WorkerRowTypes DEF IdleWorker
  <2>3. wk' = [wk EXCEPT ![w] = IdleWorker] /\ queue' \subseteq queue /\ UNCHANGED disp
        /\ crashes' \in Nat
    BY <1>9 DEF Acknowledge, WorkerCrash, ProcessTypes
  <2>4. ProcessTypes'
    BY <2>1, <2>2, <2>3 DEF ProcessTypes, disp
  <2> QED
    BY <2>1, <2>4
<1>10. CASE \E open \in SUBSET Tasks : WaitForHuman(w, open)
  BY <1>6, <1>10 DEF WaitForHuman
<1>11. CASE FailRetryable(w)
  BY <1>6, <1>11 DEF FailRetryable
<1>12. CASE FailPermanent(w)
  BY <1>6, <1>12 DEF FailPermanent
<1>13. CASE AcknowledgeCancel(w)
  BY <1>6, <1>13 DEF AcknowledgeCancel
<1> QED
  BY <1>1, <1>2, <1>3, <1>4, <1>5, <1>7, <1>8, <1>9, <1>10, <1>11, <1>12, <1>13 DEF WorkerStep

\* Every reachable state is well typed, for every policy, bound and set of processes:
\* no store operation writes a row another operation could not read, and every
\* message in flight names a round that the outbox still records.
THEOREM TypeCorrect == Spec => []TypeOK
<1>1. Init => TypeOK
  <2> SUFFICES ASSUME Init PROVE TypeOK
    OBVIOUS
  <2>1. "queued" \in Statuses
    BY DEF Statuses, Claimable
  <2>2. JobTypes /\ RunTypes
    BY <2>1 DEF Init, JobTypes, RunTypes, Exists, None
  <2>3. StoreTypes
    BY DEF Init, StoreTypes
  <2>4. ProcessTypes
    BY WorkerRowTypes DEF Init, ProcessTypes, IdleWorker
  <2> QED
    BY <2>2, <2>3, <2>4 DEF TypeOK
<1>2. TypeOK /\ [Next]_vars => TypeOK'
  <2> SUFFICES ASSUME TypeOK, [Next]_vars PROVE TypeOK'
    OBVIOUS
  <2>1. CASE Next
    BY <2>1, CallerType, ReconcilerType, DispatcherType, WorkerType DEF Next
  <2>2. CASE UNCHANGED vars
    <3>1. UNCHANGED <<jobVars, runVars, outbox, bodies, results, queue, batch, out, wk, crashes>>
      BY <2>2 DEF vars, store, disp
    <3>2. JobTypes' /\ RunTypes' /\ StoreTypes' /\ Issued' = Issued
      BY <3>1, OutboxStays DEF TypeOK, jobVars, runVars, JobTypes, RunTypes, StoreTypes, Exists
    <3> QED
      BY <3>1, <3>2 DEF TypeOK, ProcessTypes
  <2> QED
    BY <2>1, <2>2
<1> QED
  BY <1>1, <1>2, PTL DEF Spec

-----------------------------------------------------------------------------
(***************************************************************************)
(* Leases                                                                  *)
(***************************************************************************)

\* What a claim writes.
LEMMA ClaimEffect ==
    ASSUME TypeOK, NEW w \in Workers, NEW m \in queue, Claim(w, m)
    PROVE  \E j \in Jobs, r \in Runs :
              /\ j = m[1] /\ r = Round(m).run
              /\ UNCHANGED <<current, tasks, outbox, queue, out>>
              /\ \/ /\ status[j] \in Claimable /\ current[j] = r
                    /\ lease[<<j, r>>] # "valid"
                    /\ status' = [status EXCEPT ![j] = "running"]
                    /\ token' = [token EXCEPT ![<<j, r>>] = token[<<j, r>>] + 1]
                    /\ holder' = [holder EXCEPT ![<<j, r>>] = token[<<j, r>>] + 1]
                    /\ lease' = [lease EXCEPT ![<<j, r>>] = "valid"]
                 \/ /\ ~(Exists(j) /\ status[j] \in Claimable /\ current[j] = r
                         /\ lease[<<j, r>>] # "valid")
                    /\ UNCHANGED <<status, token, holder, lease>>
<1> USE DEF TypeOK
<1>1. m \in Issued
  BY DEF ProcessTypes
<1>2. m[1] \in Jobs /\ Round(m).run \in Runs
  BY <1>1, RoundType DEF Rounds
<1>3. PICK j \in Jobs, r \in Runs : j = m[1] /\ r = Round(m).run
  BY <1>2
<1>4. Exists(j) => (Transition(j, "claim") # Conflict <=> status[j] \in Claimable)
  <2> SUFFICES ASSUME Exists(j) PROVE Transition(j, "claim") # Conflict <=> status[j] \in Claimable
    OBVIOUS
  <2>1. Facts(j, tasks[j] # {}) \in FactRows /\ Facts(j, tasks[j] # {}).status = status[j]
    BY FactsType DEF Facts
  <2> QED
    BY <2>1, UnleasedEvents DEF Transition
<1>5. /\ UNCHANGED <<current, tasks, outbox, queue, out>>
      /\ \/ /\ Grantable(j, r)
            /\ status' = [status EXCEPT ![j] = "running"]
            /\ token' = [token EXCEPT ![<<j, r>>] = token[<<j, r>>] + 1]
            /\ holder' = [holder EXCEPT ![<<j, r>>] = token[<<j, r>>] + 1]
            /\ lease' = [lease EXCEPT ![<<j, r>>] = "valid"]
         \/ ~Grantable(j, r) /\ UNCHANGED <<status, token, holder, lease>>
  BY <1>3 DEF Claim, disp
<1>6. Grantable(j, r) <=> Exists(j) /\ status[j] \in Claimable /\ current[j] = r
                          /\ lease[<<j, r>>] # "valid"
  BY <1>4 DEF Grantable
<1> QED
  BY <1>3, <1>5, <1>6

\* Ending an attempt takes its lease with it.
LEMMA LeaseEnds ==
    ASSUME TypeOK, LeaseIffRunning, NEW j \in Jobs, NEW s, s # "running",
           current[j] \in Runs, SetStatus(j, current[j], s, TRUE), UNCHANGED <<current, token>>
    PROVE  LeaseIffRunning'
<1> SUFFICES ASSUME NEW i \in Jobs, NEW r \in Runs
             PROVE  LET leased == status'[i] = "running" /\ current'[i] = r
                    IN  /\ lease'[<<i, r>>] # "none" <=> leased
                        /\ holder'[<<i, r>>] # None <=> leased
                        /\ leased => holder'[<<i, r>>] = token'[<<i, r>>]
  BY DEF LeaseIffRunning
<1>1. /\ status' = [status EXCEPT ![j] = s]
      /\ holder' = [holder EXCEPT ![<<j, current[j]>>] = None]
      /\ lease' = [lease EXCEPT ![<<j, current[j]>>] = "none"]
  BY DEF SetStatus
<1>2. LET leased == status[i] = "running" /\ current[i] = r
      IN  /\ lease[<<i, r>>] # "none" <=> leased
          /\ holder[<<i, r>>] # None <=> leased
          /\ leased => holder[<<i, r>>] = token[<<i, r>>]
  BY DEF LeaseIffRunning
<1>3. CASE i = j /\ r = current[j]
  BY <1>1, <1>3 DEF TypeOK, JobTypes, RunTypes
<1>4. CASE i = j /\ r # current[j]
  BY <1>1, <1>2, <1>4 DEF TypeOK, JobTypes, RunTypes
<1>5. CASE i # j
  BY <1>1, <1>2, <1>5 DEF TypeOK, JobTypes, RunTypes
<1> QED
  BY <1>3, <1>4, <1>5

\* A job that is not running and does not start to has no lease before or after.
LEMMA LeaseStaysOff ==
    ASSUME TypeOK, LeaseIffRunning, NEW j \in Jobs, NEW s, s # "running",
           status[j] # "running", status' = [status EXCEPT ![j] = s],
           \A i \in Jobs \ {j} : current'[i] = current[i],
           UNCHANGED <<token, holder, lease>>
    PROVE  LeaseIffRunning'
<1> SUFFICES ASSUME NEW i \in Jobs, NEW r \in Runs
             PROVE  LET leased == status'[i] = "running" /\ current'[i] = r
                    IN  /\ lease'[<<i, r>>] # "none" <=> leased
                        /\ holder'[<<i, r>>] # None <=> leased
                        /\ leased => holder'[<<i, r>>] = token'[<<i, r>>]
  BY DEF LeaseIffRunning
<1>1. LET leased == status[i] = "running" /\ current[i] = r
      IN  /\ lease[<<i, r>>] # "none" <=> leased
          /\ holder[<<i, r>>] # None <=> leased
          /\ leased => holder[<<i, r>>] = token[<<i, r>>]
  BY DEF LeaseIffRunning
<1>2. CASE i = j
  BY <1>1, <1>2 DEF TypeOK, JobTypes
<1>3. CASE i # j
  BY <1>1, <1>3 DEF TypeOK, JobTypes
<1> QED
  BY <1>2, <1>3

\* The same for a write that may also clear a lease that is not there.
LEMMA LeaseStaysClear ==
    ASSUME TypeOK, LeaseIffRunning, NEW j \in Jobs, NEW r \in Runs, NEW s, s # "running",
           NEW release \in BOOLEAN, status[j] # "running", SetStatus(j, r, s, release),
           UNCHANGED <<current, token>>
    PROVE  LeaseIffRunning' /\ UNCHANGED <<holder, lease>>
<1>1. lease[<<j, r>>] = "none" /\ holder[<<j, r>>] = None
  BY DEF TypeOK, RunTypes, LeaseIffRunning
<1>2. UNCHANGED <<holder, lease>>
  BY <1>1 DEF SetStatus, TypeOK, RunTypes
<1>3. status' = [status EXCEPT ![j] = s]
  BY DEF SetStatus
<1> QED
  BY <1>2, <1>3, LeaseStaysOff

\* finish() by an attempt that owns its lease.
LEMMA FinishEffect ==
    ASSUME TypeOK, NEW w \in Workers, NEW e \in FinishEvents, NEW open \in SUBSET Tasks,
           Finish(w, e, open)
    PROVE  \E j \in Jobs :
              \E s \in {"waiting_for_human", "succeeded", "failed", "cancelled",
                        "retryable_failed"} :
                 /\ j = JobOf(w)
                 /\ status[j] = "running" /\ current[j] \in Runs
                 /\ SetStatus(j, current[j], s, TRUE)
                 /\ s = "waiting_for_human" => open # {}
                 /\ tasks' = [tasks EXCEPT ![j] = IF s = "cancelled" THEN {} ELSE open]
                 /\ UNCHANGED <<current, token>>
<1> USE DEF TypeOK
<1> DEFINE j == JobOf(w)
           f == Facts(j, open # {})
           t == NextState(f, e)
<1>1. j \in Jobs
  BY DEF ProcessTypes, WorkerRows, JobOf, Messages
<1>2. status[j] = "running" /\ current[j] = wk[w].run /\ t # Conflict
  BY DEF Finish, Owns
<1>3. Exists(j) /\ current[j] \in Runs
  BY <1>1, <1>2 DEF Exists, JobTypes
<1>4. f \in FactRows /\ f.open = (open # {})
  BY <1>1, <1>3, FactsType DEF Facts
<1>5. t \in Transitions
  BY <1>4, NextStateType
<1>6. /\ t.release = TRUE
      /\ t.status \in {"waiting_for_human", "succeeded", "failed", "cancelled",
                       "retryable_failed"}
      /\ t.status = "waiting_for_human" => open # {}
  BY <1>2, <1>4, <1>5, FinishReleases DEF Transitions
<1>7. /\ SetStatus(j, current[j], t.status, t.release)
      /\ tasks' = [tasks EXCEPT ![j] = IF t.status = "cancelled" THEN {} ELSE open]
      /\ UNCHANGED <<current, token>>
  BY <1>2 DEF Finish
<1>8. SetStatus(j, current[j], t.status, TRUE)
  BY <1>6, <1>7
<1> HIDE DEF t
<1> QED
  BY <1>1, <1>2, <1>3, <1>6, <1>7, <1>8

\* schedule_retry puts a job that is not running back in line.
LEMMA RetryEffect ==
    ASSUME TypeOK, NEW j \in Jobs, ScheduleRetry(j)
    PROVE  /\ status[j] = "retryable_failed" /\ current[j] \in Runs
           /\ SetStatus(j, current[j], "queued", FALSE)
           /\ Enqueued(j, current[j], FALSE)
           /\ UNCHANGED <<current, token, tasks>>
<1> USE DEF TypeOK
<1> DEFINE f == Facts(j, tasks[j] # {})
<1>1. Exists(j) /\ current[j] \in Runs
  BY DEF ScheduleRetry, JobTypes
<1>2. f \in FactRows /\ f.status = status[j]
  BY <1>1, FactsType DEF Facts
<1>3. status[j] = "retryable_failed" /\ Transition(j, "schedule_retry") = Enqueue("queued")
  BY <1>2, UnleasedEvents DEF Transition, ScheduleRetry
<1>4. Enqueue("queued").status = "queued" /\ Enqueue("queued").release = FALSE
  BY DEF Enqueue, Move
<1> QED
  BY <1>1, <1>3, <1>4 DEF ScheduleRetry

\* expire_lease on the current attempt of a running job.
LEMMA ExpireEffect ==
    ASSUME TypeOK, LeaseIffRunning, NEW j \in Jobs, NEW r \in Runs, ExpireLease(j, r)
    PROVE  \E s \in {"queued", "failed", "cancelled"} :
              /\ status[j] = "running" /\ r = current[j]
              /\ SetStatus(j, current[j], s, TRUE)
              /\ IF s = "queued" THEN Enqueued(j, r, TRUE) ELSE UNCHANGED outbox
              /\ UNCHANGED <<current, token, queue, out, wk>>
<1> USE DEF TypeOK
<1> DEFINE f == Facts(j, tasks[j] # {})
           t == Transition(j, "lease_expired")
<1>1. status[j] = "running" /\ r = current[j]
  BY DEF ExpireLease, LeaseIffRunning
<1>2. f \in FactRows /\ f.status = "running"
  BY <1>1, FactsType DEF Facts, Exists
<1>3. /\ t.release /\ t.status \in {"queued", "failed", "cancelled"}
      /\ t.status = "queued" <=> t.enqueue
  BY <1>2, ExpiryReleases DEF Transition
<1>4. t \in Transitions
  BY <1>2, NextStateType DEF Transition
<1>5. t.release = TRUE /\ t.enqueue = (t.status = "queued")
  BY <1>3, <1>4 DEF Transitions
<1>6. /\ SetStatus(j, r, t.status, t.release)
      /\ IF t.enqueue THEN Enqueued(j, r, TRUE) ELSE UNCHANGED outbox
      /\ UNCHANGED <<current, token, queue, out, wk>>
  BY DEF ExpireLease, Reclaim, disp
<1> HIDE DEF t
<1>7. SetStatus(j, current[j], t.status, TRUE)
  BY <1>1, <1>5, <1>6
<1> QED
  BY <1>1, <1>3, <1>5, <1>6, <1>7

\* mark_dispatched moves a queued job only, and takes no lease.
LEMMA ConfirmEffect ==
    ASSUME TypeOK, NEW d \in Dispatchers, ConfirmDispatch(d)
    PROVE  \E m \in out[d] :
              /\ m \in Issued /\ m[1] \in Jobs
              /\ UNCHANGED <<current, token, tasks, queue, wk>>
              /\ out' = [out EXCEPT ![d] = {}]
              /\ \/ /\ status[m[1]] = "queued"
                    /\ \E r \in Runs : SetStatus(m[1], r, "dispatched", FALSE)
                 \/ UNCHANGED <<status, holder, lease>>
              /\ \/ outbox' = [outbox EXCEPT ![m[1]][m[2]].state = "sent"]
                 \/ UNCHANGED <<status, outbox>>
<1> USE DEF TypeOK
<1>1. PICK m \in out[d] : IF Round(m).state = "pending"
                          THEN MarkDispatched(m[1], m[2])
                          ELSE UNCHANGED <<jobVars, runVars, outbox>>
  BY DEF ConfirmDispatch
<1>2. m \in Issued
  BY DEF ProcessTypes
<1>3. m[1] \in Jobs /\ Round(m).run \in Runs
  BY <1>2, RoundType DEF Rounds
<1>4. out' = [out EXCEPT ![d] = {}] /\ UNCHANGED <<queue, wk>>
  BY DEF ConfirmDispatch
<1>5. CASE Round(m).state # "pending"
  BY <1>1, <1>2, <1>3, <1>4, <1>5 DEF jobVars, runVars
<1>6. CASE Round(m).state = "pending" /\ status[m[1]] # "queued"
  <2>1. /\ UNCHANGED <<current, token, tasks, status, holder, lease>>
        /\ outbox' = [outbox EXCEPT ![m[1]][m[2]].state = "sent"]
    BY <1>1, <1>6 DEF MarkDispatched
  <2> QED
    BY <1>2, <1>3, <1>4, <2>1
<1>7. CASE Round(m).state = "pending" /\ status[m[1]] = "queued"
  <2>1. Transition(m[1], "dispatch_succeeded") = Move("dispatched")
    BY <1>3, <1>7, FactsType, UnleasedEvents DEF Transition, Facts, Exists
  <2>2. Move("dispatched").status = "dispatched" /\ Move("dispatched").release = FALSE
    BY DEF Move
  <2>3. SetStatus(m[1], Round(m).run, "dispatched", FALSE)
    BY <1>1, <1>7, <2>1, <2>2 DEF MarkDispatched, Round
  <2>4. /\ UNCHANGED <<current, token, tasks>>
        /\ outbox' = [outbox EXCEPT ![m[1]][m[2]].state = "sent"]
    BY <1>1, <1>7 DEF MarkDispatched
  <2> QED
    BY <1>2, <1>3, <1>4, <1>7, <2>3, <2>4
<1> QED
  BY <1>5, <1>6, <1>7

\* cancel asks a running attempt to stop and ends any other job at once.
LEMMA CancelEffect ==
    ASSUME TypeOK, NEW j \in Jobs, Cancel(j)
    PROVE  /\ current[j] \in Runs
           /\ UNCHANGED <<current, token, outbox, queue, out, wk>>
           /\ \/ UNCHANGED <<status, tasks, holder, lease>>
              \/ status[j] # "running" /\ SetStatus(j, current[j], "cancelled", TRUE)
                 /\ tasks' = [tasks EXCEPT ![j] = {}]
<1> USE DEF TypeOK
<1> DEFINE f == Facts(j, tasks[j] # {})
           t == Transition(j, "cancel")
<1>1. Exists(j) /\ current[j] \in Runs /\ t # Conflict
  BY DEF Cancel, JobTypes
<1>2. f \in FactRows /\ f.status = status[j]
  BY <1>1, FactsType DEF Facts
<1>3. \/ t.cancel
      \/ status[j] \in Cancellable /\ t = Release("cancelled")
  BY <1>1, <1>2, UnleasedEvents DEF Transition
<1>4. UNCHANGED <<current, outbox, queue, out, wk>>
  BY DEF Cancel, disp
<1>5. CASE t.cancel
  BY <1>1, <1>4, <1>5 DEF Cancel, runVars
<1>6. CASE ~t.cancel
  <2>1. /\ SetStatus(j, current[j], t.status, t.release)
        /\ tasks' = [tasks EXCEPT ![j] = {}]
        /\ UNCHANGED token
    BY <1>6 DEF Cancel
  <2>2. Release("cancelled").status = "cancelled" /\ Release("cancelled").release = TRUE
    BY DEF Release, Move
  <2>3. status[j] # "running" /\ t = Release("cancelled")
    BY <1>3, <1>6 DEF Cancellable
  <2> HIDE DEF t
  <2>4. SetStatus(j, current[j], "cancelled", TRUE)
    BY <2>1, <2>2, <2>3
  <2> QED
    BY <1>1, <1>4, <2>1, <2>3, <2>4
<1> QED
  BY <1>5, <1>6

\* A committed response starts a fresh run of a waiting job.
LEMMA ResumeEffect ==
    ASSUME TypeOK, NEW j \in Jobs, Resume(j)
    PROVE  /\ status[j] = "waiting_for_human" /\ current[j] + 1 \in Runs
           /\ status' = [status EXCEPT ![j] = "queued"]
           /\ current' = [current EXCEPT ![j] = current[j] + 1]
           /\ tasks' = [tasks EXCEPT ![j] = {}]
           /\ Enqueued(j, current[j] + 1, TRUE)
           /\ UNCHANGED <<token, holder, lease, queue, out, wk>>
<1> USE DEF TypeOK
<1> DEFINE f == Facts(j, tasks[j] # {})
<1>1. f \in FactRows /\ f.status = status[j]
  BY FactsType DEF Facts, Resume
<1>2. status[j] = "waiting_for_human"
      /\ Transition(j, "human_response_committed") = Enqueue("queued")
  BY <1>1, UnleasedEvents DEF Transition, Resume
<1>3. Enqueue("queued").status = "queued"
  BY DEF Enqueue, Move
<1> QED
  BY <1>2, <1>3 DEF Resume, disp, runVars

\* A committed rejection leaves the job waiting for its other tasks or fails it.
LEMMA RejectEffect ==
    ASSUME TypeOK, NEW j \in Jobs, NEW task \in Tasks, RejectHumanTask(j, task)
    PROVE  \E s \in {"waiting_for_human", "failed"} :
              /\ status[j] = "waiting_for_human" /\ current[j] \in Runs
              /\ SetStatus(j, current[j], s, FALSE)
              /\ tasks' = [tasks EXCEPT ![j] = tasks[j] \ {task}]
              /\ s = "waiting_for_human" => tasks[j] \ {task} # {}
              /\ UNCHANGED <<current, token, outbox, queue, out, wk>>
<1> USE DEF TypeOK
<1> DEFINE f == Facts(j, (tasks[j] \ {task}) # {})
           t == NextState(f, "human_rejected")
<1>1. Exists(j) /\ current[j] \in Runs /\ t # Conflict
  BY DEF RejectHumanTask, JobTypes
<1>2. f \in FactRows /\ f.status = status[j] /\ f.open = ((tasks[j] \ {task}) # {})
  BY <1>1, FactsType DEF Facts
<1>3. status[j] = "waiting_for_human"
      /\ t = Move(IF f.open THEN "waiting_for_human" ELSE "failed")
  BY <1>1, <1>2, UnleasedEvents
<1>4. /\ t.status \in {"waiting_for_human", "failed"} /\ t.release = FALSE
      /\ t.status = "waiting_for_human" => tasks[j] \ {task} # {}
  <2>1. /\ Move("waiting_for_human").status = "waiting_for_human" /\ Move("failed").status = "failed"
        /\ Move("waiting_for_human").release = FALSE /\ Move("failed").release = FALSE
    BY DEF Move
  <2>2. \/ t = Move("waiting_for_human") /\ tasks[j] \ {task} # {}
        \/ t = Move("failed")
    BY <1>2, <1>3
  <2> HIDE DEF t
  <2> QED
    BY <2>1, <2>2
<1>5. /\ SetStatus(j, current[j], t.status, t.release)
      /\ tasks' = [tasks EXCEPT ![j] = tasks[j] \ {task}]
      /\ UNCHANGED <<current, token, outbox, queue, out, wk>>
  BY DEF RejectHumanTask, disp
<1> HIDE DEF t
<1>6. SetStatus(j, current[j], t.status, FALSE)
  BY <1>4, <1>5
<1> QED
  BY <1>1, <1>3, <1>4, <1>5, <1>6

\* LeaseIffRunning is inductive once the rows are well typed.
LEMMA LeaseStep ==
    ASSUME TypeOK, LeaseIffRunning, [Next]_vars
    PROVE  LeaseIffRunning'
<1> USE DEF TypeOK
<1>1. ASSUME UNCHANGED <<status, current, token, holder, lease>> PROVE LeaseIffRunning'
  BY <1>1 DEF LeaseIffRunning
<1>2. ASSUME NEW j \in Jobs, Submit(j) PROVE LeaseIffRunning'
  <2>1. InitialTransition.status = "queued"
    BY DEF InitialTransition, Enqueue, Move
  <2>2. /\ status' = [status EXCEPT ![j] = "queued"] /\ status[j] # "running"
        /\ current' = [current EXCEPT ![j] = 1]
        /\ UNCHANGED <<token, holder, lease>>
    BY <1>2, <2>1 DEF Submit, Exists, runVars
  <2>3. \A i \in Jobs \ {j} : current'[i] = current[i]
    BY <2>2 DEF JobTypes
  <2> QED
    BY <2>2, <2>3, LeaseStaysOff
<1>3. ASSUME NEW j \in Jobs, Cancel(j) PROVE LeaseIffRunning'
  BY <1>1, <1>3, CancelEffect, LeaseStaysClear
<1>4. ASSUME NEW j \in Jobs, Resume(j) PROVE LeaseIffRunning'
  <2>1. \A i \in Jobs \ {j} : current'[i] = current[i]
    <3>1. PICK n : current' = [current EXCEPT ![j] = n]
      BY <1>4, ResumeEffect
    <3> QED
      BY <3>1 DEF JobTypes
  <2> QED
    BY <1>4, <2>1, ResumeEffect, LeaseStaysOff
<1>5. ASSUME NEW j \in Jobs, NEW task \in Tasks, RejectHumanTask(j, task) PROVE LeaseIffRunning'
  BY <1>5, RejectEffect, LeaseStaysClear
<1>6. ASSUME NEW j \in Jobs, NEW r \in Runs, ExpireLease(j, r) PROVE LeaseIffRunning'
  BY <1>6, ExpireEffect, LeaseEnds
<1>7. ASSUME NEW j \in Jobs, ScheduleRetry(j) PROVE LeaseIffRunning'
  BY <1>7, RetryEffect, LeaseStaysClear
<1>8. ASSUME NEW j \in Jobs, NEW r \in Runs, LeaseLapses(j, r) PROVE LeaseIffRunning'
  <2>1. /\ lease[<<j, r>>] = "valid"
        /\ lease' = [lease EXCEPT ![<<j, r>>] = "lapsed"]
        /\ UNCHANGED <<status, current, token, holder>>
    BY <1>8 DEF LeaseLapses, jobVars
  <2>2. \A i \in Jobs, k \in Runs : lease'[<<i, k>>] # "none" <=> lease[<<i, k>>] # "none"
    BY <2>1 DEF RunTypes
  <2> SUFFICES ASSUME NEW i \in Jobs, NEW k \in Runs
               PROVE  LET leased == status'[i] = "running" /\ current'[i] = k
                      IN  /\ lease'[<<i, k>>] # "none" <=> leased
                          /\ holder'[<<i, k>>] # None <=> leased
                          /\ leased => holder'[<<i, k>>] = token'[<<i, k>>]
    BY Zenon DEF LeaseIffRunning
  <2>3. LET leased == status[i] = "running" /\ current[i] = k
        IN  /\ lease[<<i, k>>] # "none" <=> leased
            /\ holder[<<i, k>>] # None <=> leased
            /\ leased => holder[<<i, k>>] = token[<<i, k>>]
    BY Zenon DEF LeaseIffRunning
  <2>4. lease'[<<i, k>>] # "none" <=> lease[<<i, k>>] # "none"
    BY <2>2
  <2>5. UNCHANGED <<status, current, token, holder>>
    BY <2>1
  <2> HIDE <2>1, <2>2
  <2> QED
    BY <2>3, <2>4, <2>5
<1>9. ASSUME NEW d \in Dispatchers, ConfirmDispatch(d) PROVE LeaseIffRunning'
  BY <1>1, <1>9, ConfirmEffect, LeaseStaysClear
<1>10. ASSUME NEW w \in Workers, NEW m \in queue, Claim(w, m) PROVE LeaseIffRunning'
  <2>1. PICK j \in Jobs, r \in Runs :
              /\ UNCHANGED current
              /\ \/ /\ status[j] \in Claimable /\ current[j] = r
                    /\ status' = [status EXCEPT ![j] = "running"]
                    /\ token' = [token EXCEPT ![<<j, r>>] = token[<<j, r>>] + 1]
                    /\ holder' = [holder EXCEPT ![<<j, r>>] = token[<<j, r>>] + 1]
                    /\ lease' = [lease EXCEPT ![<<j, r>>] = "valid"]
                 \/ UNCHANGED <<status, token, holder, lease>>
    BY <1>10, ClaimEffect, ZenonT(60)
  <2>2. token[<<j, r>>] + 1 \in Nat /\ token[<<j, r>>] + 1 # None
    <3>1. token[<<j, r>>] \in Nat
      BY DEF RunTypes
    <3> QED
      BY <3>1 DEF None
  <2>3. PICK n \in Nat : n = token[<<j, r>>] + 1
    BY <2>2
  <2>4. CASE UNCHANGED <<status, token, holder, lease>>
    BY <1>1, <2>1, <2>4
  <2>5. CASE /\ status[j] \in Claimable /\ current[j] = r
             /\ status' = [status EXCEPT ![j] = "running"]
             /\ token' = [token EXCEPT ![<<j, r>>] = n]
             /\ holder' = [holder EXCEPT ![<<j, r>>] = n]
             /\ lease' = [lease EXCEPT ![<<j, r>>] = "valid"]
    <3> SUFFICES ASSUME NEW i \in Jobs, NEW k \in Runs
                 PROVE  LET leased == status'[i] = "running" /\ current'[i] = k
                        IN  /\ lease'[<<i, k>>] # "none" <=> leased
                            /\ holder'[<<i, k>>] # None <=> leased
                            /\ leased => holder'[<<i, k>>] = token'[<<i, k>>]
      BY DEF LeaseIffRunning
    <3>1. LET leased == status[i] = "running" /\ current[i] = k
          IN  /\ lease[<<i, k>>] # "none" <=> leased
              /\ holder[<<i, k>>] # None <=> leased
              /\ leased => holder[<<i, k>>] = token[<<i, k>>]
      BY DEF LeaseIffRunning
    <3>2. status[j] # "running" /\ n # None
      BY <2>2, <2>3, <2>5 DEF Claimable
    <3>3. CASE i = j /\ k = r
      BY <2>1, <2>5, <3>2, <3>3 DEF JobTypes, RunTypes
    <3>4. CASE i = j /\ k # r
      BY <2>1, <2>5, <3>1, <3>2, <3>4 DEF JobTypes, RunTypes
    <3>5. CASE i # j
      BY <2>1, <2>5, <3>1, <3>5 DEF JobTypes, RunTypes
    <3> QED
      BY <3>3, <3>4, <3>5
  <2> QED
    BY <2>1, <2>3, <2>4, <2>5
<1>11. ASSUME NEW w \in Workers, Heartbeat(w) PROVE LeaseIffRunning'
  <2>1. RunOf(w) = <<JobOf(w), wk[w].run>> /\ JobOf(w) \in Jobs /\ wk[w].run \in Runs
    BY DEF ProcessTypes, WorkerRows, JobOf, RunOf, Messages
  <2>2. /\ status[JobOf(w)] = "running" /\ current[JobOf(w)] = wk[w].run
        /\ lease' = [lease EXCEPT ![<<JobOf(w), wk[w].run>>] = "valid"]
        /\ UNCHANGED <<status, current, token, holder>>
    BY <1>11, <2>1 DEF Heartbeat, Owns, jobVars
  <2>3. lease[<<JobOf(w), wk[w].run>>] # "none"
    BY <2>1, <2>2 DEF LeaseIffRunning
  <2>4. \A i \in Jobs, k \in Runs : lease'[<<i, k>>] # "none" <=> lease[<<i, k>>] # "none"
    BY <2>1, <2>2, <2>3 DEF RunTypes
  <2> QED
    BY <2>2, <2>4 DEF LeaseIffRunning
<1>12. ASSUME NEW w \in Workers, NEW e \in FinishEvents, NEW open \in SUBSET Tasks,
              Finish(w, e, open)
       PROVE  LeaseIffRunning'
  BY <1>12, FinishEffect, LeaseEnds
<1>13. CASE UNCHANGED vars
  BY <1>1, <1>13 DEF vars, store, jobVars, runVars
<1>14. ASSUME NEW j \in Jobs, CallerNext(j) \/ ReconcilerNext(j) \/ TimeNext(j)
       PROVE  LeaseIffRunning'
  <2>1. ASSUME NEW n \in DOMAIN outbox[j], DelayElapses(j, n) PROVE LeaseIffRunning'
    BY <1>1, <2>1 DEF DelayElapses, jobVars, runVars
  <2> QED
    BY <1>2, <1>3, <1>4, <1>5, <1>6, <1>7, <1>8, <1>14, <2>1
    DEF CallerNext, ReconcilerNext, TimeNext, RecoverRetryable
<1>15. ASSUME NEW d \in Dispatchers, DispatcherNext(d) \/ DispatcherCrash(d)
       PROVE  LeaseIffRunning'
  <2>1. ASSUME \/ DueDispatches(d) \/ DispatcherCrash(d)
               \/ \E m \in batch[d] : Send(d, m) \/ DeferDispatch(d, m)
        PROVE  LeaseIffRunning'
    BY <1>1, <2>1
    DEF DueDispatches, DispatcherCrash, Send, DeferDispatch, store, jobVars, runVars
  <2> QED
    BY <1>9, <1>15, <2>1 DEF DispatcherNext
<1>16. ASSUME NEW w \in Workers, WorkerStep(w) \/ WorkerCrash(w) PROVE LeaseIffRunning'
  <2>1. ASSUME ReadJob(w) \/ Put(w) \/ Superseded(w) \/ Acknowledge(w) \/ WorkerCrash(w)
        PROVE  LeaseIffRunning'
    BY <1>1, <2>1
    DEF ReadJob, Put, Superseded, Acknowledge, WorkerCrash, store, jobVars, runVars
  <2>2. ASSUME \/ Publish(w) \/ (\E open \in SUBSET Tasks : WaitForHuman(w, open))
               \/ FailRetryable(w) \/ FailPermanent(w) \/ AcknowledgeCancel(w)
        PROVE  LeaseIffRunning'
    BY <1>12, <2>2
    DEF Publish, WaitForHuman, FailRetryable, FailPermanent, AcknowledgeCancel, FinishEvents
  <2>3. ASSUME Reschedule(w) PROVE LeaseIffRunning'
    <3>1. JobOf(w) \in Jobs
      BY DEF ProcessTypes, WorkerRows, JobOf, Messages
    <3> QED
      BY <1>1, <1>7, <2>3, <3>1 DEF Reschedule, jobVars, runVars
  <2> QED
    BY <1>11, <1>16, <2>1, <2>2, <2>3 DEF WorkerStep
<1> QED
  BY <1>10, <1>13, <1>14, <1>15, <1>16 DEF Next

\* A lease exists exactly while its job runs, on the current run and under its newest
\* token, whatever claims, heartbeats, finishes, reclaims, cancels and resumes do to it
\* in which order: no dead lease refuses a claim and no running job is out of the
\* reconciler's sight.
THEOREM LeaseSound == Spec => []LeaseIffRunning
<1>1. Init => LeaseIffRunning
  BY DEF Init, LeaseIffRunning, None
<1>2. TypeOK /\ LeaseIffRunning /\ [Next]_vars => LeaseIffRunning'
  BY LeaseStep
<1> QED
  BY <1>1, <1>2, TypeCorrect, PTL DEF Spec

-----------------------------------------------------------------------------
(***************************************************************************)
(* No accepted work is lost                                                *)
(***************************************************************************)

InLineStatuses == {"queued", "dispatched"}

\* The strengthening of NoLostWork, for one job: its newest round is also in the queue
\* whenever a dispatcher has sent it and is about to mark it.  Without that conjunct the
\* mark could take the round off the outbox while its message is already gone.
InLine(j) ==
    LET n == Len(outbox[j])
    IN  status[j] \in InLineStatuses =>
           /\ n > 0
           /\ outbox[j][n].run = current[j]
           /\ outbox[j][n].state = "pending" \/ <<j, n>> \in queue
           /\ \A w \in Workers : wk[w].pc # "idle" => wk[w].msg # <<j, n>>
           /\ \A d \in Dispatchers : <<j, n>> \in out[d] => <<j, n>> \in queue

HasTask(j) == status[j] = "waiting_for_human" => tasks[j] # {}

WorkKept == \A j \in Jobs : InLine(j) /\ HasTask(j)

\* Workers keep or drop their message, and take no other.
MessagesKept ==
    \A v \in Workers : wk'[v].pc # "idle" => wk[v].pc # "idle" /\ wk'[v].msg = wk[v].msg

\* A worker's own steps keep its message.
LEMMA StepsKeepMessages ==
    ASSUME TypeOK, NEW w \in Workers, wk[w].pc # "idle",
           \/ Return(w)
           \/ \E pc \in {"executing", "ready", "staged", "stopping", "retrying"} : Goto(w, pc)
           \/ ReadJob(w)
    PROVE  MessagesKept
<1> USE DEF TypeOK
<1>1. wk[w] \in WorkerRows /\ wk \in [Workers -> WorkerRows]
  BY DEF ProcessTypes
<1>2. PICK row : wk' = [wk EXCEPT ![w] = row] /\ row.msg = wk[w].msg
  <2>1. CASE Return(w)
    <3>1. Returned(wk[w].msg).msg = wk[w].msg
      BY DEF Returned
    <3> QED
      BY <2>1, <3>1 DEF Return
  <2>2. CASE \E pc \in {"executing", "ready", "staged", "stopping", "retrying"} : Goto(w, pc)
    <3>1. PICK pc : Goto(w, pc)
      BY <2>2
    <3>2. [wk[w] EXCEPT !.pc = pc].msg = wk[w].msg
      BY <1>1 DEF WorkerRows
    <3> QED
      BY <3>1, <3>2 DEF Goto
  <2>3. CASE ReadJob(w) /\ ~Return(w)
    <3>1. PICK pc, seen : wk' = [wk EXCEPT ![w] = [wk[w] EXCEPT !.pc = pc, !.seen = seen]]
      BY <2>3 DEF ReadJob
    <3>2. [wk[w] EXCEPT !.pc = pc, !.seen = seen].msg = wk[w].msg
      BY <1>1 DEF WorkerRows
    <3> QED
      BY <3>1, <3>2
  <2> QED
    BY <2>1, <2>2, <2>3
<1> QED
  BY <1>1, <1>2 DEF MessagesKept

\* A fresh round for the current run puts its job in line, whatever is still in flight:
\* every message in flight is an older one.
LEMMA FreshRound ==
    ASSUME TypeOK, NEW j \in Jobs, NEW r \in Runs, NEW due \in BOOLEAN, Enqueued(j, r, due),
           current'[j] = r, UNCHANGED <<queue, out>>, MessagesKept
    PROVE  InLine(j)'
<1> USE DEF TypeOK
<1> DEFINE n == Len(outbox[j])
<1>1. n \in Nat
  BY DEF StoreTypes
<1>2. Len(outbox'[j]) = n + 1 /\ outbox'[j][n + 1] = [run |-> r, state |-> "pending", due |-> due]
  BY EnqueuedType
<1>3. <<j, n + 1>> \notin Issued
  <2>1. <<j, n + 1>> \in Issued => n + 1 <= n
    BY IssuedIff
  <2> QED
    BY <1>1, <2>1
<1>4. \A w \in Workers : wk'[w].pc # "idle" => wk'[w].msg # <<j, n + 1>>
  BY <1>3 DEF MessagesKept, ProcessTypes
<1>5. \A d \in Dispatchers : <<j, n + 1>> \notin out[d]
  BY <1>3 DEF ProcessTypes
<1>6. n + 1 > 0
  BY <1>1
<1> HIDE DEF n
<1> QED
  BY <1>2, <1>4, <1>5, <1>6 DEF InLine

\* What a step must respect to leave a job in line.
LEMMA StaysInLine ==
    ASSUME TypeOK, NEW i \in Jobs, InLine(i), Len(outbox'[i]) = Len(outbox[i]),
           status'[i] \in InLineStatuses =>
              LET n == Len(outbox[i])
              IN  /\ status[i] \in InLineStatuses
                  /\ current'[i] = current[i]
                  /\ outbox'[i][n].run = outbox[i][n].run
                  /\ outbox'[i][n].state = outbox[i][n].state \/ <<i, n>> \in queue'
                  /\ <<i, n>> \in queue => <<i, n>> \in queue'
                  /\ \A w \in Workers : wk'[w].pc # "idle" => wk'[w].msg # <<i, n>>
                  /\ \A d \in Dispatchers : <<i, n>> \in out'[d] =>
                                               <<i, n>> \in out[d] \/ <<i, n>> \in queue'
    PROVE  InLine(i)'
  BY DEF InLine

\* A step that leaves queue, outbox and dispatchers alone and moves no message.
LEMMA QuietStep ==
    ASSUME TypeOK, NEW i \in Jobs, InLine(i), MessagesKept,
           UNCHANGED <<queue, out>>, outbox'[i] = outbox[i],
           status'[i] \in InLineStatuses =>
              status[i] \in InLineStatuses /\ current'[i] = current[i]
    PROVE  InLine(i)'
<1>1. ASSUME status'[i] \in InLineStatuses
      PROVE  \A w \in Workers : wk'[w].pc # "idle" => wk'[w].msg # <<i, Len(outbox[i])>>
  BY <1>1 DEF MessagesKept, InLine
<1> QED
  BY <1>1, StaysInLine

\* A step that leaves the store alone, the queue growing or not.
LEMMA StoreStays ==
    ASSUME TypeOK, WorkKept, UNCHANGED <<status, current, tasks, outbox>>,
           MessagesKept, queue \subseteq queue',
           \A d \in Dispatchers : out'[d] \subseteq out[d] \cup queue'
    PROVE  WorkKept'
<1> SUFFICES ASSUME NEW i \in Jobs PROVE InLine(i)' /\ HasTask(i)'
  BY DEF WorkKept
<1>1. InLine(i) /\ HasTask(i)
  BY DEF WorkKept
<1>2. ASSUME status'[i] \in InLineStatuses
      PROVE  \A w \in Workers : wk'[w].pc # "idle" => wk'[w].msg # <<i, Len(outbox[i])>>
  BY <1>1, <1>2 DEF MessagesKept, InLine
<1>3. InLine(i)'
  BY <1>1, <1>2, StaysInLine
<1> QED
  BY <1>1, <1>3 DEF HasTask

\* The callers' operations lose no work.
LEMMA CallerKeepsWork ==
    ASSUME TypeOK, WorkKept, NEW j \in Jobs, CallerNext(j)
    PROVE  WorkKept'
<1> USE DEF TypeOK
<1> SUFFICES ASSUME NEW i \in Jobs PROVE InLine(i)' /\ HasTask(i)'
  BY DEF WorkKept
<1>0. InLine(i) /\ HasTask(i)
  BY DEF WorkKept
<1>1. ASSUME Submit(j) PROVE InLine(i)' /\ HasTask(i)'
  <2>1. 1 \in Runs /\ InitialTransition.status = "queued"
    BY BoundsAssumption DEF Runs, InitialTransition, Enqueue, Move
  <2>2. /\ status' = [status EXCEPT ![j] = "queued"] /\ current' = [current EXCEPT ![j] = 1]
        /\ Enqueued(j, 1, TRUE) /\ UNCHANGED <<tasks, queue, out, wk>>
    BY <1>1, <2>1 DEF Submit, disp
  <2>3. MessagesKept
    BY <2>2 DEF MessagesKept
  <2>4. CASE i = j
    <3>1. current'[j] = 1 /\ status'[j] = "queued"
      BY <2>2 DEF JobTypes
    <3> QED
      BY <2>1, <2>2, <2>3, <2>4, <3>1, FreshRound DEF HasTask
  <2>5. CASE i # j
    <3>1. status'[i] = status[i] /\ current'[i] = current[i] /\ outbox'[i] = outbox[i]
      BY <2>1, <2>2, <2>5, EnqueuedType DEF JobTypes
    <3> QED
      BY <1>0, <2>2, <2>3, <3>1, QuietStep DEF HasTask
  <2> QED
    BY <2>4, <2>5
<1>2. ASSUME Cancel(j) PROVE InLine(i)' /\ HasTask(i)'
  <2>1. /\ UNCHANGED <<current, outbox, queue, out, wk>>
        /\ \/ UNCHANGED <<status, tasks>>
           \/ status' = [status EXCEPT ![j] = "cancelled"] /\ tasks' = [tasks EXCEPT ![j] = {}]
    BY <1>2, CancelEffect DEF SetStatus
  <2>2. MessagesKept
    BY <2>1 DEF MessagesKept
  <2>3. \/ status'[i] = status[i] /\ tasks'[i] = tasks[i]
        \/ status'[i] = "cancelled"
    BY <2>1 DEF JobTypes
  <2>4. status'[i] \in InLineStatuses => status[i] \in InLineStatuses
    BY <2>3 DEF InLineStatuses
  <2> QED
    BY <1>0, <2>1, <2>2, <2>3, <2>4, QuietStep DEF HasTask
<1>3. ASSUME Resume(j) PROVE InLine(i)' /\ HasTask(i)'
  <2>1. PICK r \in Runs :
           /\ status' = [status EXCEPT ![j] = "queued"] /\ current' = [current EXCEPT ![j] = r]
           /\ tasks' = [tasks EXCEPT ![j] = {}]
           /\ Enqueued(j, r, TRUE) /\ UNCHANGED <<queue, out, wk>>
    BY <1>3, ResumeEffect
  <2>2. MessagesKept
    BY <2>1 DEF MessagesKept
  <2>3. CASE i = j
    <3>1. current'[j] = r /\ status'[j] = "queued"
      BY <2>1 DEF JobTypes
    <3> QED
      BY <2>1, <2>2, <2>3, <3>1, FreshRound DEF HasTask
  <2>4. CASE i # j
    <3>1. status'[i] = status[i] /\ current'[i] = current[i] /\ tasks'[i] = tasks[i]
          /\ outbox'[i] = outbox[i]
      BY <2>1, <2>4, EnqueuedType DEF JobTypes
    <3> QED
      BY <1>0, <2>1, <2>2, <3>1, QuietStep DEF HasTask
  <2> QED
    BY <2>3, <2>4
<1>4. ASSUME NEW task \in Tasks, RejectHumanTask(j, task) PROVE InLine(i)' /\ HasTask(i)'
  <2>1. PICK s \in {"waiting_for_human", "failed"} :
           /\ status' = [status EXCEPT ![j] = s]
           /\ tasks' = [tasks EXCEPT ![j] = tasks[j] \ {task}]
           /\ s = "waiting_for_human" => tasks[j] \ {task} # {}
           /\ UNCHANGED <<current, outbox, queue, out, wk>>
    BY <1>4, RejectEffect DEF SetStatus
  <2>2. MessagesKept
    BY <2>1 DEF MessagesKept
  <2>3. CASE i = j
    <3>1. status'[i] = s /\ tasks'[i] = tasks[j] \ {task}
      BY <2>1, <2>3 DEF JobTypes
    <3>2. status'[i] \notin InLineStatuses
      BY <3>1 DEF InLineStatuses
    <3> QED
      BY <2>1, <3>1, <3>2 DEF InLine, HasTask
  <2>4. CASE i # j
    <3>1. status'[i] = status[i] /\ tasks'[i] = tasks[i]
      BY <2>1, <2>4 DEF JobTypes
    <3> QED
      BY <1>0, <2>1, <2>2, <3>1, QuietStep DEF HasTask
  <2> QED
    BY <2>3, <2>4
<1> QED
  BY <1>1, <1>2, <1>3, <1>4 DEF CallerNext

\* schedule_retry puts its job in line behind a fresh round.
LEMMA RetryKeepsWork ==
    ASSUME TypeOK, WorkKept, NEW j \in Jobs, ScheduleRetry(j), UNCHANGED <<queue, out>>,
           MessagesKept
    PROVE  WorkKept'
<1> USE DEF TypeOK
<1> SUFFICES ASSUME NEW i \in Jobs PROVE InLine(i)' /\ HasTask(i)'
  BY DEF WorkKept
<1>1. InLine(i) /\ HasTask(i)
  BY DEF WorkKept
<1>2. /\ current[j] \in Runs /\ status' = [status EXCEPT ![j] = "queued"]
      /\ Enqueued(j, current[j], FALSE) /\ UNCHANGED <<current, tasks>>
  BY RetryEffect DEF SetStatus
<1>3. CASE i = j
  <2>1. status'[j] = "queued"
    BY <1>2 DEF JobTypes
  <2>2. InLine(j)'
    BY <1>2, FreshRound
  <2> QED
    BY <1>3, <2>1, <2>2 DEF HasTask
<1>4. CASE i # j
  <2>1. status'[i] = status[i] /\ outbox'[i] = outbox[i]
    BY <1>2, <1>4, EnqueuedType DEF JobTypes
  <2> QED
    BY <1>1, <1>2, <2>1, QuietStep DEF HasTask
<1> QED
  BY <1>3, <1>4

\* The passing of a backoff changes neither the run nor the state of a round.
LEMMA DueRewrites ==
    ASSUME StoreTypes, NEW m \in Issued,
           \/ outbox' = [outbox EXCEPT ![m[1]][m[2]].due = FALSE]
           \/ outbox' = [outbox EXCEPT ![m[1]][m[2]].due = TRUE]
    PROVE  \A i \in Jobs : \A n \in 1..Len(outbox[i]) :
              outbox'[i][n].state = outbox[i][n].state
<1>1. Round(m) \in Rounds
  BY RoundType
<1>2. PICK due \in BOOLEAN :
         outbox' = [outbox EXCEPT ![m[1]] = [outbox[m[1]] EXCEPT ![m[2]] =
                                                [Round(m) EXCEPT !.due = due]]]
  BY DEF Round
<1>3. /\ [Round(m) EXCEPT !.due = due] \in Rounds
      /\ [Round(m) EXCEPT !.due = due].state = Round(m).state
  BY <1>1 DEF Rounds
<1>4. PICK x \in Rounds :
         /\ outbox' = [outbox EXCEPT ![m[1]] = [outbox[m[1]] EXCEPT ![m[2]] = x]]
         /\ x.state = Round(m).state
  BY <1>2, <1>3
<1>5. \A i \in Jobs : \A n \in 1..Len(outbox[i]) :
         outbox'[i][n] = IF <<i, n>> = m THEN x ELSE outbox[i][n]
  BY <1>4, RewriteType, ZenonT(60)
<1>6. \A i, n : <<i, n>> = m => outbox[i][n] = Round(m)
  BY DEF Round
<1> QED
  BY <1>4, <1>5, <1>6

\* A rewritten round leaves its job in line while its state is kept, its message is
\* queued or its job is over.
LEMMA RewriteKeepsWork ==
    ASSUME TypeOK, WorkKept, NEW m \in Issued,
           \/ outbox' = [outbox EXCEPT ![m[1]][m[2]].state = "sent"]
           \/ outbox' = [outbox EXCEPT ![m[1]][m[2]].state = "abandoned"]
           \/ outbox' = [outbox EXCEPT ![m[1]][m[2]].due = FALSE]
           \/ outbox' = [outbox EXCEPT ![m[1]][m[2]].due = TRUE],
           \/ outbox' = [outbox EXCEPT ![m[1]][m[2]].due = FALSE]
           \/ outbox' = [outbox EXCEPT ![m[1]][m[2]].due = TRUE]
           \/ (m[2] = Len(outbox[m[1]]) /\ status[m[1]] \in InLineStatuses) => m \in queue,
           \A i \in Jobs : status'[i] \in InLineStatuses => status[i] \in InLineStatuses,
           \A i \in Jobs : status'[i] = "waiting_for_human" => status[i] = "waiting_for_human",
           UNCHANGED <<current, tasks, queue, wk>>,
           \A d \in Dispatchers : out'[d] \subseteq out[d]
    PROVE  WorkKept'
<1> USE DEF TypeOK
<1> SUFFICES ASSUME NEW i \in Jobs PROVE InLine(i)' /\ HasTask(i)'
  BY DEF WorkKept
<1>1. InLine(i) /\ HasTask(i)
  BY DEF WorkKept
<1>2. HasTask(i)'
  BY <1>1 DEF HasTask
<1> DEFINE n == Len(outbox[i])
<1>3. Len(outbox'[i]) = n
  BY RoundRewrites
<1>4. ASSUME status'[i] \in InLineStatuses
      PROVE  /\ status[i] \in InLineStatuses
             /\ current'[i] = current[i]
             /\ outbox'[i][n].run = outbox[i][n].run
             /\ outbox'[i][n].state = outbox[i][n].state \/ <<i, n>> \in queue'
             /\ \A w \in Workers : wk'[w].pc # "idle" => wk'[w].msg # <<i, n>>
  <2>1. status[i] \in InLineStatuses
    BY <1>4
  <2>2. n \in Nat /\ n > 0
    <3>1. n > 0
      BY <1>1, <2>1, Zenon DEF InLine
    <3>2. outbox[i] \in Seq(Rounds)
      BY DEF StoreTypes
    <3> HIDE DEF n
    <3>3. n \in Nat
      BY <3>2 DEF n
    <3> QED
      BY <3>1, <3>3
  <2>3. n \in 1..Len(outbox[i])
    BY <2>2
  <2>4. /\ outbox'[i][n].run = outbox[i][n].run
        /\ <<i, n>> # m => outbox'[i][n] = outbox[i][n]
    BY <2>3, RoundRewrites
  <2>5. \A w \in Workers : wk'[w].pc # "idle" => wk'[w].msg # <<i, n>>
    BY <1>1, <2>1 DEF InLine
  <2>6. outbox'[i][n].state = outbox[i][n].state \/ <<i, n>> \in queue'
    <3>1. CASE <<i, n>> # m
      BY <2>4, <3>1
    <3>2. CASE \/ outbox' = [outbox EXCEPT ![m[1]][m[2]].due = FALSE]
               \/ outbox' = [outbox EXCEPT ![m[1]][m[2]].due = TRUE]
      BY <2>3, <3>2, DueRewrites
    <3>3. CASE <<i, n>> = m /\ ((m[2] = Len(outbox[m[1]]) /\ status[m[1]] \in InLineStatuses) => m \in queue)
      BY <2>1, <3>3
    <3> QED
      BY <3>1, <3>2, <3>3
  <2> QED
    BY <2>1, <2>4, <2>5, <2>6
<1>5. InLine(i)'
  BY <1>1, <1>3, <1>4, StaysInLine
<1> QED
  BY <1>2, <1>5

\* The dispatchers' operations lose no work: a mark finds the message still queued, and
\* only the round of a finished job is abandoned.
LEMMA DispatcherKeepsWork ==
    ASSUME TypeOK, WorkKept, NEW d \in Dispatchers, DispatcherNext(d) \/ DispatcherCrash(d)
    PROVE  WorkKept'
<1> USE DEF TypeOK
<1>1. ASSUME DueDispatches(d) \/ DispatcherCrash(d) PROVE WorkKept'
  <2>1. /\ UNCHANGED <<status, current, tasks, outbox, queue, wk>>
        /\ \A c \in Dispatchers : out'[c] \subseteq out[c]
    BY <1>1 DEF DueDispatches, DispatcherCrash, store, jobVars, ProcessTypes
  <2>2. MessagesKept
    BY <2>1 DEF MessagesKept
  <2> QED
    BY <2>1, <2>2, StoreStays
<1>2. ASSUME NEW m \in batch[d], Send(d, m) PROVE WorkKept'
  <2>1. /\ UNCHANGED <<status, current, tasks, outbox, wk>> /\ queue' = queue \cup {m}
        /\ out' = [out EXCEPT ![d] = {m}]
    BY <1>2 DEF Send, store, jobVars
  <2>2. MessagesKept
    BY <2>1 DEF MessagesKept
  <2>3. \A c \in Dispatchers : out'[c] \subseteq out[c] \cup queue'
    BY <2>1 DEF ProcessTypes
  <2> QED
    BY <2>1, <2>2, <2>3, StoreStays
<1>3. ASSUME ConfirmDispatch(d) PROVE WorkKept'
  <2>1. PICK m \in out[d] :
              /\ m \in Issued /\ m[1] \in Jobs
              /\ UNCHANGED <<current, tasks, queue, wk>>
              /\ out' = [out EXCEPT ![d] = {}]
              /\ \/ status[m[1]] = "queued" /\ status' = [status EXCEPT ![m[1]] = "dispatched"]
                 \/ UNCHANGED status
              /\ \/ outbox' = [outbox EXCEPT ![m[1]][m[2]].state = "sent"]
                 \/ UNCHANGED <<status, outbox>>
    BY <1>3, ConfirmEffect DEF SetStatus
  <2>2. \A c \in Dispatchers : out'[c] \subseteq out[c]
    BY <2>1 DEF ProcessTypes
  <2>3. CASE UNCHANGED <<status, outbox>>
    <3>1. MessagesKept
      BY <2>1 DEF MessagesKept
    <3> QED
      BY <2>1, <2>2, <2>3, <3>1, StoreStays
  <2>4. CASE outbox' = [outbox EXCEPT ![m[1]][m[2]].state = "sent"]
    <3>1. (m[2] = Len(outbox[m[1]]) /\ status[m[1]] \in InLineStatuses) => m \in queue
      <4>1. InLine(m[1]) /\ m = <<m[1], m[2]>>
        BY <2>1, RoundType DEF WorkKept, Messages
      <4> QED
        BY <4>1 DEF InLine
    <3>2. \A i \in Jobs : \/ status'[i] = status[i]
                          \/ status[i] = "queued" /\ status'[i] = "dispatched"
      BY <2>1 DEF JobTypes
    <3>3. \A i \in Jobs :
             /\ status'[i] \in InLineStatuses => status[i] \in InLineStatuses
             /\ status'[i] = "waiting_for_human" => status[i] = "waiting_for_human"
      BY <3>2 DEF InLineStatuses
    <3> QED
      BY <2>1, <2>2, <2>4, <3>1, <3>3, RewriteKeepsWork
  <2> QED
    BY <2>1, <2>3, <2>4
<1>4. ASSUME NEW m \in batch[d], DeferDispatch(d, m) PROVE WorkKept'
  <2>1. m \in Issued
    BY <1>4 DEF ProcessTypes
  <2>2. UNCHANGED <<status, current, tasks, queue, out, wk>>
    BY <1>4 DEF DeferDispatch, jobVars
  <2>3. CASE UNCHANGED outbox
    <3>1. MessagesKept
      BY <2>2 DEF MessagesKept
    <3> QED
      BY <2>2, <2>3, <3>1, StoreStays
  <2>4. CASE outbox' = [outbox EXCEPT ![m[1]][m[2]].due = FALSE]
    BY <2>1, <2>2, <2>4, RewriteKeepsWork
  <2>5. CASE /\ status[m[1]] \in Terminal
             /\ outbox' = [outbox EXCEPT ![m[1]][m[2]].state = "abandoned"]
    <3>1. status[m[1]] \notin InLineStatuses
      BY <2>5 DEF Terminal, InLineStatuses
    <3> QED
      BY <2>1, <2>2, <2>5, <3>1, RewriteKeepsWork
  <2> QED
    BY <1>4, <2>3, <2>4, <2>5 DEF DeferDispatch
<1> QED
  BY <1>1, <1>2, <1>3, <1>4 DEF DispatcherNext

\* The reconciler and the passing of time lose no work.
LEMMA ReconcilerKeepsWork ==
    ASSUME TypeOK, LeaseIffRunning, WorkKept, NEW j \in Jobs, ReconcilerNext(j) \/ TimeNext(j)
    PROVE  WorkKept'
<1> USE DEF TypeOK
<1>1. ASSUME NEW r \in Runs, ExpireLease(j, r) PROVE WorkKept'
  <2> SUFFICES ASSUME NEW i \in Jobs PROVE InLine(i)' /\ HasTask(i)'
    BY DEF WorkKept
  <2>1. InLine(i) /\ HasTask(i)
    BY DEF WorkKept
  <2>2. PICK s \in {"queued", "failed", "cancelled"} :
           /\ r = current[j] /\ status' = [status EXCEPT ![j] = s]
           /\ IF s = "queued" THEN Enqueued(j, r, TRUE) ELSE UNCHANGED outbox
           /\ UNCHANGED <<current, queue, out, wk>>
    BY <1>1, ExpireEffect DEF SetStatus
  <2>3. MessagesKept
    BY <2>2 DEF MessagesKept
  <2>4. \A k \in Jobs \ {j} : tasks'[k] = tasks[k]
    BY <1>1 DEF ExpireLease, Reclaim, JobTypes
  <2>5. CASE i = j /\ s = "queued"
    <3>1. status'[i] = "queued"
      BY <2>2, <2>5 DEF JobTypes
    <3>2. InLine(j)'
      BY <2>2, <2>3, <2>5, FreshRound
    <3> QED
      BY <2>5, <3>1, <3>2 DEF HasTask
  <2>6. CASE i = j /\ s # "queued"
    <3>1. status'[i] \in {"failed", "cancelled"}
      BY <2>2, <2>6 DEF JobTypes
    <3> QED
      BY <3>1 DEF InLine, HasTask, InLineStatuses
  <2>7. CASE i # j
    <3>1. status'[i] = status[i] /\ tasks'[i] = tasks[i]
      BY <2>2, <2>4, <2>7 DEF JobTypes
    <3>2. outbox'[i] = outbox[i]
      BY <2>2, <2>7, EnqueuedType
    <3> QED
      BY <2>1, <2>2, <2>3, <3>1, <3>2, QuietStep DEF HasTask
  <2> QED
    BY <2>5, <2>6, <2>7
<1>2. ASSUME RecoverRetryable(j) PROVE WorkKept'
  <2>1. ScheduleRetry(j) /\ UNCHANGED <<queue, out, wk>>
    BY <1>2 DEF RecoverRetryable, disp
  <2>2. MessagesKept
    BY <2>1 DEF MessagesKept
  <2> QED
    BY <2>1, <2>2, RetryKeepsWork
<1>3. ASSUME NEW r \in Runs, LeaseLapses(j, r) PROVE WorkKept'
  <2>1. UNCHANGED <<status, current, tasks, outbox, queue, out, wk>>
    BY <1>3 DEF LeaseLapses, jobVars, disp
  <2>2. MessagesKept
    BY <2>1 DEF MessagesKept
  <2> QED
    BY <2>1, <2>2, StoreStays
<1>4. ASSUME NEW n \in DOMAIN outbox[j], DelayElapses(j, n) PROVE WorkKept'
  <2>1. <<j, n>> \in Issued
    BY <1>4 DEF Issued
  <2>2. /\ outbox' = [outbox EXCEPT ![<<j, n>>[1]][<<j, n>>[2]].due = TRUE]
        /\ UNCHANGED <<status, current, tasks, queue, out, wk>>
    BY <1>4 DEF DelayElapses, jobVars, disp
  <2> QED
    BY <2>1, <2>2, RewriteKeepsWork
<1> QED
  BY <1>1, <1>2, <1>3, <1>4 DEF ReconcilerNext, TimeNext

\* The workers' operations lose no work: the newest round of a job in line is claimed,
\* never refused, so no worker acknowledges it in vain.
LEMMA WorkerKeepsWork ==
    ASSUME TypeOK, LeaseIffRunning, WorkKept, NEW w \in Workers,
           (\E m \in queue : Claim(w, m)) \/ WorkerStep(w) \/ WorkerCrash(w)
    PROVE  WorkKept'
<1> USE DEF TypeOK
<1>1. ASSUME NEW m \in queue, Claim(w, m) PROVE WorkKept'
  <2> SUFFICES ASSUME NEW i \in Jobs PROVE InLine(i)' /\ HasTask(i)'
    BY DEF WorkKept
  <2>1. InLine(i) /\ HasTask(i)
    BY DEF WorkKept
  <2>2. PICK j \in Jobs, r \in Runs :
              /\ j = m[1] /\ r = Round(m).run
              /\ UNCHANGED <<current, tasks, outbox, queue, out>>
              /\ \/ status' = [status EXCEPT ![j] = "running"]
                 \/ /\ ~(Exists(j) /\ status[j] \in Claimable /\ current[j] = r
                         /\ lease[<<j, r>>] # "valid")
                    /\ UNCHANGED status
    BY <1>1, ClaimEffect, ZenonT(60)
  <2>3. \A v \in Workers : \/ wk'[v] = wk[v]
                           \/ wk'[v].msg = m
    <3>1. Returned(m).msg = m
      BY DEF Returned
    <3> QED
      BY <1>1, <3>1 DEF Claim, ProcessTypes
  <2>4. ASSUME status'[i] \in InLineStatuses
        PROVE  /\ status[i] \in InLineStatuses
               /\ \A v \in Workers : wk'[v].pc # "idle" => wk'[v].msg # <<i, Len(outbox[i])>>
    <3>1. status'[i] # "running"
      BY <2>4 DEF InLineStatuses
    <3>2. status'[i] = status[i]
      BY <2>2, <3>1 DEF JobTypes
    <3>3. status[i] \in InLineStatuses
      BY <2>4, <3>2
    <3>4. m # <<i, Len(outbox[i])>>
      <4> SUFFICES ASSUME m = <<i, Len(outbox[i])>> PROVE FALSE
        OBVIOUS
      <4>1. j = i /\ r = outbox[i][Len(outbox[i])].run
        BY <2>2 DEF Round
      <4>2. r = current[i] /\ status[i] # "running"
        BY <2>1, <3>3, <4>1 DEF InLine, InLineStatuses
      <4>3. lease[<<i, r>>] = "none"
        BY <4>2 DEF LeaseIffRunning
      <4>4. status[i] \in Claimable /\ Exists(i)
        BY <3>3 DEF InLineStatuses, Claimable, Exists
      <4>5. status' = [status EXCEPT ![i] = "running"]
        BY <2>2, <4>1, <4>2, <4>3, <4>4
      <4>6. status'[i] = "running"
        BY <4>5 DEF JobTypes
      <4> QED
        BY <3>1, <4>6
    <3> QED
      BY <2>1, <2>3, <3>3, <3>4 DEF InLine
  <2>5. InLine(i)'
    BY <2>1, <2>2, <2>4, StaysInLine
  <2>6. HasTask(i)'
    <3>1. status'[i] = "running" \/ status'[i] = status[i]
      BY <2>2 DEF JobTypes
    <3> QED
      BY <2>1, <2>2, <3>1 DEF HasTask
  <2> QED
    BY <2>5, <2>6
<1>2. ASSUME ReadJob(w) \/ Heartbeat(w) \/ Put(w) \/ Superseded(w) PROVE WorkKept'
  <2>1. UNCHANGED <<status, current, tasks, outbox, queue, out>> /\ wk[w].pc # "idle"
    BY <1>2 DEF ReadJob, Heartbeat, Put, Superseded, store, jobVars, disp
  <2>2. MessagesKept
    BY <1>2, <2>1, StepsKeepMessages DEF Heartbeat, Put, Superseded
  <2> QED
    BY <2>1, <2>2, StoreStays
<1>3. ASSUME NEW e \in FinishEvents, NEW open \in SUBSET Tasks, Finish(w, e, open),
             wk[w].pc # "idle", Return(w) \/ Goto(w, "retrying"), UNCHANGED <<outbox, queue, disp>>
      PROVE  WorkKept'
  <2> SUFFICES ASSUME NEW i \in Jobs PROVE InLine(i)' /\ HasTask(i)'
    BY DEF WorkKept
  <2>1. InLine(i) /\ HasTask(i)
    BY DEF WorkKept
  <2>2. MessagesKept
    BY <1>3, StepsKeepMessages
  <2>3. PICK j \in Jobs :
              \E s \in {"waiting_for_human", "succeeded", "failed", "cancelled",
                        "retryable_failed"} :
                 /\ j = JobOf(w)
                 /\ status[j] = "running" /\ current[j] \in Runs
                 /\ SetStatus(j, current[j], s, TRUE)
                 /\ s = "waiting_for_human" => open # {}
                 /\ tasks' = [tasks EXCEPT ![j] = IF s = "cancelled" THEN {} ELSE open]
                 /\ UNCHANGED <<current, token>>
    BY <1>3, FinishEffect, ZenonT(60)
  <2>4. PICK s \in {"waiting_for_human", "succeeded", "failed", "cancelled",
                    "retryable_failed"} :
                 /\ j = JobOf(w)
                 /\ status[j] = "running" /\ current[j] \in Runs
                 /\ SetStatus(j, current[j], s, TRUE)
                 /\ s = "waiting_for_human" => open # {}
                 /\ tasks' = [tasks EXCEPT ![j] = IF s = "cancelled" THEN {} ELSE open]
                 /\ UNCHANGED <<current, token>>
    BY <2>3
  <2>5. status' = [status EXCEPT ![j] = s]
    BY <2>4 DEF SetStatus
  <2>6. CASE i = j
    <3>1. status'[i] = s /\ (s = "waiting_for_human" => tasks'[i] = open)
      BY <2>6, <2>4, <2>5 DEF JobTypes
    <3> QED
      BY <2>4, <3>1 DEF InLine, HasTask, InLineStatuses
  <2>7. CASE i # j
    <3>1. status'[i] = status[i] /\ tasks'[i] = tasks[i] /\ current'[i] = current[i]
      BY <2>4, <2>5, <2>7 DEF JobTypes
    <3> QED
      BY <1>3, <2>1, <2>2, <3>1, QuietStep DEF HasTask, disp
  <2> QED
    BY <2>6, <2>7
<1>4. ASSUME \/ Publish(w) \/ (\E open \in SUBSET Tasks : WaitForHuman(w, open))
             \/ FailRetryable(w) \/ FailPermanent(w) \/ AcknowledgeCancel(w)
      PROVE  WorkKept'
  BY <1>3, <1>4
  DEF Publish, WaitForHuman, FailRetryable, FailPermanent, AcknowledgeCancel, FinishEvents
<1>5. ASSUME Reschedule(w) PROVE WorkKept'
  <2>1. JobOf(w) \in Jobs
    BY DEF ProcessTypes, WorkerRows, JobOf, Messages
  <2>2. MessagesKept /\ UNCHANGED <<queue, out>>
    BY <1>5, StepsKeepMessages DEF Reschedule, disp
  <2>3. CASE ScheduleRetry(JobOf(w))
    BY <2>1, <2>2, <2>3, RetryKeepsWork
  <2>4. CASE UNCHANGED <<jobVars, runVars, outbox>>
    BY <2>2, <2>4, StoreStays DEF jobVars
  <2> QED
    BY <1>5, <2>3, <2>4 DEF Reschedule
<1>6. ASSUME Acknowledge(w) \/ WorkerCrash(w) PROVE WorkKept'
  <2> SUFFICES ASSUME NEW i \in Jobs PROVE InLine(i)' /\ HasTask(i)'
    BY DEF WorkKept
  <2>1. InLine(i) /\ HasTask(i)
    BY DEF WorkKept
  <2>2. /\ UNCHANGED <<status, current, tasks, outbox, out>> /\ wk[w].pc # "idle"
        /\ wk' = [wk EXCEPT ![w] = IdleWorker]
        /\ queue' = queue \/ queue' = queue \ {wk[w].msg}
    BY <1>6 DEF Acknowledge, WorkerCrash, store, jobVars, disp
  <2>3. MessagesKept
    BY <2>2 DEF MessagesKept, IdleWorker, ProcessTypes
  <2>4. ASSUME status'[i] \in InLineStatuses
        PROVE  /\ <<i, Len(outbox[i])>> \in queue => <<i, Len(outbox[i])>> \in queue'
               /\ \A v \in Workers : wk'[v].pc # "idle" => wk'[v].msg # <<i, Len(outbox[i])>>
    BY <2>1, <2>2, <2>3, <2>4 DEF InLine, MessagesKept
  <2>5. InLine(i)'
    BY <2>1, <2>2, <2>4, StaysInLine
  <2> QED
    BY <2>1, <2>2, <2>5 DEF HasTask
<1> QED
  BY <1>1, <1>2, <1>4, <1>5, <1>6 DEF WorkerStep

\* Every accepted job stays within reach of some process: in line with a round to send or
\* a message to deliver, running under a lease to reclaim, or waiting with a task to
\* answer.  It holds for any number of jobs, workers and dispatchers, for every policy and
\* for crashes at any store call.
THEOREM WorkIsNeverLost == Spec => []NoLostWork
<1>1. Init => WorkKept
  BY DEF Init, WorkKept, InLine, HasTask, InLineStatuses
<1>2. TypeOK /\ LeaseIffRunning /\ WorkKept /\ [Next]_vars => WorkKept'
  <2> SUFFICES ASSUME TypeOK, LeaseIffRunning, WorkKept, [Next]_vars PROVE WorkKept'
    OBVIOUS
  <2>1. CASE Next
    BY <2>1, CallerKeepsWork, ReconcilerKeepsWork, DispatcherKeepsWork, WorkerKeepsWork DEF Next
  <2>2. CASE UNCHANGED vars
    <3>1. UNCHANGED <<status, current, tasks, outbox, queue, out, wk>>
      BY <2>2 DEF vars, store, jobVars, disp
    <3>2. MessagesKept
      BY <3>1 DEF MessagesKept
    <3> QED
      BY <3>1, <3>2, StoreStays
  <2> QED
    BY <2>1, <2>2
<1>3. TypeOK /\ LeaseIffRunning /\ WorkKept => NoLostWork
  <2> SUFFICES ASSUME TypeOK, LeaseIffRunning, WorkKept, NEW j \in Jobs
               PROVE  LET n == Len(outbox[j])
                      IN  /\ status[j] \in {"queued", "dispatched"} =>
                                /\ n > 0
                                /\ outbox[j][n].run = current[j]
                                /\ outbox[j][n].state = "pending" \/ <<j, n>> \in queue
                                /\ \A w \in Workers : wk[w].pc # "idle" => wk[w].msg # <<j, n>>
                          /\ status[j] = "running" => lease[<<j, current[j]>>] # "none"
                          /\ status[j] = "waiting_for_human" => tasks[j] # {}
    BY DEF NoLostWork
  <2>1. InLine(j) /\ HasTask(j)
    BY DEF WorkKept
  <2>2. status[j] = "running" => current[j] \in Runs
    BY DEF TypeOK, JobTypes, Exists
  <2> QED
    BY <2>1, <2>2 DEF InLine, HasTask, InLineStatuses, LeaseIffRunning
<1> QED
  BY <1>1, <1>2, <1>3, TypeCorrect, LeaseSound, PTL DEF Spec
-----------------------------------------------------------------------------
(***************************************************************************)
(* What is stored of a job: decisions stand, records are those of one      *)
(* attempt, and attempts that lost their lease are fenced.                 *)
(***************************************************************************)

\* The body an attempt stages and the attempts that are under way.
BodyOf(w) == [job |-> JobOf(w), run |-> wk[w].run, version |-> wk[w].expected + 1,
              attempt |-> wk[w].seen, by |-> wk[w].token]
UnderWay == {"claimed", "executing", "ready", "staged", "stopping"}

\* The run of an attempt is still under its token.
Holds(w) == token[RunOf(w)] = wk[w].token /\ holder[RunOf(w)] = wk[w].token

\* An attempt that read the id of another attempt has lost its lease for good; past a
\* heartbeat it read its own.
AttemptKnown(w) ==
    /\ wk[w].pc \in UnderWay => 1 <= wk[w].token /\ wk[w].token <= token[RunOf(w)]
    /\ wk[w].pc = "executing" => wk[w].seen = wk[w].token \/ ~Holds(w)
    /\ wk[w].pc \in {"ready", "staged"} => wk[w].seen = wk[w].token
    /\ wk[w].pc = "staged" => BodyOf(w) \in bodies

AttemptsKnown == StagedByItsAttempt /\ \A w \in Workers : AttemptKnown(w)

\* What a committed reference says of its job.
ReferenceHolds(x) ==
    /\ current[x.job] = x.run
    /\ version[<<x.job, x.run>>] = x.version
    /\ x.version >= 1
    /\ token[<<x.job, x.run>>] = x.token
    /\ [job |-> x.job, run |-> x.run, version |-> x.version, attempt |-> x.digest,
        by |-> x.token] \in bodies

ResultsOf(j) == {x \in results : x.job = j}

\* The row of a job and its committed results.
RowHonest(j) ==
    /\ status[j] \in {"failed", "cancelled"} <=> problem[j]
    /\ status[j] = "waiting_for_human" <=> tasks[j] # {}
    /\ cancel[j] => status[j] \in Terminal \cup {"running"}
    /\ status[j] = "succeeded" <=> ResultsOf(j) # {}
    /\ \A x \in ResultsOf(j) : ReferenceHolds(x)
    /\ \A x, y \in ResultsOf(j) : x = y

RowsHonest == \A j \in Jobs : RowHonest(j)

\* Nothing is written that belongs to the job.
Undisturbed(j) ==
    /\ JobRow(j)' = JobRow(j)
    /\ \A r \in Runs : RunRow(<<j, r>>)' = RunRow(<<j, r>>)
    /\ Len(outbox'[j]) = Len(outbox[j])
    /\ ResultsOf(j)' = ResultsOf(j)

\* What CancelStopsWork asks of a step.
Stopped(j) ==
    /\ cancel'[j]
    /\ status'[j] \in {status[j], "cancelled", "failed"}
    /\ \A r \in Runs : token'[<<j, r>>] = token[<<j, r>>]
    /\ Len(outbox'[j]) = Len(outbox[j])

DecisionStands(j) ==
    /\ status[j] \in Terminal => Undisturbed(j)
    /\ cancel[j] => Stopped(j)

\* A step that writes to one job, which has not ended, and publishes nothing.
Ordinary(i) ==
    /\ \A j \in Jobs \ {i} : Undisturbed(j)
    /\ UNCHANGED results
    /\ bodies \subseteq bodies'
    /\ status[i] \notin Terminal
    /\ status'[i] # "succeeded"
    /\ status'[i] \in {"failed", "cancelled"} <=> problem'[i]
    /\ status'[i] = "waiting_for_human" <=> tasks'[i] # {}
    /\ cancel'[i] => status'[i] \in Terminal \cup {"running"}
    /\ cancel[i] => Stopped(i)

-----------------------------------------------------------------------------
(***************************************************************************)
(* What a step may do to the rows                                          *)
(***************************************************************************)

\* A job whose rows are left alone stays honest.
LEMMA UndisturbedStays ==
    ASSUME TypeOK, NEW j \in Jobs, RowHonest(j), Undisturbed(j), bodies \subseteq bodies'
    PROVE  RowHonest(j)' /\ DecisionStands(j)
<1>1. /\ status'[j] = status[j] /\ current'[j] = current[j] /\ cancel'[j] = cancel[j]
      /\ tasks'[j] = tasks[j] /\ problem'[j] = problem[j]
  BY DEF Undisturbed, JobRow
<1>2. \A r \in Runs : token'[<<j, r>>] = token[<<j, r>>] /\ version'[<<j, r>>] = version[<<j, r>>]
  BY DEF Undisturbed, RunRow
<1>3. ResultsOf(j)' = ResultsOf(j)
  BY DEF Undisturbed
<1>4. ASSUME NEW x \in ResultsOf(j) PROVE ReferenceHolds(x)'
  <2>1. x.job = j /\ x.run \in Runs
    BY DEF ResultsOf, TypeOK, StoreTypes, References
  <2>2. ReferenceHolds(x)
    BY DEF RowHonest
  <2> QED
    BY <1>1, <1>2, <2>1, <2>2 DEF ReferenceHolds
<1>5. RowHonest(j)'
  BY <1>1, <1>3, <1>4 DEF RowHonest
<1>6. Len(outbox'[j]) = Len(outbox[j])
  BY DEF Undisturbed
<1> QED
  BY <1>1, <1>2, <1>5, <1>6 DEF DecisionStands, Stopped

LEMMA QuietKeepsRows ==
    ASSUME TypeOK, RowsHonest, bodies \subseteq bodies', \A j \in Jobs : Undisturbed(j)
    PROVE  RowsHonest' /\ \A j \in Jobs : DecisionStands(j)
BY UndisturbedStays DEF RowsHonest

\* A job that has not ended has no committed result, so an ordinary step keeps it honest.
LEMMA OrdinaryKeepsRows ==
    ASSUME TypeOK, RowsHonest, NEW i \in Jobs, Ordinary(i)
    PROVE  RowsHonest' /\ \A j \in Jobs : DecisionStands(j)
<1>1. ASSUME NEW j \in Jobs \ {i} PROVE RowHonest(j)' /\ DecisionStands(j)
  BY <1>1, UndisturbedStays DEF Ordinary, RowsHonest
<1>2. DecisionStands(i)
  BY DEF Ordinary, DecisionStands
<1>3. ResultsOf(i) = {} /\ ResultsOf(i)' = ResultsOf(i)
  BY DEF RowsHonest, RowHonest, Ordinary, ResultsOf, Terminal
<1>4. RowHonest(i)'
  BY <1>3 DEF RowHonest, Ordinary
<1> QED
  BY <1>1, <1>2, <1>4 DEF RowsHonest

\* Only the subject of a step is written.
LEMMA OthersUndisturbed ==
    ASSUME NEW i \in Jobs, UNCHANGED results,
           \A j \in Jobs \ {i} :
              /\ status'[j] = status[j] /\ current'[j] = current[j]
              /\ attempts'[j] = attempts[j] /\ takeovers'[j] = takeovers[j]
              /\ cancel'[j] = cancel[j] /\ tasks'[j] = tasks[j] /\ problem'[j] = problem[j]
              /\ outbox'[j] = outbox[j]
              /\ \A r \in Runs :
                    /\ token'[<<j, r>>] = token[<<j, r>>] /\ holder'[<<j, r>>] = holder[<<j, r>>]
                    /\ lease'[<<j, r>>] = lease[<<j, r>>]
                    /\ version'[<<j, r>>] = version[<<j, r>>]
                    /\ runStatus'[<<j, r>>] = runStatus[<<j, r>>]
    PROVE  \A j \in Jobs \ {i} : Undisturbed(j)
BY DEF Undisturbed, JobRow, RunRow, ResultsOf

\* Writing a status touches one job only.
LEMMA SetStatusElsewhere ==
    ASSUME TypeOK, NEW i \in Jobs, NEW r \in Runs, NEW s, NEW release,
           SetStatus(i, r, s, release)
    PROVE  /\ status'[i] = s
           /\ \A j \in Jobs \ {i} :
                 /\ status'[j] = status[j]
                 /\ \A q \in Runs : /\ holder'[<<j, q>>] = holder[<<j, q>>]
                                    /\ lease'[<<j, q>>] = lease[<<j, q>>]
                                    /\ runStatus'[<<j, q>>] = runStatus[<<j, q>>]
BY DEF SetStatus, TypeOK, JobTypes, RunTypes

\* So does a new round.
LEMMA EnqueuedElsewhere ==
    ASSUME TypeOK, NEW i \in Jobs, NEW r, NEW due, Enqueued(i, r, due)
    PROVE  \A j \in Jobs \ {i} : outbox'[j] = outbox[j]
BY DEF Enqueued, TypeOK, StoreTypes

-----------------------------------------------------------------------------
(***************************************************************************)
(* Callers                                                                 *)
(***************************************************************************)

\* A row that waits in line or to be retried has no problem, no task and no cancel request.
LEMMA InLineClear ==
    ASSUME TypeOK, RowsHonest, NEW i \in Jobs, status[i] \in Claimable \cup {"absent"}
    PROVE  ~problem[i] /\ tasks[i] = {} /\ ~cancel[i] /\ status[i] \notin Terminal
BY DEF RowsHonest, RowHonest, Claimable, Terminal, TypeOK, JobTypes

LEMMA SubmitOrdinary ==
    ASSUME TypeOK, RowsHonest, NEW i \in Jobs, Submit(i)
    PROVE  Ordinary(i)
<1>1. status[i] = "absent"
  BY DEF Submit, Exists
<1>2. ~problem[i] /\ tasks[i] = {} /\ ~cancel[i] /\ status[i] \notin Terminal
  BY <1>1, InLineClear
<1>3. /\ status' = [status EXCEPT ![i] = "queued"]
      /\ current' = [current EXCEPT ![i] = 1]
      /\ Enqueued(i, 1, TRUE)
      /\ UNCHANGED <<attempts, takeovers, cancel, tasks, problem, token, holder, lease, version,
                     runStatus, bodies, results>>
  <2>1. InitialTransition.status = "queued"
    BY DEF InitialTransition, Enqueue, Move
  <2> QED
    BY <2>1 DEF Submit, runVars
<1>4. \A j \in Jobs \ {i} : outbox'[j] = outbox[j] /\ status'[j] = status[j]
                            /\ current'[j] = current[j]
  BY <1>3, EnqueuedElsewhere DEF TypeOK, JobTypes
<1>5. \A j \in Jobs \ {i} : Undisturbed(j)
  BY <1>3, <1>4, OthersUndisturbed
<1>6. status'[i] = "queued"
  BY <1>3 DEF TypeOK, JobTypes
<1> QED
  BY <1>2, <1>3, <1>5, <1>6 DEF Ordinary

LEMMA CancelOrdinary ==
    ASSUME TypeOK, RowsHonest, NEW i \in Jobs, Cancel(i)
    PROVE  Ordinary(i)
<1> DEFINE f == Facts(i, tasks[i] # {})
           t == Transition(i, "cancel")
<1>1. Exists(i) /\ t # Conflict /\ current[i] \in Runs
  BY DEF Cancel, TypeOK, JobTypes
<1>2. f \in FactRows /\ f.status = status[i] /\ f.cancel = cancel[i]
  BY <1>1, FactsType DEF Facts, TypeOK
<1>3. status[i] \notin Terminal
  BY <1>1, <1>2, TerminalRefuses DEF Transition
<1>4. \/ status[i] = "running" /\ t.cancel
      \/ status[i] \in Cancellable /\ t = Release("cancelled")
  BY <1>1, <1>2, UnleasedEvents DEF Transition
<1>5. UNCHANGED <<current, attempts, takeovers, outbox, bodies, results>>
  BY DEF Cancel
<1>6. ~problem[i] /\ (status[i] = "waiting_for_human" <=> tasks[i] # {})
  BY <1>3 DEF RowsHonest, RowHonest, Terminal
<1>7. CASE t.cancel /\ status[i] = "running"
  <2>1. /\ cancel' = [cancel EXCEPT ![i] = TRUE]
        /\ UNCHANGED <<status, tasks, problem, token, holder, lease, version, runStatus>>
    BY <1>7 DEF Cancel, runVars
  <2>2. cancel'[i] /\ \A j \in Jobs \ {i} : cancel'[j] = cancel[j]
    BY <2>1 DEF TypeOK, JobTypes
  <2>3. \A j \in Jobs \ {i} : Undisturbed(j)
    BY <1>5, <2>1, <2>2, OthersUndisturbed
  <2> QED
    BY <1>3, <1>5, <1>6, <1>7, <2>1, <2>2, <2>3 DEF Ordinary, Stopped
<1>8. CASE t = Release("cancelled") /\ status[i] # "running"
  <2>1. Release("cancelled").status = "cancelled" /\ ~Release("cancelled").cancel
    BY DEF Release, Move
  <2>2. /\ SetStatus(i, current[i], "cancelled", t.release)
        /\ problem' = [problem EXCEPT ![i] = TRUE]
        /\ tasks' = [tasks EXCEPT ![i] = {}]
        /\ UNCHANGED <<cancel, token, version>>
    BY <1>8, <2>1 DEF Cancel
  <2> HIDE DEF t
  <2>3. /\ status'[i] = "cancelled"
        /\ \A j \in Jobs \ {i} :
              /\ status'[j] = status[j]
              /\ \A q \in Runs : /\ holder'[<<j, q>>] = holder[<<j, q>>]
                                 /\ lease'[<<j, q>>] = lease[<<j, q>>]
                                 /\ runStatus'[<<j, q>>] = runStatus[<<j, q>>]
    BY <1>1, <2>2, SetStatusElsewhere
  <2>4. /\ problem'[i] /\ tasks'[i] = {}
        /\ \A j \in Jobs \ {i} : problem'[j] = problem[j] /\ tasks'[j] = tasks[j]
    BY <2>2 DEF TypeOK, JobTypes
  <2>5. \A j \in Jobs \ {i} : Undisturbed(j)
    BY <1>5, <2>2, <2>3, <2>4, OthersUndisturbed
  <2>6. "cancelled" \in Terminal
    BY DEF Terminal
  <2> QED
    BY <1>3, <1>5, <2>2, <2>3, <2>4, <2>5, <2>6 DEF Ordinary, Stopped
<1>9. "running" \notin Cancellable
  BY DEF Cancellable
<1> QED
  BY <1>4, <1>7, <1>8, <1>9

LEMMA ResumeOrdinary ==
    ASSUME TypeOK, RowsHonest, NEW i \in Jobs, Resume(i)
    PROVE  Ordinary(i)
<1>1. /\ status[i] = "waiting_for_human"
      /\ status' = [status EXCEPT ![i] = "queued"]
      /\ current' = [current EXCEPT ![i] = current[i] + 1]
      /\ tasks' = [tasks EXCEPT ![i] = {}]
      /\ Enqueued(i, current[i] + 1, TRUE)
      /\ UNCHANGED <<token, holder, lease>>
  BY ResumeEffect
<1>2. ~cancel[i] /\ UNCHANGED <<attempts, takeovers, cancel, problem, version, runStatus, bodies,
                                results>>
  BY DEF Resume, runVars
<1>3. ~problem[i] /\ status[i] \notin Terminal
  BY <1>1 DEF RowsHonest, RowHonest, Terminal
<1>4. /\ status'[i] = "queued" /\ tasks'[i] = {}
      /\ \A j \in Jobs \ {i} : status'[j] = status[j] /\ current'[j] = current[j]
                               /\ tasks'[j] = tasks[j]
  BY <1>1 DEF TypeOK, JobTypes
<1>5. \A j \in Jobs \ {i} : outbox'[j] = outbox[j]
  BY <1>1, EnqueuedElsewhere
<1>6. \A j \in Jobs \ {i} : Undisturbed(j)
  BY <1>1, <1>2, <1>4, <1>5, OthersUndisturbed
<1> QED
  BY <1>2, <1>3, <1>4, <1>6 DEF Ordinary

LEMMA RejectOrdinary ==
    ASSUME TypeOK, RowsHonest, NEW i \in Jobs, NEW task \in Tasks, RejectHumanTask(i, task)
    PROVE  Ordinary(i)
<1> DEFINE remaining == tasks[i] \ {task}
           f == Facts(i, remaining # {})
           t == NextState(f, "human_rejected")
<1>1. Exists(i) /\ current[i] \in Runs /\ t # Conflict /\ ~cancel[i]
  BY DEF RejectHumanTask, TypeOK, JobTypes
<1>2. f \in FactRows /\ f.status = status[i] /\ f.open = (remaining # {})
  BY <1>1, FactsType DEF Facts, TypeOK
<1>3. status[i] = "waiting_for_human"
      /\ t = Move(IF f.open THEN "waiting_for_human" ELSE "failed")
  BY <1>1, <1>2, UnleasedEvents
<1>4. /\ SetStatus(i, current[i], t.status, t.release)
      /\ tasks' = [tasks EXCEPT ![i] = remaining]
      /\ problem' = [problem EXCEPT ![i] = t.status = "failed"]
      /\ UNCHANGED <<current, attempts, takeovers, cancel, token, version, outbox, bodies, results>>
  BY DEF RejectHumanTask
<1>5. \/ t.status = "waiting_for_human" /\ remaining # {}
      \/ t.status = "failed" /\ remaining = {}
  <2>1. Move("waiting_for_human").status = "waiting_for_human" /\ Move("failed").status = "failed"
    BY DEF Move
  <2>2. \/ t = Move("waiting_for_human") /\ remaining # {}
        \/ t = Move("failed") /\ remaining = {}
    BY <1>2, <1>3
  <2> HIDE DEF t
  <2> QED
    BY <2>1, <2>2
<1> HIDE DEF t, remaining
<1>6. /\ status'[i] = t.status
      /\ \A j \in Jobs \ {i} :
            /\ status'[j] = status[j]
            /\ \A q \in Runs : /\ holder'[<<j, q>>] = holder[<<j, q>>]
                               /\ lease'[<<j, q>>] = lease[<<j, q>>]
                               /\ runStatus'[<<j, q>>] = runStatus[<<j, q>>]
  BY <1>1, <1>4, SetStatusElsewhere
<1>7. /\ tasks'[i] = remaining /\ problem'[i] = (t.status = "failed")
      /\ \A j \in Jobs \ {i} : tasks'[j] = tasks[j] /\ problem'[j] = problem[j]
  BY <1>4 DEF TypeOK, JobTypes
<1>8. \A j \in Jobs \ {i} : Undisturbed(j)
  BY <1>4, <1>6, <1>7, OthersUndisturbed
<1>9. status[i] \notin Terminal
  BY <1>3 DEF Terminal
<1> QED
  BY <1>1, <1>4, <1>5, <1>6, <1>7, <1>8, <1>9 DEF Ordinary

LEMMA CallerStands ==
    ASSUME TypeOK, RowsHonest, NEW i \in Jobs, CallerNext(i)
    PROVE  RowsHonest' /\ \A j \in Jobs : DecisionStands(j)
BY SubmitOrdinary, CancelOrdinary, ResumeOrdinary, RejectOrdinary, OrdinaryKeepsRows
   DEF CallerNext

-----------------------------------------------------------------------------
(***************************************************************************)
(* Dispatchers and the reconciler                                          *)
(***************************************************************************)

\* A round that is marked or deferred leaves the rows and the number of rounds alone.
LEMMA RoundWritten ==
    ASSUME TypeOK, NEW m \in Issued, NEW x,
           \/ outbox' = [outbox EXCEPT ![m[1]][m[2]].state = x]
           \/ outbox' = [outbox EXCEPT ![m[1]][m[2]].due = x]
    PROVE  \A j \in Jobs : /\ Len(outbox'[j]) = Len(outbox[j])
                           /\ j # m[1] => outbox'[j] = outbox[j]
<1>1. m[1] \in Jobs
  BY RoundType DEF TypeOK
<1>2. outbox \in [Jobs -> Seq(Rounds)]
  BY DEF TypeOK, StoreTypes
<1>3. \A j \in Jobs \ {m[1]} : outbox'[j] = outbox[j]
  BY <1>1, <1>2
<1>4. \/ outbox'[m[1]] = [outbox[m[1]] EXCEPT ![m[2]].state = x]
      \/ outbox'[m[1]] = [outbox[m[1]] EXCEPT ![m[2]].due = x]
  BY <1>1, <1>2
<1>5. outbox[m[1]] \in Seq(Rounds)
  BY <1>1, <1>2
<1>6. Len(outbox'[m[1]]) = Len(outbox[m[1]])
  BY <1>4, <1>5
<1> QED
  BY <1>1, <1>3, <1>6

\* The steps that leave every row alone.
LEMMA RowsQuiet ==
    ASSUME UNCHANGED <<jobVars, runVars, results>>,
           \A j \in Jobs : Len(outbox'[j]) = Len(outbox[j])
    PROVE  \A j \in Jobs : Undisturbed(j)
BY DEF jobVars, runVars, Undisturbed, JobRow, RunRow, ResultsOf

LEMMA ConfirmStands ==
    ASSUME TypeOK, LeaseIffRunning, RowsHonest, NEW d \in Dispatchers, ConfirmDispatch(d)
    PROVE  RowsHonest' /\ \A j \in Jobs : DecisionStands(j)
<1>1. PICK m \in out[d] : IF Round(m).state = "pending"
                          THEN MarkDispatched(m[1], m[2])
                          ELSE UNCHANGED <<jobVars, runVars, outbox>>
  BY DEF ConfirmDispatch
<1>2. m \in Issued /\ UNCHANGED <<bodies, results>>
  BY DEF TypeOK, ProcessTypes, ConfirmDispatch
<1>3. m[1] \in Jobs /\ Round(m).run \in Runs
  BY <1>2, RoundType DEF Rounds, TypeOK
<1>4. CASE Round(m).state # "pending"
  BY <1>1, <1>2, <1>4, RowsQuiet, QuietKeepsRows
<1>5. CASE Round(m).state = "pending"
  <2> DEFINE i == m[1]
             t == Transition(i, "dispatch_succeeded")
  <2>1. /\ outbox' = [outbox EXCEPT ![i][m[2]].state = "sent"]
        /\ IF status[i] = "queued"
           THEN SetStatus(i, Round(m).run, t.status, t.release)
           ELSE UNCHANGED <<status, runStatus, holder, lease>>
        /\ UNCHANGED <<current, attempts, takeovers, cancel, tasks, problem, token, version>>
    BY <1>1, <1>5 DEF MarkDispatched, Round
  <2>2. \A j \in Jobs : /\ Len(outbox'[j]) = Len(outbox[j])
                        /\ j # m[1] => outbox'[j] = outbox[j]
    BY <1>2, <2>1, RoundWritten
  <2>3. CASE status[i] # "queued"
    <3>1. UNCHANGED <<jobVars, runVars>>
      BY <2>1, <2>3 DEF jobVars, runVars
    <3> QED
      BY <1>2, <2>2, <3>1, RowsQuiet, QuietKeepsRows
  <2>4. CASE status[i] = "queued"
    <3>1. t = Move("dispatched")
      BY <1>3, <2>4, FactsType, UnleasedEvents DEF Transition, Facts, Exists, TypeOK
    <3>2. t.status = "dispatched"
      BY <3>1 DEF Move
    <3> HIDE DEF t
    <3>3. SetStatus(i, Round(m).run, "dispatched", t.release)
      BY <2>1, <2>4, <3>2
    <3>4. /\ status'[i] = "dispatched"
          /\ \A j \in Jobs \ {i} :
                /\ status'[j] = status[j]
                /\ \A q \in Runs : /\ holder'[<<j, q>>] = holder[<<j, q>>]
                                   /\ lease'[<<j, q>>] = lease[<<j, q>>]
                                   /\ runStatus'[<<j, q>>] = runStatus[<<j, q>>]
      BY <1>3, <3>3, SetStatusElsewhere
    <3>5. \A j \in Jobs \ {i} : Undisturbed(j)
      BY <1>2, <1>3, <2>1, <2>2, <3>4, OthersUndisturbed
    <3>6. ~problem[i] /\ tasks[i] = {} /\ ~cancel[i] /\ status[i] \notin Terminal
      BY <1>3, <2>4, InLineClear DEF Claimable
    <3>7. Ordinary(i)
      BY <1>2, <2>1, <3>4, <3>5, <3>6 DEF Ordinary
    <3> QED
      BY <1>3, <3>7, OrdinaryKeepsRows
  <2> QED
    BY <2>3, <2>4
<1> QED
  BY <1>4, <1>5

LEMMA DeferStands ==
    ASSUME TypeOK, RowsHonest, NEW d \in Dispatchers, NEW m \in batch[d], DeferDispatch(d, m)
    PROVE  RowsHonest' /\ \A j \in Jobs : DecisionStands(j)
<1>1. m \in Issued
  BY DEF TypeOK, ProcessTypes
<1>2. UNCHANGED <<jobVars, runVars, bodies, results>>
  BY DEF DeferDispatch
<1>3. \/ outbox' = [outbox EXCEPT ![m[1]][m[2]].state = "abandoned"]
      \/ outbox' = [outbox EXCEPT ![m[1]][m[2]].due = FALSE]
      \/ UNCHANGED outbox
  BY DEF DeferDispatch
<1>4. \A j \in Jobs : Len(outbox'[j]) = Len(outbox[j])
  BY <1>1, <1>3, RoundWritten
<1> QED
  BY <1>2, <1>4, RowsQuiet, QuietKeepsRows

LEMMA DispatcherStands ==
    ASSUME TypeOK, LeaseIffRunning, RowsHonest, NEW d \in Dispatchers,
           DispatcherNext(d) \/ DispatcherCrash(d)
    PROVE  RowsHonest' /\ \A j \in Jobs : DecisionStands(j)
<1>1. CASE ConfirmDispatch(d)
  BY <1>1, ConfirmStands
<1>2. ASSUME NEW m \in batch[d], DeferDispatch(d, m)
      PROVE  RowsHonest' /\ \A j \in Jobs : DecisionStands(j)
  BY <1>2, DeferStands
<1>3. CASE DueDispatches(d) \/ (\E m \in batch[d] : Send(d, m)) \/ DispatcherCrash(d)
  <2>1. UNCHANGED <<jobVars, runVars, outbox, bodies, results>>
    BY <1>3 DEF DueDispatches, Send, DispatcherCrash, store
  <2> QED
    BY <2>1, RowsQuiet, QuietKeepsRows
<1> QED
  BY <1>1, <1>2, <1>3 DEF DispatcherNext

\* A scheduled retry moves a job that failed to be retried, and nothing else of it.
LEMMA RetryOrdinary ==
    ASSUME TypeOK, RowsHonest, NEW i \in Jobs, ScheduleRetry(i), UNCHANGED <<bodies, results>>
    PROVE  Ordinary(i)
<1>1. /\ status[i] = "retryable_failed" /\ current[i] \in Runs
      /\ SetStatus(i, current[i], "queued", FALSE)
      /\ Enqueued(i, current[i], FALSE)
      /\ UNCHANGED <<current, token, tasks>>
  BY RetryEffect
<1>2. /\ problem' = [problem EXCEPT ![i] = FALSE]
      /\ UNCHANGED <<attempts, takeovers, cancel, version>>
  BY DEF ScheduleRetry
<1>3. /\ status'[i] = "queued"
      /\ \A j \in Jobs \ {i} :
            /\ status'[j] = status[j]
            /\ \A q \in Runs : /\ holder'[<<j, q>>] = holder[<<j, q>>]
                               /\ lease'[<<j, q>>] = lease[<<j, q>>]
                               /\ runStatus'[<<j, q>>] = runStatus[<<j, q>>]
  BY <1>1, SetStatusElsewhere
<1>4. \A j \in Jobs \ {i} : outbox'[j] = outbox[j]
  BY <1>1, EnqueuedElsewhere
<1>5. ~problem'[i] /\ \A j \in Jobs \ {i} : problem'[j] = problem[j]
  BY <1>2 DEF TypeOK, JobTypes
<1>6. \A j \in Jobs \ {i} : Undisturbed(j)
  BY <1>1, <1>2, <1>3, <1>4, <1>5, OthersUndisturbed
<1>7. tasks[i] = {} /\ ~cancel[i] /\ status[i] \notin Terminal
  BY <1>1, InLineClear DEF Claimable
<1> QED
  BY <1>1, <1>2, <1>3, <1>5, <1>6, <1>7 DEF Ordinary

LEMMA ExpireOrdinary ==
    ASSUME TypeOK, LeaseIffRunning, RowsHonest, NEW i \in Jobs, NEW r \in Runs, ExpireLease(i, r)
    PROVE  Ordinary(i)
<1> DEFINE f == Facts(i, tasks[i] # {})
           t == Transition(i, "lease_expired")
<1>1. status[i] = "running"
  BY DEF ExpireLease
<1>2. f \in FactRows /\ f.status = "running" /\ f.cancel = cancel[i]
  BY <1>1, FactsType DEF Facts, Exists, TypeOK
<1>3. /\ t.status \in {"queued", "failed", "cancelled"}
      /\ cancel[i] => t.status = "cancelled" /\ ~t.enqueue
  BY <1>2, ExpiryReleases, CancelOutranks DEF Transition
<1>4. /\ SetStatus(i, r, t.status, t.release)
      /\ takeovers' = [takeovers EXCEPT ![i] = @ + t.takeover]
      /\ problem' = [problem EXCEPT ![i] = @ \/ t.status \in {"failed", "cancelled"}]
      /\ tasks' = [tasks EXCEPT ![i] = IF t.status = "cancelled" THEN {} ELSE @]
      /\ IF t.enqueue THEN Enqueued(i, r, TRUE) ELSE UNCHANGED outbox
      /\ UNCHANGED <<current, attempts, cancel, token, version, bodies, results>>
  BY DEF ExpireLease, Reclaim
<1> HIDE DEF t
<1>5. /\ status'[i] = t.status
      /\ \A j \in Jobs \ {i} :
            /\ status'[j] = status[j]
            /\ \A q \in Runs : /\ holder'[<<j, q>>] = holder[<<j, q>>]
                               /\ lease'[<<j, q>>] = lease[<<j, q>>]
                               /\ runStatus'[<<j, q>>] = runStatus[<<j, q>>]
  BY <1>4, SetStatusElsewhere
<1>6. \A j \in Jobs \ {i} : outbox'[j] = outbox[j]
  BY <1>4, EnqueuedElsewhere
<1>7. /\ problem'[i] = (problem[i] \/ t.status \in {"failed", "cancelled"})
      /\ tasks'[i] = IF t.status = "cancelled" THEN {} ELSE tasks[i]
      /\ \A j \in Jobs \ {i} : problem'[j] = problem[j] /\ tasks'[j] = tasks[j]
                               /\ takeovers'[j] = takeovers[j]
  BY <1>4 DEF TypeOK, JobTypes
<1>8. \A j \in Jobs \ {i} : Undisturbed(j)
  BY <1>4, <1>5, <1>6, <1>7, OthersUndisturbed
<1>9. ~problem[i] /\ tasks[i] = {} /\ status[i] \notin Terminal
  BY <1>1 DEF RowsHonest, RowHonest, Terminal
<1>10. cancel[i] => Stopped(i)
  BY <1>3, <1>4, <1>5 DEF Stopped
<1> QED
  BY <1>3, <1>4, <1>5, <1>7, <1>8, <1>9, <1>10 DEF Ordinary, Stopped, Terminal

LEMMA ReconcilerStands ==
    ASSUME TypeOK, LeaseIffRunning, RowsHonest, NEW i \in Jobs, ReconcilerNext(i)
    PROVE  RowsHonest' /\ \A j \in Jobs : DecisionStands(j)
<1>1. CASE RecoverRetryable(i)
  BY <1>1, RetryOrdinary, OrdinaryKeepsRows DEF RecoverRetryable
<1>2. CASE \E r \in Runs : ExpireLease(i, r)
  BY <1>2, ExpireOrdinary, OrdinaryKeepsRows
<1> QED
  BY <1>1, <1>2 DEF ReconcilerNext

-----------------------------------------------------------------------------
(***************************************************************************)
(* Workers and time                                                        *)
(***************************************************************************)

\* The job and run of an attempt under way are of the tables.
LEMMA AttemptType ==
    ASSUME TypeOK, NEW w \in Workers
    PROVE  /\ JobOf(w) \in Jobs /\ wk[w].run \in Runs /\ RunOf(w) = <<JobOf(w), wk[w].run>>
           /\ wk[w].token \in Nat /\ wk[w].expected \in Nat /\ wk[w].seen \in Nat
BY DEF TypeOK, ProcessTypes, WorkerRows, JobOf, RunOf, Messages

LEMMA ClaimOrdinary ==
    ASSUME TypeOK, LeaseIffRunning, RowsHonest, NEW w \in Workers, NEW m \in queue, Claim(w, m)
    PROVE  RowsHonest' /\ \A j \in Jobs : DecisionStands(j)
<1>1. PICK i \in Jobs, r \in Runs :
              /\ i = m[1] /\ r = Round(m).run
              /\ UNCHANGED <<current, tasks, outbox>>
              /\ \/ /\ status[i] \in Claimable
                    /\ status' = [status EXCEPT ![i] = "running"]
                    /\ token' = [token EXCEPT ![<<i, r>>] = token[<<i, r>>] + 1]
                    /\ holder' = [holder EXCEPT ![<<i, r>>] = token[<<i, r>>] + 1]
                    /\ lease' = [lease EXCEPT ![<<i, r>>] = "valid"]
                 \/ /\ ~(Exists(i) /\ status[i] \in Claimable /\ current[i] = r
                         /\ lease[<<i, r>>] # "valid")
                    /\ UNCHANGED <<status, token, holder, lease>>
  <2>1. PICK i \in Jobs, r \in Runs :
              /\ i = m[1] /\ r = Round(m).run
              /\ UNCHANGED <<current, tasks, outbox, queue, out>>
              /\ \/ /\ status[i] \in Claimable /\ current[i] = r
                    /\ lease[<<i, r>>] # "valid"
                    /\ status' = [status EXCEPT ![i] = "running"]
                    /\ token' = [token EXCEPT ![<<i, r>>] = token[<<i, r>>] + 1]
                    /\ holder' = [holder EXCEPT ![<<i, r>>] = token[<<i, r>>] + 1]
                    /\ lease' = [lease EXCEPT ![<<i, r>>] = "valid"]
                 \/ /\ ~(Exists(i) /\ status[i] \in Claimable /\ current[i] = r
                         /\ lease[<<i, r>>] # "valid")
                    /\ UNCHANGED <<status, token, holder, lease>>
    BY ClaimEffect, ZenonT(60)
  <2> QED
    BY <2>1
<1>2. UNCHANGED <<attempts, takeovers, cancel, problem, version, bodies, results>>
  BY DEF Claim
<1>3. /\ ~Grantable(i, r) => UNCHANGED <<status, runStatus, token>>
      /\ Grantable(i, r) => runStatus' = [runStatus EXCEPT ![<<i, r>>] = "running"]
                            /\ status' = [status EXCEPT ![i] = "running"]
                            /\ token' = [token EXCEPT ![<<i, r>>] = token[<<i, r>>] + 1]
                            /\ holder' = [holder EXCEPT ![<<i, r>>] = token[<<i, r>>] + 1]
                            /\ lease' = [lease EXCEPT ![<<i, r>>] = "valid"]
      /\ ~Grantable(i, r) => UNCHANGED <<holder, lease>>
  BY <1>1 DEF Claim
<1>4. Grantable(i, r) => status[i] \in Claimable
  <2> SUFFICES ASSUME Grantable(i, r) PROVE status[i] \in Claimable
    OBVIOUS
  <2>1. Facts(i, tasks[i] # {}) \in FactRows /\ Facts(i, tasks[i] # {}).status = status[i]
    BY FactsType DEF Facts, Grantable, TypeOK
  <2> QED
    BY <2>1, UnleasedEvents DEF Transition, Grantable
<1>5. CASE ~Grantable(i, r)
  <2>1. UNCHANGED <<jobVars, runVars>>
    BY <1>1, <1>2, <1>3, <1>5 DEF jobVars, runVars
  <2> QED
    BY <1>1, <1>2, <2>1, RowsQuiet, QuietKeepsRows
<1>6. CASE Grantable(i, r)
  <2>1. status[i] \in Claimable
    BY <1>4, <1>6
  <2>2. /\ status'[i] = "running"
        /\ \A j \in Jobs \ {i} :
              /\ status'[j] = status[j]
              /\ \A q \in Runs : /\ token'[<<j, q>>] = token[<<j, q>>]
                                 /\ holder'[<<j, q>>] = holder[<<j, q>>]
                                 /\ lease'[<<j, q>>] = lease[<<j, q>>]
                                 /\ runStatus'[<<j, q>>] = runStatus[<<j, q>>]
    BY <1>3, <1>6 DEF TypeOK, JobTypes, RunTypes
  <2>3. \A j \in Jobs \ {i} : Undisturbed(j)
    BY <1>1, <1>2, <2>2, OthersUndisturbed
  <2>4. ~problem[i] /\ tasks[i] = {} /\ ~cancel[i] /\ status[i] \notin Terminal
    BY <2>1, InLineClear
  <2>5. Ordinary(i)
    BY <1>1, <1>2, <2>2, <2>3, <2>4 DEF Ordinary
  <2> QED
    BY <2>5, OrdinaryKeepsRows
<1> QED
  BY <1>5, <1>6

\* finish() writes to the attempt's own job, which was running under its lease.
LEMMA FinishWrites ==
    ASSUME TypeOK, RowsHonest, NEW w \in Workers, NEW e \in FinishEvents,
           NEW open \in SUBSET Tasks, Finish(w, e, open)
    PROVE  LET i == JobOf(w)
               t == NextState(Facts(i, open # {}), e)
           IN  /\ status[i] = "running" /\ current[i] = wk[w].run
               /\ ~problem[i] /\ tasks[i] = {}
               /\ status'[i] = t.status
               /\ t.status \in {"waiting_for_human", "succeeded", "failed", "cancelled",
                                "retryable_failed"}
               /\ t.status = "waiting_for_human" => open # {}
               /\ t.status = "succeeded" <=> e = "publish_result"
               /\ cancel[i] /\ e # "publish_result" => t.status \in {"cancelled", "failed"}
               /\ problem'[i] = (t.status \in {"failed", "cancelled"})
               /\ tasks'[i] = IF t.status = "cancelled" THEN {} ELSE open
               /\ UNCHANGED <<current, cancel, token>>
               /\ e # "publish_result" => UNCHANGED version
               /\ e = "publish_result" => version' = [version EXCEPT ![RunOf(w)] = @ + 1]
               /\ \A j \in Jobs \ {i} :
                    /\ status'[j] = status[j] /\ attempts'[j] = attempts[j]
                    /\ takeovers'[j] = takeovers[j] /\ tasks'[j] = tasks[j]
                    /\ problem'[j] = problem[j]
                    /\ \A q \in Runs : /\ holder'[<<j, q>>] = holder[<<j, q>>]
                                       /\ lease'[<<j, q>>] = lease[<<j, q>>]
                                       /\ version'[<<j, q>>] = version[<<j, q>>]
                                       /\ runStatus'[<<j, q>>] = runStatus[<<j, q>>]
<1> DEFINE i == JobOf(w)
           f == Facts(i, open # {})
           t == NextState(f, e)
<1>1. i \in Jobs /\ wk[w].run \in Runs /\ RunOf(w) = <<i, wk[w].run>>
  BY AttemptType
<1>2. status[i] = "running" /\ current[i] = wk[w].run /\ t # Conflict
  BY DEF Finish, Owns
<1>3. /\ f \in FactRows /\ f.status = "running" /\ f.cancel = cancel[i]
      /\ f.open = (open # {})
  BY <1>1, <1>2, FactsType DEF Facts, Exists, TypeOK
<1>4. /\ t.status \in {"waiting_for_human", "succeeded", "failed", "cancelled",
                       "retryable_failed"}
      /\ t.status = "waiting_for_human" => open # {}
      /\ t.status = "succeeded" <=> e = "publish_result"
  BY <1>2, <1>3, FinishReleases
<1>5. cancel[i] /\ e # "publish_result" => t.status \in {"cancelled", "failed"}
  BY <1>3, CancelOutranks
<1>6. /\ SetStatus(i, wk[w].run, t.status, t.release)
      /\ attempts' = [attempts EXCEPT ![i] = @ + t.attempt]
      /\ problem' = [problem EXCEPT ![i] = t.status \in {"failed", "cancelled"}]
      /\ tasks' = [tasks EXCEPT ![i] = IF t.status = "cancelled" THEN {} ELSE open]
      /\ version' = IF e = "publish_result"
                    THEN [version EXCEPT ![RunOf(w)] = @ + 1] ELSE version
      /\ UNCHANGED <<current, takeovers, cancel, token>>
  BY DEF Finish
<1> HIDE DEF t, i
<1>7. /\ status'[i] = t.status
      /\ \A j \in Jobs \ {i} :
            /\ status'[j] = status[j]
            /\ \A q \in Runs : /\ holder'[<<j, q>>] = holder[<<j, q>>]
                               /\ lease'[<<j, q>>] = lease[<<j, q>>]
                               /\ runStatus'[<<j, q>>] = runStatus[<<j, q>>]
  BY <1>1, <1>6, SetStatusElsewhere
<1>8. /\ problem'[i] = (t.status \in {"failed", "cancelled"})
      /\ tasks'[i] = IF t.status = "cancelled" THEN {} ELSE open
      /\ \A j \in Jobs \ {i} : /\ attempts'[j] = attempts[j] /\ takeovers'[j] = takeovers[j]
                               /\ tasks'[j] = tasks[j] /\ problem'[j] = problem[j]
  BY <1>1, <1>6 DEF TypeOK, JobTypes
<1>9. \A j \in Jobs \ {i} : \A q \in Runs : version'[<<j, q>>] = version[<<j, q>>]
  BY <1>1, <1>6 DEF TypeOK, RunTypes
<1>10. ~problem[i] /\ tasks[i] = {}
  BY <1>1, <1>2 DEF RowsHonest, RowHonest
<1> QED
  BY <1>2, <1>4, <1>5, <1>6, <1>7, <1>8, <1>9, <1>10 DEF t, i

\* Every end of an attempt but publication.
LEMMA FinishOrdinary ==
    ASSUME TypeOK, RowsHonest, NEW w \in Workers, NEW e \in FinishEvents \ {"publish_result"},
           NEW open \in SUBSET Tasks, Finish(w, e, open), open # {} => e = "needs_human",
           UNCHANGED <<outbox, bodies, results>>
    PROVE  RowsHonest' /\ \A j \in Jobs : DecisionStands(j)
<1> DEFINE i == JobOf(w)
           f == Facts(i, open # {})
           t == NextState(f, e)
<1>1. i \in Jobs
  BY AttemptType
<1>2. /\ status[i] = "running"
      /\ status'[i] = t.status
      /\ t.status \in {"waiting_for_human", "failed", "cancelled", "retryable_failed"}
      /\ t.status = "waiting_for_human" => open # {}
      /\ cancel[i] => t.status \in {"cancelled", "failed"}
      /\ problem'[i] = (t.status \in {"failed", "cancelled"})
      /\ tasks'[i] = IF t.status = "cancelled" THEN {} ELSE open
      /\ UNCHANGED <<current, cancel, token, version>>
      /\ \A j \in Jobs \ {i} :
            /\ status'[j] = status[j] /\ attempts'[j] = attempts[j]
            /\ takeovers'[j] = takeovers[j] /\ tasks'[j] = tasks[j]
            /\ problem'[j] = problem[j]
            /\ \A q \in Runs : /\ holder'[<<j, q>>] = holder[<<j, q>>]
                               /\ lease'[<<j, q>>] = lease[<<j, q>>]
                               /\ runStatus'[<<j, q>>] = runStatus[<<j, q>>]
  BY FinishWrites
<1>3. open # {} => t.status \in {"waiting_for_human", "cancelled"}
  <2> SUFFICES ASSUME open # {}, e = "needs_human"
               PROVE  t.status \in {"waiting_for_human", "cancelled"}
    OBVIOUS
  <2>1. t = NeedsHuman(f)
    BY <1>2 DEF NextState, Decide, LeaseBound, Facts, Terminal
  <2>2. f.open
    BY DEF Facts
  <2>3. Release("cancelled").status = "cancelled"
        /\ Release("waiting_for_human").status = "waiting_for_human"
    BY DEF Release, Move
  <2>4. t = Release("cancelled") \/ t = Release("waiting_for_human")
    BY <2>1, <2>2 DEF NeedsHuman, CancelPreempted
  <2> QED
    BY <2>3, <2>4
<1> HIDE DEF t
<1>4. \A j \in Jobs \ {i} : Undisturbed(j)
  BY <1>1, <1>2, OthersUndisturbed
<1>5. status[i] \notin Terminal
  BY <1>2 DEF Terminal
<1>6. cancel[i] => Stopped(i)
  BY <1>1, <1>2 DEF Stopped
<1>7. Ordinary(i)
  BY <1>2, <1>3, <1>4, <1>5, <1>6 DEF Ordinary, Terminal
<1> QED
  BY <1>1, <1>7, OrdinaryKeepsRows

\* Publication makes the job's one reference, of the body that its attempt staged.
LEMMA PublishStands ==
    ASSUME TypeOK, RowsHonest, AttemptsKnown, NEW w \in Workers, Publish(w)
    PROVE  RowsHonest' /\ \A j \in Jobs : DecisionStands(j)
<1>1. PICK i \in Jobs, r \in Runs, ref \in References :
        /\ i = JobOf(w) /\ r = wk[w].run /\ wk[w].expected \in Nat /\ RunOf(w) = <<i, r>>
        /\ ref = [job |-> i, run |-> r, version |-> wk[w].expected + 1,
                  token |-> wk[w].token, digest |-> wk[w].seen]
  <2>1. /\ JobOf(w) \in Jobs /\ wk[w].run \in Runs /\ RunOf(w) = <<JobOf(w), wk[w].run>>
        /\ wk[w].token \in Nat /\ wk[w].expected \in Nat /\ wk[w].seen \in Nat
    BY AttemptType
  <2>2. wk[w].expected + 1 \in Nat
    BY <2>1
  <2>3. [job |-> JobOf(w), run |-> wk[w].run, version |-> wk[w].expected + 1,
         token |-> wk[w].token, digest |-> wk[w].seen] \in References
    BY <2>1, <2>2 DEF References
  <2> QED
    BY <2>1, <2>3, Zenon
<1>2. /\ wk[w].pc = "staged" /\ ~cancel[i] /\ Finish(w, "publish_result", {})
      /\ results' = results \cup {ref} /\ UNCHANGED <<outbox, bodies>>
  BY <1>1 DEF Publish
<1>3. version[<<i, r>>] = wk[w].expected /\ token[<<i, r>>] = wk[w].token
  BY <1>1, <1>2 DEF Finish, Owns
<1>4. /\ status[i] = "running" /\ current[i] = r
      /\ status'[i] = "succeeded"
      /\ ~problem'[i]
      /\ tasks'[i] = {}
      /\ UNCHANGED <<current, cancel, token>>
      /\ version' = [version EXCEPT ![<<i, r>>] = version[<<i, r>>] + 1]
      /\ \A j \in Jobs \ {i} :
            /\ status'[j] = status[j] /\ attempts'[j] = attempts[j]
            /\ takeovers'[j] = takeovers[j] /\ tasks'[j] = tasks[j]
            /\ problem'[j] = problem[j]
            /\ \A q \in Runs : /\ holder'[<<j, q>>] = holder[<<j, q>>]
                               /\ lease'[<<j, q>>] = lease[<<j, q>>]
                               /\ version'[<<j, q>>] = version[<<j, q>>]
                               /\ runStatus'[<<j, q>>] = runStatus[<<j, q>>]
  <2>1. "publish_result" \in FinishEvents
    BY DEF FinishEvents
  <2> DEFINE t == NextState(Facts(i, {} # {}), "publish_result")
  <2>2. t.status = "succeeded"
    BY <1>1, <1>2, <2>1, FinishWrites
  <2>3. version' = [version EXCEPT ![<<i, r>>] = version[<<i, r>>] + 1]
    BY <1>1, <1>2, <2>1, FinishWrites
  <2> HIDE DEF t
  <2>4. status'[i] = t.status /\ problem'[i] = (t.status \in {"failed", "cancelled"})
        /\ tasks'[i] = IF t.status = "cancelled" THEN {} ELSE {}
    BY <1>1, <1>2, <2>1, FinishWrites DEF t
  <2>5. ~problem'[i]
    BY <2>2, <2>4
  <2>6. status[i] = "running" /\ current[i] = r
    BY <1>1, <1>2 DEF Finish, Owns
  <2>7. /\ UNCHANGED <<current, cancel, token>>
        /\ \A j \in Jobs \ {i} :
            /\ status'[j] = status[j] /\ attempts'[j] = attempts[j]
            /\ takeovers'[j] = takeovers[j] /\ tasks'[j] = tasks[j]
            /\ problem'[j] = problem[j]
            /\ \A q \in Runs : /\ holder'[<<j, q>>] = holder[<<j, q>>]
                               /\ lease'[<<j, q>>] = lease[<<j, q>>]
                               /\ version'[<<j, q>>] = version[<<j, q>>]
                               /\ runStatus'[<<j, q>>] = runStatus[<<j, q>>]
    BY <1>1, <1>2, <2>1, FinishWrites
  <2> QED
    BY <2>2, <2>3, <2>4, <2>5, <2>6, <2>7
<1>5. BodyOf(w) \in bodies
  BY <1>2 DEF AttemptsKnown, AttemptKnown
<1>6. ResultsOf(i) = {}
  BY <1>1, <1>4 DEF RowsHonest, RowHonest
<1>7. ref.job = i
  BY <1>1
<1>8. ResultsOf(i)' = {ref}
  BY <1>2, <1>6, <1>7 DEF ResultsOf
<1>9. \A j \in Jobs \ {i} : ResultsOf(j)' = ResultsOf(j)
  BY <1>2, <1>7 DEF ResultsOf
<1>10. version'[<<i, r>>] = wk[w].expected + 1
  BY <1>1, <1>3, <1>4 DEF TypeOK, RunTypes
<1>11. ReferenceHolds(ref)'
  BY <1>1, <1>2, <1>3, <1>4, <1>5, <1>10 DEF ReferenceHolds, BodyOf
<1>12. RowHonest(i)'
  BY <1>2, <1>4, <1>8, <1>11 DEF RowHonest
<1>13. ASSUME NEW j \in Jobs \ {i} PROVE RowHonest(j)' /\ DecisionStands(j)
  <2>1. Undisturbed(j)
    BY <1>2, <1>4, <1>9 DEF Undisturbed, JobRow, RunRow
  <2> QED
    BY <1>2, <1>13, <2>1, UndisturbedStays DEF RowsHonest
<1>14. DecisionStands(i)
  BY <1>2, <1>4 DEF DecisionStands, Terminal
<1> QED
  BY <1>12, <1>13, <1>14 DEF RowsHonest

\* Renewing or losing a lease concerns a running job and leaves its row alone.
LEMMA LeaseWritten ==
    ASSUME TypeOK, LeaseIffRunning, RowsHonest, NEW i \in Jobs, NEW r \in Runs, NEW x,
           status[i] = "running", lease' = [lease EXCEPT ![<<i, r>>] = x],
           UNCHANGED <<jobVars, token, holder, version, runStatus, outbox, bodies, results>>
    PROVE  RowsHonest' /\ \A j \in Jobs : DecisionStands(j)
<1>1. \A j \in Jobs \ {i} : \A q \in Runs : lease'[<<j, q>>] = lease[<<j, q>>]
  BY DEF TypeOK, RunTypes
<1>2. UNCHANGED <<status, current, attempts, takeovers, cancel, tasks, problem>>
  BY DEF jobVars
<1>3. \A j \in Jobs \ {i} : Undisturbed(j)
  BY <1>1, <1>2, OthersUndisturbed
<1>4. status[i] \notin Terminal /\ status[i] # "succeeded"
  BY DEF Terminal
<1>5. Ordinary(i)
  BY <1>2, <1>3, <1>4 DEF Ordinary, Stopped, RowsHonest, RowHonest
<1> QED
  BY <1>5, OrdinaryKeepsRows

LEMMA WorkerStands ==
    ASSUME TypeOK, LeaseIffRunning, RowsHonest, AttemptsKnown, NEW w \in Workers,
           WorkerStep(w) \/ WorkerCrash(w)
    PROVE  RowsHonest' /\ \A j \in Jobs : DecisionStands(j)
<1>1. JobOf(w) \in Jobs /\ wk[w].run \in Runs /\ RunOf(w) = <<JobOf(w), wk[w].run>>
  BY AttemptType
<1>2. CASE Heartbeat(w)
  <2>1. status[JobOf(w)] = "running" /\ lease' = [lease EXCEPT ![<<JobOf(w), wk[w].run>>] = "valid"]
    BY <1>1, <1>2 DEF Heartbeat, Owns
  <2>2. UNCHANGED <<jobVars, token, holder, version, runStatus, outbox, bodies, results>>
    BY <1>2 DEF Heartbeat
  <2> QED
    BY <1>1, <2>1, <2>2, LeaseWritten
<1>3. CASE Publish(w)
  BY <1>3, PublishStands
<1>4. ASSUME NEW open \in SUBSET Tasks, WaitForHuman(w, open)
      PROVE  RowsHonest' /\ \A j \in Jobs : DecisionStands(j)
  <2>1. "needs_human" \in FinishEvents \ {"publish_result"}
    BY DEF FinishEvents
  <2> QED
    BY <1>4, <2>1, FinishOrdinary DEF WaitForHuman
<1>5. ASSUME NEW e \in FinishEvents \ {"publish_result"}, Finish(w, e, {}),
             UNCHANGED <<outbox, bodies, results>>
      PROVE  RowsHonest' /\ \A j \in Jobs : DecisionStands(j)
  BY <1>5, FinishOrdinary
<1>6. {"retryable_error", "permanent_error", "cancel_acknowledged"}
        \subseteq FinishEvents \ {"publish_result"}
  BY DEF FinishEvents
<1>7. CASE FailRetryable(w)
  BY <1>5, <1>6, <1>7 DEF FailRetryable
<1>8. CASE FailPermanent(w)
  BY <1>5, <1>6, <1>8 DEF FailPermanent
<1>9. CASE AcknowledgeCancel(w)
  BY <1>5, <1>6, <1>9 DEF AcknowledgeCancel
<1>10. CASE Reschedule(w)
  <2>1. UNCHANGED <<bodies, results>>
    BY <1>10 DEF Reschedule
  <2>2. CASE ScheduleRetry(JobOf(w))
    BY <1>1, <2>1, <2>2, RetryOrdinary, OrdinaryKeepsRows
  <2>3. CASE UNCHANGED <<jobVars, runVars, outbox>>
    BY <2>1, <2>3, RowsQuiet, QuietKeepsRows
  <2> QED
    BY <1>10, <2>2, <2>3 DEF Reschedule
<1>11. CASE Put(w)
  <2>1. UNCHANGED <<jobVars, runVars, outbox, results>> /\ bodies \subseteq bodies'
    BY <1>11 DEF Put
  <2> QED
    BY <2>1, RowsQuiet, QuietKeepsRows
<1>12. CASE ReadJob(w) \/ Superseded(w) \/ Acknowledge(w) \/ WorkerCrash(w)
  <2>1. UNCHANGED <<jobVars, runVars, outbox, bodies, results>>
    BY <1>12 DEF ReadJob, Superseded, Acknowledge, WorkerCrash, store
  <2> QED
    BY <2>1, RowsQuiet, QuietKeepsRows
<1> QED
  BY <1>2, <1>3, <1>4, <1>7, <1>8, <1>9, <1>10, <1>11, <1>12 DEF WorkerStep

LEMMA TimeStands ==
    ASSUME TypeOK, LeaseIffRunning, RowsHonest, NEW i \in Jobs, TimeNext(i)
    PROVE  RowsHonest' /\ \A j \in Jobs : DecisionStands(j)
<1>1. ASSUME NEW r \in Runs, LeaseLapses(i, r)
      PROVE  RowsHonest' /\ \A j \in Jobs : DecisionStands(j)
  <2>1. status[i] = "running"
    BY <1>1 DEF LeaseLapses, LeaseIffRunning
  <2>2. /\ lease' = [lease EXCEPT ![<<i, r>>] = "lapsed"]
        /\ UNCHANGED <<jobVars, token, holder, version, runStatus, outbox, bodies, results>>
    BY <1>1 DEF LeaseLapses
  <2> QED
    BY <2>1, <2>2, LeaseWritten
<1>2. ASSUME NEW n \in DOMAIN outbox[i], DelayElapses(i, n)
      PROVE  RowsHonest' /\ \A j \in Jobs : DecisionStands(j)
  <2>1. <<i, n>> \in Issued
    BY DEF Issued
  <2>2. /\ outbox' = [outbox EXCEPT ![i][n].due = TRUE]
        /\ UNCHANGED <<jobVars, runVars, bodies, results>>
    BY <1>2 DEF DelayElapses
  <2>3. outbox' = [outbox EXCEPT ![<<i, n>>[1]][<<i, n>>[2]].due = TRUE]
    BY <2>2
  <2>4. \A j \in Jobs : Len(outbox'[j]) = Len(outbox[j])
    BY <2>1, <2>3, RoundWritten
  <2> QED
    BY <2>2, <2>4, RowsQuiet, QuietKeepsRows
<1> QED
  BY <1>1, <1>2 DEF TimeNext

\* Every step keeps the rows honest and the decisions made.
LEMMA StepStands ==
    ASSUME TypeOK, LeaseIffRunning, RowsHonest, AttemptsKnown, [Next]_vars
    PROVE  RowsHonest' /\ \A j \in Jobs : DecisionStands(j)
<1>1. CASE Next
  BY <1>1, CallerStands, ReconcilerStands, TimeStands, DispatcherStands, ClaimOrdinary,
     WorkerStands DEF Next
<1>2. CASE UNCHANGED vars
  <2>1. UNCHANGED <<jobVars, runVars, outbox, bodies, results>>
    BY <1>2 DEF vars, store
  <2> QED
    BY <2>1, RowsQuiet, QuietKeepsRows
<1> QED
  BY <1>1, <1>2

-----------------------------------------------------------------------------
(***************************************************************************)
(* What an attempt knows of its lease                                      *)
(***************************************************************************)

\* Tokens only grow, and a run is taken over under a fresh one.
Moved(x) ==
    /\ token[x] <= token'[x]
    /\ \/ holder'[x] = holder[x]
       \/ holder'[x] = None
       \/ token[x] < token'[x] /\ holder'[x] = token'[x]

TokensMove == \A x \in Jobs \X Runs : Moved(x)

LEMMA LeaseOnlyEnds ==
    ASSUME TypeOK, NEW i \in Jobs, NEW r \in Runs, NEW s, NEW release,
           SetStatus(i, r, s, release), UNCHANGED token
    PROVE  TokensMove
<1> SUFFICES ASSUME NEW x \in Jobs \X Runs PROVE Moved(x)
  BY DEF TokensMove
<1>1. holder' = [holder EXCEPT ![<<i, r>>] = IF release THEN None ELSE @]
  BY DEF SetStatus
<1>2. holder'[x] = holder[x] \/ holder'[x] = None
  BY <1>1 DEF TypeOK, RunTypes
<1>3. token[x] \in Nat
  BY DEF TypeOK, RunTypes
<1> QED
  BY <1>2, <1>3 DEF Moved

LEMMA TokensStay ==
    ASSUME TypeOK, UNCHANGED <<token, holder>>
    PROVE  TokensMove
<1>1. \A x \in Jobs \X Runs : token[x] \in Nat
  BY DEF TypeOK, RunTypes
<1> QED
  BY <1>1 DEF TokensMove, Moved

LEMMA ClaimMoves ==
    ASSUME TypeOK, NEW w \in Workers, NEW m \in queue, Claim(w, m)
    PROVE  TokensMove
<1>1. PICK i \in Jobs, r \in Runs :
        \/ /\ token' = [token EXCEPT ![<<i, r>>] = token[<<i, r>>] + 1]
           /\ holder' = [holder EXCEPT ![<<i, r>>] = token[<<i, r>>] + 1]
        \/ UNCHANGED <<token, holder>>
  BY ClaimEffect, ZenonT(60)
<1>2. CASE UNCHANGED <<token, holder>>
  BY <1>2, TokensStay
<1>3. CASE /\ token' = [token EXCEPT ![<<i, r>>] = token[<<i, r>>] + 1]
           /\ holder' = [holder EXCEPT ![<<i, r>>] = token[<<i, r>>] + 1]
  <2> SUFFICES ASSUME NEW x \in Jobs \X Runs PROVE Moved(x)
    BY DEF TokensMove
  <2>1. token[x] \in Nat /\ token[<<i, r>>] \in Nat
    BY DEF TypeOK, RunTypes
  <2>2. CASE x = <<i, r>>
    BY <1>3, <2>1, <2>2 DEF Moved, TypeOK, RunTypes
  <2>3. CASE x # <<i, r>>
    BY <1>3, <2>1, <2>3 DEF Moved, TypeOK, RunTypes
  <2> QED
    BY <2>2, <2>3
<1> QED
  BY <1>1, <1>2, <1>3

\* An attempt whose row is left alone knows what it knew.
LEMMA AttemptStays ==
    ASSUME TypeOK, NEW w \in Workers, AttemptKnown(w), TokensMove, bodies \subseteq bodies',
           wk'[w] = wk[w], TypeOK'
    PROVE  AttemptKnown(w)'
<1>1. RunOf(w) \in Jobs \X Runs /\ wk[w].token \in Nat /\ RunOf(w)' = RunOf(w)
      /\ JobOf(w)' = JobOf(w)
  BY AttemptType DEF RunOf, JobOf
<1>2. PICK x \in Jobs \X Runs : x = RunOf(w)
  BY <1>1
<1>3. Moved(x) /\ token[x] \in Nat /\ token'[x] \in Nat
  BY DEF TokensMove, TypeOK, RunTypes
<1>4. wk[w].pc \in UnderWay => 1 <= wk[w].token /\ wk[w].token <= token'[x]
  BY <1>1, <1>2, <1>3 DEF AttemptKnown, Moved
<1>5. ASSUME wk[w].pc = "executing", wk[w].seen # wk[w].token,
             token'[x] = wk[w].token, holder'[x] = wk[w].token
      PROVE  FALSE
  <2>1. 1 <= wk[w].token /\ wk[w].token <= token[x]
    BY <1>2, <1>5 DEF AttemptKnown, UnderWay
  <2>2. token[x] = wk[w].token /\ holder[x] = wk[w].token
    BY <1>1, <1>3, <1>5, <2>1 DEF Moved, None
  <2> QED
    BY <1>2, <1>5, <2>2 DEF AttemptKnown, Holds
<1>6. wk[w].pc = "executing" => wk[w].seen = wk[w].token \/ ~Holds(w)'
  BY <1>1, <1>2, <1>5 DEF Holds
<1>7. wk[w].pc = "staged" => BodyOf(w)' \in bodies'
  BY <1>1 DEF AttemptKnown, BodyOf
<1> QED
  BY <1>1, <1>2, <1>4, <1>6, <1>7 DEF AttemptKnown

\* A step that stages no body and leaves the attempts alone.
LEMMA BystanderKnows ==
    ASSUME TypeOK, TypeOK', AttemptsKnown, TokensMove, UNCHANGED <<bodies, wk>>
    PROVE  AttemptsKnown'
<1>1. ASSUME NEW w \in Workers PROVE AttemptKnown(w)'
  BY <1>1, AttemptStays DEF AttemptsKnown
<1>2. StagedByItsAttempt'
  BY DEF AttemptsKnown, StagedByItsAttempt
<1> QED
  BY <1>1, <1>2 DEF AttemptsKnown

\* An attempt that ends, or starts over with nothing to know.
LEMMA AttemptEnds ==
    ASSUME TypeOK, TypeOK', AttemptsKnown, TokensMove, NEW w \in Workers, UNCHANGED bodies,
           NEW x, wk' = [wk EXCEPT ![w] = x], x.pc \notin UnderWay
    PROVE  AttemptsKnown'
<1>1. wk'[w] = x /\ \A v \in Workers \ {w} : wk'[v] = wk[v]
  BY DEF TypeOK, ProcessTypes
<1>2. AttemptKnown(w)'
  BY <1>1 DEF AttemptKnown, UnderWay
<1>3. ASSUME NEW v \in Workers \ {w} PROVE AttemptKnown(v)'
  BY <1>1, <1>3, AttemptStays DEF AttemptsKnown
<1>4. StagedByItsAttempt'
  BY DEF AttemptsKnown, StagedByItsAttempt
<1> QED
  BY <1>2, <1>3, <1>4 DEF AttemptsKnown

\* It is enough to look at the attempt that moved.
LEMMA OneAttemptMoves ==
    ASSUME TypeOK, TypeOK', AttemptsKnown, TokensMove, NEW w \in Workers,
           bodies \subseteq bodies', StagedByItsAttempt',
           \A v \in Workers \ {w} : wk'[v] = wk[v], AttemptKnown(w)'
    PROVE  AttemptsKnown'
<1>1. ASSUME NEW v \in Workers \ {w} PROVE AttemptKnown(v)'
  BY <1>1, AttemptStays DEF AttemptsKnown
<1> QED
  BY <1>1 DEF AttemptsKnown

LEMMA GotoMoves ==
    ASSUME TypeOK, NEW w \in Workers, NEW pc, Goto(w, pc)
    PROVE  /\ wk'[w] = [wk[w] EXCEPT !.pc = pc]
           /\ wk' = [wk EXCEPT ![w] = [wk[w] EXCEPT !.pc = pc]]
           /\ \A v \in Workers \ {w} : wk'[v] = wk[v]
           /\ wk'[w].pc = pc /\ wk'[w].seen = wk[w].seen /\ wk'[w].token = wk[w].token
           /\ wk'[w].run = wk[w].run /\ wk'[w].expected = wk[w].expected
           /\ JobOf(w)' = JobOf(w) /\ RunOf(w)' = RunOf(w)
<1>1. wk' = [wk EXCEPT ![w].pc = pc]
  BY DEF Goto
<1>2. /\ wk'[w] = [wk[w] EXCEPT !.pc = pc]
      /\ wk' = [wk EXCEPT ![w] = [wk[w] EXCEPT !.pc = pc]]
      /\ \A v \in Workers \ {w} : wk'[v] = wk[v]
  BY <1>1 DEF TypeOK, ProcessTypes
<1>3. wk[w] \in WorkerRows
  BY DEF TypeOK, ProcessTypes
<1>4. /\ wk'[w].pc = pc /\ wk'[w].seen = wk[w].seen /\ wk'[w].token = wk[w].token
      /\ wk'[w].run = wk[w].run /\ wk'[w].expected = wk[w].expected /\ wk'[w].msg = wk[w].msg
  BY <1>2, <1>3 DEF WorkerRows
<1> QED
  BY <1>2, <1>4 DEF JobOf, RunOf

\* However an attempt finishes, it is over.
LEMMA FinishKnows ==
    ASSUME TypeOK, TypeOK', AttemptsKnown, NEW w \in Workers, NEW e \in FinishEvents,
           NEW open \in SUBSET Tasks, Finish(w, e, open), UNCHANGED bodies,
           Return(w) \/ Goto(w, "retrying")
    PROVE  AttemptsKnown'
<1>1. TokensMove
  <2>1. PICK i \in Jobs, r \in Runs : \E s : SetStatus(i, r, s, TRUE) /\ UNCHANGED token
    BY FinishEffect, ZenonT(60)
  <2> QED
    BY <2>1, LeaseOnlyEnds
<1>2. \E x : wk' = [wk EXCEPT ![w] = x] /\ x.pc \notin UnderWay
  <2>1. CASE Return(w)
    <3>1. Returned(wk[w].msg).pc \notin UnderWay
      BY DEF Returned, UnderWay
    <3> QED
      BY <2>1, <3>1 DEF Return
  <2>2. CASE Goto(w, "retrying")
    <3>1. /\ wk' = [wk EXCEPT ![w] = [wk[w] EXCEPT !.pc = "retrying"]]
          /\ wk'[w] = [wk[w] EXCEPT !.pc = "retrying"] /\ wk'[w].pc = "retrying"
      BY <2>2, GotoMoves
    <3>2. [wk[w] EXCEPT !.pc = "retrying"].pc \notin UnderWay
      BY <3>1 DEF UnderWay
    <3> QED
      BY <3>1, <3>2
  <2> QED
    BY <2>1, <2>2
<1> QED
  BY <1>1, <1>2, AttemptEnds

LEMMA ClaimKnows ==
    ASSUME TypeOK, TypeOK', AttemptsKnown, NEW w \in Workers, NEW m \in queue, Claim(w, m)
    PROVE  AttemptsKnown'
<1>1. TokensMove /\ UNCHANGED bodies
  BY ClaimMoves DEF Claim
<1>2. m \in Issued /\ m[1] \in Jobs /\ Round(m) \in Rounds /\ Round(m).run \in Runs
  <2>1. m \in Issued
    BY DEF TypeOK, ProcessTypes
  <2> QED
    BY <2>1, RoundType DEF TypeOK, Rounds
<1>3. PICK i \in Jobs, r \in Runs : i = m[1] /\ r = Round(m).run
  BY <1>2
<1>4. CASE wk' = [wk EXCEPT ![w] = Returned(m)]
  <2>1. Returned(m).pc \notin UnderWay
    BY DEF Returned, UnderWay
  <2> QED
    BY <1>1, <1>4, <2>1, AttemptEnds
<1>5. CASE /\ token' = [token EXCEPT ![<<i, r>>] = token[<<i, r>>] + 1]
           /\ wk' = [wk EXCEPT ![w] = [pc |-> "claimed", msg |-> m, run |-> r,
                                       token |-> token[<<i, r>>] + 1,
                                       expected |-> version[<<i, r>>], seen |-> None]]
  <2>1. /\ wk'[w].pc = "claimed" /\ wk'[w].msg = m /\ wk'[w].run = r
        /\ wk'[w].token = token[<<i, r>>] + 1
        /\ \A v \in Workers \ {w} : wk'[v] = wk[v]
    BY <1>5 DEF TypeOK, ProcessTypes
  <2>2. RunOf(w)' = <<i, r>>
    BY <1>3, <2>1 DEF RunOf, JobOf
  <2>3. token[<<i, r>>] \in Nat /\ token'[<<i, r>>] = token[<<i, r>>] + 1
    BY <1>5 DEF TypeOK, RunTypes
  <2>4. AttemptKnown(w)'
    BY <2>1, <2>2, <2>3 DEF AttemptKnown
  <2>5. StagedByItsAttempt'
    BY <1>1 DEF AttemptsKnown, StagedByItsAttempt
  <2> QED
    BY <1>1, <2>1, <2>4, <2>5, OneAttemptMoves
<1> QED
  BY <1>3, <1>4, <1>5 DEF Claim

\* The read after the claim finds the attempt's own id, or that its lease is gone.
LEMMA ReadKnows ==
    ASSUME TypeOK, TypeOK', LeaseIffRunning, AttemptsKnown, NEW w \in Workers, ReadJob(w)
    PROVE  AttemptsKnown'
<1>1. TokensMove /\ UNCHANGED <<bodies, token, holder>>
  <2>1. UNCHANGED <<bodies, token, holder>>
    BY DEF ReadJob, store, runVars
  <2> QED
    BY <2>1, TokensStay
<1>2. CASE Return(w)
  <2>1. Returned(wk[w].msg).pc \notin UnderWay
    BY DEF Returned, UnderWay
  <2> QED
    BY <1>1, <1>2, <2>1, AttemptEnds DEF Return
<1>3. PICK i \in Jobs, r \in Runs : i = JobOf(w) /\ r = wk[w].run /\ RunOf(w) = <<i, r>>
  BY AttemptType
<1>4. CASE wk' = [wk EXCEPT ![w] =
                    [wk[w] EXCEPT !.pc = IF cancel[i] THEN "stopping" ELSE "executing",
                                  !.seen = IF status[i] = "running" THEN holder[<<i, r>>]
                                           ELSE None]]
  <2>1. wk[w] \in WorkerRows
    BY DEF TypeOK, ProcessTypes
  <2>2. /\ wk'[w] = [wk[w] EXCEPT !.pc = IF cancel[i] THEN "stopping" ELSE "executing",
                                  !.seen = IF status[i] = "running" THEN holder[<<i, r>>]
                                           ELSE None]
        /\ \A v \in Workers \ {w} : wk'[v] = wk[v]
    BY <1>4 DEF TypeOK, ProcessTypes
  <2>3. /\ wk'[w].pc \in {"stopping", "executing"}
        /\ wk'[w].seen = IF status[i] = "running" THEN holder[<<i, r>>] ELSE None
        /\ wk'[w].token = wk[w].token /\ wk'[w].run = wk[w].run /\ wk'[w].msg = wk[w].msg
    BY <2>1, <2>2 DEF WorkerRows
  <2>4. RunOf(w)' = <<i, r>>
    BY <1>3, <2>3 DEF RunOf, JobOf
  <2>5. 1 <= wk[w].token /\ wk[w].token <= token[<<i, r>>] /\ wk[w].token \in Nat
    BY <1>3, AttemptType DEF ReadJob, AttemptsKnown, AttemptKnown, UnderWay
  <2>6. ASSUME holder[<<i, r>>] = wk[w].token PROVE wk'[w].seen = wk[w].token
    <3>1. holder[<<i, r>>] # None
      BY <2>5, <2>6 DEF None
    <3>2. status[i] = "running"
      BY <3>1 DEF LeaseIffRunning
    <3> QED
      BY <2>3, <2>6, <3>2
  <2>7. wk'[w].seen = wk'[w].token \/ ~Holds(w)'
    BY <1>1, <2>3, <2>4, <2>6 DEF Holds
  <2>8. AttemptKnown(w)'
    BY <1>1, <2>3, <2>4, <2>5, <2>7 DEF AttemptKnown
  <2>9. StagedByItsAttempt'
    BY <1>1 DEF AttemptsKnown, StagedByItsAttempt
  <2> QED
    BY <1>1, <2>2, <2>8, <2>9, OneAttemptMoves
<1>5. wk' = [wk EXCEPT ![w] =
                    [wk[w] EXCEPT !.pc = IF cancel[i] THEN "stopping" ELSE "executing",
                                  !.seen = IF status[i] = "running" THEN holder[<<i, r>>]
                                           ELSE None]]
      \/ Return(w)
  BY <1>3 DEF ReadJob
<1> QED
  BY <1>2, <1>4, <1>5

\* A heartbeat is only answered while the run is held: the id read is the attempt's own.
LEMMA HeartbeatKnows ==
    ASSUME TypeOK, TypeOK', AttemptsKnown, NEW w \in Workers, Heartbeat(w)
    PROVE  AttemptsKnown'
<1>1. TokensMove /\ UNCHANGED <<bodies, token, holder>>
  BY TokensStay DEF Heartbeat
<1>2. wk[w].pc = "executing" /\ Holds(w)
  BY DEF Heartbeat, Owns, Holds
<1>3. wk[w].seen = wk[w].token /\ 1 <= wk[w].token /\ wk[w].token <= token[RunOf(w)]
  BY <1>2 DEF AttemptsKnown, AttemptKnown, UnderWay
<1>4. PICK pc \in {"stopping", "executing", "ready"} : Goto(w, pc)
  BY DEF Heartbeat
<1>5. AttemptKnown(w)'
  <2>1. /\ wk'[w].pc = pc /\ wk'[w].seen = wk[w].seen /\ wk'[w].token = wk[w].token
        /\ RunOf(w)' = RunOf(w)
    BY <1>4, GotoMoves
  <2> QED
    BY <1>1, <1>3, <1>4, <2>1 DEF AttemptKnown
<1>6. StagedByItsAttempt'
  BY <1>1 DEF AttemptsKnown, StagedByItsAttempt
<1>7. \A v \in Workers \ {w} : wk'[v] = wk[v]
  BY <1>4, GotoMoves
<1> QED
  BY <1>1, <1>5, <1>6, <1>7, OneAttemptMoves

\* The store compares the body's attempt id only, but the attempt read its own.
LEMMA PutKnows ==
    ASSUME TypeOK, TypeOK', AttemptsKnown, NEW w \in Workers, Put(w)
    PROVE  AttemptsKnown'
<1>1. TokensMove /\ UNCHANGED <<token, holder>>
  <2>1. UNCHANGED <<token, holder>>
    BY DEF Put, runVars
  <2> QED
    BY <2>1, TokensStay
<1>2. /\ wk[w].pc = "ready" /\ Goto(w, "staged")
      /\ bodies' = bodies \cup {BodyOf(w)}
  BY DEF Put, BodyOf
<1>3. wk[w].seen = wk[w].token /\ 1 <= wk[w].token /\ wk[w].token <= token[RunOf(w)]
  BY <1>2 DEF AttemptsKnown, AttemptKnown, UnderWay
<1>4. /\ wk'[w].pc = "staged" /\ wk'[w].seen = wk[w].seen /\ wk'[w].token = wk[w].token
      /\ wk'[w].run = wk[w].run /\ wk'[w].expected = wk[w].expected
      /\ RunOf(w)' = RunOf(w) /\ JobOf(w)' = JobOf(w)
      /\ \A v \in Workers \ {w} : wk'[v] = wk[v]
  BY <1>2, GotoMoves
<1>5. BodyOf(w)' = BodyOf(w)
  BY <1>4 DEF BodyOf
<1>6. AttemptKnown(w)'
  BY <1>1, <1>2, <1>3, <1>4, <1>5 DEF AttemptKnown
<1>7. BodyOf(w).attempt = BodyOf(w).by
  BY <1>3 DEF BodyOf
<1>8. StagedByItsAttempt'
  BY <1>2, <1>7 DEF AttemptsKnown, StagedByItsAttempt
<1> QED
  BY <1>1, <1>2, <1>4, <1>6, <1>8, OneAttemptMoves

LEMMA WorkerKnows ==
    ASSUME TypeOK, TypeOK', LeaseIffRunning, AttemptsKnown, NEW w \in Workers,
           WorkerStep(w) \/ WorkerCrash(w)
    PROVE  AttemptsKnown'
<1>1. CASE ReadJob(w)
  BY <1>1, ReadKnows
<1>2. CASE Heartbeat(w)
  BY <1>2, HeartbeatKnows
<1>3. CASE Put(w)
  BY <1>3, PutKnows
<1>4. /\ {"publish_result", "needs_human", "retryable_error", "permanent_error",
          "cancel_acknowledged"} \subseteq FinishEvents
      /\ {} \in SUBSET Tasks
  BY DEF FinishEvents
<1>5. CASE Publish(w)
  BY <1>4, <1>5, FinishKnows DEF Publish
<1>6. ASSUME NEW open \in SUBSET Tasks, WaitForHuman(w, open) PROVE AttemptsKnown'
  BY <1>4, <1>6, FinishKnows DEF WaitForHuman
<1>7. CASE FailRetryable(w)
  BY <1>4, <1>7, FinishKnows DEF FailRetryable
<1>8. CASE FailPermanent(w)
  BY <1>4, <1>8, FinishKnows DEF FailPermanent
<1>9. CASE AcknowledgeCancel(w)
  BY <1>4, <1>9, FinishKnows DEF AcknowledgeCancel
<1>10. CASE Reschedule(w)
  <2>1. TokensMove
    <3>1. CASE ScheduleRetry(JobOf(w))
      BY <3>1, AttemptType, RetryEffect, LeaseOnlyEnds
    <3>2. CASE UNCHANGED runVars
      BY <3>2, TokensStay DEF runVars
    <3> QED
      BY <1>10, <3>1, <3>2 DEF Reschedule
  <2>2. Returned(wk[w].msg).pc \notin UnderWay
    BY DEF Returned, UnderWay
  <2> QED
    BY <1>10, <2>1, <2>2, AttemptEnds DEF Reschedule, Return
<1>11. CASE Superseded(w)
  <2>1. TokensMove /\ UNCHANGED bodies
    BY <1>11, TokensStay DEF Superseded, store, runVars
  <2>2. Returned(wk[w].msg).pc \notin UnderWay
    BY DEF Returned, UnderWay
  <2> QED
    BY <1>11, <2>1, <2>2, AttemptEnds DEF Superseded, Return
<1>12. CASE Acknowledge(w) \/ WorkerCrash(w)
  <2>1. TokensMove /\ UNCHANGED bodies
    BY <1>12, TokensStay DEF Acknowledge, WorkerCrash, store, runVars
  <2>2. IdleWorker.pc \notin UnderWay
    BY DEF IdleWorker, UnderWay
  <2>3. wk' = [wk EXCEPT ![w] = IdleWorker]
    BY <1>12 DEF Acknowledge, WorkerCrash
  <2> QED
    BY <2>1, <2>2, <2>3, AttemptEnds
<1> QED
  BY <1>1, <1>2, <1>3, <1>5, <1>6, <1>7, <1>8, <1>9, <1>10, <1>11, <1>12 DEF WorkerStep

\* Callers, the reconciler, time and dispatchers stage nothing and move no attempt.
LEMMA OthersKnow ==
    ASSUME TypeOK, TypeOK', LeaseIffRunning, AttemptsKnown,
           \/ \E j \in Jobs : CallerNext(j) \/ ReconcilerNext(j) \/ TimeNext(j)
           \/ \E d \in Dispatchers : DispatcherNext(d) \/ DispatcherCrash(d)
    PROVE  AttemptsKnown'
<1>1. ASSUME NEW j \in Jobs, CallerNext(j) PROVE AttemptsKnown'
  <2>1. UNCHANGED <<bodies, wk>>
    BY <1>1 DEF CallerNext, Submit, Cancel, Resume, RejectHumanTask
  <2>2. CASE Submit(j)
    BY <2>1, <2>2, TokensStay, BystanderKnows DEF Submit, runVars
  <2>3. CASE Cancel(j)
    BY <2>1, <2>3, CancelEffect, TokensStay, LeaseOnlyEnds, BystanderKnows
  <2>4. CASE Resume(j)
    BY <2>1, <2>4, ResumeEffect, TokensStay, BystanderKnows
  <2>5. ASSUME NEW task \in Tasks, RejectHumanTask(j, task) PROVE AttemptsKnown'
    BY <2>1, <2>5, RejectEffect, LeaseOnlyEnds, BystanderKnows
  <2> QED
    BY <1>1, <2>2, <2>3, <2>4, <2>5 DEF CallerNext
<1>2. ASSUME NEW j \in Jobs, ReconcilerNext(j) PROVE AttemptsKnown'
  <2>1. UNCHANGED <<bodies, wk>>
    BY <1>2 DEF ReconcilerNext, ExpireLease, Reclaim, RecoverRetryable
  <2>2. ASSUME NEW r \in Runs, ExpireLease(j, r) PROVE AttemptsKnown'
    BY <2>1, <2>2, ExpireEffect, LeaseOnlyEnds, BystanderKnows
  <2>3. CASE RecoverRetryable(j)
    BY <2>1, <2>3, RetryEffect, LeaseOnlyEnds, BystanderKnows DEF RecoverRetryable
  <2> QED
    BY <1>2, <2>2, <2>3 DEF ReconcilerNext
<1>3. ASSUME NEW j \in Jobs, TimeNext(j) PROVE AttemptsKnown'
  <2>1. UNCHANGED <<bodies, wk, token, holder>>
    BY <1>3 DEF TimeNext, LeaseLapses, DelayElapses, runVars
  <2> QED
    BY <2>1, TokensStay, BystanderKnows
<1>4. ASSUME NEW d \in Dispatchers, DispatcherNext(d) \/ DispatcherCrash(d) PROVE AttemptsKnown'
  <2>1. UNCHANGED <<bodies, wk>>
    BY <1>4 DEF DispatcherNext, DispatcherCrash, DueDispatches, Send, ConfirmDispatch,
                DeferDispatch, store
  <2>2. CASE ConfirmDispatch(d)
    <3>1. UNCHANGED token /\ (UNCHANGED holder
                              \/ \E i \in Jobs, r \in Runs : SetStatus(i, r, "dispatched", FALSE))
      BY <2>2, ConfirmEffect
    <3> QED
      BY <2>1, <3>1, TokensStay, LeaseOnlyEnds, BystanderKnows
  <2>3. CASE ~ConfirmDispatch(d)
    <3>1. UNCHANGED <<token, holder>>
      BY <1>4, <2>3 DEF DispatcherNext, DispatcherCrash, DueDispatches, Send, DeferDispatch,
                        store, runVars
    <3> QED
      BY <2>1, <3>1, TokensStay, BystanderKnows
  <2> QED
    BY <2>2, <2>3
<1> QED
  BY <1>1, <1>2, <1>3, <1>4

LEMMA StepKnows ==
    ASSUME TypeOK, TypeOK', LeaseIffRunning, AttemptsKnown, [Next]_vars
    PROVE  AttemptsKnown'
<1>1. CASE Next
  BY <1>1, OthersKnow, ClaimKnows, WorkerKnows DEF Next
<1>2. CASE UNCHANGED vars
  <2>1. UNCHANGED <<bodies, wk, token, holder>>
    BY <1>2 DEF vars, store, runVars
  <2> QED
    BY <2>1, TokensStay, BystanderKnows
<1> QED
  BY <1>1, <1>2

-----------------------------------------------------------------------------
(***************************************************************************)
(* The limits of the policy                                                *)
(***************************************************************************)

LimitKept(j) ==
    /\ attempts[j] <= MaxAttempts
    /\ takeovers[j] <= MaxTakeovers
    /\ status[j] \notin Terminal => attempts[j] < MaxAttempts /\ takeovers[j] < MaxTakeovers

\* A job whose counters are left alone is still within its limits: what has ended stays so.
LEMMA CountersStay ==
    ASSUME NEW j \in Jobs, LimitKept(j), DecisionStands(j),
           attempts'[j] = attempts[j], takeovers'[j] = takeovers[j]
    PROVE  LimitKept(j)'
<1>1. status[j] \in Terminal => status'[j] = status[j]
  BY DEF DecisionStands, Undisturbed, JobRow
<1> QED
  BY <1>1 DEF LimitKept

LEMMA FinishKeepsLimits ==
    ASSUME TypeOK, RowsHonest, LimitsAreKept, NEW w \in Workers, NEW e \in FinishEvents,
           NEW open \in SUBSET Tasks, Finish(w, e, open), \A j \in Jobs : DecisionStands(j)
    PROVE  LimitsAreKept'
<1>1. PICK i \in Jobs : i = JobOf(w)
  BY AttemptType
<1>2. PICK f, t : f = Facts(i, open # {}) /\ t = NextState(f, e)
  OBVIOUS
<1>3. /\ status[i] = "running" /\ t # Conflict
      /\ attempts' = [attempts EXCEPT ![i] = attempts[i] + t.attempt]
      /\ takeovers' = takeovers
  BY <1>1, <1>2 DEF Finish, Owns
<1>4. f \in FactRows /\ f.attempts = attempts[i] /\ f.takeovers = takeovers[i]
  BY <1>2, <1>3, FactsType DEF Facts, Exists, TypeOK
<1>5. status'[i] = t.status
  BY <1>1, <1>2, FinishWrites
<1>6. f.attempts < MaxAttempts /\ f.takeovers < MaxTakeovers
  BY <1>3, <1>4 DEF LimitsAreKept, Terminal
<1>7. /\ f.attempts + t.attempt <= MaxAttempts
      /\ t.status \notin Terminal => f.attempts + t.attempt < MaxAttempts
  BY <1>2, <1>3, <1>4, <1>6, TableKeepsLimits
<1>8. attempts'[i] = attempts[i] + t.attempt /\ \A j \in Jobs \ {i} : attempts'[j] = attempts[j]
  BY <1>3 DEF TypeOK, JobTypes
<1>9. LimitKept(i)'
  BY <1>3, <1>4, <1>5, <1>6, <1>7, <1>8 DEF LimitKept, LimitsAreKept
<1>10. ASSUME NEW j \in Jobs \ {i} PROVE LimitKept(j)'
  BY <1>3, <1>8, CountersStay DEF LimitKept, LimitsAreKept
<1>11. \A j \in Jobs : LimitKept(j)'
  BY <1>9, <1>10
<1> QED
  BY <1>11 DEF LimitKept, LimitsAreKept

LEMMA ReclaimKeepsLimits ==
    ASSUME TypeOK, LimitsAreKept, NEW i \in Jobs, NEW r \in Runs, ExpireLease(i, r),
           \A j \in Jobs : DecisionStands(j)
    PROVE  LimitsAreKept'
<1>1. PICK f, t : f = Facts(i, tasks[i] # {}) /\ t = NextState(f, "lease_expired")
  OBVIOUS
<1>2. /\ status[i] = "running"
      /\ takeovers' = [takeovers EXCEPT ![i] = takeovers[i] + t.takeover]
      /\ attempts' = attempts
      /\ status' = [status EXCEPT ![i] = t.status]
  BY <1>1 DEF ExpireLease, Reclaim, SetStatus, Transition
<1>3. f \in FactRows /\ f.attempts = attempts[i] /\ f.takeovers = takeovers[i]
      /\ f.status = "running"
  BY <1>1, <1>2, FactsType DEF Facts, Exists, TypeOK
<1>4. f.attempts < MaxAttempts /\ f.takeovers < MaxTakeovers
  BY <1>2, <1>3 DEF LimitsAreKept, Terminal
<1>5. t # Conflict
  BY <1>1, <1>3, ExpiryReleases
<1>6. /\ f.takeovers + t.takeover <= MaxTakeovers
      /\ t.status \notin Terminal => f.takeovers + t.takeover < MaxTakeovers
  BY <1>1, <1>3, <1>4, <1>5, TableKeepsLimits
<1>7. /\ takeovers'[i] = takeovers[i] + t.takeover /\ status'[i] = t.status
      /\ \A j \in Jobs \ {i} : takeovers'[j] = takeovers[j]
  BY <1>2 DEF TypeOK, JobTypes
<1>8. LimitKept(i)'
  BY <1>2, <1>3, <1>4, <1>6, <1>7 DEF LimitKept, LimitsAreKept
<1>9. ASSUME NEW j \in Jobs \ {i} PROVE LimitKept(j)'
  BY <1>2, <1>7, CountersStay DEF LimitKept, LimitsAreKept
<1>10. \A j \in Jobs : LimitKept(j)'
  BY <1>8, <1>9
<1> QED
  BY <1>10 DEF LimitKept, LimitsAreKept

LEMMA StepKeepsLimits ==
    ASSUME TypeOK, RowsHonest, LimitsAreKept, [Next]_vars, \A j \in Jobs : DecisionStands(j)
    PROVE  LimitsAreKept'
<1>1. ASSUME UNCHANGED <<attempts, takeovers>> PROVE LimitsAreKept'
  <2>1. \A j \in Jobs : LimitKept(j)'
    BY <1>1, CountersStay DEF LimitKept, LimitsAreKept
  <2> QED
    BY <2>1 DEF LimitKept, LimitsAreKept
<1>2. ASSUME NEW j \in Jobs, CallerNext(j) \/ ReconcilerNext(j) \/ TimeNext(j)
      PROVE  LimitsAreKept'
  <2>1. ASSUME NEW r \in Runs, ExpireLease(j, r) PROVE LimitsAreKept'
    BY <2>1, ReclaimKeepsLimits
  <2>2. CASE CallerNext(j)
    BY <1>1, <2>2 DEF CallerNext, Submit, Cancel, Resume, RejectHumanTask
  <2>3. CASE RecoverRetryable(j)
    BY <1>1, <2>3 DEF RecoverRetryable, ScheduleRetry
  <2>4. CASE TimeNext(j)
    BY <1>1, <2>4 DEF TimeNext, LeaseLapses, DelayElapses, jobVars
  <2> QED
    BY <1>2, <2>1, <2>2, <2>3, <2>4 DEF ReconcilerNext
<1>3. ASSUME NEW d \in Dispatchers, DispatcherNext(d) \/ DispatcherCrash(d) PROVE LimitsAreKept'
  BY <1>1, <1>3 DEF DispatcherNext, DispatcherCrash, DueDispatches, Send, ConfirmDispatch,
                    DeferDispatch, MarkDispatched, store, jobVars
<1>4. ASSUME NEW w \in Workers, NEW m \in queue, Claim(w, m) PROVE LimitsAreKept'
  BY <1>1, <1>4 DEF Claim
<1>5. ASSUME NEW w \in Workers, WorkerStep(w) \/ WorkerCrash(w) PROVE LimitsAreKept'
  <2>1. ASSUME NEW e \in FinishEvents, NEW open \in SUBSET Tasks, Finish(w, e, open)
        PROVE  LimitsAreKept'
    BY <2>1, FinishKeepsLimits
  <2>2. /\ {"publish_result", "needs_human", "retryable_error", "permanent_error",
            "cancel_acknowledged"} \subseteq FinishEvents
        /\ {} \in SUBSET Tasks
    BY DEF FinishEvents
  <2>3. CASE Publish(w) \/ FailRetryable(w) \/ FailPermanent(w) \/ AcknowledgeCancel(w)
    BY <2>1, <2>2, <2>3 DEF Publish, FailRetryable, FailPermanent, AcknowledgeCancel
  <2>4. ASSUME NEW open \in SUBSET Tasks, WaitForHuman(w, open) PROVE LimitsAreKept'
    BY <2>1, <2>2, <2>4 DEF WaitForHuman
  <2>5. CASE Reschedule(w)
    BY <1>1, <2>5 DEF Reschedule, ScheduleRetry, jobVars
  <2>6. CASE Heartbeat(w) \/ Put(w) \/ ReadJob(w) \/ Superseded(w) \/ Acknowledge(w)
             \/ WorkerCrash(w)
    BY <1>1, <2>6 DEF Heartbeat, Put, ReadJob, Superseded, Acknowledge, WorkerCrash, store,
                      jobVars
  <2> QED
    BY <1>5, <2>3, <2>4, <2>5, <2>6 DEF WorkerStep
<1>6. CASE UNCHANGED vars
  BY <1>1, <1>6 DEF vars, store, jobVars
<1> QED
  BY <1>2, <1>3, <1>4, <1>5, <1>6 DEF Next

-----------------------------------------------------------------------------
(***************************************************************************)
(* The theorems                                                            *)
(***************************************************************************)

\* The invariant that the next theorems rest on.
Records == RowsHonest /\ AttemptsKnown /\ LimitsAreKept

LEMMA RecordsStay == Spec => []Records
<1>1. Init => Records
  <2> SUFFICES ASSUME Init PROVE Records
    OBVIOUS
  <2>1. RowsHonest
    BY DEF Init, RowsHonest, RowHonest, ResultsOf, Terminal
  <2>2. ASSUME NEW w \in Workers PROVE AttemptKnown(w)
    BY <2>2 DEF Init, AttemptKnown, UnderWay, IdleWorker
  <2>3. StagedByItsAttempt
    BY DEF Init, StagedByItsAttempt
  <2>4. LimitsAreKept
    BY PolicyAssumption DEF Init, LimitsAreKept
  <2> QED
    BY <2>1, <2>2, <2>3, <2>4 DEF Records, AttemptsKnown
<1>2. TypeOK /\ TypeOK' /\ LeaseIffRunning /\ Records /\ [Next]_vars => Records'
  BY StepStands, StepKnows, StepKeepsLimits DEF Records
<1> QED
  BY <1>1, <1>2, TypeCorrect, LeaseSound, PTL DEF Spec

\* RecordsAreHonest for any number of jobs and workers: JobStatusView.honest_status holds of
\* every row that create_job, claim, finish, cancel, expire_lease and resume_after_human
\* write; a committed result names the body its own attempt staged; the policy's limits hold.
THEOREM RecordsHonest == Spec => []RecordsAreHonest
<1>1. TypeOK /\ Records => RecordsAreHonest
  <2> SUFFICES ASSUME TypeOK, Records PROVE RecordsAreHonest
    OBVIOUS
  <2>1. ASSUME NEW x \in results
        PROVE  /\ status[x.job] = "succeeded"
               /\ current[x.job] = x.run
               /\ version[<<x.job, x.run>>] = x.version
               /\ token[<<x.job, x.run>>] = x.token
               /\ [job |-> x.job, run |-> x.run, version |-> x.version,
                   attempt |-> x.digest, by |-> x.token] \in bodies
    <3>1. x.job \in Jobs /\ x \in ResultsOf(x.job)
      BY DEF TypeOK, StoreTypes, References, ResultsOf
    <3> QED
      BY <3>1 DEF Records, RowsHonest, RowHonest, ReferenceHolds
  <2>2. ASSUME NEW x \in results, NEW y \in results, x.job = y.job PROVE x = y
    <3>1. x.job \in Jobs /\ x \in ResultsOf(x.job) /\ y \in ResultsOf(x.job)
      BY <2>2 DEF TypeOK, StoreTypes, References, ResultsOf
    <3> QED
      BY <3>1 DEF Records, RowsHonest, RowHonest
  <2>3. ASSUME NEW j \in Jobs, status[j] = "succeeded"
        PROVE  \E x \in results : x.job = j /\ version[<<j, current[j]>>] >= 1
    <3>1. PICK x \in ResultsOf(j) : ReferenceHolds(x)
      BY <2>3 DEF Records, RowsHonest, RowHonest
    <3> QED
      BY <3>1 DEF ResultsOf, ReferenceHolds
  <2>4. CommittedResultSound
    BY <2>1, <2>2, <2>3 DEF CommittedResultSound
  <2>5. HonestStatus
    BY <2>3 DEF HonestStatus, Records, RowsHonest, RowHonest
  <2> QED
    BY <2>4, <2>5 DEF RecordsAreHonest, Records, AttemptsKnown
<1> QED
  BY <1>1, TypeCorrect, RecordsStay, PTL

\* DecisionsStand: a late worker, dispatcher, reviewer or caller changes nothing of a
\* terminal job, and a recorded cancel request stops every recovery path of next_state.
THEOREM DecisionsMade == Spec => DecisionsStand
<1>1. ASSUME TypeOK, LeaseIffRunning, Records, [Next]_vars
      PROVE  /\ \A j \in Jobs : status[j] \in Terminal =>
                   /\ JobRow(j)' = JobRow(j)
                   /\ \A r \in Runs : RunRow(<<j, r>>)' = RunRow(<<j, r>>)
                   /\ Len(outbox'[j]) = Len(outbox[j])
                   /\ {x \in results' : x.job = j} = {x \in results : x.job = j}
             /\ \A j \in Jobs : cancel[j] =>
                   /\ cancel'[j]
                   /\ status'[j] \in {status[j], "cancelled", "failed"}
                   /\ \A r \in Runs : token'[<<j, r>>] = token[<<j, r>>]
                   /\ Len(outbox'[j]) = Len(outbox[j])
  BY <1>1, StepStands DEF Records, DecisionStands, Undisturbed, Stopped, ResultsOf
<1>2. TypeOK /\ LeaseIffRunning /\ Records /\ [Next]_vars
        => [\A j \in Jobs : status[j] \in Terminal =>
               /\ JobRow(j)' = JobRow(j)
               /\ \A r \in Runs : RunRow(<<j, r>>)' = RunRow(<<j, r>>)
               /\ Len(outbox'[j]) = Len(outbox[j])
               /\ {x \in results' : x.job = j} = {x \in results : x.job = j}]_vars
  BY <1>1
<1>3. TypeOK /\ LeaseIffRunning /\ Records /\ [Next]_vars
        => [\A j \in Jobs : cancel[j] =>
               /\ cancel'[j]
               /\ status'[j] \in {status[j], "cancelled", "failed"}
               /\ \A r \in Runs : token'[<<j, r>>] = token[<<j, r>>]
               /\ Len(outbox'[j]) = Len(outbox[j])]_vars
  BY <1>1
<1>4. Spec => TerminalIsFinal
  BY <1>2, TypeCorrect, LeaseSound, RecordsStay, PTL DEF Spec, TerminalIsFinal
<1>5. Spec => CancelStopsWork
  BY <1>3, TypeCorrect, LeaseSound, RecordsStay, PTL DEF Spec, CancelStopsWork
<1> QED
  BY <1>4, <1>5 DEF DecisionsStand

\* StaleAttemptsAreFenced: heartbeat, put and finish of an attempt that lost its lease are
\* refused, put included, although the store only compares the id the body carries.
THEOREM StaleFenced == Spec => StaleAttemptsAreFenced
<1>1. ASSUME TypeOK, LeaseIffRunning, Records, [Next]_vars, NEW w \in Workers,
             wk'[w] # wk[w], wk[w].pc \in {"executing", "ready", "staged", "stopping"},
             ~Owns(w)
      PROVE  UNCHANGED store
  <2>1. ASSUME NEW v \in Workers, (\E m \in queue : Claim(v, m)) \/ WorkerStep(v) \/ WorkerCrash(v)
        PROVE  v = w
    <3>1. \E x : wk' = [wk EXCEPT ![v] = x]
      <4>1. ASSUME NEW pc, Goto(v, pc) PROVE wk' = [wk EXCEPT ![v] = [wk[v] EXCEPT !.pc = pc]]
        BY <1>1, <4>1, GotoMoves
      <4>2. CASE \E m \in queue : Claim(v, m)
        BY <4>2 DEF Claim
      <4>3. CASE ReadJob(v)
        BY <4>3 DEF ReadJob, Return
      <4>4. CASE Heartbeat(v) \/ Put(v) \/ FailRetryable(v)
        BY <4>1, <4>4 DEF Heartbeat, Put, FailRetryable, Return
      <4>5. CASE Publish(v) \/ FailPermanent(v) \/ AcknowledgeCancel(v) \/ Reschedule(v)
                 \/ Superseded(v) \/ \E open \in SUBSET Tasks : WaitForHuman(v, open)
        BY <4>5 DEF Publish, FailPermanent, AcknowledgeCancel, Reschedule, Superseded,
                    WaitForHuman, Return
      <4>6. CASE Acknowledge(v) \/ WorkerCrash(v)
        BY <4>6 DEF Acknowledge, WorkerCrash
      <4> QED
        BY <2>1, <4>2, <4>3, <4>4, <4>5, <4>6 DEF WorkerStep
    <3> QED
      BY <1>1, <3>1 DEF TypeOK, ProcessTypes
  <2>2. ASSUME UNCHANGED wk PROVE FALSE
    BY <1>1, <2>2
  <2>3. CASE \E j \in Jobs : CallerNext(j) \/ ReconcilerNext(j) \/ TimeNext(j)
    BY <2>2, <2>3 DEF CallerNext, Submit, Cancel, Resume, RejectHumanTask, ReconcilerNext,
                      ExpireLease, Reclaim, RecoverRetryable, TimeNext, LeaseLapses, DelayElapses
  <2>4. CASE \E d \in Dispatchers : DispatcherNext(d) \/ DispatcherCrash(d)
    BY <2>2, <2>4 DEF DispatcherNext, DueDispatches, Send, ConfirmDispatch, DeferDispatch,
                      DispatcherCrash
  <2>5. CASE \E m \in queue : Claim(w, m)
    BY <1>1, <2>5 DEF Claim
  <2>6. CASE Put(w)
    <3>1. PICK i \in Jobs, r \in Runs : i = JobOf(w) /\ r = wk[w].run /\ RunOf(w) = <<i, r>>
      BY <1>1, AttemptType
    <3>2. /\ wk[w].seen = wk[w].token /\ wk[w].token # None
          /\ holder[<<i, r>>] = wk[w].seen /\ current[i] = r /\ status[i] = "running"
          /\ version[<<i, r>>] = wk[w].expected
      BY <1>1, <2>6, <3>1, AttemptType DEF Put, Records, AttemptsKnown, AttemptKnown, UnderWay,
                                           None
    <3>3. holder[<<i, r>>] = token[<<i, r>>]
      BY <1>1, <3>2 DEF LeaseIffRunning
    <3> QED
      BY <1>1, <3>1, <3>2, <3>3 DEF Owns
  <2>7. CASE WorkerStep(w) /\ ~Put(w)
    BY <1>1, <2>7 DEF WorkerStep, ReadJob, Heartbeat, Publish, WaitForHuman, FailRetryable,
                      FailPermanent, AcknowledgeCancel, Finish, Reschedule, Superseded, Acknowledge
  <2>8. CASE WorkerCrash(w)
    BY <2>8 DEF WorkerCrash
  <2>9. CASE UNCHANGED vars
    BY <2>2, <2>9 DEF vars
  <2> QED
    BY <1>1, <2>1, <2>3, <2>4, <2>5, <2>6, <2>7, <2>8, <2>9 DEF Next
<1>2. TypeOK /\ LeaseIffRunning /\ Records /\ [Next]_vars
        => [\A w \in Workers :
              /\ wk'[w] # wk[w]
              /\ wk[w].pc \in {"executing", "ready", "staged", "stopping"}
              /\ ~Owns(w)
              => UNCHANGED store]_vars
  BY <1>1
<1> QED
  BY <1>2, TypeCorrect, LeaseSound, RecordsStay, PTL DEF Spec, StaleAttemptsAreFenced

-----------------------------------------------------------------------------
(***************************************************************************)
(* What pays for a claim                                                   *)
(***************************************************************************)

Bill(j) == attempts[j] + takeovers[j] + current[j]

\* A job that may be claimed has a claim to pay for in advance: its run's first one, or the
\* one that follows the attempt or takeover that was counted last.
Owed(j) == IF status[j] \in Claimable THEN 1 ELSE 0

ClaimsPaid(j) ==
    /\ IsFiniteSet(ClaimsOf(j))
    /\ Cardinality(ClaimsOf(j)) + Owed(j) <= Bill(j)
    /\ ~Exists(j) => current[j] = None

\* A step that grants no claim of j and bills what it leaves to be claimed.
Settled(j) ==
    /\ \A r \in Runs : token'[<<j, r>>] = token[<<j, r>>]
    /\ Bill(j) + Owed(j)' <= Bill(j)' + Owed(j)
    /\ ~Exists(j)' => ~Exists(j) /\ current'[j] = current[j]

LEMMA BillType ==
    ASSUME TypeOK, NEW j \in Jobs
    PROVE  /\ attempts[j] \in Nat /\ takeovers[j] \in Nat /\ current[j] \in Nat
           /\ Bill(j) \in Nat /\ Owed(j) \in Nat
<1>1. attempts[j] \in Nat /\ takeovers[j] \in Nat /\ current[j] \in Nat
  BY BoundsAssumption DEF TypeOK, JobTypes, Runs, None
<1> QED
  BY <1>1 DEF Bill, Owed

LEMMA SettledStays ==
    ASSUME TypeOK, TypeOK', NEW j \in Jobs, ClaimsPaid(j), Settled(j)
    PROVE  ClaimsPaid(j)'
<1>1. ClaimsOf(j)' = ClaimsOf(j)
  BY DEF ClaimsOf, Settled
<1>2. Cardinality(ClaimsOf(j)) \in Nat
  BY FS_CardinalityType DEF ClaimsPaid
<1>3. Bill(j) \in Nat /\ Owed(j) \in Nat /\ Bill(j)' \in Nat /\ Owed(j)' \in Nat
  <2>1. Bill(j) \in Nat /\ Owed(j) \in Nat
    BY BillType
  <2>2. attempts'[j] \in Nat /\ takeovers'[j] \in Nat /\ current'[j] \in Nat
    BY BoundsAssumption DEF TypeOK, JobTypes, Runs, None
  <2> QED
    BY <2>1, <2>2 DEF Bill, Owed
<1>4. Cardinality(ClaimsOf(j)) + Owed(j)' <= Bill(j)'
  BY <1>2, <1>3 DEF ClaimsPaid, Settled
<1>5. IsFiniteSet(ClaimsOf(j))' /\ Cardinality(ClaimsOf(j))' = Cardinality(ClaimsOf(j))
  BY <1>1 DEF ClaimsPaid
<1>6. ~Exists(j)' => current'[j] = None
  BY DEF ClaimsPaid, Settled
<1> QED
  BY <1>4, <1>5, <1>6 DEF ClaimsPaid

\* A job whose row and tokens a step leaves alone has nothing to settle.
LEMMA UntouchedSettled ==
    ASSUME TypeOK, NEW j \in Jobs, status'[j] = status[j], current'[j] = current[j],
           attempts'[j] = attempts[j], takeovers'[j] = takeovers[j],
           \A r \in Runs : token'[<<j, r>>] = token[<<j, r>>]
    PROVE  Settled(j)
<1>1. Bill(j) \in Nat /\ Owed(j) \in Nat
  BY BillType
<1>2. Bill(j)' = Bill(j) /\ Owed(j)' = Owed(j)
  BY DEF Bill, Owed
<1> QED
  BY <1>1, <1>2 DEF Settled, Exists

\* The settlement of a step that writes to one job.
LEMMA OneSettles ==
    ASSUME TypeOK, NEW i \in Jobs, UNCHANGED token,
           \A j \in Jobs \ {i} :
              /\ status'[j] = status[j] /\ current'[j] = current[j]
              /\ attempts'[j] = attempts[j] /\ takeovers'[j] = takeovers[j],
           status'[i] # "absent", Bill(i) + Owed(i)' <= Bill(i)' + Owed(i)
    PROVE  \A j \in Jobs : Settled(j)
<1>1. Settled(i)
  BY DEF Settled, Exists
<1> QED
  BY <1>1, UntouchedSettled

LEMMA CallerSettles ==
    ASSUME TypeOK, NEW i \in Jobs, ClaimsPaid(i), CallerNext(i)
    PROVE  \A j \in Jobs : Settled(j)
<1>0. /\ attempts[i] \in Nat /\ takeovers[i] \in Nat /\ current[i] \in Nat
      /\ Owed(i) \in {0, 1}
  BY BillType DEF Owed
<1>1. CASE Submit(i)
  <2>1. InitialTransition.status = "queued"
    BY DEF InitialTransition, Enqueue, Move
  <2>2. /\ status' = [status EXCEPT ![i] = "queued"] /\ ~Exists(i)
        /\ current' = [current EXCEPT ![i] = 1]
        /\ UNCHANGED <<attempts, takeovers, token>>
    BY <1>1, <2>1 DEF Submit, runVars
  <2>3. /\ status'[i] = "queued" /\ current'[i] = 1
        /\ \A j \in Jobs \ {i} : status'[j] = status[j] /\ current'[j] = current[j]
    BY <2>2 DEF TypeOK, JobTypes
  <2>4. current[i] = 0
    BY <2>2 DEF ClaimsPaid, None
  <2>5. Bill(i) + Owed(i)' <= Bill(i)' + Owed(i)
    BY <1>0, <2>2, <2>3, <2>4 DEF Bill, Owed
  <2> QED
    BY <2>2, <2>3, <2>5, OneSettles
<1>2. CASE Cancel(i)
  <2>1. /\ current[i] \in Runs /\ UNCHANGED <<current, token>>
        /\ \/ UNCHANGED <<status, tasks, holder, lease>>
           \/ SetStatus(i, current[i], "cancelled", TRUE)
    BY <1>2, CancelEffect
  <2>2. UNCHANGED <<attempts, takeovers>>
    BY <1>2 DEF Cancel
  <2>3. status[i] # "absent"
    BY <1>2 DEF Cancel, Exists
  <2>4. \/ UNCHANGED status
        \/ status' = [status EXCEPT ![i] = "cancelled"]
    BY <2>1 DEF SetStatus
  <2>5. /\ status'[i] \in {status[i], "cancelled"}
        /\ \A j \in Jobs \ {i} : status'[j] = status[j]
    BY <2>4 DEF TypeOK, JobTypes
  <2>6. Bill(i)' = Bill(i) /\ Owed(i)' <= Owed(i)
    BY <2>1, <2>2, <2>5 DEF Bill, Owed, Claimable
  <2>7. Bill(i) \in Nat /\ Owed(i)' \in {0, 1}
    BY BillType DEF Owed
  <2> QED
    BY <1>0, <2>1, <2>2, <2>3, <2>5, <2>6, <2>7, OneSettles
<1>3. CASE Resume(i)
  <2>1. /\ status[i] = "waiting_for_human"
        /\ status' = [status EXCEPT ![i] = "queued"]
        /\ current' = [current EXCEPT ![i] = current[i] + 1]
        /\ UNCHANGED token
    BY <1>3, ResumeEffect
  <2>2. UNCHANGED <<attempts, takeovers>>
    BY <1>3 DEF Resume
  <2>3. /\ status'[i] = "queued" /\ current'[i] = current[i] + 1
        /\ \A j \in Jobs \ {i} : status'[j] = status[j] /\ current'[j] = current[j]
    BY <2>1 DEF TypeOK, JobTypes
  <2>4. Bill(i) + Owed(i)' <= Bill(i)' + Owed(i)
    BY <1>0, <2>1, <2>2, <2>3 DEF Bill, Owed
  <2> QED
    BY <2>1, <2>2, <2>3, <2>4, OneSettles
<1>4. ASSUME NEW task \in Tasks, RejectHumanTask(i, task) PROVE \A j \in Jobs : Settled(j)
  <2>1. PICK s \in {"waiting_for_human", "failed"} :
           SetStatus(i, current[i], s, FALSE) /\ UNCHANGED <<current, token>>
    BY <1>4, RejectEffect
  <2>2. UNCHANGED <<attempts, takeovers>>
    BY <1>4 DEF RejectHumanTask
  <2>3. status'[i] = s /\ \A j \in Jobs \ {i} : status'[j] = status[j]
    BY <2>1 DEF SetStatus, TypeOK, JobTypes
  <2>4. Bill(i)' = Bill(i) /\ Owed(i)' = 0
    BY <2>1, <2>2, <2>3 DEF Bill, Owed, Claimable
  <2>5. Bill(i) + Owed(i)' <= Bill(i)' + Owed(i)
    BY <1>0, <2>4, BillType
  <2> QED
    BY <2>1, <2>2, <2>3, <2>5, OneSettles
<1> QED
  BY <1>1, <1>2, <1>3, <1>4 DEF CallerNext

LEMMA RetrySettles ==
    ASSUME TypeOK, NEW i \in Jobs, ScheduleRetry(i)
    PROVE  \A j \in Jobs : Settled(j)
<1>1. /\ status[i] = "retryable_failed"
      /\ SetStatus(i, current[i], "queued", FALSE)
      /\ UNCHANGED <<current, token>>
  BY RetryEffect
<1>2. UNCHANGED <<attempts, takeovers>>
  BY DEF ScheduleRetry
<1>3. status'[i] = "queued" /\ \A j \in Jobs \ {i} : status'[j] = status[j]
  BY <1>1 DEF SetStatus, TypeOK, JobTypes
<1>4. Bill(i)' = Bill(i) /\ Owed(i)' = Owed(i)
  BY <1>1, <1>2, <1>3 DEF Bill, Owed, Claimable
<1>5. Bill(i) + Owed(i)' <= Bill(i)' + Owed(i)
  BY <1>4, BillType
<1> QED
  BY <1>1, <1>2, <1>3, <1>5, OneSettles

\* A reclaimed lease is counted, unless its job ends.
LEMMA ReclaimSettles ==
    ASSUME TypeOK, NEW i \in Jobs, NEW r \in Runs, ExpireLease(i, r)
    PROVE  \A j \in Jobs : Settled(j)
<1>1. PICK f, t : f = Facts(i, tasks[i] # {}) /\ t = NextState(f, "lease_expired")
  OBVIOUS
<1>2. /\ status[i] = "running"
      /\ takeovers' = [takeovers EXCEPT ![i] = takeovers[i] + t.takeover]
      /\ UNCHANGED <<attempts, current, token>>
      /\ status' = [status EXCEPT ![i] = t.status]
  BY <1>1 DEF ExpireLease, Reclaim, SetStatus, Transition
<1>3. f \in FactRows /\ f.status = "running"
  BY <1>1, <1>2, FactsType DEF Facts, Exists, TypeOK
<1>4. t.takeover \in Nat /\ t.status \in {"queued", "failed", "cancelled"}
  BY <1>1, <1>3, NextStateType, ExpiryReleases DEF Transitions
<1>5. t.status \in Claimable => t.takeover = 1
  BY <1>1, <1>3, TablePays
<1>6. /\ takeovers'[i] = takeovers[i] + t.takeover /\ status'[i] = t.status
      /\ \A j \in Jobs \ {i} : takeovers'[j] = takeovers[j] /\ status'[j] = status[j]
  BY <1>2 DEF TypeOK, JobTypes
<1>7. Bill(i)' = Bill(i) + t.takeover
  BY <1>2, <1>4, <1>6, BillType DEF Bill
<1>8. Owed(i)' <= t.takeover /\ Owed(i)' \in Nat
  BY <1>4, <1>5, <1>6 DEF Owed
<1>9. Bill(i) + Owed(i)' <= Bill(i)' + Owed(i)
  BY <1>4, <1>7, <1>8, BillType
<1> QED
  BY <1>2, <1>4, <1>6, <1>9, OneSettles

\* An attempt that ended in an error is counted, unless its job ends.
LEMMA FinishSettles ==
    ASSUME TypeOK, NEW w \in Workers, NEW e \in FinishEvents, NEW open \in SUBSET Tasks,
           Finish(w, e, open)
    PROVE  \A j \in Jobs : Settled(j)
<1>1. PICK i \in Jobs : i = JobOf(w)
  BY AttemptType
<1>2. PICK f, t : f = Facts(i, open # {}) /\ t = NextState(f, e)
  OBVIOUS
<1>3. /\ status[i] = "running" /\ t # Conflict
      /\ attempts' = [attempts EXCEPT ![i] = attempts[i] + t.attempt]
      /\ UNCHANGED <<takeovers, current, token>>
      /\ status' = [status EXCEPT ![i] = t.status]
  BY <1>1, <1>2 DEF Finish, Owns, SetStatus
<1>4. f \in FactRows /\ f.status = "running"
  BY <1>2, <1>3, FactsType DEF Facts, Exists, TypeOK
<1>5. t.attempt \in Nat /\ t.status # "absent"
  BY <1>2, <1>3, <1>4, NextStateType, FinishReleases DEF Transitions
<1>6. t.status \in Claimable => t.attempt = 1
  BY <1>2, <1>4, TablePays
<1>7. /\ attempts'[i] = attempts[i] + t.attempt /\ status'[i] = t.status
      /\ \A j \in Jobs \ {i} : attempts'[j] = attempts[j] /\ status'[j] = status[j]
  BY <1>3 DEF TypeOK, JobTypes
<1>8. Bill(i)' = Bill(i) + t.attempt
  BY <1>3, <1>5, <1>7, BillType DEF Bill
<1>9. Owed(i)' <= t.attempt /\ Owed(i)' \in Nat
  BY <1>5, <1>6, <1>7 DEF Owed
<1>10. Bill(i) + Owed(i)' <= Bill(i)' + Owed(i)
  BY <1>5, <1>8, <1>9, BillType
<1> QED
  BY <1>3, <1>5, <1>7, <1>10, OneSettles

\* A granted claim draws one token, which was owed for.
LEMMA ClaimIsPaid ==
    ASSUME TypeOK, LeaseIffRunning, NEW w \in Workers, NEW m \in queue, Claim(w, m),
           \A j \in Jobs : ClaimsPaid(j), TypeOK'
    PROVE  \A j \in Jobs : ClaimsPaid(j)'
<1>1. PICK i \in Jobs, r \in Runs :
              /\ i = m[1] /\ r = Round(m).run
              /\ UNCHANGED <<current, tasks, outbox, queue, out>>
              /\ \/ /\ status[i] \in Claimable /\ current[i] = r
                    /\ lease[<<i, r>>] # "valid"
                    /\ status' = [status EXCEPT ![i] = "running"]
                    /\ token' = [token EXCEPT ![<<i, r>>] = token[<<i, r>>] + 1]
                    /\ holder' = [holder EXCEPT ![<<i, r>>] = token[<<i, r>>] + 1]
                    /\ lease' = [lease EXCEPT ![<<i, r>>] = "valid"]
                 \/ /\ ~(Exists(i) /\ status[i] \in Claimable /\ current[i] = r
                         /\ lease[<<i, r>>] # "valid")
                    /\ UNCHANGED <<status, token, holder, lease>>
  BY ClaimEffect, ZenonT(60)
<1>2. UNCHANGED <<attempts, takeovers>>
  BY DEF Claim
<1>3. ASSUME UNCHANGED <<status, token>> PROVE \A j \in Jobs : ClaimsPaid(j)'
  BY <1>1, <1>2, <1>3, UntouchedSettled, SettledStays
<1>4. ASSUME status[i] \in Claimable, status' = [status EXCEPT ![i] = "running"],
             token' = [token EXCEPT ![<<i, r>>] = token[<<i, r>>] + 1]
      PROVE  \A j \in Jobs : ClaimsPaid(j)'
  <2>1. /\ status'[i] = "running" /\ \A j \in Jobs \ {i} : status'[j] = status[j]
        /\ \A j \in Jobs \ {i} : \A q \in Runs : token'[<<j, q>>] = token[<<j, q>>]
        /\ \A q \in Runs \ {r} : token'[<<i, q>>] = token[<<i, q>>]
        /\ token'[<<i, r>>] = token[<<i, r>>] + 1 /\ token[<<i, r>>] \in Nat
    BY <1>4 DEF TypeOK, JobTypes, RunTypes
  <2>2. ASSUME NEW j \in Jobs \ {i} PROVE ClaimsPaid(j)'
    BY <1>1, <1>2, <2>1, UntouchedSettled, SettledStays
  <2> DEFINE S == ClaimsOf(i)
             c == <<r, token[<<i, r>>] + 1>>
  <2>3. 1..(token[<<i, r>>] + 1) = (1..token[<<i, r>>]) \cup {token[<<i, r>>] + 1}
    BY <2>1
  <2>4. ClaimsOf(i)' = S \cup {c}
    <3>1. ASSUME NEW x \in ClaimsOf(i)' PROVE x \in S \cup {c}
      <4>1. PICK q \in Runs : x \in {q} \X (1..token'[<<i, q>>])
        BY <3>1 DEF ClaimsOf
      <4>2. CASE q # r
        BY <2>1, <4>1, <4>2 DEF ClaimsOf
      <4>3. CASE q = r
        <5>1. PICK n : x = <<r, n>> /\ n \in (1..token[<<i, r>>]) \cup {token[<<i, r>>] + 1}
          BY <2>1, <2>3, <4>1, <4>3
        <5> QED
          BY <5>1 DEF ClaimsOf
      <4> QED
        BY <4>2, <4>3
    <3>2. ASSUME NEW x \in S PROVE x \in ClaimsOf(i)'
      <4>1. PICK q \in Runs : x \in {q} \X (1..token[<<i, q>>])
        BY <3>2 DEF ClaimsOf
      <4>2. x \in {q} \X (1..token'[<<i, q>>])
        BY <2>1, <2>3, <4>1
      <4> QED
        BY <4>2 DEF ClaimsOf
    <3>3. c \in ClaimsOf(i)'
      <4>1. c \in {r} \X (1..token'[<<i, r>>])
        BY <2>1
      <4> QED
        BY <4>1 DEF ClaimsOf
    <3> QED
      BY <3>1, <3>2, <3>3
  <2>5. IsFiniteSet(S)
    BY DEF ClaimsPaid
  <2>6. /\ IsFiniteSet(S \cup {c})
        /\ Cardinality(S \cup {c}) <= Cardinality(S) + 1
        /\ Cardinality(S) \in Nat /\ Cardinality(S \cup {c}) \in Nat
    <3> HIDE DEF S, c
    <3>1. /\ IsFiniteSet(S \cup {c})
          /\ Cardinality(S \cup {c}) = Cardinality(S) \/ Cardinality(S \cup {c}) = Cardinality(S) + 1
      BY <2>5, FS_AddElement
    <3>2. Cardinality(S) \in Nat /\ Cardinality(S \cup {c}) \in Nat
      BY <2>5, <3>1, FS_CardinalityType
    <3> QED
      BY <3>1, <3>2
  <2>7. Cardinality(S) + 1 <= Bill(i)
    BY <1>4 DEF ClaimsPaid, Owed
  <2>8. Bill(i)' = Bill(i) /\ Owed(i)' = 0
    BY <1>1, <1>2, <2>1 DEF Bill, Owed, Claimable
  <2>9. Exists(i)'
    BY <2>1 DEF Exists
  <2>10. IsFiniteSet(ClaimsOf(i))' /\ Cardinality(ClaimsOf(i))' = Cardinality(S \cup {c})
    BY <2>4, <2>6
  <2>11. Cardinality(ClaimsOf(i))' + Owed(i)' <= Bill(i)'
    <3> HIDE DEF S, c
    <3> QED
      BY <2>6, <2>7, <2>8, <2>10, BillType
  <2>12. ClaimsPaid(i)'
    BY <2>9, <2>10, <2>11 DEF ClaimsPaid
  <2> QED
    BY <2>2, <2>12
<1> QED
  BY <1>1, <1>3, <1>4

LEMMA StepPays ==
    ASSUME TypeOK, TypeOK', LeaseIffRunning, [Next]_vars, \A j \in Jobs : ClaimsPaid(j)
    PROVE  \A j \in Jobs : ClaimsPaid(j)'
<1>1. ASSUME \A j \in Jobs : Settled(j) PROVE \A j \in Jobs : ClaimsPaid(j)'
  BY <1>1, SettledStays
<1>2. ASSUME UNCHANGED <<status, current, attempts, takeovers, token>>
      PROVE  \A j \in Jobs : ClaimsPaid(j)'
  BY <1>1, <1>2, UntouchedSettled
<1>3. ASSUME NEW i \in Jobs, CallerNext(i) \/ ReconcilerNext(i) \/ TimeNext(i)
      PROVE  \A j \in Jobs : ClaimsPaid(j)'
  <2>1. ASSUME NEW r \in Runs, ExpireLease(i, r) PROVE \A j \in Jobs : ClaimsPaid(j)'
    BY <1>1, <2>1, ReclaimSettles
  <2>2. CASE CallerNext(i)
    BY <1>1, <2>2, CallerSettles
  <2>3. CASE RecoverRetryable(i)
    BY <1>1, <2>3, RetrySettles DEF RecoverRetryable
  <2>4. CASE TimeNext(i)
    BY <1>2, <2>4 DEF TimeNext, LeaseLapses, DelayElapses, jobVars, runVars
  <2> QED
    BY <1>3, <2>1, <2>2, <2>3, <2>4 DEF ReconcilerNext
<1>4. ASSUME NEW d \in Dispatchers, DispatcherNext(d) \/ DispatcherCrash(d)
      PROVE  \A j \in Jobs : ClaimsPaid(j)'
  <2>1. CASE ConfirmDispatch(d)
    <3>1. PICK m \in out[d] :
              /\ m[1] \in Jobs /\ UNCHANGED <<current, token>>
              /\ \/ /\ status[m[1]] = "queued"
                    /\ \E r \in Runs : SetStatus(m[1], r, "dispatched", FALSE)
                 \/ UNCHANGED status
      BY <2>1, ConfirmEffect
    <3>2. UNCHANGED <<attempts, takeovers>>
      BY <2>1 DEF ConfirmDispatch, MarkDispatched, jobVars
    <3>3. CASE UNCHANGED status
      BY <1>2, <3>1, <3>2, <3>3
    <3>4. ASSUME NEW i \in Jobs, NEW r \in Runs, i = m[1], status[i] = "queued",
                 SetStatus(i, r, "dispatched", FALSE)
          PROVE  \A j \in Jobs : ClaimsPaid(j)'
      <4>1. status'[i] = "dispatched" /\ \A j \in Jobs \ {i} : status'[j] = status[j]
        BY <3>4 DEF SetStatus, TypeOK, JobTypes
      <4>2. Bill(i)' = Bill(i) /\ Owed(i)' = Owed(i)
        BY <3>1, <3>2, <3>4, <4>1 DEF Bill, Owed, Claimable
      <4>3. Bill(i) + Owed(i)' <= Bill(i)' + Owed(i)
        BY <4>2, BillType
      <4> QED
        BY <1>1, <3>1, <3>2, <4>1, <4>3, OneSettles
    <3> QED
      BY <3>1, <3>3, <3>4
  <2> QED
    BY <1>2, <1>4, <2>1 DEF DispatcherNext, DispatcherCrash, DueDispatches, Send, DeferDispatch,
                            store, jobVars, runVars
<1>5. ASSUME NEW w \in Workers, NEW m \in queue, Claim(w, m)
      PROVE  \A j \in Jobs : ClaimsPaid(j)'
  BY <1>5, ClaimIsPaid
<1>6. ASSUME NEW w \in Workers, WorkerStep(w) \/ WorkerCrash(w)
      PROVE  \A j \in Jobs : ClaimsPaid(j)'
  <2>1. ASSUME NEW e \in FinishEvents, NEW open \in SUBSET Tasks, Finish(w, e, open)
        PROVE  \A j \in Jobs : ClaimsPaid(j)'
    BY <1>1, <2>1, FinishSettles
  <2>2. /\ {"publish_result", "needs_human", "retryable_error", "permanent_error",
            "cancel_acknowledged"} \subseteq FinishEvents
        /\ {} \in SUBSET Tasks
    BY DEF FinishEvents
  <2>3. CASE Publish(w) \/ FailRetryable(w) \/ FailPermanent(w) \/ AcknowledgeCancel(w)
    BY <2>1, <2>2, <2>3 DEF Publish, FailRetryable, FailPermanent, AcknowledgeCancel
  <2>4. ASSUME NEW open \in SUBSET Tasks, WaitForHuman(w, open)
        PROVE  \A j \in Jobs : ClaimsPaid(j)'
    BY <2>1, <2>2, <2>4 DEF WaitForHuman
  <2>5. CASE Reschedule(w)
    <3>1. ScheduleRetry(JobOf(w)) \/ UNCHANGED <<status, current, attempts, takeovers, token>>
      BY <2>5 DEF Reschedule, jobVars, runVars
    <3> QED
      BY <1>1, <1>2, <3>1, AttemptType, RetrySettles
  <2>6. CASE Heartbeat(w) \/ Put(w) \/ ReadJob(w) \/ Superseded(w) \/ Acknowledge(w)
             \/ WorkerCrash(w)
    BY <1>2, <2>6 DEF Heartbeat, Put, ReadJob, Superseded, Acknowledge, WorkerCrash, store,
                      jobVars, runVars
  <2> QED
    BY <1>6, <2>3, <2>4, <2>5, <2>6 DEF WorkerStep
<1>7. CASE UNCHANGED vars
  BY <1>2, <1>7 DEF vars, store, jobVars, runVars
<1> QED
  BY <1>3, <1>4, <1>5, <1>6, <1>7 DEF Next

\* EveryClaimIsPaid for any number of jobs, workers and runs and any policy: a job is claimed
\* at most once for each business attempt finish() counted, each lease expire_lease took
\* over and each run, so the policy's limits bound how often a job is worked on.
THEOREM ClaimsArePaid == Spec => []EveryClaimIsPaid
<1> DEFINE AllPaid == \A j \in Jobs : ClaimsPaid(j)
<1>1. Init => AllPaid
  <2> SUFFICES ASSUME Init, NEW j \in Jobs PROVE ClaimsPaid(j)
    OBVIOUS
  <2>1. ClaimsOf(j) = {}
    <3>1. \A r \in Runs : token[<<j, r>>] = 0
      BY DEF Init
    <3>2. \A r \in Runs : {r} \X (1..token[<<j, r>>]) = {}
      BY <3>1
    <3> QED
      BY <3>2 DEF ClaimsOf
  <2>2. IsFiniteSet({}) /\ Cardinality({}) = 0
    BY FS_EmptySet
  <2>3. Bill(j) = 0 /\ Owed(j) = 0
    BY DEF Init, Bill, Owed, None, Claimable
  <2>4. current[j] = None
    BY DEF Init
  <2> QED
    BY <2>1, <2>2, <2>3, <2>4 DEF ClaimsPaid
<1>2. TypeOK /\ TypeOK' /\ LeaseIffRunning /\ AllPaid /\ [Next]_vars => AllPaid'
  BY StepPays
<1>3. TypeOK /\ AllPaid => EveryClaimIsPaid
  <2> SUFFICES ASSUME TypeOK, AllPaid, NEW j \in Jobs
               PROVE  Cardinality(ClaimsOf(j)) <= attempts[j] + takeovers[j] + current[j]
    BY DEF EveryClaimIsPaid
  <2>1. Cardinality(ClaimsOf(j)) \in Nat /\ Owed(j) \in Nat /\ Bill(j) \in Nat
    BY FS_CardinalityType, BillType DEF ClaimsPaid
  <2>2. Cardinality(ClaimsOf(j)) + Owed(j) <= Bill(j)
    BY DEF ClaimsPaid
  <2> QED
    BY <2>1, <2>2 DEF Bill
<1> QED
  BY <1>1, <1>2, <1>3, TypeCorrect, LeaseSound, PTL DEF Spec
=============================================================================
