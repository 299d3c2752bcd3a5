----------------------- MODULE WorkflowRun_proofs ------------------------
(***************************************************************************)
(* Theorems about a controlled workflow run, for every set of runners and  *)
(* direct decisions, every assignment of them to attempts and every        *)
(* budget: the budget holds over all calls, a result is the history the    *)
(* trace tells, and no call starts beside or after an unsettled one.       *)
(*                                                                         *)
(* Only the owner of the reservation works.  What a step of the owner      *)
(* leaves to show is therefore a matter of its own call (OwnerStep).       *)
(*                                                                         *)
(* The run's attempts under both authorities (RunAuthority) and the        *)
(* session of an attempt (IntegratedSession) follow.                       *)
(***************************************************************************)
EXTENDS WorkflowRun, RunAuthority, IntegratedSession, JobState_proofs, FiniteSetTheorems, TLAPS

\* Calls that hold the reservation.
Working == {"begin", "loop", "active", "selecting", "proposed", "tool", "failing", "charging",
            "recording", "settle", "result", "abandon", "release"}
Last(events) == events[Len(events)]
Earned(events) == events # <<>> /\ Last(events).disposition = "executed"

\* Who works holds the reservation of a run that is bound to the own attempt and has no
\* result yet; no other attempt has ever done anything for it.
OwnersWork ==
    /\ \A p \in Procs : proc[p].pc \in Working => row.owner = p
    /\ row.owner # None => /\ proc[row.owner].pc \in Working \cup {"dead"}
                           /\ row.bound = AttemptOf[row.owner]
                           /\ row.result = NoResult
    /\ \A a \in Attempts : state[a] # "ready" => a = row.bound
    /\ row.result # NoResult => row.bound # None
    /\ \A p \in Procs : proc[p].pc \in {"begin", "loop", "result"} => p \in Runners

\* A call that was given up with its outcome unknown keeps the run from any other: the row
\* is quarantined, or its owner is about to abandon it, or has died with it.
LostIsSettled ==
    lost => \/ row.quarantined
            \/ row.owner # None /\ proc[row.owner].pc \in {"abandon", "dead"}

\* A budget says what the calls made have left of the initial one.
Exact(b) == b.steps + tools = Steps /\ b.calls + sent = ModelCalls

\* What an owner has still to charge for is no more than it has left; what it has charged
\* for is right, unless the run is quarantined, whose remaining calls are all charged.
Accounted(p) ==
    LET b == proc[p].budget
        n == proc[p].sends
        pc == proc[p].pc
    IN  /\ pc \in {"idle", "acquire", "begin", "loop", "active"} => n = 0
        /\ pc \in {"begin", "loop", "active", "charging", "recording", "settle", "result"} =>
              row.quarantined \/ Exact(b)
        /\ pc \in {"selecting", "proposed", "tool", "failing"} => n <= b.calls /\ n <= b.retries + 1
        /\ pc \in {"selecting", "proposed", "tool"} =>
              /\ ~row.quarantined /\ b.steps >= 1 /\ n >= 1
              /\ b.calls + sent = ModelCalls + n
              /\ b.steps + tools = IF pc = "tool" THEN Steps + 1 ELSE Steps
        /\ pc = "tool" => b.retries >= SentRetries(p) + proc[p].charge
        /\ pc = "failing" =>
              /\ row.quarantined \/ (b.steps + tools = Steps /\ b.calls + sent = ModelCalls + n)
              /\ proc[p].event.reason = "unknown" /\ n > 0 => row.quarantined
        /\ pc = "release" => row.quarantined \/ Exact(row.budget)
SpendIsAccounted ==
    /\ SpendIsBounded
    /\ row.owner = None => row.quarantined \/ Exact(row.budget)
    /\ \A p \in Procs : Accounted(p)

\* A runner knows the decisions of the trace, works on while its session's state is no
\* success, and holds a success for one only if the last decision has executed.
Informed(p) ==
    LET pc == proc[p].pc
        success == Success(StateOf(p))
    IN  /\ pc \in {"loop", "active", "selecting", "proposed", "tool", "failing", "charging",
                   "recording", "settle", "result"} => proc[p].events = trace.decisions
        /\ pc \in {"active", "selecting", "proposed", "tool", "failing", "charging"} => ~success
        /\ pc = "loop" /\ success => row.quarantined \/ Earned(proc[p].events)
        /\ pc \in {"recording", "settle"} /\ success =>
              row.quarantined \/ proc[p].event.disposition = "executed"
        /\ pc = "settle" => proc[p].events # <<>> /\ Last(proc[p].events) = proc[p].event
        /\ pc = "result" /\ Success(proc[p].result) =>
              /\ proc[p].result = StateOf(p)
              /\ row.quarantined \/ Earned(proc[p].events)
SuccessIsRecorded ==
    /\ \A p \in Runners : Informed(p)
    /\ \A p \in Procs : /\ proc[p].pc = "failing" => proc[p].event.disposition = "selection"
                        /\ proc[p].pc = "recording" => proc[p].event.disposition # "selection"
    /\ \A a \in Attempts : Success(state[a]) =>
          \/ row.quarantined \/ trace.decisions # <<>>
          \/ row.owner # None /\ proc[row.owner].pc \in {"recording", "abandon", "dead"}

Inv == /\ TypeOK /\ OwnersWork /\ LostIsSettled /\ SpendIsAccounted /\ SuccessIsRecorded
       /\ ResultIsTheTrace

(***************************************************************************)
(* What one call shows of the invariant                                    *)
(***************************************************************************)

LEMMA NoneIsNoCall == None \notin Procs /\ Runners \subseteq Procs
  BY WorkflowAssumption DEF Procs

\* What is true of a call that works.
LEMMA Owner ==
  ASSUME Inv, NEW p \in Procs, proc[p].pc \in Working
  PROVE  /\ row.owner = p /\ row.bound = AttemptOf[p] /\ row.result = NoResult
         /\ \A q \in Procs : q # p => proc[q].pc \notin Working
         /\ AttemptOf[p] \in Attempts
  BY NoneIsNoCall, WorkflowAssumption DEF Inv, OwnersWork

\* A call that does not work is asked for nothing but that it has sent nothing before it
\* works.
LEMMA Bystander ==
  ASSUME Inv, NEW q \in Procs, proc[q].pc \notin Working, proc'[q] = proc[q]
  PROVE  Accounted(q)' /\ Informed(q)'
<1>1. Accounted(q)  BY DEF Inv, SpendIsAccounted
<1>2. Accounted(q)'  BY <1>1 DEF Accounted, Working
<1>3. Informed(q)'  BY DEF Informed, Working
<1> QED  BY <1>2, <1>3

\* What the own call of p shows after a step of p that keeps the reservation.
Kept(p) ==
    /\ row.owner = p /\ row.bound = AttemptOf[p] /\ row.result = NoResult
    /\ proc[p].pc \in Working
    /\ proc[p].pc \in {"begin", "loop", "result"} => p \in Runners
    /\ lost => row.quarantined \/ proc[p].pc = "abandon"
    /\ SpendIsBounded /\ Accounted(p)
    /\ p \in Runners => Informed(p)
    /\ proc[p].pc = "failing" => proc[p].event.disposition = "selection"
    /\ proc[p].pc = "recording" => proc[p].event.disposition # "selection"
    /\ Success(StateOf(p)) => \/ row.quarantined \/ trace.decisions # <<>>
                              \/ proc[p].pc \in {"recording", "abandon"}

\* The calls and attempts a step of p leaves alone.
OnlyOf(p) ==
    /\ \A q \in Procs : q # p => proc'[q] = proc[q]
    /\ \A a \in Attempts : a # AttemptOf[p] => state'[a] = state[a]

LEMMA OwnerStep ==
  ASSUME Inv, NEW p \in Procs, proc[p].pc \in Working, TypeOK', OnlyOf(p), Kept(p)'
  PROVE  Inv'
<1> USE NoneIsNoCall
<1>1. \A q \in Procs : q # p => proc'[q] = proc[q] /\ proc[q].pc \notin Working
  BY Owner DEF OnlyOf
<1>2. AttemptOf[p] \in Attempts /\ row.bound = AttemptOf[p]  BY Owner
<1>3. AttemptOf' = AttemptOf  OBVIOUS
<1>4. /\ row'.owner = p /\ row'.bound = AttemptOf[p] /\ row'.result = NoResult
      /\ proc'[p].pc \in Working
  BY DEF Kept
<1>5. ASSUME NEW a \in Attempts, a # AttemptOf[p]  PROVE state'[a] = "ready"
  BY <1>2, <1>5 DEF Inv, OwnersWork, OnlyOf
<1>6. OwnersWork'
  <2>1. \A q \in Procs : proc'[q].pc \in Working => row'.owner = q  BY <1>1, <1>4
  <2>2. \A q \in Procs : proc'[q].pc \in {"begin", "loop", "result"} => q \in Runners
    BY <1>1 DEF Kept, Working
  <2>3. \A a \in Attempts : state'[a] # "ready" => a = row'.bound  BY <1>4, <1>5
  <2> QED  BY <2>1, <2>2, <2>3, <1>4 DEF OwnersWork, None, NoResult
<1>7. LostIsSettled'  BY <1>4 DEF Kept, LostIsSettled
<1>8. \A q \in Procs : q # p => Accounted(q)' /\ Informed(q)'  BY <1>1, Bystander
<1>9. SpendIsAccounted'
  <2>1. \A q \in Procs : Accounted(q)'  BY <1>8 DEF Kept
  <2> QED  BY <2>1, <1>4 DEF SpendIsAccounted, Kept
<1>10. SuccessIsRecorded'
  <2>1. \A q \in Runners : Informed(q)'  BY <1>8 DEF Kept
  <2>2. \A q \in Procs : /\ proc'[q].pc = "failing" => proc'[q].event.disposition = "selection"
                         /\ proc'[q].pc = "recording" => proc'[q].event.disposition # "selection"
    BY <1>1 DEF Kept, Working
  <2>3. ASSUME NEW a \in Attempts, Success(state'[a])
        PROVE  \/ row'.quarantined \/ trace'.decisions # <<>>
               \/ row'.owner # None /\ proc'[row'.owner].pc \in {"recording", "abandon", "dead"}
    <3>1. a = AttemptOf[p]  BY <1>5, <2>3 DEF Success
    <3> QED  BY <3>1, <2>3, <1>4 DEF Kept, StateOf
  <2> QED  BY <2>1, <2>2, <2>3 DEF SuccessIsRecorded, Success
<1>11. ResultIsTheTrace'  BY <1>4 DEF ResultIsTheTrace
<1> QED  BY <1>6, <1>7, <1>9, <1>10, <1>11 DEF Inv

(***************************************************************************)
(* Types of the locals                                                     *)
(***************************************************************************)

LEMMA Types ==
  ASSUME TypeOK
  PROVE  /\ row \in Rows /\ trace \in Trace /\ state \in [Attempts -> States]
         /\ proc \in [Procs -> CallRows] /\ sent \in Nat /\ tools \in Nat /\ lost \in BOOLEAN
         /\ live \in 1..(LastAttempt + 1)
  BY DEF TypeOK

LEMMA CallTypes ==
  ASSUME TypeOK, NEW p \in Procs
  PROVE  /\ proc[p] \in CallRows /\ proc[p].budget \in Budgets /\ proc[p].sends \in Nat
         /\ proc[p].event \in Events /\ proc[p].events \in Seq(Events)
         /\ proc[p].budget.steps \in Nat /\ proc[p].budget.calls \in Nat
         /\ proc[p].budget.retries \in Nat
         /\ row.budget.steps \in Nat /\ row.budget.calls \in Nat
         /\ StateOf(p) \in States /\ SentRetries(p) \in Nat /\ SentRetries(p) <= proc[p].sends
         /\ proc[p].sends >= 1 => SentRetries(p) = proc[p].sends - 1
         /\ proc[p].charge \in {0, 1} /\ proc[p].view \in States
<1>1. proc[p] \in CallRows  BY DEF TypeOK
<1>2. proc[p].sends \in Nat  BY <1>1, WorkflowAssumption DEF CallRows
<1>3. StateOf(p) \in States  BY WorkflowAssumption DEF TypeOK, StateOf
<1>4. row.budget \in Budgets  BY DEF TypeOK, Rows
<1>5. SentRetries(p) \in Nat /\ SentRetries(p) <= proc[p].sends
  BY <1>2 DEF SentRetries
<1>6. proc[p].sends >= 1 => SentRetries(p) = proc[p].sends - 1  BY <1>2 DEF SentRetries
<1> QED  BY <1>1, <1>2, <1>3, <1>4, <1>5, <1>6 DEF CallRows, Budgets

LEMMA Goes ==
  ASSUME TypeOK, NEW p \in Procs, NEW c \in CallRows, proc' = [proc EXCEPT ![p] = c]
  PROVE  /\ proc' \in [Procs -> CallRows] /\ proc'[p] = c
         /\ \A q \in Procs : q # p => proc'[q] = proc[q]
  BY DEF TypeOK

\* A step that moves only the control state of a call.
LEMMA GoesTo ==
  ASSUME TypeOK, NEW p \in Procs, NEW pc, Goto(p, pc), 
         pc \in {"abandon", "active", "proposed", "tool", "done", "fault", "release", "loop"}
  PROVE  /\ proc' \in [Procs -> CallRows]
         /\ proc'[p] = [proc[p] EXCEPT !.pc = pc]
         /\ proc'[p].pc = pc /\ proc'[p].view = proc[p].view /\ proc'[p].budget = proc[p].budget
         /\ proc'[p].charge = proc[p].charge /\ proc'[p].sends = proc[p].sends
         /\ proc'[p].seen = proc[p].seen /\ proc'[p].events = proc[p].events
         /\ proc'[p].event = proc[p].event /\ proc'[p].result = proc[p].result
         /\ \A q \in Procs : q # p => proc'[q] = proc[q]
<1>1. proc[p] \in CallRows  BY DEF TypeOK
<1>2. PICK c : c = [proc[p] EXCEPT !.pc = pc]  OBVIOUS
<1>3. c \in CallRows  BY <1>1, <1>2 DEF CallRows
<1>4. proc' = [proc EXCEPT ![p] = c]  BY <1>2 DEF Goto
<1>5. /\ proc' \in [Procs -> CallRows] /\ proc'[p] = c
      /\ \A q \in Procs : q # p => proc'[q] = proc[q]
  BY <1>3, <1>4, Goes
<1>6. /\ c.pc = pc /\ c.view = proc[p].view /\ c.budget = proc[p].budget
      /\ c.charge = proc[p].charge /\ c.sends = proc[p].sends
      /\ c.seen = proc[p].seen /\ c.events = proc[p].events
      /\ c.event = proc[p].event /\ c.result = proc[p].result
  BY <1>1, <1>2 DEF CallRows
<1> QED  BY <1>2, <1>5, <1>6

\* An owner that gives up leaves everything to its next step.
LEMMA GivesUp ==
  ASSUME Inv, NEW p \in Procs, proc[p].pc \in Working, Goto(p, "abandon"),
         row' \in Rows, row'.owner = row.owner, row'.bound = row.bound, row'.result = row.result,
         sent' = sent, tools' = tools, live' = live, trace' \in Trace, lost' \in BOOLEAN,
         state' \in [Attempts -> States], \A a \in Attempts : a # AttemptOf[p] => state'[a] = state[a]
  PROVE  Inv'
<1>1. TypeOK  BY DEF Inv
<1>2. /\ proc' \in [Procs -> CallRows] /\ proc'[p].pc = "abandon"
      /\ \A q \in Procs : q # p => proc'[q] = proc[q]
  BY <1>1, GoesTo
<1>3. TypeOK'  BY <1>1, <1>2 DEF TypeOK
<1>4. OnlyOf(p)  BY <1>2 DEF OnlyOf
<1>5. Kept(p)'
  <2>1. row.owner = p /\ row.bound = AttemptOf[p] /\ row.result = NoResult  BY Owner
  <2>2. SpendIsBounded'  BY DEF Inv, SpendIsAccounted, SpendIsBounded
  <2>3. Accounted(p)'  BY <1>2 DEF Accounted
  <2>4. Informed(p)'  BY <1>2 DEF Informed
  <2> QED  BY <1>2, <2>1, <2>2, <2>3, <2>4 DEF Kept, Working, NoResult
<1> QED  BY <1>3, <1>4, <1>5, OwnerStep

(***************************************************************************)
(* The steps                                                               *)
(***************************************************************************)

LEMMA RecordedType ==
  ASSUME trace \in Trace, NEW e \in Events
  PROVE  /\ Recorded(e) \in Trace
         /\ e.disposition = "selection" => Recorded(e).decisions = trace.decisions
         /\ e.disposition # "selection" => Recorded(e).decisions = Append(trace.decisions, e)
<1>1. trace.decisions \in Seq(Events) /\ trace.failures \in Nat  BY DEF Trace
<1>2. CASE e.disposition = "selection"
  <2>1. Recorded(e) = [trace EXCEPT !.failures = @ + 1]  BY <1>2 DEF Recorded
  <2>2. Recorded(e) = [decisions |-> trace.decisions, failures |-> trace.failures + 1]
    BY <2>1 DEF Trace
  <2> QED  BY <1>1, <1>2, <2>2 DEF Trace
<1>3. CASE e.disposition # "selection"
  <2>1. PICK es : es = Append(trace.decisions, e)  OBVIOUS
  <2>2. es \in Seq(Events)  BY <1>1, <2>1
  <2>3. Recorded(e) = [trace EXCEPT !.decisions = es]  BY <1>3, <2>1 DEF Recorded
  <2>4. Recorded(e) = [decisions |-> es, failures |-> trace.failures]
    BY <2>3 DEF Trace
  <2> QED  BY <1>1, <1>3, <2>1, <2>2, <2>4 DEF Trace
<1> QED  BY <1>2, <1>3

LEMMA RecordStep ==
  ASSUME Inv, NEW p \in Procs, Record(p)
  PROVE  Inv'
<1>1. TypeOK  BY DEF Inv
<1>2. proc[p].pc = "recording" /\ proc[p].pc \in Working  BY DEF Record, Working
<1>3. proc[p] \in CallRows /\ proc[p].event \in Events /\ proc[p].events \in Seq(Events)
  BY <1>1, CallTypes
<1>4. trace \in Trace /\ trace.decisions \in Seq(Events)  BY <1>1 DEF TypeOK, Trace
<1>5. Recorded(proc[p].event) \in Trace  BY <1>3, <1>4, RecordedType
<1>6. UNCHANGED <<live, row, state, sent, tools, lost>>  BY DEF Record
<1>7. CASE Goto(p, "abandon") /\ trace' \in {trace, Recorded(proc[p].event)}
  <2>1. trace' \in Trace /\ lost' \in BOOLEAN /\ state' \in [Attempts -> States] /\ row' \in Rows
    BY <1>1, <1>4, <1>5, <1>6, <1>7 DEF TypeOK
  <2> QED  BY <1>2, <1>6, <1>7, <2>1, GivesUp
<1>8. CASE /\ trace' = Recorded(proc[p].event)
           /\ proc' = [proc EXCEPT ![p].pc = "settle", ![p].events = Append(@, proc[p].event)]
  <2>1. PICK es : es = Append(proc[p].events, proc[p].event)  OBVIOUS
  <2>2. PICK c : c = [proc[p] EXCEPT !.pc = "settle", !.events = es]  OBVIOUS
  <2>3. es \in Seq(Events) /\ es # <<>> /\ Last(es) = proc[p].event  BY <1>3, <2>1 DEF Last
  <2>4. c \in CallRows  BY <1>3, <2>2, <2>3 DEF CallRows
  <2>5. proc' = [proc EXCEPT ![p] = c]  BY <1>8, <2>1, <2>2
  <2>6. /\ c.pc = "settle" /\ c.budget = proc[p].budget /\ c.sends = proc[p].sends
        /\ c.event = proc[p].event /\ c.events = es
    BY <1>3, <2>2 DEF CallRows
  <2>7. /\ proc' \in [Procs -> CallRows] /\ proc'[p] = c
        /\ \A q \in Procs : q # p => proc'[q] = proc[q]
    BY <1>1, <2>4, <2>5, Goes
  <2>8. TypeOK'  BY <1>1, <1>5, <1>6, <1>8, <2>7 DEF TypeOK
  <2>9. OnlyOf(p)  BY <1>6, <2>7 DEF OnlyOf
  <2>10. row.owner = p /\ row.bound = AttemptOf[p] /\ row.result = NoResult  BY <1>2, Owner
  <2>11. lost => row.quarantined
    BY <1>2, <2>10 DEF Inv, LostIsSettled
  <2>12. SpendIsBounded' /\ Accounted(p)'
    <3>1. SpendIsBounded /\ Accounted(p)  BY DEF Inv, SpendIsAccounted
    <3>2. row.quarantined \/ Exact(proc[p].budget)  BY <1>2, <3>1 DEF Accounted
    <3>3. (row.quarantined \/ Exact(proc[p].budget))'  BY <1>6, <2>6, <2>7, <3>2 DEF Exact
    <3> QED  BY <1>6, <2>6, <2>7, <3>1, <3>3 DEF SpendIsBounded, Accounted
  <2>13. proc[p].event.disposition # "selection"
    BY <1>2 DEF Inv, SuccessIsRecorded
  <2>14. trace'.decisions = Append(trace.decisions, proc[p].event)
    BY <1>3, <1>4, <1>8, <2>13, RecordedType
  <2>15. p \in Runners => Informed(p)'
    <3> SUFFICES ASSUME p \in Runners PROVE Informed(p)'  OBVIOUS
    <3>1. Informed(p)  BY DEF Inv, SuccessIsRecorded
    <3>2. proc[p].events = trace.decisions  BY <1>2, <3>1 DEF Informed
    <3>3. Success(StateOf(p)) => row.quarantined \/ proc[p].event.disposition = "executed"
      BY <1>2, <3>1 DEF Informed
    <3>4. StateOf(p)' = StateOf(p)  BY <1>6 DEF StateOf
    <3> QED  BY <1>6, <2>1, <2>3, <2>6, <2>7, <2>14, <3>2, <3>3, <3>4 DEF Informed, Success
  <2>16. trace'.decisions # <<>>  BY <1>3, <1>4, <2>14
  <2>17. Kept(p)'
    BY <1>6, <2>6, <2>7, <2>10, <2>11, <2>12, <2>15, <2>16 DEF Kept, Working, NoResult
  <2> QED  BY <1>2, <2>8, <2>9, <2>17, OwnerStep
<1> QED  BY <1>7, <1>8 DEF Record

LEMMA ChargedType ==
  ASSUME NEW b \in Budgets, NEW steps \in Nat, NEW sends \in Nat, NEW retries \in Nat,
         steps <= b.steps, sends <= b.calls, retries <= b.retries
  PROVE  /\ Charged(b, steps, sends, retries) \in Budgets
         /\ Charged(b, steps, sends, retries).steps = b.steps - steps
         /\ Charged(b, steps, sends, retries).calls = b.calls - sends
         /\ Charged(b, steps, sends, retries).retries = b.retries - retries
  BY DEF Charged, Budgets

LEMMA CheckpointRow ==
  ASSUME TypeOK, NEW b \in Budgets, Checkpoint(b)
  PROVE  /\ row' \in Rows /\ row'.owner = row.owner /\ row'.bound = row.bound
         /\ row'.result = row.result /\ row'.quarantined = row.quarantined /\ row'.budget = b
  BY DEF TypeOK, Rows, Checkpoint

\* What an owner knows before its step.
LEMMA Before ==
  ASSUME Inv, NEW p \in Procs, proc[p].pc \in Working
  PROVE  /\ TypeOK /\ SpendIsBounded /\ Accounted(p) /\ (p \in Runners => Informed(p))
         /\ row.owner = p /\ row.bound = AttemptOf[p] /\ row.result = NoResult
         /\ proc[p].pc # "abandon" => (lost => row.quarantined)
         /\ proc[p].pc \notin {"recording", "abandon"} =>
              (Success(StateOf(p)) => row.quarantined \/ trace.decisions # <<>>)
<1>1. row.owner = p /\ row.bound = AttemptOf[p] /\ row.result = NoResult /\ AttemptOf[p] \in Attempts
  BY Owner
<1>2. proc[p].pc # "abandon" => (lost => row.quarantined)
  BY <1>1 DEF Inv, LostIsSettled, Working
<1>3. proc[p].pc \notin {"recording", "abandon"} =>
              (Success(StateOf(p)) => row.quarantined \/ trace.decisions # <<>>)
  BY <1>1 DEF Inv, SuccessIsRecorded, StateOf, Working
<1> QED  BY <1>1, <1>2, <1>3 DEF Inv, SpendIsAccounted, SuccessIsRecorded

LEMMA RecordFailureStep ==
  ASSUME Inv, NEW p \in Procs, RecordFailure(p)
  PROVE  Inv'
<1>1. proc[p].pc = "failing" /\ proc[p].pc \in Working  BY DEF RecordFailure, Working
<1>2. TypeOK /\ Accounted(p) /\ SpendIsBounded  BY <1>1, Before
<1>3. UNCHANGED <<live, row, state, sent, tools, lost>>  BY DEF RecordFailure
<1>4. trace \in Trace /\ proc[p].event \in Events /\ Recorded(proc[p].event) \in Trace
  BY <1>2, CallTypes, RecordedType DEF TypeOK
<1>5. CASE Goto(p, "abandon") /\ trace' \in {trace, Recorded(proc[p].event)}
  <2>1. trace' \in Trace /\ lost' \in BOOLEAN /\ state' \in [Attempts -> States] /\ row' \in Rows
    BY <1>2, <1>3, <1>4, <1>5 DEF TypeOK
  <2> QED  BY <1>1, <1>3, <1>5, <2>1, GivesUp
<1>6. ASSUME NEW b \in Budgets, row.quarantined \/ Exact(b), trace' = Recorded(proc[p].event),
             proc' = [proc EXCEPT ![p].pc = "charging", ![p].budget = b]
      PROVE  Inv'
  <2>1. PICK c : c = [proc[p] EXCEPT !.pc = "charging", !.budget = b]  OBVIOUS
  <2>2. proc[p] \in CallRows  BY <1>2, CallTypes
  <2>3. c \in CallRows  BY <2>1, <2>2 DEF CallRows
  <2>4. proc' = [proc EXCEPT ![p] = c]  BY <1>6, <2>1
  <2>5. /\ c.pc = "charging" /\ c.budget = b /\ c.sends = proc[p].sends
        /\ c.event = proc[p].event /\ c.events = proc[p].events
    BY <2>1, <2>2 DEF CallRows
  <2>6. /\ proc' \in [Procs -> CallRows] /\ proc'[p] = c
        /\ \A q \in Procs : q # p => proc'[q] = proc[q]
    BY <1>2, <2>3, <2>4, Goes
  <2>7. TypeOK' /\ OnlyOf(p)  BY <1>2, <1>3, <1>4, <1>6, <2>6 DEF TypeOK, OnlyOf
  <2>8. proc[p].event.disposition = "selection"  BY <1>1 DEF Inv, SuccessIsRecorded
  <2>9. trace'.decisions = trace.decisions  BY <1>2, <1>4, <1>6, <2>8, RecordedType DEF TypeOK
  <2>10. SpendIsBounded' /\ Accounted(p)'
    <3>1. (row.quarantined \/ Exact(proc[p].budget))'  BY <1>3, <1>6, <2>5, <2>6 DEF Exact
    <3> QED  BY <1>2, <1>3, <2>5, <2>6, <3>1 DEF SpendIsBounded, Accounted
  <2>11. p \in Runners => Informed(p)'
    <3> SUFFICES ASSUME p \in Runners PROVE Informed(p)'  OBVIOUS
    <3>1. Informed(p) /\ StateOf(p)' = StateOf(p)  BY <1>1, <1>3, Before DEF StateOf
    <3> QED  BY <1>1, <2>5, <2>6, <2>9, <3>1 DEF Informed
  <2>12. Kept(p)'
    <3>1. (Success(StateOf(p)) => row.quarantined \/ trace.decisions # <<>>)'
      BY <1>1, <1>3, <2>9, Before DEF StateOf, Success
    <3> QED
      BY <1>1, <1>3, <2>5, <2>6, <2>10, <2>11, <3>1, Before DEF Kept, Working, NoResult
  <2> QED  BY <1>1, <2>7, <2>12, OwnerStep
<1>7. CASE /\ trace' = Recorded(proc[p].event)
           /\ proc' = [proc EXCEPT ![p].pc = "charging",
                                   ![p].budget = Charged(@, 0, proc[p].sends, SentRetries(p))]
  <2>1. PICK b : b = Charged(proc[p].budget, 0, proc[p].sends, SentRetries(p))  OBVIOUS
  <2>2. /\ proc[p].sends <= proc[p].budget.calls /\ proc[p].sends <= proc[p].budget.retries + 1
        /\ row.quarantined \/ /\ proc[p].budget.steps + tools = Steps
                              /\ proc[p].budget.calls + sent = ModelCalls + proc[p].sends
    BY <1>1, <1>2 DEF Accounted
  <2>3. /\ proc[p].budget \in Budgets /\ proc[p].sends \in Nat /\ SentRetries(p) \in Nat
        /\ 0 <= proc[p].budget.steps /\ SentRetries(p) <= proc[p].budget.retries
    BY <1>2, <2>2, CallTypes DEF SentRetries
  <2>4. /\ b \in Budgets /\ b.steps = proc[p].budget.steps - 0
        /\ b.calls = proc[p].budget.calls - proc[p].sends
    BY <2>1, <2>2, <2>3, ChargedType
  <2>5. row.quarantined \/ Exact(b)
    <3>1. sent \in Nat /\ tools \in Nat /\ ModelCalls \in Nat /\ Steps \in Nat
          /\ proc[p].budget.steps \in Nat /\ proc[p].budget.calls \in Nat
      BY <1>2, CallTypes, WorkflowAssumption DEF TypeOK
    <3>2. b.steps = proc[p].budget.steps /\ b.calls = proc[p].budget.calls - proc[p].sends
      BY <2>4, <3>1
    <3>3. row.quarantined \/ (b.steps + tools = Steps /\ b.calls + sent = ModelCalls)
      BY <2>2, <2>3, <3>1, <3>2, SMTT(30)
    <3> QED  BY <3>3 DEF Exact
  <2>6. proc' = [proc EXCEPT ![p].pc = "charging", ![p].budget = b]  BY <1>7, <2>1
  <2> QED  BY <1>6, <1>7, <2>4, <2>5, <2>6
<1>8. CASE /\ proc[p].event.reason = "unknown" /\ proc[p].sends > 0
           /\ trace' = Recorded(proc[p].event)
           /\ proc' = [proc EXCEPT ![p].pc = "charging", ![p].budget = Charged(@, 0, @.calls, 0)]
  <2>1. PICK b : b = Charged(proc[p].budget, 0, proc[p].budget.calls, 0)  OBVIOUS
  <2>2. b \in Budgets  BY <1>2, <2>1, CallTypes, ChargedType
  <2>3. row.quarantined  BY <1>1, <1>2, <1>8 DEF Accounted
  <2>4. proc' = [proc EXCEPT ![p].pc = "charging", ![p].budget = b]  BY <1>8, <2>1
  <2> QED  BY <1>6, <1>8, <2>2, <2>3, <2>4
<1> QED  BY <1>5, <1>7, <1>8 DEF RecordFailure

\* The steps of the runner's loop and the end of a direct decision: only the own call and
\* the budget in the row change, and what is left to spend is exact.
LEMMA Continues ==
  ASSUME Inv, NEW p \in Procs, proc[p].pc \in Working, proc[p].pc \notin {"recording", "abandon"},
         NEW c \in CallRows, proc' = [proc EXCEPT ![p] = c],
         UNCHANGED <<live, trace, state, sent, tools, lost>>,
         row' \in Rows, row'.owner = row.owner, row'.bound = row.bound, row'.result = row.result,
         row'.quarantined = row.quarantined,
         c.pc \in {"loop", "active", "result", "release"},
         c.pc \in {"loop", "result"} => p \in Runners,
         c.pc \in {"loop", "active"} => c.sends = 0,
         c.pc # "release" => row.quarantined \/ Exact(c.budget),
         c.pc = "release" => row.quarantined \/ Exact(row'.budget),
         p \in Runners /\ c.pc # "release" => c.events = trace.decisions,
         p \in Runners /\ c.pc = "active" => ~Success(StateOf(p)),
         c.pc = "loop" /\ Success(StateOf(p)) => row.quarantined \/ Earned(c.events),
         c.pc = "result" /\ Success(c.result) =>
            c.result = StateOf(p) /\ (row.quarantined \/ Earned(c.events))
  PROVE  Inv'
<1>1. TypeOK /\ SpendIsBounded  BY Before
<1>2. /\ proc' \in [Procs -> CallRows] /\ proc'[p] = c
      /\ \A q \in Procs : q # p => proc'[q] = proc[q]
  BY <1>1, Goes
<1>3. TypeOK' /\ OnlyOf(p)  BY <1>1, <1>2 DEF TypeOK, OnlyOf
<1>4. SpendIsBounded'  BY <1>1 DEF SpendIsBounded
<1>5. Accounted(p)'
  <2>1. proc'[p].pc = c.pc /\ proc'[p].sends = c.sends /\ proc'[p].budget = c.budget  BY <1>2
  <2>2. c.pc # "release" => (row.quarantined \/ Exact(proc[p].budget))'  BY <2>1 DEF Exact
  <2>3. c.pc = "release" => (row.quarantined \/ Exact(row.budget))'  BY DEF Exact
  <2> QED  BY <2>1, <2>2, <2>3 DEF Accounted
<1>6. StateOf(p)' = StateOf(p)  BY DEF StateOf
<1>7. p \in Runners => Informed(p)'  BY <1>2, <1>6 DEF Informed, Success, Earned, Last
<1>8. Kept(p)'
  <2>1. (Success(StateOf(p)) => row.quarantined \/ trace.decisions # <<>>)'
    BY <1>6, Before DEF Success
  <2>2. (lost => row.quarantined)'  BY Before
  <2>3. (row.owner = p /\ row.bound = AttemptOf[p] /\ row.result = NoResult)'
    BY Before DEF NoResult
  <2> QED  BY <1>2, <1>4, <1>5, <1>7, <2>1, <2>2, <2>3 DEF Kept, Working
<1> QED  BY <1>3, <1>8, OwnerStep

\* A call that gives up behind a checkpoint.
LEMMA GivesUpHere ==
  ASSUME Inv, NEW p \in Procs, proc[p].pc \in Working, Goto(p, "abandon"),
         UNCHANGED <<live, trace, state, sent, tools, lost>>,
         row' \in Rows, row'.owner = row.owner, row'.bound = row.bound, row'.result = row.result
  PROVE  Inv'
<1>1. trace' \in Trace /\ lost' \in BOOLEAN /\ state' \in [Attempts -> States]
  BY DEF Inv, TypeOK
<1> QED  BY <1>1, GivesUp

\* A runner concludes without a success.
LEMMA ConcludesWithout ==
  ASSUME Inv, NEW p \in Runners, proc[p].pc \in Working, proc[p].pc \notin {"recording", "abandon"},
         NEW termination \in Terminations, ~Success(termination),
         Conclude(p, proc[p], termination),
         UNCHANGED <<live, trace, state, sent, tools, lost>>,
         row' \in Rows, row'.owner = row.owner, row'.bound = row.bound, row'.result = row.result,
         row'.quarantined = row.quarantined,
         row.quarantined \/ Exact(proc[p].budget),
         proc[p].events = trace.decisions
  PROVE  Inv'
<1>1. p \in Procs  BY NoneIsNoCall
<1>2. proc[p] \in CallRows  BY <1>1, CallTypes DEF Inv
<1>3. PICK c : c = [proc[p] EXCEPT !.pc = "result", !.result = termination]  OBVIOUS
<1>4. c \in CallRows  BY <1>2, <1>3 DEF CallRows
<1>5. c.pc = "result" /\ c.result = termination  BY <1>2, <1>3 DEF CallRows
<1>6. c.budget = proc[p].budget /\ c.events = proc[p].events  BY <1>2, <1>3 DEF CallRows
<1>7. proc' = [proc EXCEPT ![p] = c]  BY <1>3 DEF Conclude
<1> QED  BY <1>1, <1>4, <1>5, <1>6, <1>7, Continues

LEMMA ChargeFailureStep ==
  ASSUME Inv, NEW p \in Procs, ChargeFailure(p)
  PROVE  Inv'
<1>1. /\ proc[p].pc = "charging" /\ proc[p].pc \in Working
      /\ proc[p].pc \notin {"recording", "abandon"}
  BY DEF ChargeFailure, Working
<1>2. TypeOK /\ Accounted(p) /\ (p \in Runners => Informed(p))  BY <1>1, Before
<1>3. UNCHANGED <<live, trace, state, sent, tools, lost>> /\ Checkpoint(proc[p].budget)
  BY DEF ChargeFailure
<1>4. proc[p] \in CallRows /\ proc[p].budget \in Budgets  BY <1>2, CallTypes
<1>5. /\ row' \in Rows /\ row'.owner = row.owner /\ row'.bound = row.bound
      /\ row'.result = row.result /\ row'.quarantined = row.quarantined
      /\ row'.budget = proc[p].budget
  BY <1>2, <1>3, <1>4, CheckpointRow
<1>6. row.quarantined \/ Exact(proc[p].budget)  BY <1>1, <1>2 DEF Accounted
<1>7. p \in Runners => proc[p].events = trace.decisions /\ ~Success(StateOf(p))
  BY <1>1, <1>2 DEF Informed
<1>8. CASE p \in Deciders /\ Goto(p, "release")
  <2>1. PICK c : c = [proc[p] EXCEPT !.pc = "release"]  OBVIOUS
  <2>2. c \in CallRows /\ c.pc = "release"  BY <1>4, <2>1 DEF CallRows
  <2>3. proc' = [proc EXCEPT ![p] = c]  BY <1>8, <2>1 DEF Goto
  <2> QED  BY <1>1, <1>3, <1>5, <1>6, <2>2, <2>3, Continues
<1>9. CASE p \in Runners /\ ~Current(p) /\ Goto(p, "abandon")
  BY <1>1, <1>3, <1>5, <1>9, GivesUpHere
<1>10. CASE /\ p \in Runners /\ proc[p].budget.retries > 0
            /\ proc' = [proc EXCEPT ![p].pc = "loop", ![p].sends = 0,
                                    ![p].budget = [proc[p].budget EXCEPT !.retries = @ - 1]]
  <2>1. PICK b : b = [proc[p].budget EXCEPT !.retries = @ - 1]  OBVIOUS
  <2>2. b \in Budgets /\ b.steps = proc[p].budget.steps /\ b.calls = proc[p].budget.calls
    BY <1>4, <1>10, <2>1 DEF Budgets
  <2>3. PICK c : c = [proc[p] EXCEPT !.pc = "loop", !.sends = 0, !.budget = b]  OBVIOUS
  <2>4. 0 \in 0..MaxSends  BY WorkflowAssumption
  <2>5. c \in CallRows  BY <1>4, <2>2, <2>3, <2>4 DEF CallRows
  <2>6. c.pc = "loop" /\ c.sends = 0 /\ c.budget = b /\ c.events = proc[p].events
    BY <1>4, <2>3 DEF CallRows
  <2>7. proc' = [proc EXCEPT ![p] = c]  BY <1>10, <2>1, <2>3
  <2>8. row.quarantined \/ Exact(c.budget)  BY <1>6, <2>2, <2>6 DEF Exact
  <2>9. p \in Runners /\ c.events = trace.decisions /\ ~Success(StateOf(p))
    BY <1>7, <1>10, <2>6
  <2>10. UNCHANGED <<live, trace, state, sent, tools, lost>>  BY <1>3
  <2> QED  BY <1>1, <1>5, <2>5, <2>6, <2>7, <2>8, <2>9, <2>10, Continues
<1>11. ASSUME NEW t \in {"exhausted", "permanent"}, p \in Runners, Conclude(p, proc[p], t)
       PROVE  Inv'
  <2>1. t \in Terminations /\ ~Success(t)  BY <1>11 DEF Terminations, Success
  <2> QED  BY <1>1, <1>3, <1>5, <1>6, <1>7, <1>11, <2>1, ConcludesWithout
<1> QED  BY <1>8, <1>9, <1>10, <1>11 DEF ChargeFailure

LEMMA FingerprintType ==
  ASSUME NEW e \in Events  PROVE Fingerprint(e) \in States \X Reasons
  BY DEF Fingerprint, Events

LEMMA BeginStep ==
  ASSUME Inv, NEW p \in Procs, Begin(p)
  PROVE  Inv'
<1> DEFINE events == trace.decisions
           failed == events # <<>> /\ events[Len(events)].disposition # "executed"
           known == {Fingerprint(events[i]) :
                       i \in {j \in 1..Len(events) : events[j].disposition # "executed"}}
<1>1. /\ proc[p].pc = "begin" /\ proc[p].pc \in Working
      /\ proc[p].pc \notin {"recording", "abandon"}
  BY DEF Begin, Working
<1>2. p \in Runners /\ TypeOK /\ Accounted(p)  BY <1>1, Before DEF Inv, OwnersWork
<1>3. UNCHANGED <<live, row, trace, state, sent, tools, lost>>  BY DEF Begin
<1>4. row' \in Rows  BY <1>2, <1>3 DEF TypeOK
<1>5. proc[p].sends = 0 /\ (row.quarantined \/ Exact(proc[p].budget))
  BY <1>1, <1>2 DEF Accounted
<1>6. proc[p] \in CallRows  BY <1>2, CallTypes
<1>7. events \in Seq(Events)  BY <1>2 DEF TypeOK, Trace
<1>8. known \subseteq States \X Reasons
  <2>1. ASSUME NEW i \in 1..Len(events)  PROVE Fingerprint(events[i]) \in States \X Reasons
    <3>1. events[i] \in Events  BY <1>7, <2>1
    <3> QED  BY <3>1, FingerprintType
  <2> QED  BY <2>1
<1>9. PICK k : k = known  OBVIOUS
<1>10. PICK locals : locals = [proc[p] EXCEPT !.events = trace.decisions, !.seen = k]  OBVIOUS
<1>11. locals \in CallRows  BY <1>6, <1>7, <1>8, <1>9, <1>10 DEF CallRows
<1>12. locals.budget = proc[p].budget /\ locals.sends = 0 /\ locals.events = trace.decisions
  BY <1>5, <1>6, <1>10 DEF CallRows
<1>13. row'.owner = row.owner /\ row'.bound = row.bound /\ row'.result = row.result
       /\ row'.quarantined = row.quarantined
  BY <1>3
<1>14. CASE ~Current(p) /\ Goto(p, "abandon")
  BY <1>1, <1>3, <1>4, <1>13, <1>14, GivesUpHere
<1>15. CASE Conclude(p, locals, "permanent")
  <2>1. PICK c : c = [locals EXCEPT !.pc = "result", !.result = "permanent"]  OBVIOUS
  <2>2. c \in CallRows  BY <1>11, <2>1 DEF CallRows, Terminations
  <2>3. c.pc = "result" /\ c.result = "permanent"  BY <1>11, <2>1 DEF CallRows
  <2>4. c.budget = proc[p].budget /\ c.events = trace.decisions
    BY <1>11, <1>12, <2>1 DEF CallRows
  <2>5. proc' = [proc EXCEPT ![p] = c]  BY <1>15, <2>1 DEF Conclude
  <2>6. ~Success(c.result)  BY <2>3 DEF Success
  <2> QED  BY <1>1, <1>2, <1>3, <1>4, <1>5, <1>13, <2>2, <2>3, <2>4, <2>5, <2>6, Continues
<1>16. ASSUME NEW c \in CallRows, c.pc = "loop", c.budget = locals.budget,
              c.events = locals.events, c.sends = locals.sends,
              proc' = [proc EXCEPT ![p] = c],
              Success(StateOf(p)) => ~failed
       PROVE  Inv'
  <2>1. Success(StateOf(p)) => row.quarantined \/ trace.decisions # <<>>  BY <1>1, Before
  <2>2. Success(StateOf(p)) => row.quarantined \/ Earned(c.events)
    BY <1>12, <1>16, <2>1 DEF Earned, Last
  <2> QED  BY <1>1, <1>2, <1>3, <1>4, <1>5, <1>12, <1>13, <1>16, <2>2, Continues
<1>17. CASE /\ ~Success(StateOf(p))
            /\ proc' = [proc EXCEPT ![p] = [locals EXCEPT !.pc = "loop", !.charge = 1]]
  <2>1. PICK c : c = [locals EXCEPT !.pc = "loop", !.charge = 1]  OBVIOUS
  <2>2. c \in CallRows  BY <1>11, <2>1 DEF CallRows
  <2>3. c.pc = "loop" /\ c.budget = locals.budget /\ c.events = locals.events
        /\ c.sends = locals.sends
    BY <1>11, <2>1 DEF CallRows
  <2>4. proc' = [proc EXCEPT ![p] = c]  BY <1>17, <2>1
  <2> QED  BY <1>16, <1>17, <2>2, <2>3, <2>4
<1>18. CASE /\ ~failed
            /\ proc' = [proc EXCEPT ![p] = [locals EXCEPT !.pc = "loop"]]
  <2>1. PICK c : c = [locals EXCEPT !.pc = "loop"]  OBVIOUS
  <2>2. c \in CallRows  BY <1>11, <2>1 DEF CallRows
  <2>3. c.pc = "loop" /\ c.budget = locals.budget /\ c.events = locals.events
        /\ c.sends = locals.sends
    BY <1>11, <2>1 DEF CallRows
  <2>4. proc' = [proc EXCEPT ![p] = c]  BY <1>18, <2>1
  <2> QED  BY <1>16, <1>18, <2>2, <2>3, <2>4
<1> QED  BY <1>9, <1>10, <1>14, <1>15, <1>17, <1>18 DEF Begin

LEMMA LoopStep ==
  ASSUME Inv, NEW p \in Procs, Loop(p)
  PROVE  Inv'
<1>1. /\ proc[p].pc = "loop" /\ proc[p].pc \in Working
      /\ proc[p].pc \notin {"recording", "abandon"}
  BY DEF Loop, Working
<1>2. p \in Runners /\ TypeOK  BY <1>1, Before DEF Inv, OwnersWork
<1>3. Accounted(p) /\ Informed(p)  BY <1>1, <1>2, Before
<1>4. UNCHANGED <<live, trace, state, sent, tools, lost>>  BY DEF Loop
<1>5. proc[p] \in CallRows /\ proc[p].budget \in Budgets  BY <1>2, CallTypes
<1>6. proc[p].sends = 0 /\ (row.quarantined \/ Exact(proc[p].budget))
  BY <1>1, <1>3 DEF Accounted
<1>7. /\ proc[p].events = trace.decisions
      /\ Success(StateOf(p)) => row.quarantined \/ Earned(proc[p].events)
  BY <1>1, <1>3 DEF Informed
<1>8. CASE ~Current(p) /\ Goto(p, "abandon") /\ UNCHANGED row
  <2>1. /\ row' \in Rows /\ row'.owner = row.owner /\ row'.bound = row.bound
        /\ row'.result = row.result
    BY <1>2, <1>8 DEF TypeOK
  <2> QED  BY <1>1, <1>4, <1>8, <2>1, GivesUpHere
<1>9. ASSUME Checkpoint(proc[p].budget)
      PROVE  /\ row' \in Rows /\ row'.owner = row.owner /\ row'.bound = row.bound
             /\ row'.result = row.result /\ row'.quarantined = row.quarantined
  BY <1>2, <1>5, <1>9, CheckpointRow
<1>10. CASE Checkpoint(proc[p].budget) /\ Success(StateOf(p)) /\ Conclude(p, proc[p], StateOf(p))
  <2>1. PICK c : c = [proc[p] EXCEPT !.pc = "result", !.result = StateOf(p)]  OBVIOUS
  <2>2. StateOf(p) \in Terminations  BY <1>10 DEF Success, Terminations
  <2>3. c \in CallRows  BY <1>5, <2>1, <2>2 DEF CallRows
  <2>4. c.pc = "result" /\ c.result = StateOf(p)  BY <1>5, <2>1 DEF CallRows
  <2>5. c.budget = proc[p].budget /\ c.events = proc[p].events  BY <1>5, <2>1 DEF CallRows
  <2>6. proc' = [proc EXCEPT ![p] = c]  BY <1>10, <2>1 DEF Conclude
  <2>7. row.quarantined \/ Earned(c.events)  BY <1>7, <1>10, <2>5
  <2> QED  BY <1>1, <1>2, <1>4, <1>6, <1>7, <1>9, <1>10, <2>3, <2>4, <2>5, <2>6, <2>7, Continues
<1>11. CASE Checkpoint(proc[p].budget) /\ Conclude(p, proc[p], "exhausted")
  <2>1. "exhausted" \in Terminations /\ ~Success("exhausted")  BY DEF Terminations, Success
  <2> QED  BY <1>1, <1>2, <1>4, <1>6, <1>7, <1>9, <1>11, <2>1, ConcludesWithout
<1>12. CASE Checkpoint(proc[p].budget) /\ ~Success(StateOf(p)) /\ Goto(p, "active")
  <2>1. PICK c : c = [proc[p] EXCEPT !.pc = "active"]  OBVIOUS
  <2>2. c \in CallRows  BY <1>5, <2>1 DEF CallRows
  <2>3. c.pc = "active" /\ c.sends = 0 /\ c.budget = proc[p].budget /\ c.events = proc[p].events
    BY <1>5, <1>6, <2>1 DEF CallRows
  <2>4. proc' = [proc EXCEPT ![p] = c]  BY <1>12, <2>1 DEF Goto
  <2> QED  BY <1>1, <1>2, <1>4, <1>6, <1>7, <1>9, <1>12, <2>2, <2>3, <2>4, Continues
<1> QED  BY <1>8, <1>10, <1>11, <1>12 DEF Loop

LEMMA SettleStep ==
  ASSUME Inv, NEW p \in Procs, Settle(p)
  PROVE  Inv'
<1>1. /\ proc[p].pc = "settle" /\ proc[p].pc \in Working
      /\ proc[p].pc \notin {"recording", "abandon"}
  BY DEF Settle, Working
<1>2. TypeOK /\ Accounted(p) /\ (p \in Runners => Informed(p))  BY <1>1, Before
<1>3. UNCHANGED <<live, trace, state, sent, tools, lost>> /\ Checkpoint(proc[p].budget)
  BY DEF Settle
<1>4. proc[p] \in CallRows /\ proc[p].budget \in Budgets /\ proc[p].event \in Events
  BY <1>2, CallTypes
<1>5. /\ row' \in Rows /\ row'.owner = row.owner /\ row'.bound = row.bound
      /\ row'.result = row.result /\ row'.quarantined = row.quarantined
      /\ row'.budget = proc[p].budget
  BY <1>2, <1>3, <1>4, CheckpointRow
<1>6. row.quarantined \/ Exact(proc[p].budget)  BY <1>1, <1>2 DEF Accounted
<1>7. p \in Runners => /\ proc[p].events = trace.decisions
                       /\ proc[p].events # <<>> /\ Last(proc[p].events) = proc[p].event
  BY <1>1, <1>2 DEF Informed
<1>8. 0 \in 0..MaxSends  BY WorkflowAssumption
<1>9. CASE p \in Deciders /\ Goto(p, "release")
  <2>1. PICK c : c = [proc[p] EXCEPT !.pc = "release"]  OBVIOUS
  <2>2. c \in CallRows /\ c.pc = "release"  BY <1>4, <2>1 DEF CallRows
  <2>3. proc' = [proc EXCEPT ![p] = c]  BY <1>9, <2>1 DEF Goto
  <2> QED  BY <1>1, <1>3, <1>5, <1>6, <2>2, <2>3, Continues
<1>10. CASE p \in Runners /\ ~Current(p) /\ Goto(p, "abandon")
  BY <1>1, <1>3, <1>5, <1>10, GivesUpHere
<1>11. CASE /\ p \in Runners /\ proc[p].event.disposition = "executed" /\ Success(StateOf(p))
            /\ Conclude(p, proc[p], StateOf(p))
  <2>1. PICK c : c = [proc[p] EXCEPT !.pc = "result", !.result = StateOf(p)]  OBVIOUS
  <2>2. StateOf(p) \in Terminations  BY <1>11 DEF Success, Terminations
  <2>3. c \in CallRows  BY <1>4, <2>1, <2>2 DEF CallRows
  <2>4. c.pc = "result" /\ c.result = StateOf(p)  BY <1>4, <2>1 DEF CallRows
  <2>5. c.budget = proc[p].budget /\ c.events = proc[p].events  BY <1>4, <2>1 DEF CallRows
  <2>6. proc' = [proc EXCEPT ![p] = c]  BY <1>11, <2>1 DEF Conclude
  <2>7. p \in Runners /\ Earned(c.events) /\ c.events = trace.decisions
    BY <1>7, <1>11, <2>5 DEF Earned
  <2>8. UNCHANGED <<live, trace, state, sent, tools, lost>>  BY <1>3
  <2> QED  BY <1>1, <1>5, <1>6, <2>3, <2>4, <2>5, <2>6, <2>7, <2>8, Continues
<1>12. ASSUME NEW c \in CallRows, c.pc = "loop", c.sends = 0, c.budget = proc[p].budget,
              c.events = proc[p].events, proc' = [proc EXCEPT ![p] = c],
              p \in Runners, ~Success(StateOf(p))
       PROVE  Inv'
  <2>1. UNCHANGED <<live, trace, state, sent, tools, lost>>  BY <1>3
  <2> QED  BY <1>1, <1>5, <1>6, <1>7, <1>12, <2>1, Continues
<1>13. CASE /\ p \in Runners /\ ~Success(StateOf(p))
            /\ proc' = [proc EXCEPT ![p].pc = "loop", ![p].charge = 0, ![p].sends = 0]
  <2>1. PICK c : c = [proc[p] EXCEPT !.pc = "loop", !.charge = 0, !.sends = 0]  OBVIOUS
  <2>2. c \in CallRows  BY <1>4, <1>8, <2>1 DEF CallRows
  <2>3. c.pc = "loop" /\ c.sends = 0 /\ c.budget = proc[p].budget /\ c.events = proc[p].events
    BY <1>4, <2>1 DEF CallRows
  <2>4. proc' = [proc EXCEPT ![p] = c]  BY <1>13, <2>1
  <2> QED  BY <1>12, <1>13, <2>2, <2>3, <2>4
<1>14. ASSUME p \in Runners, NEW t \in {"permanent", "no_progress", "exhausted"},
              Conclude(p, proc[p], t)
       PROVE  Inv'
  <2>1. t \in Terminations /\ ~Success(t)  BY DEF Terminations, Success
  <2>2. UNCHANGED <<live, trace, state, sent, tools, lost>>  BY <1>3
  <2>3. proc[p].events = trace.decisions  BY <1>7, <1>14
  <2> QED  BY <1>1, <1>5, <1>6, <1>14, <2>1, <2>2, <2>3, ConcludesWithout
<1>15. CASE /\ p \in Runners /\ ~Success(StateOf(p))
            /\ proc' = [proc EXCEPT ![p].pc = "loop", ![p].charge = 1, ![p].sends = 0,
                                    ![p].seen = @ \cup {Fingerprint(proc[p].event)}]
  <2>1. PICK k : k = proc[p].seen \cup {Fingerprint(proc[p].event)}  OBVIOUS
  <2>2. proc[p].seen \in SUBSET (States \X Reasons)  BY <1>4 DEF CallRows
  <2>3. k \in SUBSET (States \X Reasons)  BY <1>4, <2>1, <2>2, FingerprintType
  <2>4. PICK c : c = [proc[p] EXCEPT !.pc = "loop", !.charge = 1, !.sends = 0, !.seen = k]
    OBVIOUS
  <2>5. c \in CallRows  BY <1>4, <1>8, <2>3, <2>4 DEF CallRows
  <2>6. c.pc = "loop" /\ c.sends = 0 /\ c.budget = proc[p].budget /\ c.events = proc[p].events
    BY <1>4, <2>4 DEF CallRows
  <2>7. proc' = [proc EXCEPT ![p] = c]  BY <1>15, <2>1, <2>4
  <2> QED  BY <1>12, <1>15, <2>5, <2>6, <2>7
<1>16. ASSUME p \in Runners, AfterFailure(p)  PROVE Inv'
  BY <1>14, <1>15, <1>16 DEF AfterFailure
<1> QED  BY <1>9, <1>10, <1>11, <1>13, <1>16 DEF Settle

LEMMA QuarantinedRow ==
  ASSUME TypeOK
  PROVE  /\ Quarantined \in Rows /\ Quarantined.owner = row.owner
         /\ Quarantined.bound = row.bound /\ Quarantined.result = row.result
         /\ Quarantined.quarantined = TRUE /\ Quarantined.budget = row.budget
  BY DEF TypeOK, Rows, Quarantined

\* A selection fails: what it has sent is known to fit the budget, or the run is quarantined.
LEMMA SelectionFailsStep ==
  ASSUME Inv, NEW p \in Procs, proc[p].pc \in {"active", "selecting"},
         NEW reason \in Reasons, NEW stored \in {row, Quarantined}, SelectionFails(p, reason, stored),
         UNCHANGED <<live, trace, state, sent, tools>>, lost' \in BOOLEAN,
         lost' => lost \/ stored = Quarantined,
         reason = "unknown" => row.quarantined \/ stored = Quarantined
  PROVE  Inv'
<1>1. proc[p].pc \in Working /\ proc[p].pc \notin {"recording", "abandon"}  BY DEF Working
<1>2. TypeOK /\ Accounted(p) /\ SpendIsBounded  BY <1>1, Before
<1>3. proc[p] \in CallRows /\ StateOf(p) \in States  BY <1>2, CallTypes
<1>4. /\ row' \in Rows /\ row'.owner = row.owner /\ row'.bound = row.bound
      /\ row'.result = row.result /\ row'.quarantined = (row.quarantined \/ stored = Quarantined)
  <2>1. row' = stored  BY DEF SelectionFails
  <2>2. row \in Rows /\ row.quarantined \in BOOLEAN  BY <1>2 DEF TypeOK, Rows
  <2>3. CASE stored = Quarantined  BY <1>2, <2>1, <2>3, QuarantinedRow
  <2>4. CASE stored = row /\ stored # Quarantined  BY <2>1, <2>2, <2>4
  <2> QED  BY <2>3, <2>4
<1>5. PICK e : e = [disposition |-> "selection", reason |-> reason, at |-> StateOf(p)]  OBVIOUS
<1>6. e \in Events /\ e.disposition = "selection" /\ e.reason = reason
  BY <1>3, <1>5 DEF Events
<1>7. PICK c : c = [proc[p] EXCEPT !.pc = "failing", !.event = e]  OBVIOUS
<1>8. c \in CallRows  BY <1>3, <1>6, <1>7 DEF CallRows
<1>9. /\ c.pc = "failing" /\ c.budget = proc[p].budget /\ c.sends = proc[p].sends
      /\ c.event = e /\ c.events = proc[p].events
  BY <1>3, <1>7 DEF CallRows
<1>10. proc' = [proc EXCEPT ![p] = c]  BY <1>5, <1>7 DEF SelectionFails
<1>11. /\ proc' \in [Procs -> CallRows] /\ proc'[p] = c
       /\ \A q \in Procs : q # p => proc'[q] = proc[q]
  BY <1>2, <1>8, <1>10, Goes
<1>12. TypeOK' /\ OnlyOf(p)  BY <1>2, <1>4, <1>11 DEF TypeOK, OnlyOf
<1>13. SpendIsBounded'  BY <1>2 DEF SpendIsBounded
<1>14. Accounted(p)'
  <2>1. /\ proc[p].budget.steps \in Nat /\ proc[p].budget.calls \in Nat /\ proc[p].sends \in Nat
        /\ proc[p].budget.retries \in Nat /\ sent \in Nat /\ tools \in Nat
        /\ ModelCalls \in Nat /\ Steps \in Nat
    BY <1>2, CallTypes, WorkflowAssumption DEF TypeOK
  <2>2. /\ proc[p].sends <= proc[p].budget.calls /\ proc[p].sends <= proc[p].budget.retries + 1
        /\ row.quarantined \/ /\ proc[p].budget.steps + tools = Steps
                              /\ proc[p].budget.calls + sent = ModelCalls + proc[p].sends
    <3>1. CASE proc[p].pc = "active"  BY <1>2, <2>1, <3>1 DEF Accounted, Exact
    <3>2. CASE proc[p].pc = "selecting"  BY <1>2, <2>1, <3>2 DEF Accounted
    <3> QED  BY <3>1, <3>2
  <2> QED  BY <1>4, <1>6, <1>9, <1>11, <2>2 DEF Accounted
<1>15. StateOf(p)' = StateOf(p)  BY DEF StateOf
<1>16. p \in Runners => Informed(p)'
  <2> SUFFICES ASSUME p \in Runners PROVE Informed(p)'  OBVIOUS
  <2>1. proc[p].events = trace.decisions /\ ~Success(StateOf(p))  BY <1>1, Before DEF Informed
  <2> QED  BY <1>9, <1>11, <1>15, <2>1 DEF Informed, Success
<1>17. Kept(p)'
  <2>1. (Success(StateOf(p)) => row.quarantined \/ trace.decisions # <<>>)'
    BY <1>1, <1>4, <1>15, Before DEF Success
  <2>2. (lost => row.quarantined)'  BY <1>1, <1>4, Before
  <2>3. (row.owner = p /\ row.bound = AttemptOf[p] /\ row.result = NoResult)'
    BY <1>1, <1>4, Before DEF NoResult
  <2> QED  BY <1>6, <1>9, <1>11, <1>13, <1>14, <1>16, <2>1, <2>2, <2>3 DEF Kept, Working
<1> QED  BY <1>1, <1>12, <1>17, OwnerStep

LEMMA SelectStep ==
  ASSUME Inv, NEW p \in Procs, Select(p)
  PROVE  Inv'
<1> DEFINE offer == IF p \in Runners THEN StateOf(p) ELSE proc[p].view
<1>1. proc[p].pc = "active" /\ proc[p].pc \in Working  BY DEF Select, Working
<1>2. TypeOK /\ Accounted(p) /\ SpendIsBounded  BY <1>1, Before
<1>3. UNCHANGED <<live, trace, state, tools, lost>>  BY DEF Select
<1>4. proc[p] \in CallRows /\ offer \in States  BY <1>2, CallTypes
<1>5. lost' \in BOOLEAN /\ row \in Rows  BY <1>2, <1>3 DEF TypeOK
<1>6. "unknown" \in Reasons /\ "malformed" \in Reasons  BY DEF Reasons
<1>7. CASE Goto(p, "abandon") /\ UNCHANGED <<row, sent>>
  BY <1>1, <1>3, <1>5, <1>7, GivesUpHere
<1>8. CASE row.quarantined /\ SelectionFails(p, "unknown", row) /\ UNCHANGED sent
  BY <1>1, <1>3, <1>5, <1>6, <1>8, SelectionFailsStep
<1>9. CASE SelectionFails(p, "unknown", Quarantined) /\ UNCHANGED sent
  BY <1>1, <1>3, <1>5, <1>6, <1>9, SelectionFailsStep
<1>10. CASE SelectionFails(p, "malformed", row) /\ UNCHANGED sent
  BY <1>1, <1>3, <1>5, <1>6, <1>10, SelectionFailsStep
<1>11. ASSUME ~row.quarantined, Offered(p, offer), row' = row, NEW n \in 1..MaxSends,
              n <= Smaller(proc[p].budget.calls, proc[p].budget.retries + 1),
              proc' = [proc EXCEPT ![p].pc = "selecting", ![p].sends = n, ![p].view = offer],
              sent' = sent + n
       PROVE  Inv'
  <2>1. /\ n \in Nat /\ n >= 1 /\ n \in 0..MaxSends
        /\ n <= proc[p].budget.calls /\ n <= proc[p].budget.retries + 1
        /\ sent \in Nat /\ tools \in Nat /\ ModelCalls \in Nat /\ Steps \in Nat
        /\ proc[p].budget.calls \in Nat /\ proc[p].budget.steps \in Nat
    <3>1. proc[p].budget.calls \in Nat /\ proc[p].budget.steps \in Nat
          /\ proc[p].budget.retries \in Nat
      BY <1>2, CallTypes
    <3>2. n \in Nat /\ n >= 1 /\ n \in 0..MaxSends  BY WorkflowAssumption
    <3>3. n <= proc[p].budget.calls /\ n <= proc[p].budget.retries + 1
      BY <1>11, <3>1, <3>2 DEF Smaller
    <3> QED  BY <1>2, <3>1, <3>2, <3>3, WorkflowAssumption DEF TypeOK
  <2>2. proc[p].budget.steps >= 1  BY <1>11 DEF Offered
  <2>3. PICK v : v = offer  OBVIOUS
  <2>4. PICK c : c = [proc[p] EXCEPT !.pc = "selecting", !.sends = n, !.view = v]  OBVIOUS
  <2>5. c \in CallRows  BY <1>4, <2>1, <2>3, <2>4 DEF CallRows
  <2>6. /\ c.pc = "selecting" /\ c.sends = n /\ c.budget = proc[p].budget
        /\ c.events = proc[p].events
    BY <1>4, <2>4 DEF CallRows
  <2>7. proc' = [proc EXCEPT ![p] = c]  BY <1>11, <2>3, <2>4
  <2>8. /\ proc' \in [Procs -> CallRows] /\ proc'[p] = c
        /\ \A q \in Procs : q # p => proc'[q] = proc[q]
    BY <1>2, <2>5, <2>7, Goes
  <2>9. TypeOK' /\ OnlyOf(p)  BY <1>2, <1>3, <1>11, <2>1, <2>8 DEF TypeOK, OnlyOf
  <2>10. proc[p].budget.steps + tools = Steps /\ proc[p].budget.calls + sent = ModelCalls
    BY <1>1, <1>2, <1>11 DEF Accounted, Exact
  <2>11. sent' <= ModelCalls /\ proc[p].budget.calls + sent' = ModelCalls + n
    BY <1>11, <2>1, <2>10
  <2>12. SpendIsBounded'  BY <1>2, <1>3, <2>11 DEF SpendIsBounded
  <2>13. Accounted(p)'
    BY <1>3, <1>11, <2>1, <2>2, <2>6, <2>8, <2>10, <2>11 DEF Accounted
  <2>14. StateOf(p)' = StateOf(p)  BY <1>3 DEF StateOf
  <2>15. p \in Runners => Informed(p)'
    <3> SUFFICES ASSUME p \in Runners PROVE Informed(p)'  OBVIOUS
    <3>1. proc[p].events = trace.decisions /\ ~Success(StateOf(p))
      BY <1>1, Before DEF Informed
    <3> QED  BY <1>3, <2>6, <2>8, <2>14, <3>1 DEF Informed, Success
  <2>16. Kept(p)'
    <3>1. (Success(StateOf(p)) => row.quarantined \/ trace.decisions # <<>>)'
      BY <1>1, <1>3, <1>11, <2>14, Before DEF Success
    <3>2. (lost => row.quarantined)'  BY <1>1, <1>3, <1>11, Before
    <3>3. (row.owner = p /\ row.bound = AttemptOf[p] /\ row.result = NoResult)'
      BY <1>1, <1>11, Before DEF NoResult
    <3> QED  BY <2>6, <2>8, <2>12, <2>13, <2>15, <3>1, <3>2, <3>3 DEF Kept, Working
  <2> QED  BY <1>1, <2>9, <2>16, OwnerStep
<1> QED  BY <1>7, <1>8, <1>9, <1>10, <1>11 DEF Select

LEMMA SelectorReturnsStep ==
  ASSUME Inv, NEW p \in Procs, SelectorReturns(p)
  PROVE  Inv'
<1>1. proc[p].pc = "selecting" /\ proc[p].pc \in Working  BY DEF SelectorReturns, Working
<1>2. TypeOK /\ Accounted(p) /\ SpendIsBounded  BY <1>1, Before
<1>3. UNCHANGED <<live, trace, state, sent, tools>>  BY DEF SelectorReturns
<1>4. {"throttled", "malformed", "unknown"} \subseteq Reasons  BY DEF Reasons
<1>5. lost \in BOOLEAN  BY <1>2 DEF TypeOK
<1>6. CASE Goto(p, "proposed") /\ UNCHANGED <<row, lost>>
  <2>1. /\ proc' \in [Procs -> CallRows] /\ proc'[p].pc = "proposed"
        /\ proc'[p].budget = proc[p].budget /\ proc'[p].sends = proc[p].sends
        /\ proc'[p].events = proc[p].events
        /\ \A q \in Procs : q # p => proc'[q] = proc[q]
    BY <1>2, <1>6, GoesTo
  <2>2. TypeOK' /\ OnlyOf(p)  BY <1>2, <1>3, <1>6, <2>1 DEF TypeOK, OnlyOf
  <2>3. SpendIsBounded' /\ Accounted(p)'
    BY <1>1, <1>2, <1>3, <1>6, <2>1 DEF SpendIsBounded, Accounted
  <2>4. StateOf(p)' = StateOf(p)  BY <1>3 DEF StateOf
  <2>5. p \in Runners => Informed(p)'
    <3> SUFFICES ASSUME p \in Runners PROVE Informed(p)'  OBVIOUS
    <3>1. proc[p].events = trace.decisions /\ ~Success(StateOf(p))
      BY <1>1, Before DEF Informed
    <3> QED  BY <1>3, <2>1, <2>4, <3>1 DEF Informed, Success
  <2>6. Kept(p)'
    <3>1. (Success(StateOf(p)) => row.quarantined \/ trace.decisions # <<>>)'
      BY <1>1, <1>3, <1>6, <2>4, Before DEF Success
    <3>2. (lost => row.quarantined)'  BY <1>1, <1>6, Before
    <3>3. (row.owner = p /\ row.bound = AttemptOf[p] /\ row.result = NoResult)'
      BY <1>1, <1>6, Before DEF NoResult
    <3> QED  BY <2>1, <2>3, <2>5, <3>1, <3>2, <3>3 DEF Kept, Working
  <2> QED  BY <1>1, <2>2, <2>6, OwnerStep
<1>7. ASSUME NEW reason \in {"throttled", "malformed"}, SelectionFails(p, reason, row),
             UNCHANGED lost
      PROVE  Inv'
  BY <1>1, <1>3, <1>4, <1>5, <1>7, SelectionFailsStep
<1>8. CASE SelectionFails(p, "unknown", Quarantined) /\ lost' = TRUE
  BY <1>1, <1>3, <1>4, <1>5, <1>8, SelectionFailsStep
<1> QED  BY <1>6, <1>7, <1>8 DEF SelectorReturns

\* A decision is about to be recorded: unless the run is quarantined its charge is exact,
\* and a success is only there behind a tool that has executed.
LEMMA DecideStep ==
  ASSUME Inv, NEW p \in Procs, proc[p].pc \in {"proposed", "tool"},
         NEW disposition \in {"executed", "failed", "rejected"}, NEW reason \in Reasons,
         NEW at \in States, NEW b \in Budgets, Dispose(p, disposition, reason, at, b),
         UNCHANGED <<live, trace, sent, tools>>, lost' \in BOOLEAN,
         state' \in [Attempts -> States],
         \A a \in Attempts : a # AttemptOf[p] => state'[a] = state[a],
         row' \in {row, Quarantined}, lost' => lost \/ row' = Quarantined,
         row'.quarantined \/ Exact(b),
         p \in Runners /\ Success(state'[AttemptOf[p]]) =>
            row'.quarantined \/ disposition = "executed"
  PROVE  Inv'
<1>1. proc[p].pc \in Working /\ proc[p].pc \notin {"recording", "abandon"}  BY DEF Working
<1>2. TypeOK /\ SpendIsBounded  BY <1>1, Before
<1>3. proc[p] \in CallRows  BY <1>2, CallTypes
<1>4. /\ row' \in Rows /\ row'.owner = row.owner /\ row'.bound = row.bound
      /\ row'.result = row.result /\ (row.quarantined => row'.quarantined)
  <2>1. row \in Rows  BY <1>2 DEF TypeOK
  <2> QED  BY <1>2, <2>1, QuarantinedRow
<1>5. row' = Quarantined => row'.quarantined  BY <1>2, QuarantinedRow
<1>6. PICK e : e = [disposition |-> disposition, reason |-> reason, at |-> at]  OBVIOUS
<1>7. e \in Events /\ e.disposition = disposition  BY <1>6 DEF Events
<1>8. PICK c : c = [proc[p] EXCEPT !.pc = "recording", !.budget = b, !.event = e]  OBVIOUS
<1>9. c \in CallRows  BY <1>3, <1>7, <1>8 DEF CallRows
<1>10. /\ c.pc = "recording" /\ c.budget = b /\ c.event = e /\ c.events = proc[p].events
  BY <1>3, <1>8 DEF CallRows
<1>11. proc' = [proc EXCEPT ![p] = c]  BY <1>6, <1>8 DEF Dispose
<1>12. /\ proc' \in [Procs -> CallRows] /\ proc'[p] = c
       /\ \A q \in Procs : q # p => proc'[q] = proc[q]
  BY <1>2, <1>9, <1>11, Goes
<1>13. TypeOK' /\ OnlyOf(p)  BY <1>2, <1>4, <1>12 DEF TypeOK, OnlyOf
<1>14. SpendIsBounded' /\ Accounted(p)'
  <2>1. (row.quarantined \/ Exact(proc[p].budget))'  BY <1>10, <1>12 DEF Exact
  <2> QED  BY <1>2, <1>10, <1>12, <2>1 DEF SpendIsBounded, Accounted
<1>15. p \in Runners => Informed(p)'
  <2> SUFFICES ASSUME p \in Runners PROVE Informed(p)'  OBVIOUS
  <2>1. proc[p].events = trace.decisions  BY <1>1, Before DEF Informed
  <2>2. StateOf(p)' = state'[AttemptOf[p]]  BY DEF StateOf
  <2> QED  BY <1>7, <1>10, <1>12, <2>1, <2>2 DEF Informed, Success
<1>16. Kept(p)'
  <2>1. (lost => row.quarantined)'  BY <1>1, <1>4, <1>5, Before
  <2>2. row.owner = p /\ row.bound = AttemptOf[p] /\ row.result = NoResult  BY <1>1, Before
  <2>3. row'.owner = p /\ row'.bound = AttemptOf[p] /\ row'.result = NoResult  BY <1>4, <2>2
  <2> QED  BY <1>7, <1>10, <1>12, <1>14, <1>15, <2>1, <2>3 DEF Kept, Working, NoResult
<1> QED  BY <1>1, <1>13, <1>16, OwnerStep

LEMMA AdmitStep ==
  ASSUME Inv, NEW p \in Procs, Admit(p)
  PROVE  Inv'
<1>1. /\ proc[p].pc = "proposed" /\ proc[p].pc \in Working
      /\ proc[p].pc \notin {"recording", "abandon"}
  BY DEF Admit, Working
<1>2. TypeOK /\ Accounted(p) /\ SpendIsBounded  BY <1>1, Before
<1>3. UNCHANGED <<live, row, trace, state, sent, lost>>  BY DEF Admit
<1>4. /\ proc[p].sends <= proc[p].budget.calls /\ proc[p].sends <= proc[p].budget.retries + 1
      /\ ~row.quarantined /\ proc[p].budget.steps >= 1 /\ proc[p].sends >= 1
      /\ proc[p].budget.calls + sent = ModelCalls + proc[p].sends
      /\ proc[p].budget.steps + tools = Steps
  BY <1>1, <1>2 DEF Accounted
<1>5. /\ proc[p].budget.steps \in Nat /\ proc[p].budget.calls \in Nat /\ proc[p].sends \in Nat
      /\ proc[p].budget.retries \in Nat /\ sent \in Nat /\ tools \in Nat
      /\ SentRetries(p) = proc[p].sends - 1 /\ SentRetries(p) \in Nat
      /\ ModelCalls \in Nat /\ Steps \in Nat /\ proc[p].budget \in Budgets
  BY <1>2, <1>4, CallTypes, WorkflowAssumption DEF TypeOK
<1>6. /\ row' \in Rows /\ row'.owner = row.owner /\ row'.bound = row.bound
      /\ row'.result = row.result
  BY <1>2, <1>3 DEF TypeOK
<1>7. CASE Goto(p, "abandon") /\ UNCHANGED tools
  BY <1>1, <1>3, <1>6, <1>7, GivesUpHere
<1>8. CASE /\ Dispose(p, "rejected", "malformed", proc[p].view,
                     Charged(proc[p].budget, 0, proc[p].sends, SentRetries(p)))
           /\ UNCHANGED tools
  <2>1. PICK b : b = Charged(proc[p].budget, 0, proc[p].sends, SentRetries(p))  OBVIOUS
  <2>2. /\ 0 <= proc[p].budget.steps /\ SentRetries(p) <= proc[p].budget.retries
        /\ proc[p].sends <= proc[p].budget.calls /\ 0 \in Nat
    BY <1>4, <1>5
  <2>3. proc[p].budget \in Budgets /\ proc[p].sends \in Nat /\ SentRetries(p) \in Nat
    BY <1>5
  <2>4. /\ b \in Budgets /\ b.steps = proc[p].budget.steps - 0
        /\ b.calls = proc[p].budget.calls - proc[p].sends
    BY <2>1, <2>2, <2>3, ChargedType
  <2>5. b.steps = proc[p].budget.steps  BY <1>5, <2>4
  <2>6. b.calls + sent = ModelCalls
    <3>1. PICK k, n, m \in Nat : k = proc[p].budget.calls /\ n = proc[p].sends /\ m = sent
      BY <1>5
    <3>2. k + m = ModelCalls + n /\ b.calls = k - n  BY <1>4, <2>4, <3>1
    <3>3. (k - n) + m = ModelCalls  BY <1>5, <3>2
    <3> QED  BY <3>1, <3>2, <3>3
  <2>7. Exact(b)  BY <1>4, <2>5, <2>6 DEF Exact
  <2>8. p \in Runners => ~Success(state'[AttemptOf[p]])
    BY <1>1, <1>3, Before DEF Informed, StateOf
  <2>9. /\ lost' \in BOOLEAN /\ state' \in [Attempts -> States] /\ proc[p].view \in States
        /\ \A a \in Attempts : a # AttemptOf[p] => state'[a] = state[a]
    BY <1>2, <1>3, CallTypes DEF TypeOK
  <2>10. "malformed" \in Reasons  BY DEF Reasons
  <2>11. Dispose(p, "rejected", "malformed", proc[p].view, b)  BY <1>8, <2>1
  <2> QED  BY <1>1, <1>3, <1>8, <2>4, <2>7, <2>8, <2>9, <2>10, <2>11, DecideStep
<1>9. CASE /\ proc[p].budget.retries >= SentRetries(p) + proc[p].charge
           /\ Goto(p, "tool") /\ tools' = tools + 1
  <2>1. /\ proc' \in [Procs -> CallRows] /\ proc'[p].pc = "tool"
        /\ proc'[p].budget = proc[p].budget /\ proc'[p].sends = proc[p].sends
        /\ proc'[p].charge = proc[p].charge /\ proc'[p].events = proc[p].events
        /\ \A q \in Procs : q # p => proc'[q] = proc[q]
    BY <1>2, <1>9, GoesTo
  <2>2. TypeOK' /\ OnlyOf(p)  BY <1>2, <1>3, <1>5, <1>9, <2>1 DEF TypeOK, OnlyOf
  <2>3. proc[p].budget.steps + tools' = Steps + 1 /\ tools' <= Steps
    BY <1>4, <1>5, <1>9
  <2>4. SpendIsBounded'  BY <1>2, <1>3, <2>3 DEF SpendIsBounded
  <2>5. SentRetries(p)' = SentRetries(p)  BY <2>1 DEF SentRetries
  <2>6. Accounted(p)'  BY <1>3, <1>4, <1>9, <2>1, <2>3, <2>5 DEF Accounted
  <2>7. StateOf(p)' = StateOf(p)  BY <1>3 DEF StateOf
  <2>8. p \in Runners => Informed(p)'
    <3> SUFFICES ASSUME p \in Runners PROVE Informed(p)'  OBVIOUS
    <3>1. proc[p].events = trace.decisions /\ ~Success(StateOf(p))
      BY <1>1, Before DEF Informed
    <3> QED  BY <1>3, <2>1, <2>7, <3>1 DEF Informed, Success
  <2>9. Kept(p)'
    <3>1. (Success(StateOf(p)) => row.quarantined \/ trace.decisions # <<>>)'
      BY <1>1, <1>3, <2>7, Before DEF Success
    <3>2. (lost => row.quarantined)'  BY <1>1, <1>3, Before
    <3>3. (row.owner = p /\ row.bound = AttemptOf[p] /\ row.result = NoResult)'
      BY <1>1, <1>3, Before DEF NoResult
    <3> QED  BY <2>1, <2>4, <2>6, <2>8, <3>1, <3>2, <3>3 DEF Kept, Working
  <2> QED  BY <1>1, <2>2, <2>9, OwnerStep
<1> QED  BY <1>7, <1>8, <1>9 DEF Admit

LEMMA MovedType ==
  ASSUME NEW s \in States  PROVE Moved(s) \cup {s} \subseteq States
  BY DEF Moved, States

LEMMA ToolReturnsStep ==
  ASSUME Inv, NEW p \in Procs, ToolReturns(p)
  PROVE  Inv'
<1> DEFINE s == StateOf(p)
           charged == Charged(proc[p].budget, 1, proc[p].sends, SentRetries(p) + proc[p].charge)
           moves(t) == state' = [state EXCEPT ![AttemptOf[p]] = t]
<1>1. proc[p].pc = "tool" /\ proc[p].pc \in Working  BY DEF ToolReturns, Working
<1>2. TypeOK /\ Accounted(p)  BY <1>1, Before
<1>3. UNCHANGED <<live, trace, sent, tools>>  BY DEF ToolReturns
<1>4. AttemptOf[p] \in Attempts /\ s \in States /\ Moved(s) \cup {s} \subseteq States
  BY <1>2, WorkflowAssumption, CallTypes, MovedType
<1>5. ASSUME NEW t \in States, moves(t)
      PROVE  /\ state' \in [Attempts -> States] /\ state'[AttemptOf[p]] = t
             /\ \A a \in Attempts : a # AttemptOf[p] => state'[a] = state[a]
  BY <1>2, <1>4, <1>5 DEF TypeOK
<1>6. PICK b : b = charged  OBVIOUS
<1>7. /\ proc[p].sends <= proc[p].budget.calls /\ proc[p].budget.steps >= 1
      /\ SentRetries(p) + proc[p].charge <= proc[p].budget.retries
      /\ proc[p].budget.calls + sent = ModelCalls + proc[p].sends
      /\ proc[p].budget.steps + tools = Steps + 1
  <2>1. proc[p].budget.retries \in Nat /\ SentRetries(p) \in Nat /\ proc[p].charge \in {0, 1}
    BY <1>2, CallTypes
  <2> QED  BY <1>1, <1>2, <2>1 DEF Accounted
<1>8. b \in Budgets /\ Exact(b)
  <2>1. PICK r \in Nat : r = SentRetries(p) + proc[p].charge  BY <1>2, CallTypes
  <2>2. PICK x, k, n, m, u \in Nat : /\ x = proc[p].budget.steps /\ k = proc[p].budget.calls
                                     /\ n = proc[p].sends /\ m = sent /\ u = tools
    BY <1>2, CallTypes DEF TypeOK
  <2>3. /\ proc[p].budget \in Budgets /\ 1 \in Nat /\ 1 <= proc[p].budget.steps
        /\ n <= proc[p].budget.calls /\ r <= proc[p].budget.retries
    BY <1>2, <1>7, <2>1, <2>2, CallTypes
  <2>4. b = Charged(proc[p].budget, 1, n, r)  BY <1>6, <2>1, <2>2
  <2>5. b \in Budgets /\ b.steps = x - 1 /\ b.calls = k - n
    <3>1. /\ b \in Budgets /\ b.steps = proc[p].budget.steps - 1
          /\ b.calls = proc[p].budget.calls - n
      BY <2>3, <2>4, ChargedType
    <3> QED  BY <2>2, <3>1
  <2>6. k + m = ModelCalls + n /\ x + u = Steps + 1  BY <1>7, <2>2
  <2>7. (k - n) + m = ModelCalls /\ (x - 1) + u = Steps
    BY <2>6, WorkflowAssumption
  <2> QED  BY <2>2, <2>5, <2>7 DEF Exact
<1>9. lost \in BOOLEAN /\ row \in Rows  BY <1>2 DEF TypeOK
<1>10. {"ok", "fault", "error", "refused", "unknown"} \subseteq Reasons  BY DEF Reasons
<1>11. CASE /\ Goto(p, "abandon") /\ UNCHANGED row /\ lost' \in {lost, TRUE}
            /\ \E t \in Moved(s) \cup {s} : moves(t)
  <2>1. PICK t \in States : moves(t)  BY <1>4, <1>11
  <2>2. trace' \in Trace /\ lost' \in BOOLEAN  BY <1>2, <1>3, <1>9, <1>11 DEF TypeOK
  <2>3. /\ row' \in Rows /\ row'.owner = row.owner /\ row'.bound = row.bound
        /\ row'.result = row.result
    BY <1>9, <1>11
  <2>4. /\ state' \in [Attempts -> States]
        /\ \A a \in Attempts : a # AttemptOf[p] => state'[a] = state[a]
    BY <1>5, <2>1
  <2> QED  BY <1>1, <1>3, <1>11, <2>2, <2>3, <2>4, GivesUp
<1>12. CASE /\ \E t \in Moved(s) : moves(t)
            /\ Dispose(p, "executed", "ok", s, charged)
            /\ UNCHANGED <<row, lost>>
  <2>1. PICK t \in States : moves(t)  BY <1>4, <1>12
  <2>2. /\ state' \in [Attempts -> States]
        /\ \A a \in Attempts : a # AttemptOf[p] => state'[a] = state[a]
    BY <1>5, <2>1
  <2>3. Dispose(p, "executed", "ok", s, b)  BY <1>6, <1>12
  <2>4. row' = row /\ lost' = lost  BY <1>12
  <2> QED  BY <1>1, <1>3, <1>4, <1>8, <1>9, <1>10, <2>2, <2>3, <2>4, DecideStep
<1>13. CASE /\ \E reason \in {"fault", "error", "refused"} : Dispose(p, "failed", reason, s, charged)
            /\ UNCHANGED <<row, state, lost>>
  <2>1. PICK reason \in {"fault", "error", "refused"} : Dispose(p, "failed", reason, s, b)
    BY <1>6, <1>13
  <2>2. /\ state' \in [Attempts -> States] /\ row' = row /\ lost' = lost
        /\ \A a \in Attempts : a # AttemptOf[p] => state'[a] = state[a]
    BY <1>2, <1>13 DEF TypeOK
  <2>3. p \in Runners => ~Success(state'[AttemptOf[p]])
    BY <1>1, <1>13, Before DEF Informed, StateOf
  <2>4. reason \in Reasons  BY <1>10
  <2> QED  BY <1>1, <1>3, <1>4, <1>8, <1>9, <2>1, <2>2, <2>3, <2>4, DecideStep
<1>14. CASE /\ \E reason \in {"error", "refused", "unknown"} : Dispose(p, "failed", reason, s, charged)
            /\ \E t \in Moved(s) \cup {s} : moves(t)
            /\ row' = Quarantined /\ lost' = TRUE
  <2>1. PICK reason \in {"error", "refused", "unknown"} : Dispose(p, "failed", reason, s, b)
    BY <1>6, <1>14
  <2>2. PICK t \in States : moves(t)  BY <1>4, <1>14
  <2>3. /\ state' \in [Attempts -> States]
        /\ \A a \in Attempts : a # AttemptOf[p] => state'[a] = state[a]
    BY <1>5, <2>2
  <2>4. reason \in Reasons  BY <1>10
  <2>5. row' = Quarantined /\ lost' = TRUE /\ row'.quarantined  BY <1>2, <1>14, QuarantinedRow
  <2> QED  BY <1>1, <1>3, <1>4, <1>8, <2>1, <2>3, <2>4, <2>5, DecideStep
<1> QED  BY <1>11, <1>12, <1>13, <1>14 DEF ToolReturns

(***************************************************************************)
(* The steps that take and give back the reservation                       *)
(***************************************************************************)

\* The owner gives its reservation back and works no more.
LEMMA FreesStep ==
  ASSUME Inv, NEW p \in Procs, proc[p].pc \in Working,
         proc' \in [Procs -> CallRows], proc'[p].pc \in {"fault", "done"},
         \A q \in Procs : q # p => proc'[q] = proc[q],
         UNCHANGED <<live, trace, state, sent, tools, lost>>,
         row' \in Rows, row'.owner = None, row'.bound = row.bound,
         row'.quarantined \/ Exact(row'.budget),
         lost => row'.quarantined,
         Success(StateOf(p)) => row'.quarantined \/ trace.decisions # <<>>,
         ResultIsTheTrace'
  PROVE  Inv'
<1>1. /\ row.owner = p /\ row.bound = AttemptOf[p] /\ AttemptOf[p] \in Attempts
      /\ \A q \in Procs : q # p => proc[q].pc \notin Working
  BY Owner
<1>2. TypeOK'  BY DEF Inv, TypeOK
<1>3. \A q \in Procs : proc'[q].pc \notin Working
  BY <1>1 DEF Working
<1>4. OwnersWork'
  <2>1. \A a \in Attempts : state'[a] # "ready" => a = row'.bound  BY DEF Inv, OwnersWork
  <2>2. row'.bound # None  BY <1>1 DEF Attempts, None
  <2> QED  BY <1>3, <2>1, <2>2 DEF OwnersWork, Working
<1>5. LostIsSettled'  BY DEF LostIsSettled
<1>6. \A q \in Procs : Accounted(q)' /\ Informed(q)'
  <2>1. ASSUME NEW q \in Procs, q # p  PROVE Accounted(q)' /\ Informed(q)'
    BY <1>1, <2>1, Bystander
  <2>2. Accounted(p)' /\ Informed(p)'  BY DEF Accounted, Informed
  <2> QED  BY <2>1, <2>2
<1>7. SpendIsAccounted'
  <2>1. (row.quarantined \/ Exact(row.budget))'  BY DEF Exact
  <2> QED  BY <1>6, <2>1 DEF Inv, SpendIsAccounted, SpendIsBounded
<1>8. SuccessIsRecorded'
  <2>1. ASSUME NEW a \in Attempts, Success(state[a])
        PROVE  row'.quarantined \/ trace'.decisions # <<>>
    <3>1. a = AttemptOf[p]  BY <1>1, <2>1 DEF Inv, OwnersWork, Success
    <3> QED  BY <2>1, <3>1 DEF StateOf
  <2>2. \A q \in Procs : proc'[q].pc \notin {"failing", "recording"}  BY <1>3 DEF Working
  <2> QED  BY <1>6, <2>1, <2>2, NoneIsNoCall DEF SuccessIsRecorded, Success
<1> QED  BY <1>2, <1>4, <1>5, <1>7, <1>8 DEF Inv

LEMMA AbandonStep ==
  ASSUME Inv, NEW p \in Procs, Abandon(p)
  PROVE  Inv'
<1>1. proc[p].pc = "abandon" /\ proc[p].pc \in Working  BY DEF Abandon, Working
<1>2. TypeOK /\ row.result = NoResult  BY <1>1, Before
<1>3. Goto(p, "fault") /\ UNCHANGED <<live, trace, state, sent, tools, lost>>  BY DEF Abandon
<1>4. /\ proc' \in [Procs -> CallRows] /\ proc'[p].pc = "fault"
      /\ \A q \in Procs : q # p => proc'[q] = proc[q]
  BY <1>2, <1>3, GoesTo
<1>5. PICK r : r = Quarantined  OBVIOUS
<1>6. r \in Rows /\ r.quarantined /\ r.bound = row.bound /\ r.result = row.result
  BY <1>2, <1>5, QuarantinedRow
<1>7. row' = [r EXCEPT !.owner = None]  BY <1>5 DEF Abandon
<1>8. /\ row' \in Rows /\ row'.owner = None /\ row'.bound = row.bound
      /\ row'.quarantined /\ row'.result = NoResult
  BY <1>2, <1>6, <1>7 DEF Rows
<1>9. ResultIsTheTrace'  BY <1>8 DEF ResultIsTheTrace, NoResult
<1> QED  BY <1>1, <1>3, <1>4, <1>8, <1>9, FreesStep

LEMMA ReleaseStep ==
  ASSUME Inv, NEW p \in Procs, ReleaseRun(p)
  PROVE  Inv'
<1>1. proc[p].pc = "release" /\ proc[p].pc \in Working /\ proc[p].pc \notin {"recording", "abandon"}
  BY DEF ReleaseRun, Working
<1>2. TypeOK /\ row.result = NoResult /\ Accounted(p)  BY <1>1, Before
<1>3. Goto(p, "done") /\ UNCHANGED <<live, trace, state, sent, tools, lost>>  BY DEF ReleaseRun
<1>4. /\ proc' \in [Procs -> CallRows] /\ proc'[p].pc = "done"
      /\ \A q \in Procs : q # p => proc'[q] = proc[q]
  BY <1>2, <1>3, GoesTo
<1>5. row' = [row EXCEPT !.owner = None] /\ row \in Rows  BY <1>2 DEF ReleaseRun, TypeOK
<1>6. /\ row' \in Rows /\ row'.owner = None /\ row'.bound = row.bound
      /\ row'.quarantined = row.quarantined /\ row'.budget = row.budget
      /\ row'.result = NoResult
  BY <1>2, <1>5 DEF Rows
<1>7. ResultIsTheTrace'  BY <1>6 DEF ResultIsTheTrace, NoResult
<1>8. row'.quarantined \/ Exact(row'.budget)  BY <1>1, <1>2, <1>6 DEF Accounted
<1>9. /\ lost => row'.quarantined
      /\ Success(StateOf(p)) => row'.quarantined \/ trace.decisions # <<>>
  BY <1>1, <1>6, Before
<1> QED  BY <1>1, <1>3, <1>4, <1>6, <1>7, <1>8, <1>9, FreesStep

LEMMA CompleteStep ==
  ASSUME Inv, NEW p \in Procs, Complete(p)
  PROVE  Inv'
<1>1. proc[p].pc = "result" /\ proc[p].pc \in Working /\ proc[p].pc \notin {"recording", "abandon"}
  BY DEF Complete, Working
<1>2. p \in Runners  BY <1>1 DEF Inv, OwnersWork
<1>3. TypeOK /\ Accounted(p) /\ Informed(p) /\ row.owner = p /\ row.bound = AttemptOf[p]
  BY <1>1, <1>2, Before
<1>4. UNCHANGED <<live, trace, state, sent, tools, lost>>  BY DEF Complete
<1>5. row \in Rows /\ proc[p] \in CallRows /\ trace \in Trace  BY <1>3, CallTypes DEF TypeOK
<1>6. CASE Goto(p, "abandon") /\ UNCHANGED row
  BY <1>1, <1>4, <1>5, <1>6, GivesUpHere
<1>7. CASE /\ ~(row.quarantined /\ Success(proc[p].result))
           /\ row' = [row EXCEPT !.owner = None, !.budget = proc[p].budget,
                                 !.result = [termination |-> proc[p].result,
                                             events |-> proc[p].events,
                                             failures |-> trace.failures]]
           /\ Goto(p, "done")
  <2>1. /\ proc' \in [Procs -> CallRows] /\ proc'[p].pc = "done"
        /\ \A q \in Procs : q # p => proc'[q] = proc[q]
    BY <1>3, <1>7, GoesTo
  <2>2. PICK x : x = [termination |-> proc[p].result, events |-> proc[p].events,
                      failures |-> trace.failures]
    OBVIOUS
  <2>3. x \in Results /\ x.termination = proc[p].result /\ x.events = proc[p].events
        /\ x.failures = trace.failures
    BY <1>5, <2>2 DEF Results, CallRows, Trace
  <2>4. PICK b \in Budgets : b = proc[p].budget  BY <1>3, CallTypes
  <2>5. row' = [row EXCEPT !.owner = None, !.budget = b, !.result = x]  BY <1>7, <2>2, <2>4
  <2>6. /\ row' \in Rows /\ row'.owner = None /\ row'.bound = row.bound
        /\ row'.quarantined = row.quarantined /\ row'.budget = b /\ row'.result = x
    BY <1>5, <2>3, <2>4, <2>5 DEF Rows
  <2>7. row'.quarantined \/ Exact(row'.budget)  BY <1>1, <1>3, <2>4, <2>6 DEF Accounted
  <2>8. /\ lost => row.quarantined
        /\ Success(StateOf(p)) => row.quarantined \/ trace.decisions # <<>>
    BY <1>1, Before
  <2>9. proc[p].events = trace.decisions  BY <1>1, <1>3 DEF Informed
  <2>10. Success(proc[p].result) =>
           /\ ~lost /\ ~row.quarantined /\ proc[p].result = StateOf(p)
           /\ proc[p].events # <<>> /\ proc[p].events[Len(proc[p].events)].disposition = "executed"
    BY <1>1, <1>3, <1>7, <2>8 DEF Informed, Earned, Last
  <2>11. ResultIsTheTrace'
    <3>1. row'.result.events = trace'.decisions /\ row'.result.failures = trace'.failures
      BY <1>4, <2>3, <2>6, <2>9
    <3>2. state'[row'.bound] = StateOf(p)  BY <1>3, <1>4, <2>6 DEF StateOf
    <3> QED  BY <1>4, <2>3, <2>6, <2>10, <3>1, <3>2 DEF ResultIsTheTrace, Success
  <2> QED  BY <1>1, <1>4, <2>1, <2>6, <2>7, <2>8, <2>11, FreesStep
<1> QED  BY <1>6, <1>7 DEF Complete

\* A call that does not work yet, and will not: it starts, replays a result or is refused.
\* The row may have been bound for it.
LEMMA AsideStep ==
  ASSUME Inv, NEW p \in Procs, proc[p].pc \in {"idle", "acquire"},
         proc' \in [Procs -> CallRows], proc'[p].pc \in {"acquire", "fault", "done"},
         proc'[p].sends = proc[p].sends,
         \A q \in Procs : q # p => proc'[q] = proc[q],
         UNCHANGED <<live, trace, state, sent, tools, lost>>,
         row' \in Rows, row'.owner = row.owner, row'.quarantined = row.quarantined,
         row'.budget = row.budget, row'.result = row.result,
         row'.bound = row.bound \/ row.bound = None
  PROVE  Inv'
<1>1. TypeOK'  BY DEF Inv, TypeOK
<1>2. proc[p].pc \notin Working /\ row.owner # p  BY NoneIsNoCall DEF Inv, OwnersWork, Working
<1>3. row.owner # None => row.owner \in Procs /\ proc'[row.owner] = proc[row.owner]
  BY <1>2 DEF Inv, TypeOK, Rows
<1>4. \A q \in Procs : proc'[q].pc \in Working => proc[q].pc \in Working /\ proc'[q] = proc[q]
  BY DEF Working
<1>5. row.bound = None => /\ row.owner = None /\ row.result = NoResult
                          /\ \A a \in Attempts : state[a] = "ready"
  <2>1. ASSUME NEW q \in Procs  PROVE AttemptOf[q] # None
    BY WorkflowAssumption DEF Attempts, None
  <2> QED  BY <1>3, <2>1 DEF Inv, OwnersWork, Attempts, None
<1>6. OwnersWork'
  <2>1. \A q \in Procs : proc'[q].pc \in Working => row'.owner = q
    BY <1>4 DEF Inv, OwnersWork
  <2>2. row'.owner # None => /\ proc'[row'.owner].pc \in Working \cup {"dead"}
                             /\ row'.bound = AttemptOf[row'.owner]
                             /\ row'.result = NoResult
    BY <1>3, <1>5 DEF Inv, OwnersWork
  <2>3. \A a \in Attempts : state'[a] # "ready" => a = row'.bound
    BY <1>5 DEF Inv, OwnersWork
  <2>4. row'.result # NoResult => row'.bound # None  BY <1>5 DEF Inv, OwnersWork
  <2>5. \A q \in Procs : proc'[q].pc \in {"begin", "loop", "result"} => q \in Runners
    BY <1>4 DEF Inv, OwnersWork, Working
  <2> QED  BY <2>1, <2>2, <2>3, <2>4, <2>5 DEF OwnersWork, NoResult
<1>7. LostIsSettled'  BY <1>3 DEF Inv, LostIsSettled
<1>8. \A q \in Procs : Accounted(q)' /\ (q \in Runners => Informed(q)')
  <2>1. ASSUME NEW q \in Procs, q # p
        PROVE  Accounted(q)' /\ (q \in Runners => Informed(q)')
    <3>1. Accounted(q) /\ (q \in Runners => Informed(q))
      BY DEF Inv, SpendIsAccounted, SuccessIsRecorded
    <3>2. proc'[q] = proc[q] /\ SentRetries(q)' = SentRetries(q) /\ StateOf(q)' = StateOf(q)
      BY <2>1 DEF SentRetries, StateOf
    <3>3. Accounted(q)'  BY <3>1, <3>2 DEF Accounted, Exact
    <3>4. q \in Runners => Informed(q)'  BY <3>1, <3>2 DEF Informed, Success, Earned, Last
    <3> QED  BY <3>3, <3>4
  <2>2. Accounted(p)' /\ Informed(p)'
    <3>1. proc'[p].sends = 0  BY DEF Inv, SpendIsAccounted, Accounted
    <3> QED  BY <3>1 DEF Accounted, Informed
  <2> QED  BY <2>1, <2>2
<1>9. SpendIsAccounted'
  <2>1. (row.owner = None => row.quarantined \/ Exact(row.budget))'
    BY DEF Inv, SpendIsAccounted, Exact
  <2> QED  BY <1>8, <2>1 DEF Inv, SpendIsAccounted, SpendIsBounded
<1>10. SuccessIsRecorded'
  <2>1. \A q \in Procs : /\ proc'[q].pc = "failing" => proc'[q].event.disposition = "selection"
                         /\ proc'[q].pc = "recording" => proc'[q].event.disposition # "selection"
    BY <1>4 DEF Inv, SuccessIsRecorded, Working
  <2>2. ASSUME NEW a \in Attempts, Success(state[a])
        PROVE  \/ row'.quarantined \/ trace'.decisions # <<>>
               \/ row'.owner # None /\ proc'[row'.owner].pc \in {"recording", "abandon", "dead"}
    BY <1>3, <2>2 DEF Inv, SuccessIsRecorded
  <2> QED  BY <1>8, <2>1, <2>2, NoneIsNoCall DEF SuccessIsRecorded, Success
<1>11. ResultIsTheTrace'
  BY <1>5 DEF Inv, ResultIsTheTrace, Success, NoResult
<1> QED  BY <1>1, <1>6, <1>7, <1>9, <1>10, <1>11 DEF Inv

LEMMA StartStep ==
  ASSUME Inv, NEW p \in Procs, Start(p)
  PROVE  Inv'
<1>1. proc[p].pc = "idle" /\ UNCHANGED <<live, row, trace, state, sent, tools, lost>>
  BY DEF Start
<1>2. TypeOK /\ row \in Rows  BY DEF Inv, TypeOK
<1>3. proc[p] \in CallRows /\ StateOf(p) \in States  BY <1>2, CallTypes
<1>4. PICK v, t : v = StateOf(p) /\ t = (IF Current(p) THEN "acquire" ELSE "fault")  OBVIOUS
<1>5. PICK c : c = [proc[p] EXCEPT !.pc = t, !.view = v]  OBVIOUS
<1>6. c \in CallRows  BY <1>3, <1>4, <1>5 DEF CallRows
<1>7. c.pc \in {"acquire", "fault"} /\ c.sends = proc[p].sends
  BY <1>3, <1>4, <1>5 DEF CallRows
<1>8. proc' = [proc EXCEPT ![p] = c]  BY <1>4, <1>5 DEF Start
<1>9. /\ proc' \in [Procs -> CallRows] /\ proc'[p] = c
      /\ \A q \in Procs : q # p => proc'[q] = proc[q]
  BY <1>2, <1>6, <1>8, Goes
<1> QED  BY <1>1, <1>2, <1>7, <1>9, AsideStep

LEMMA AcquireStep ==
  ASSUME Inv, NEW p \in Procs, Acquire(p)
  PROVE  Inv'
<1> DEFINE bind == IF row.bound = None THEN [row EXCEPT !.bound = AttemptOf[p]] ELSE row
<1>1. PICK stored : stored = bind  OBVIOUS
<1>2. proc[p].pc = "acquire" /\ UNCHANGED <<live, trace, state, sent, tools, lost>>
  BY DEF Acquire
<1>3. TypeOK /\ row \in Rows /\ AttemptOf[p] \in Attempts  BY WorkflowAssumption DEF Inv, TypeOK
<1>4. /\ stored \in Rows /\ stored.owner = row.owner /\ stored.budget = row.budget
      /\ stored.quarantined = row.quarantined /\ stored.result = row.result
  BY <1>1, <1>3 DEF Rows
<1>5. stored.bound = row.bound \/ row.bound = None  BY <1>1
<1>6. proc[p] \in CallRows /\ row.budget \in Budgets  BY <1>3, CallTypes DEF Rows
<1>7. CASE row' = stored /\ \E t \in {"done", "fault"} : Goto(p, t)
  <2>1. PICK t \in {"done", "fault"} : Goto(p, t)  BY <1>7
  <2>2. /\ proc' \in [Procs -> CallRows] /\ proc'[p].pc = t /\ proc'[p].sends = proc[p].sends
        /\ \A q \in Procs : q # p => proc'[q] = proc[q]
    BY <1>3, <2>1, GoesTo
  <2> QED  BY <1>2, <1>4, <1>5, <1>7, <2>2, AsideStep
<1>8. CASE /\ stored.bound = AttemptOf[p] /\ stored.result = NoResult
           /\ stored.owner = None /\ ~stored.quarantined
           /\ Reserve(p, stored)
  <2>1. row' = [stored EXCEPT !.owner = p]  BY <1>8 DEF Reserve
  <2>2. /\ row' \in Rows /\ row'.owner = p /\ row'.bound = AttemptOf[p]
        /\ row'.quarantined = row.quarantined /\ row'.result = NoResult
    BY <1>4, <1>8, <2>1 DEF Rows
  <2>3. PICK t, b : t = (IF p \in Runners THEN "begin" ELSE "active") /\ b = stored.budget
    OBVIOUS
  <2>4. b \in Budgets /\ b = row.budget  BY <1>4, <1>6, <2>3
  <2>5. PICK c : c = [proc[p] EXCEPT !.budget = b, !.pc = t]  OBVIOUS
  <2>6. c \in CallRows  BY <1>6, <2>3, <2>4, <2>5 DEF CallRows
  <2>7. c.pc = t /\ c.budget = b /\ c.sends = proc[p].sends  BY <1>6, <2>5 DEF CallRows
  <2>8. proc' = [proc EXCEPT ![p] = c]  BY <1>8, <2>3, <2>5 DEF Reserve
  <2>9. /\ proc' \in [Procs -> CallRows] /\ proc'[p] = c
        /\ \A q \in Procs : q # p => proc'[q] = proc[q]
    BY <1>3, <2>6, <2>8, Goes
  <2>10. TypeOK'  BY <1>2, <1>3, <2>2, <2>9 DEF TypeOK
  <2>11. row.owner = None /\ ~row.quarantined  BY <1>4, <1>8
  <2>12. \A q \in Procs : proc[q].pc \notin Working
    BY <2>11, NoneIsNoCall DEF Inv, OwnersWork
  <2>13. ~lost  BY <2>11 DEF Inv, LostIsSettled
  <2>14. Exact(row.budget) /\ SpendIsBounded /\ Accounted(p)
    BY <2>11 DEF Inv, SpendIsAccounted
  <2>15. \A a \in Attempts : Success(state[a]) => trace.decisions # <<>>
    BY <2>11 DEF Inv, SuccessIsRecorded
  <2>16. c.pc \in {"begin", "active"} /\ (p \in Runners => c.pc = "begin")
    BY <2>3, <2>7
  <2>17. OwnersWork'
    <3>1. \A a \in Attempts : state'[a] # "ready" => a = row'.bound
      BY <1>1, <1>2, <1>8, <2>2 DEF Inv, OwnersWork, Attempts, None
    <3>2. \A q \in Procs : proc'[q].pc \in Working => row'.owner = q
      BY <2>2, <2>9, <2>12
    <3>3. \A q \in Procs : proc'[q].pc \in {"begin", "loop", "result"} => q \in Runners
      BY <2>3, <2>7, <2>9, <2>12 DEF Working
    <3> QED  BY <2>2, <2>9, <2>16, <3>1, <3>2, <3>3 DEF OwnersWork, Working, NoResult
  <2>18. LostIsSettled'  BY <1>2, <2>13 DEF LostIsSettled
  <2>19. \A q \in Procs : q # p => Accounted(q)' /\ Informed(q)'
    BY <2>9, <2>12, Bystander
  <2>20. Accounted(p)'
    <3>1. proc'[p].sends = 0  BY <1>2, <2>7, <2>9, <2>14 DEF Accounted
    <3>2. Exact(proc[p].budget)'  BY <1>2, <2>4, <2>7, <2>9, <2>14 DEF Exact
    <3> QED  BY <2>9, <2>16, <3>1, <3>2 DEF Accounted
  <2>21. SpendIsAccounted'
    <3>1. SpendIsBounded'  BY <1>2, <2>14 DEF SpendIsBounded
    <3>2. row'.owner # None  BY <2>2, NoneIsNoCall
    <3> QED  BY <2>19, <2>20, <3>1, <3>2 DEF SpendIsAccounted
  <2>22. p \in Runners => Informed(p)'  BY <2>9, <2>16 DEF Informed
  <2>23. SuccessIsRecorded'
    <3>1. \A q \in Procs : proc'[q].pc \notin {"failing", "recording"}
      BY <2>9, <2>12, <2>16 DEF Working
    <3>2. \A q \in Runners : Informed(q)'  BY <2>19, <2>22, NoneIsNoCall
    <3> QED  BY <1>2, <2>15, <3>1, <3>2 DEF SuccessIsRecorded, Success
  <2>24. ResultIsTheTrace'  BY <2>2 DEF ResultIsTheTrace, NoResult
  <2> QED  BY <2>10, <2>17, <2>18, <2>21, <2>23, <2>24 DEF Inv
<1> QED  BY <1>1, <1>7, <1>8 DEF Acquire

LEMMA CrashStep ==
  ASSUME Inv, NEW a \in Attempts, Crash(a)
  PROVE  Inv'
<1>1. UNCHANGED <<live, row, trace, state, sent, tools>>  BY DEF Crash
<1>2. TypeOK  BY DEF Inv
<1>3. proc' \in [Procs -> CallRows]
  <2>1. ASSUME NEW q \in Procs  PROVE [proc[q] EXCEPT !.pc = "dead"] \in CallRows
    <3>1. proc[q] \in CallRows  BY <1>2 DEF TypeOK
    <3> QED  BY <3>1 DEF CallRows
  <2>2. \A q \in Procs : proc[q] \in CallRows  BY <1>2 DEF TypeOK
  <2> QED  BY <2>1, <2>2 DEF Crash
<1>4. ASSUME NEW q \in Procs
      PROVE  proc'[q] = proc[q] \/ proc'[q].pc = "dead"
  <2>1. proc[q] \in CallRows  BY <1>2 DEF TypeOK
  <2>2. proc'[q] = proc[q] \/ proc'[q] = [proc[q] EXCEPT !.pc = "dead"]  BY DEF Crash
  <2> QED  BY <2>1, <2>2 DEF CallRows
<1>5. lost' \in BOOLEAN
  BY <1>2 DEF Crash, TypeOK
<1>6. TypeOK'  BY <1>1, <1>2, <1>3, <1>5 DEF TypeOK
<1>7. row.owner # None => row.owner \in Procs  BY <1>2 DEF TypeOK, Rows
<1>8. OwnersWork'
  <2>1. \A q \in Procs : proc'[q].pc \in Working => proc'[q] = proc[q]  BY <1>4 DEF Working
  <2>2. \A q \in Procs : proc'[q].pc \in Working => row'.owner = q
    BY <1>1, <2>1 DEF Inv, OwnersWork
  <2>3. \A q \in Procs : proc'[q].pc \in {"begin", "loop", "result"} => q \in Runners
    BY <2>1 DEF Inv, OwnersWork, Working
  <2>4. row'.owner # None => /\ proc'[row'.owner].pc \in Working \cup {"dead"}
                             /\ row'.bound = AttemptOf[row'.owner]
                             /\ row'.result = NoResult
    BY <1>1, <1>4, <1>7 DEF Inv, OwnersWork
  <2> QED  BY <1>1, <2>2, <2>3, <2>4 DEF Inv, OwnersWork, NoResult
<1>9. LostIsSettled'
  <2>1. CASE lost  BY <1>1, <1>4, <1>7, <2>1 DEF Inv, LostIsSettled
  <2>2. CASE lost' /\ ~lost
    <3>1. PICK q \in Procs : /\ AttemptOf[q] = a /\ proc[q].pc \notin Ended
                             /\ proc[q].pc \in {"selecting", "tool"}
      BY <2>2 DEF Crash
    <3>2. row.owner = q /\ q # None
      BY <3>1, NoneIsNoCall DEF Inv, OwnersWork, Working
    <3>3. proc'[q] = [proc[q] EXCEPT !.pc = "dead"]  BY <3>1 DEF Crash
    <3>4. proc[q] \in CallRows  BY <1>2 DEF TypeOK
    <3>5. proc'[q].pc = "dead"  BY <3>3, <3>4 DEF CallRows
    <3> QED  BY <1>1, <3>2, <3>5 DEF LostIsSettled
  <2>3. CASE ~lost'  BY <2>3 DEF LostIsSettled
  <2> QED  BY <1>5, <2>1, <2>2, <2>3
<1>10. ASSUME NEW q \in Procs
       PROVE  Accounted(q)' /\ (q \in Runners => Informed(q)')
  <2>1. CASE proc'[q].pc = "dead"  BY <2>1 DEF Accounted, Informed
  <2>2. CASE proc'[q] = proc[q]
    <3>1. Accounted(q) /\ (q \in Runners => Informed(q))
      BY DEF Inv, SpendIsAccounted, SuccessIsRecorded
    <3>2. SentRetries(q)' = SentRetries(q) /\ StateOf(q)' = StateOf(q)
      BY <1>1, <2>2 DEF SentRetries, StateOf
    <3>3. Accounted(q)'  BY <1>1, <2>2, <3>1, <3>2 DEF Accounted, Exact
    <3>4. q \in Runners => Informed(q)'
      BY <1>1, <2>2, <3>1, <3>2 DEF Informed, Success, Earned, Last
    <3> QED  BY <3>3, <3>4
  <2> QED  BY <1>4, <2>1, <2>2
<1>11. SpendIsAccounted'
  <2>1. (row.owner = None => row.quarantined \/ Exact(row.budget))'
    BY <1>1 DEF Inv, SpendIsAccounted, Exact
  <2> QED  BY <1>1, <1>10, <2>1 DEF Inv, SpendIsAccounted, SpendIsBounded
<1>12. SuccessIsRecorded'
  <2>1. \A q \in Procs : /\ proc'[q].pc = "failing" => proc'[q].event.disposition = "selection"
                         /\ proc'[q].pc = "recording" => proc'[q].event.disposition # "selection"
    BY <1>4 DEF Inv, SuccessIsRecorded
  <2>2. ASSUME NEW b \in Attempts, Success(state[b])
        PROVE  \/ row'.quarantined \/ trace'.decisions # <<>>
               \/ row'.owner # None /\ proc'[row'.owner].pc \in {"recording", "abandon", "dead"}
    BY <1>1, <1>4, <1>7, <2>2 DEF Inv, SuccessIsRecorded
  <2> QED  BY <1>1, <1>10, <2>1, <2>2, NoneIsNoCall DEF SuccessIsRecorded, Success
<1>13. ResultIsTheTrace'
  <2>1. CASE row.result = NoResult  BY <1>1, <2>1 DEF ResultIsTheTrace, NoResult
  <2>2. CASE row.result # NoResult
    <3>1. row.owner = None  BY <2>2 DEF Inv, OwnersWork
    <3>2. lost' => lost \/ row.quarantined
      BY <1>1, <1>9, <3>1 DEF LostIsSettled
    <3> QED  BY <1>1, <2>2, <3>2 DEF Inv, ResultIsTheTrace, Success, NoResult
  <2> QED  BY <2>1, <2>2
<1> QED  BY <1>6, <1>8, <1>9, <1>11, <1>12, <1>13 DEF Inv

LEMMA SupersedeStep ==
  ASSUME Inv, Supersede
  PROVE  Inv'
<1>1. UNCHANGED <<row, trace, state, proc, sent, tools, lost>>  BY DEF Supersede
<1>2. live' \in 1..(LastAttempt + 1)
  BY WorkflowAssumption DEF Supersede, Inv, TypeOK
<1>3. TypeOK'  BY <1>1, <1>2 DEF Inv, TypeOK
<1>4. \A p \in Procs : StateOf(p)' = StateOf(p) /\ SentRetries(p)' = SentRetries(p)
  BY <1>1 DEF StateOf, SentRetries
<1>5. \A p \in Procs : Accounted(p)'
  BY <1>1, <1>4 DEF Inv, SpendIsAccounted, Accounted, Exact
<1>6. \A p \in Runners : Informed(p)'
  BY <1>1, <1>4, NoneIsNoCall DEF Inv, SuccessIsRecorded, Informed, Success, Earned, Last
<1>7. OwnersWork'  BY <1>1 DEF Inv, OwnersWork, NoResult
<1>8. LostIsSettled'  BY <1>1 DEF Inv, LostIsSettled
<1>9. SpendIsAccounted'
  BY <1>1, <1>5 DEF Inv, SpendIsAccounted, SpendIsBounded, Exact
<1>10. SuccessIsRecorded'  BY <1>1, <1>6 DEF Inv, SuccessIsRecorded, Success
<1>11. ResultIsTheTrace'  BY <1>1 DEF Inv, ResultIsTheTrace, Success, NoResult
<1> QED  BY <1>3, <1>7, <1>8, <1>9, <1>10, <1>11 DEF Inv

LEMMA Initially == Init => Inv
<1> SUFFICES ASSUME Init PROVE Inv  OBVIOUS
<1>1. Initial \in Budgets /\ Initial.steps = Steps /\ Initial.calls = ModelCalls
  BY WorkflowAssumption DEF Initial, Budgets
<1>2. NoResult \in Results  BY DEF NoResult, Results, Terminations
<1>3. row \in Rows /\ row.owner = None /\ row.budget = Initial /\ row.result = NoResult
      /\ row.quarantined = FALSE
  BY <1>1, <1>2 DEF Init, Rows
<1>4. NoEvent \in Events  BY DEF NoEvent, Events, Reasons, States
<1>5. NewCall \in CallRows
  <2>1. 0 \in 0..MaxSends  BY WorkflowAssumption
  <2> QED  BY <1>1, <1>4, <2>1 DEF NewCall, CallRows, States, Terminations
<1>6. NewCall.pc = "idle" /\ NewCall.sends = 0  BY DEF NewCall
<1>7. \A p \in Procs : proc[p].pc = "idle" /\ proc[p].sends = 0  BY <1>6 DEF Init
<1>8. TypeOK
  <2>1. trace \in Trace  BY DEF Init, Trace
  <2>2. live \in 1..(LastAttempt + 1)  BY WorkflowAssumption DEF Init
  <2>3. state \in [Attempts -> States]  BY DEF Init, States
  <2> QED  BY <1>3, <1>5, <2>1, <2>2, <2>3 DEF TypeOK, Init
<1>9. OwnersWork  BY <1>3, <1>7 DEF OwnersWork, Working, Init
<1>10. LostIsSettled  BY DEF LostIsSettled, Init
<1>11. SpendIsAccounted
  <2>1. SpendIsBounded  BY WorkflowAssumption DEF SpendIsBounded, Init
  <2>2. Exact(row.budget)  BY <1>1, <1>3, WorkflowAssumption DEF Exact, Init
  <2>3. \A p \in Procs : Accounted(p)  BY <1>7 DEF Accounted
  <2> QED  BY <2>1, <2>2, <2>3 DEF SpendIsAccounted
<1>12. SuccessIsRecorded
  <2>1. \A p \in Runners : Informed(p)  BY <1>7, NoneIsNoCall DEF Informed
  <2>2. \A a \in Attempts : ~Success(state[a])  BY DEF Success, Init
  <2> QED  BY <1>7, <2>1, <2>2 DEF SuccessIsRecorded
<1>13. ResultIsTheTrace  BY <1>3 DEF ResultIsTheTrace
<1> QED  BY <1>8, <1>9, <1>10, <1>11, <1>12, <1>13 DEF Inv

LEMMA Rests ==
  ASSUME Inv, UNCHANGED vars
  PROVE  Inv'
<1>1. UNCHANGED <<live, row, trace, state, proc, sent, tools, lost>>  BY DEF vars
<1>2. TypeOK'  BY <1>1 DEF Inv, TypeOK
<1>3. \A p \in Procs : StateOf(p)' = StateOf(p) /\ SentRetries(p)' = SentRetries(p)
  BY <1>1 DEF StateOf, SentRetries
<1>4. \A p \in Procs : Accounted(p)'
  BY <1>1, <1>3 DEF Inv, SpendIsAccounted, Accounted, Exact
<1>5. \A p \in Runners : Informed(p)'
  BY <1>1, <1>3, NoneIsNoCall DEF Inv, SuccessIsRecorded, Informed, Success, Earned, Last
<1>6. OwnersWork'  BY <1>1 DEF Inv, OwnersWork, NoResult
<1>7. LostIsSettled'  BY <1>1 DEF Inv, LostIsSettled
<1>8. SpendIsAccounted'
  BY <1>1, <1>4 DEF Inv, SpendIsAccounted, SpendIsBounded, Exact
<1>9. SuccessIsRecorded'  BY <1>1, <1>5 DEF Inv, SuccessIsRecorded, Success
<1>10. ResultIsTheTrace'  BY <1>1 DEF Inv, ResultIsTheTrace, Success, NoResult
<1> QED  BY <1>2, <1>6, <1>7, <1>8, <1>9, <1>10 DEF Inv

(***************************************************************************)
(* The theorems                                                            *)
(***************************************************************************)

\* The invariant: only the owner of the reservation works for the run, what it has still to
\* charge for fits what is left, and what it is about to report is what the trace tells.
THEOREM InvHolds == Spec => []Inv
<1>1. Inv /\ [Next]_vars => Inv'
  <2> SUFFICES ASSUME Inv, [Next]_vars PROVE Inv'  OBVIOUS
  <2>1. ASSUME NEW p \in Procs, Step(p)  PROVE Inv'
    BY <2>1, AcquireStep, BeginStep, LoopStep, SelectStep, SelectorReturnsStep,
       RecordFailureStep, ChargeFailureStep, AdmitStep, ToolReturnsStep, RecordStep,
       SettleStep, CompleteStep, AbandonStep, ReleaseStep DEF Step
  <2>2. ASSUME NEW p \in Procs, Start(p)  PROVE Inv'  BY <2>2, StartStep
  <2>3. ASSUME NEW a \in Attempts, Crash(a)  PROVE Inv'  BY <2>3, CrashStep
  <2>4. CASE Supersede  BY <2>4, SupersedeStep
  <2>5. CASE UNCHANGED vars  BY <2>5, Rests
  <2> QED  BY <2>1, <2>2, <2>3, <2>4, <2>5 DEF Next
<1> QED  BY <1>1, Initially, PTL DEF Spec

\* BudgetIsKept: whatever runners, direct decisions, retries, crashes and takeovers the run
\* goes through, its calls stay within its budget, and what the ledger has left is exactly
\* what they left.
THEOREM BudgetHolds == Spec => []BudgetIsKept
<1>1. Inv => BudgetIsKept
  <2> SUFFICES ASSUME Inv PROVE BudgetIsKept  OBVIOUS
  <2>1. TypeOK /\ SpendIsBounded  BY DEF Inv, SpendIsAccounted
  <2>2. AccountsBalance
    <3> SUFFICES ASSUME row.owner = None, ~row.quarantined
                 PROVE  row.budget.steps = Steps - tools /\ row.budget.calls = ModelCalls - sent
      BY DEF AccountsBalance
    <3>1. row.budget.steps + tools = Steps /\ row.budget.calls + sent = ModelCalls
      BY DEF Inv, SpendIsAccounted, Exact
    <3>2. PICK x, y, m, u \in Nat : /\ x = row.budget.steps /\ y = row.budget.calls
                                    /\ m = sent /\ u = tools
      BY <2>1 DEF TypeOK, Rows, Budgets
    <3>3. x = Steps - u /\ y = ModelCalls - m  BY <3>1, <3>2, WorkflowAssumption
    <3> QED  BY <3>2, <3>3
  <2> QED  BY <2>1, <2>2 DEF BudgetIsKept
<1> QED  BY <1>1, InvHolds, PTL

\* ResultsAreEarned: a result that is replayed in place of the work is the history the trace
\* tells, a success in it was earned by a decision that executed with every call accounted
\* for, and no call that has returned keeps the run from others.
THEOREM ResultsEarned == Spec => []ResultsAreEarned
<1>1. Inv => ResultsAreEarned
  BY DEF Inv, OwnersWork, Working, ResultsAreEarned, ReservationsAreNotLeaked
<1> QED  BY <1>1, InvHolds, PTL

\* NoCallBesideAnUnsettledOne: no model call and no tool starts while another runs, and none
\* ever after one that was given up with its outcome unknown.
THEOREM NoCallBeside == Spec => NoCallBesideAnUnsettledOne
<1>1. Inv /\ [Next]_vars =>
        [lost \/ (\E p \in Procs : proc[p].pc \in InFlight) => UNCHANGED <<sent, tools>>]_vars
  <2> SUFFICES ASSUME Inv, [Next]_vars, lost \/ \E p \in Procs : proc[p].pc \in InFlight
               PROVE  UNCHANGED <<sent, tools>>
    OBVIOUS
  <2>1. ASSUME NEW p \in Procs, proc[p].pc \in {"active", "proposed"}
        PROVE  lost /\ row.quarantined
    <3>1. proc[p].pc \in Working /\ proc[p].pc # "abandon"  BY <2>1 DEF Working
    <3>2. \A q \in Procs : proc[q].pc \notin InFlight
      BY <2>1, <3>1, Owner DEF Working, InFlight
    <3> QED  BY <3>1, <3>2, Before
  <2>2. ASSUME NEW p \in Procs, Select(p)  PROVE UNCHANGED <<sent, tools>>
    <3>1. proc[p].pc = "active" /\ UNCHANGED tools  BY <2>2 DEF Select
    <3>2. row.quarantined  BY <2>1, <3>1
    <3> QED  BY <2>2, <3>1, <3>2 DEF Select
  <2>3. ASSUME NEW p \in Procs, Admit(p)  PROVE UNCHANGED <<sent, tools>>
    <3>1. proc[p].pc = "proposed"  BY <2>3 DEF Admit
    <3>2. Accounted(p)  BY DEF Inv, SpendIsAccounted
    <3> QED  BY <2>1, <3>1, <3>2 DEF Accounted
  <2>4. ASSUME NEW p \in Procs, Step(p), ~Select(p), ~Admit(p)  PROVE UNCHANGED <<sent, tools>>
    BY <2>4 DEF Step, Acquire, Begin, Loop, SelectorReturns, RecordFailure, ChargeFailure,
                ToolReturns, Record, Settle, Complete, Abandon, ReleaseRun
  <2>5. ASSUME NEW p \in Procs, Start(p)  PROVE UNCHANGED <<sent, tools>>  BY <2>5 DEF Start
  <2>6. ASSUME NEW a \in Attempts, Crash(a)  PROVE UNCHANGED <<sent, tools>>  BY <2>6 DEF Crash
  <2>7. CASE Supersede  BY <2>7 DEF Supersede
  <2>8. CASE UNCHANGED vars  BY <2>8 DEF vars
  <2> QED  BY <2>2, <2>3, <2>4, <2>5, <2>6, <2>7, <2>8 DEF Next
<1> QED  BY <1>1, InvHolds, PTL DEF Spec, NoCallBesideAnUnsettledOne

(***************************************************************************)
(* The run under its two authorities                                       *)
(***************************************************************************)

\* The job's facts in this model: nobody asks and nobody cancels; the limits end the job.
FactsSound(f) ==
    /\ f \in FactRows /\ ~f.cancel /\ ~f.open
    /\ f.attempts <= MaxAttempts /\ f.takeovers <= MaxTakeovers
    /\ f.status \notin Terminal => f.attempts < MaxAttempts /\ f.takeovers < MaxTakeovers

\* Who works has the run bound to its own attempt, before there is a result; who settles has
\* one; only the bound attempt has ever worked, and a job that succeeded shows that result.
RunSound ==
    /\ \A a \in AttemptIds :
          /\ worker[a] = "work" => ledger.bound = a /\ ledger.result = "none"
          /\ worker[a] = "settle" => ledger.bound = a /\ ledger.result # "none"
    /\ ledger.bound = 0 => ledger.result = "none"
    /\ worked \subseteq {ledger.bound}
    /\ SuccessHasItsResult

AuthorityInv == AuthorityTypeOK /\ FactsSound(facts) /\ RunSound

\* What the table decides for the events of a run.
LEMMA RunEvents ==
    ASSUME NEW f, FactsSound(f), NEW e, NEW t, t = NextState(f, e), NEW g,
           \/ e = "dispatch_succeeded" /\ f.status = "queued"
           \/ e = "schedule_retry" /\ f.status = "retryable_failed"
           \/ e = "claim" /\ f.status = "dispatched"
           \/ e \in {"lease_expired", "publish_result", "retryable_error"} /\ f.status = "running",
           g = [f EXCEPT !.status = t.status, !.attempts = @ + t.attempt,
                         !.takeovers = @ + t.takeover, !.cancel = @ \/ t.cancel]
    PROVE  FactsSound(g) /\ (g.status = "succeeded" => e = "publish_result") /\ t # Conflict
<1>1. /\ f \in FactRows /\ ~f.cancel /\ ~f.open
      /\ f.status \in Statuses /\ f.attempts \in Nat /\ f.takeovers \in Nat
      /\ f.attempts < MaxAttempts /\ f.takeovers < MaxTakeovers
  BY DEF FactsSound, FactRows, Terminal
<1>2. MaxAttempts \in Nat /\ MaxTakeovers \in Nat
  BY PolicyAssumption
<1>3. /\ Move("running") \in Transitions /\ Move("dispatched") \in Transitions
      /\ Enqueue("queued") \in Transitions /\ Release("succeeded") \in Transitions
      /\ Release("failed") \in Transitions /\ Release("queued") \in Transitions
      /\ Release("retryable_failed") \in Transitions
  BY DEF Move, Enqueue, Release, Transitions, Statuses, Terminal, Claimable
<1>4. \/ t \in {Move("dispatched"), Enqueue("queued"), Move("running")} /\ e # "publish_result"
      \/ t = Release("succeeded") /\ e = "publish_result"
      \/ /\ f.attempts + 1 >= MaxAttempts /\ e = "retryable_error"
         /\ t = [Release("failed") EXCEPT !.attempt = 1]
      \/ /\ f.attempts + 1 < MaxAttempts /\ e = "retryable_error"
         /\ t = [Release("retryable_failed") EXCEPT !.attempt = 1]
      \/ /\ f.takeovers + 1 >= MaxTakeovers /\ e = "lease_expired"
         /\ t = [Release("failed") EXCEPT !.takeover = 1]
      \/ /\ f.takeovers + 1 < MaxTakeovers /\ e = "lease_expired"
         /\ t = [Release("queued") EXCEPT !.takeover = 1, !.enqueue = TRUE]
  <2>1. CASE e = "dispatch_succeeded" /\ f.status = "queued"
    BY <2>1 DEF NextState, Decide, Terminal, LeaseBound
  <2>2. CASE e = "schedule_retry" /\ f.status = "retryable_failed"
    BY <2>2 DEF NextState, Decide, Terminal, LeaseBound
  <2>3. CASE e = "claim" /\ f.status = "dispatched"
    BY <2>3 DEF NextState, Decide, Terminal, LeaseBound, Claimable
  <2>4. CASE e = "lease_expired" /\ f.status = "running"
    <3>1. t = LeaseExpired(f)
      BY <2>4 DEF NextState, Decide, Terminal, LeaseBound
    <3>2. f.takeovers + 1 >= MaxTakeovers \/ f.takeovers + 1 < MaxTakeovers
      BY <1>1, <1>2
    <3>3. f.takeovers + 1 < MaxTakeovers => ~(f.takeovers + 1 >= MaxTakeovers)
      BY <1>1, <1>2
    <3> QED  BY <2>4, <3>1, <3>2, <3>3, <1>1 DEF LeaseExpired
  <2>5. CASE e = "publish_result" /\ f.status = "running"
    BY <2>5 DEF NextState, Decide, Terminal, LeaseBound
  <2>6. CASE e = "retryable_error" /\ f.status = "running"
    <3>1. t = RetryableError(f)
      BY <2>6 DEF NextState, Decide, Terminal, LeaseBound
    <3>2. f.attempts + 1 >= MaxAttempts \/ f.attempts + 1 < MaxAttempts
      BY <1>1, <1>2
    <3>3. f.attempts + 1 < MaxAttempts => ~(f.attempts + 1 >= MaxAttempts)
      BY <1>1, <1>2
    <3> QED  BY <2>6, <3>1, <3>2, <3>3, <1>1 DEF RetryableError
  <2> QED  BY <2>1, <2>2, <2>3, <2>4, <2>5, <2>6
<1>5. /\ t.status \in Statuses /\ t.attempt \in {0, 1} /\ t.takeover \in {0, 1} /\ t.cancel = FALSE
      /\ t # Conflict /\ (t.status = "succeeded" => e = "publish_result")
      /\ f.attempts + t.attempt <= MaxAttempts /\ f.takeovers + t.takeover <= MaxTakeovers
      /\ t.status \notin Terminal => /\ f.attempts + t.attempt < MaxAttempts
                                     /\ f.takeovers + t.takeover < MaxTakeovers
  <2>1. CASE t \in {Move("dispatched"), Enqueue("queued"), Move("running")} /\ e # "publish_result"
    BY <2>1, <1>1, <1>2 DEF Move, Enqueue, Conflict, Statuses, Claimable
  <2>2. CASE t = Release("succeeded") /\ e = "publish_result"
    BY <2>2, <1>1, <1>2 DEF Move, Release, Conflict, Statuses, Terminal
  <2>3. CASE f.attempts + 1 >= MaxAttempts /\ e = "retryable_error" /\ t = [Release("failed") EXCEPT !.attempt = 1]
    <3>1. /\ t.status = "failed" /\ t.attempt = 1 /\ t.takeover = 0 /\ t.cancel = FALSE
          /\ Conflict.status = "conflict"
      BY <2>3 DEF Move, Release, Conflict
    <3> QED  BY <2>3, <3>1, <1>1, <1>2 DEF Statuses, Terminal, Claimable
  <2>4. CASE f.attempts + 1 < MaxAttempts /\ e = "retryable_error" /\ t = [Release("retryable_failed") EXCEPT !.attempt = 1]
    <3>1. /\ t.status = "retryable_failed" /\ t.attempt = 1 /\ t.takeover = 0 /\ t.cancel = FALSE
          /\ Conflict.status = "conflict"
      BY <2>4 DEF Move, Release, Conflict
    <3> QED  BY <2>4, <3>1, <1>1, <1>2 DEF Statuses, Terminal, Claimable
  <2>5. CASE f.takeovers + 1 >= MaxTakeovers /\ e = "lease_expired" /\ t = [Release("failed") EXCEPT !.takeover = 1]
    <3>1. /\ t.status = "failed" /\ t.attempt = 0 /\ t.takeover = 1 /\ t.cancel = FALSE
          /\ Conflict.status = "conflict"
      BY <2>5 DEF Move, Release, Conflict
    <3> QED  BY <2>5, <3>1, <1>1, <1>2 DEF Statuses, Terminal, Claimable
  <2>6. CASE f.takeovers + 1 < MaxTakeovers /\ e = "lease_expired" /\ t = [Release("queued") EXCEPT !.takeover = 1, !.enqueue = TRUE]
    <3>1. /\ t.status = "queued" /\ t.attempt = 0 /\ t.takeover = 1 /\ t.cancel = FALSE
          /\ Conflict.status = "conflict"
      BY <2>6 DEF Move, Release, Conflict
    <3> QED  BY <2>6, <3>1, <1>1, <1>2 DEF Statuses, Terminal, Claimable
  <2> QED  BY <1>4, <2>1, <2>2, <2>3, <2>4, <2>5, <2>6
<1>6. /\ g \in FactRows /\ ~g.cancel /\ ~g.open /\ g.status = t.status
      /\ g.attempts = f.attempts + t.attempt /\ g.takeovers = f.takeovers + t.takeover
  <2>1. (f.cancel \/ t.cancel) = FALSE
    BY <1>1, <1>5
  <2>2. PICK n \in Nat, m \in Nat : n = f.attempts + t.attempt /\ m = f.takeovers + t.takeover
    BY <1>1, <1>5
  <2>3. PICK s \in Statuses : s = t.status
    BY <1>5
  <2>4. g = [f EXCEPT !.status = s, !.attempts = n, !.takeovers = m, !.cancel = FALSE]
    BY <2>1, <2>2, <2>3
  <2>5. g \in FactRows
    BY <2>4, <1>1 DEF FactRows
  <2>6. g.status = s /\ g.attempts = n /\ g.takeovers = m /\ g.cancel = FALSE /\ g.open = f.open
    BY <2>4, <1>1 DEF FactRows
  <2> QED  BY <2>2, <2>3, <2>5, <2>6, <1>1
<1> QED  BY <1>5, <1>6 DEF FactsSound

\* Facts move only so that they stay sound, and to success only by a published result.
LEMMA FactsMove ==
    ASSUME AuthorityInv, NEW e, Apply(e),
           \/ e = "dispatch_succeeded" /\ facts.status = "queued"
           \/ e = "schedule_retry" /\ facts.status = "retryable_failed"
           \/ e = "claim" /\ facts.status = "dispatched"
           \/ e \in {"lease_expired", "publish_result", "retryable_error"} /\ facts.status = "running"
    PROVE  FactsSound(facts') /\ (facts'.status = "succeeded" => e = "publish_result")
<1>1. PICK t : t = NextState(facts, e)
  OBVIOUS
<1>2. PICK g : g = [facts EXCEPT !.status = t.status, !.attempts = @ + t.attempt,
                                !.takeovers = @ + t.takeover, !.cancel = @ \/ t.cancel]
  OBVIOUS
<1>3. FactsSound(g) /\ (g.status = "succeeded" => e = "publish_result") /\ t # Conflict
  <2>1. FactsSound(facts)  BY DEF AuthorityInv
  <2> HIDE DEF AuthorityInv
  <2> QED  BY <1>1, <1>2, <2>1, RunEvents
<1>4. facts' = g  BY <1>1, <1>2, <1>3 DEF Apply
<1> QED  BY <1>3, <1>4

\* Sound facts are typed.
LEMMA FactsTyped ==
    ASSUME NEW f, FactsSound(f)
    PROVE  f \in [status : Statuses, cancel : BOOLEAN, open : BOOLEAN,
                  attempts : 0..MaxAttempts, takeovers : 0..MaxTakeovers]
BY PolicyAssumption DEF FactsSound, FactRows

\* A report of an attempt, refused to one that was superseded.
LEMMA Reported ==
    ASSUME AuthorityInv, NEW a \in AttemptIds, NEW e \in {"publish_result", "retryable_error"}, Report(a, e)
    PROVE  /\ FactsSound(facts')
           /\ facts'.status = "succeeded" =>
                 facts.status = "succeeded" \/ (e = "publish_result" /\ a = current)
           /\ worker' = [worker EXCEPT ![a] = "gone"]
<1>1. CASE Fenced(a)
  <2>1. Apply(e) /\ facts.status = "running" /\ a = current
    BY <1>1 DEF Report, Fenced
  <2> QED  BY <2>1, FactsMove DEF Report
<1>2. CASE ~Fenced(a)
  BY <1>2 DEF Report, AuthorityInv
<1> QED  BY <1>1, <1>2

\* One step of either authority or of a process keeps the invariant.
LEMMA AuthorityKept ==
    ASSUME AuthorityInv, [AuthorityNext]_authorityVars
    PROVE  AuthorityInv'
<1> USE DEF AttemptIds
<1>0. /\ AuthorityTypeOK /\ FactsSound(facts) /\ RunSound /\ MaxAttempt \in Nat \ {0}
      /\ 0..MaxAttempt \subseteq Nat /\ 0 \in 0..MaxAttempt
  BY AttemptAssumption DEF AuthorityInv
<1>01. /\ current \in 0..MaxAttempt
       /\ ledger \in [bound : 0..MaxAttempt, owner : 0..MaxAttempt, quarantined : BOOLEAN,
                      result : {"none", "verified", "failed"}]
       /\ worker \in [AttemptIds -> {"none", "acquire", "work", "settle", "gone"}]
       /\ worked \subseteq AttemptIds /\ errors \subseteq AttemptIds
  BY <1>0 DEF AuthorityTypeOK
<1>02. /\ \A a \in AttemptIds :
            /\ worker[a] = "work" => ledger.bound = a /\ ledger.result = "none"
            /\ worker[a] = "settle" => ledger.bound = a /\ ledger.result # "none"
       /\ worked \subseteq {ledger.bound}
       /\ ledger.bound = 0 => ledger.result = "none"
       /\ facts.status = "succeeded" => ledger.result = "verified" /\ ledger.bound = current
  BY <1>0 DEF RunSound, SuccessHasItsResult
<1>03. SUFFICES /\ FactsSound(facts') /\ AuthorityTypeOK' /\ RunSound'
  BY DEF AuthorityInv
<1>04. FactsSound(facts') => facts' \in [status : Statuses, cancel : BOOLEAN, open : BOOLEAN,
                                        attempts : 0..MaxAttempts, takeovers : 0..MaxTakeovers]
  BY FactsTyped
<1>1. CASE Dispatch
  <2>1. /\ FactsSound(facts') /\ facts'.status # "succeeded"
        /\ UNCHANGED <<current, ledger, worker, worked, errors>>
    <3>1. CASE facts.status = "queued"  BY <1>1, <3>1, FactsMove DEF Dispatch
    <3>2. CASE facts.status = "retryable_failed"  BY <1>1, <3>2, FactsMove DEF Dispatch
    <3> QED  BY <1>1, <3>1, <3>2 DEF Dispatch
  <2> QED  BY <2>1, <1>01, <1>02, <1>04 DEF AuthorityTypeOK, RunSound, SuccessHasItsResult
<1>2. CASE Claim
  <2>1. FactsSound(facts') /\ facts'.status # "succeeded"
    BY <1>2, FactsMove DEF Claim
  <2>2. /\ current' = current + 1 /\ current + 1 \in AttemptIds
        /\ worker' = [worker EXCEPT ![current + 1] = "acquire"]
        /\ UNCHANGED <<ledger, worked, errors>>
    BY <1>2, <1>0, <1>01 DEF Claim
  <2> QED  BY <2>1, <2>2, <1>01, <1>02, <1>04, <1>0 DEF AuthorityTypeOK, RunSound, SuccessHasItsResult
<1>3. CASE LeaseLapses
  <2>1. FactsSound(facts') /\ facts'.status # "succeeded"
    BY <1>3, FactsMove DEF LeaseLapses
  <2>2. UNCHANGED <<current, ledger, worker, worked, errors>>
    BY <1>3 DEF LeaseLapses
  <2> QED  BY <2>1, <2>2, <1>01, <1>02, <1>04 DEF AuthorityTypeOK, RunSound, SuccessHasItsResult
<1>4. CASE UNCHANGED authorityVars
  BY <1>4, <1>0 DEF authorityVars, AuthorityTypeOK, RunSound, SuccessHasItsResult
<1>5. ASSUME NEW a \in AttemptIds, AcquireRun(a)
      PROVE  FactsSound(facts') /\ AuthorityTypeOK' /\ RunSound'
  <2>0. worker[a] = "acquire" /\ UNCHANGED <<current, worked, errors>> /\ a \in 0..MaxAttempt
    BY <1>5, <1>0 DEF AcquireRun
  <2>1. CASE ~Fenced(a)
    <3>1. worker' = [worker EXCEPT ![a] = "gone"] /\ UNCHANGED <<facts, ledger>>
      BY <1>5, <2>1 DEF AcquireRun
    <3> QED  BY <3>1, <2>0, <1>01, <1>02, <1>04, <1>0 DEF AuthorityTypeOK, RunSound, SuccessHasItsResult
  <2>2. CASE Fenced(a) /\ (~SameRun(a) \/ (ledger.result = "none" /\ (ledger.owner # 0 \/ ledger.quarantined)))
    <3>1. Report(a, "retryable_error") /\ UNCHANGED ledger
      BY <1>5, <2>2 DEF AcquireRun
    <3>2. /\ FactsSound(facts') /\ (facts'.status = "succeeded" => facts.status = "succeeded")
          /\ worker' = [worker EXCEPT ![a] = "gone"]
      BY <3>1, Reported, <1>5
    <3> QED  BY <3>1, <3>2, <2>0, <1>01, <1>02, <1>04 DEF AuthorityTypeOK, RunSound, SuccessHasItsResult
  <2>3. CASE Fenced(a) /\ SameRun(a) /\ ledger.result # "none"
    <3>1. worker' = [worker EXCEPT ![a] = "settle"] /\ UNCHANGED <<facts, ledger>>
      BY <1>5, <2>3 DEF AcquireRun
    <3>2. ledger.bound = a  BY <2>3, <1>02 DEF SameRun
    <3>3. worker' \in [AttemptIds -> {"none", "acquire", "work", "settle", "gone"}]
      BY <3>1, <1>01
    <3>4. \A x \in AttemptIds : x # a => worker'[x] = worker[x]
      BY <3>1, <1>01
    <3>5. worker'[a] = "settle"
      BY <3>1, <1>01, <1>5
    <3>6. AuthorityTypeOK'
      BY <3>1, <3>3, <2>0, <1>0 DEF AuthorityTypeOK
    <3>7. RunSound'
      BY <3>1, <3>2, <3>4, <3>5, <2>0, <2>3, <1>02 DEF RunSound, SuccessHasItsResult
    <3> QED  BY <3>1, <3>6, <3>7, <1>0
  <2>4. CASE Fenced(a) /\ SameRun(a) /\ ledger.result = "none" /\ ledger.owner = 0 /\ ~ledger.quarantined
    <3>1. /\ ledger' = [ledger EXCEPT !.bound = a, !.owner = a]
          /\ worker' = [worker EXCEPT ![a] = "work"] /\ UNCHANGED facts
      BY <1>5, <2>4 DEF AcquireRun
    <3>2. ledger.bound \in {0, a} /\ facts.status # "succeeded"
      BY <2>4 DEF SameRun, Fenced
    <3>3. worked \subseteq {a}
      BY <3>2, <1>01, <1>02
    <3>4. worker' \in [AttemptIds -> {"none", "acquire", "work", "settle", "gone"}]
      BY <3>1, <1>01
    <3>5. \A x \in AttemptIds : x # a => worker'[x] = worker[x]
      BY <3>1, <1>01
    <3>6. worker'[a] = "work"
      BY <3>1, <1>01, <1>5
    <3>7. /\ ledger' \in [bound : 0..MaxAttempt, owner : 0..MaxAttempt, quarantined : BOOLEAN,
                          result : {"none", "verified", "failed"}]
          /\ ledger'.bound = a /\ ledger'.result = ledger.result
      BY <3>1, <2>0, <1>01
    <3>8. AuthorityTypeOK'
      BY <3>1, <3>4, <3>7, <2>0, <1>0 DEF AuthorityTypeOK
    <3>9. RunSound'
      BY <3>1, <3>2, <3>3, <3>5, <3>6, <3>7, <2>0, <2>4, <1>02, <1>0 DEF RunSound, SuccessHasItsResult
    <3> QED  BY <3>1, <3>8, <3>9, <1>0
  <2> QED  BY <2>1, <2>2, <2>3, <2>4
<1>6. ASSUME NEW a \in AttemptIds, SettleJob(a)
      PROVE  FactsSound(facts') /\ AuthorityTypeOK' /\ RunSound'
  <2>1. worker[a] = "settle" /\ UNCHANGED <<current, ledger, worked>> /\ errors' \subseteq AttemptIds
    BY <1>6, <1>01 DEF SettleJob
  <2>2. PICK e \in {"publish_result", "retryable_error"} :
           Report(a, e) /\ (e = "publish_result" => ledger.result = "verified")
    BY <1>6 DEF SettleJob
  <2>3. /\ FactsSound(facts') /\ worker' = [worker EXCEPT ![a] = "gone"]
        /\ facts'.status = "succeeded" =>
              facts.status = "succeeded" \/ (e = "publish_result" /\ a = current)
    BY <2>2, Reported, <1>6
  <2> QED  BY <2>1, <2>2, <2>3, <1>01, <1>02, <1>04 DEF AuthorityTypeOK, RunSound, SuccessHasItsResult
<1>7. ASSUME NEW a \in AttemptIds, NEW outcome \in {"verified", "failed", "unknown"}, Work(a, outcome)
      PROVE  FactsSound(facts') /\ AuthorityTypeOK' /\ RunSound'
  <2>0. /\ worker[a] = "work" /\ current' = current /\ worked' = worked \cup {a}
        /\ ledger.bound = a /\ ledger.result = "none" /\ facts.status # "succeeded"
    BY <1>7, <1>02 DEF Work
  <2>1. CASE outcome = "unknown"
    <3>1. /\ ledger' = [ledger EXCEPT !.owner = 0, !.quarantined = TRUE]
          /\ Report(a, "retryable_error") /\ errors' \subseteq AttemptIds
      BY <1>7, <2>1, <1>01 DEF Work
    <3>2. /\ FactsSound(facts') /\ facts'.status # "succeeded"
          /\ worker' = [worker EXCEPT ![a] = "gone"]
      BY <3>1, <2>0, Reported, <1>7
    <3>3. worker' \in [AttemptIds -> {"none", "acquire", "work", "settle", "gone"}]
      BY <3>2, <1>01
    <3>4. /\ \A x \in AttemptIds : x # a => worker'[x] = worker[x]
          /\ worker'[a] = "gone"
      BY <3>2, <1>01, <1>7
    <3>5. /\ ledger' \in [bound : 0..MaxAttempt, owner : 0..MaxAttempt, quarantined : BOOLEAN,
                          result : {"none", "verified", "failed"}]
          /\ ledger'.bound = a /\ ledger'.result = ledger.result
      <4> HIDE DEF AttemptIds
      <4>1. 0 \in 0..MaxAttempt  BY <1>0
      <4> QED  BY <4>1, <3>1, <2>0, <1>01
    <3>6. AuthorityTypeOK'
      BY <3>1, <3>2, <3>3, <3>5, <2>0, <1>01, <1>04, <1>7 DEF AuthorityTypeOK
    <3>7. RunSound'
      BY <3>2, <3>4, <3>5, <2>0, <1>02, <1>0 DEF RunSound, SuccessHasItsResult
    <3> QED  BY <3>2, <3>6, <3>7
  <2>2. CASE outcome # "unknown"
    <3>1. /\ ledger' = [ledger EXCEPT !.owner = 0, !.result = outcome]
          /\ worker' = [worker EXCEPT ![a] = "settle"] /\ UNCHANGED <<facts, errors>>
          /\ outcome \in {"verified", "failed"}
      BY <1>7, <2>2 DEF Work
    <3>2. worker' \in [AttemptIds -> {"none", "acquire", "work", "settle", "gone"}]
      BY <3>1, <1>01
    <3>3. /\ \A x \in AttemptIds : x # a => worker'[x] = worker[x]
          /\ worker'[a] = "settle"
      BY <3>1, <1>01, <1>7
    <3>4. /\ ledger' \in [bound : 0..MaxAttempt, owner : 0..MaxAttempt, quarantined : BOOLEAN,
                          result : {"none", "verified", "failed"}]
          /\ ledger'.bound = a /\ ledger'.result = outcome
      <4> HIDE DEF AttemptIds
      <4>1. 0 \in 0..MaxAttempt  BY <1>0
      <4> QED  BY <4>1, <3>1, <2>0, <1>01
    <3>5. AuthorityTypeOK'
      BY <3>1, <3>2, <3>4, <2>0, <1>0, <1>01, <1>7 DEF AuthorityTypeOK
    <3>6. \A x \in AttemptIds : x # a => worker'[x] \notin {"work", "settle"}
      BY <3>3, <2>0, <1>02
    <3>7. RunSound'
      BY <3>1, <3>3, <3>4, <3>6, <2>0, <1>02, <1>0 DEF RunSound, SuccessHasItsResult
    <3> QED  BY <3>1, <3>5, <3>7, <1>0
  <2> QED  BY <2>1, <2>2
<1>8. ASSUME NEW a \in AttemptIds, Die(a)
      PROVE  FactsSound(facts') /\ AuthorityTypeOK' /\ RunSound'
  <2>1. worker' = [worker EXCEPT ![a] = "gone"] /\ UNCHANGED <<facts, current, ledger, worked, errors>>
    BY <1>8 DEF Die
  <2> QED  BY <2>1, <1>0, <1>01, <1>02, <1>04 DEF AuthorityTypeOK, RunSound, SuccessHasItsResult
<1> HIDE DEF AttemptIds
<1> QED  BY <1>1, <1>2, <1>3, <1>4, <1>5, <1>6, <1>7, <1>8 DEF AuthorityNext, AuthorityStep, Halt

\* RunIsSettledOnce for any limits and number of attempts: however workers die, leases lapse
\* and outcomes stay unknown, one attempt at most works for a run, and a job that succeeds
\* shows the verified result that its own last attempt committed.
THEOREM RunSettledOnce == AuthoritySpec => []RunIsSettledOnce
<1>1. AuthorityInit => AuthorityInv
  <2> SUFFICES ASSUME AuthorityInit  PROVE AuthorityInv
    OBVIOUS
  <2>1. FactsSound(facts)
    BY PolicyAssumption DEF AuthorityInit, FactsSound, FactRows, Statuses, Claimable
  <2> QED
    BY <2>1, FactsTyped, AttemptAssumption
       DEF AuthorityInit, AuthorityInv, AuthorityTypeOK, RunSound, SuccessHasItsResult, AttemptIds
<1>2. AuthorityInv => RunIsSettledOnce
  <2> SUFFICES ASSUME AuthorityInv  PROVE WorkIsDoneOnce
    BY DEF AuthorityInv, RunSound, RunIsSettledOnce
  <2>1. worked = {} \/ worked = {ledger.bound}
    BY DEF AuthorityInv, RunSound
  <2>2. Cardinality({}) = 0 /\ Cardinality({ledger.bound}) = 1
    BY FS_EmptySet, FS_Singleton
  <2> QED  BY <2>1, <2>2 DEF WorkIsDoneOnce
<1> QED
  BY <1>1, <1>2, AuthorityKept, PTL DEF AuthoritySpec

------------------------------------------------------------------------------
(***************************************************************************)
(* The session around the calls.                                           *)
(***************************************************************************)
Places == Staged \cup {"none", "start", "controller", "put", "use", "ended"}
ProcessRows == [at : Places, phase : {"idle", "seen", "checked"}, as : 0..2,
                review : Reviews \cup {NoReview}, ask : SUBSET Bindings, shaken : BOOLEAN]

SessionRows ==
  /\ job \in [attempt : 0..MaxExecutions, live : BOOLEAN, cancel : BOOLEAN]
  /\ session \in 0..2 /\ epoch \in 0..1 /\ docs \in BOOLEAN
  /\ pinned \in BOOLEAN /\ head \in BOOLEAN /\ bound \in 0..MaxExecutions
  /\ kept \in [by : 0..MaxExecutions, review : Reviews \cup {NoReview}, shaken : BOOLEAN]
  /\ process \in [Executions -> ProcessRows]
  /\ returned \in [Executions -> {"none", "failed", "result", "waiting"}]

\* What attempt a was admitted with no longer stands, and never will again.
Unfounded(a) == ~docs \/ job.cancel \/ epoch # 0 \/ ~job.live \/ job.attempt # a

KeptQuestions == Questions(kept.review.blocked)
Registered(by, asked) ==
  {[by |-> by, id |-> b.id, kind |-> b.kind, context |-> b.context, factor |-> b.factor,
    side |-> b.side, findings |-> b.findings] : b \in asked}

\* The stored review is that of the attempt the run is bound to, made under authority; the
\* questions of the run are the questions of that review.
KeptSound ==
  /\ kept # NoRow => kept.by # 0 /\ kept.by = bound /\ CaseResult(kept.review) /\ ~kept.shaken
  /\ kept = NoRow => tasks = {}
  /\ tasks # {} => ~Verified(kept.review) /\ tasks = Registered(kept.by, KeptQuestions)
  /\ head => pinned

Owning == {"review", "controller", "stored", "put", "use", "ask", "register", "asked", "close", "return"}
Asking == {"ask", "register", "asked"}
Closing == {"close", "return"}

\* What attempt a has established when it is at that place.
ExecutionSound(a) ==
  LET w == process[a] IN
  /\ w.at = "none" => w = NoWorker
  /\ w.at # "none" => a <= job.attempt
  /\ w.at \notin {"none", "start", "ended"} => pinned
  /\ w.at \in Owning => bound = a
  /\ w.shaken => w.at = "ended" \/ (w.at \in {"controller", "stored"} /\ Unfounded(a))
  /\ w.at \in {"stored", "put"} => CaseResult(w.review)
  /\ w.ask # {} => w.at \in Asking \cup Closing \cup {"ended"}
  /\ w.at \in Asking => kept.by = a /\ ~Verified(kept.review) /\ w.ask # {} /\ w.ask = KeptQuestions
  /\ w.at \in Closing => kept.by = a /\ (IF w.ask = {} THEN Verified(kept.review) ELSE tasks # {})
  /\ returned[a] = "result" => kept.by = a /\ Verified(kept.review)
  /\ returned[a] = "waiting" => kept.by = a /\ tasks # {}

SessionInv == SessionRows /\ KeptSound /\ \A a \in Executions : ExecutionSound(a)

\* The questions of a stored review are a matter of it and of the revision.
LEMMA QuestionsStay ==
    ASSUME UNCHANGED <<material, kept>>
    PROVE  KeptQuestions' = KeptQuestions
BY DEF KeptQuestions, Questions, Askable, Asked, Considered, Settled, Misbound, FindingsOf, Deferred,
   Recomputed, ApprovalPending, ConfirmedPairs, ConfirmedContexts

\* An attempt is not disturbed by what the others store: a binding, a stored review and
\* questions stay.
LEMMA ExecutionStays ==
    ASSUME SessionInv, NEW b \in Executions,
           process'[b] = process[b], returned'[b] = returned[b], UNCHANGED <<material, authority>>,
           pinned => pinned', bound # 0 => bound' = bound, kept # NoRow => kept' = kept,
           tasks # {} => tasks' # {}
    PROVE  ExecutionSound(b)'
<1>1. /\ ExecutionSound(b) /\ KeptSound /\ b # 0 /\ b \in Nat
      /\ UNCHANGED <<job, session, epoch, docs>>
  BY SessionAssumption DEF SessionInv, Executions, authority
<1>2. Unfounded(b)' = Unfounded(b)  BY <1>1 DEF Unfounded
<1>3. kept.by = b => kept # NoRow  BY <1>1 DEF NoRow
<1>4. kept.by = b => kept' = kept /\ KeptQuestions' = KeptQuestions
  <2>1. SUFFICES ASSUME kept.by = b  PROVE  kept' = kept /\ KeptQuestions' = KeptQuestions
    OBVIOUS
  <2>2. kept' = kept /\ material' = material  BY <2>1, <1>3
  <2> QED
    BY <2>2, QuestionsStay
<1>5. Verified(kept.review)' = Verified(kept'.review)  BY DEF Verified
<1> QED
  BY <1>1, <1>2, <1>3, <1>4, <1>5 DEF ExecutionSound, Verified, CaseResult, Asking, Closing, Owning

\* The stores as they are stay sound.
LEMMA StoresStay ==
    ASSUME SessionInv, UNCHANGED <<material, bound, kept, tasks>>, head' => pinned'
    PROVE  KeptSound'
<1>1. KeptQuestions' = KeptQuestions
  BY QuestionsStay
<1> QED  BY <1>1 DEF SessionInv, KeptSound, Verified, CaseResult, Registered

\* A step of an attempt that leaves its own part, the rows and the stores sound.
LEMMA OwnStep ==
    ASSUME SessionInv, NEW a \in Executions, NEW w \in ProcessRows,
           NEW h \in {"none", "failed", "result", "waiting"},
           process' = [process EXCEPT ![a] = w], returned' = [returned EXCEPT ![a] = h],
           UNCHANGED <<material, authority>>,
           pinned => pinned', bound # 0 => bound' = bound, kept # NoRow => kept' = kept,
           tasks # {} => tasks' # {},
           pinned' \in BOOLEAN, head' \in BOOLEAN, bound' \in 0..MaxExecutions,
           kept' \in [by : 0..MaxExecutions, review : Reviews \cup {NoReview}, shaken : BOOLEAN],
           KeptSound', ExecutionSound(a)'
    PROVE  SessionInv'
<1>1. SessionRows'  BY DEF SessionInv, SessionRows, authority
<1>2. ASSUME NEW b \in Executions  PROVE  ExecutionSound(b)'
  <2>1. CASE b = a  BY <2>1
  <2>2. CASE b # a
    <3>1. process'[b] = process[b] /\ returned'[b] = returned[b]
      BY <2>2 DEF SessionInv, SessionRows
    <3> QED  BY <3>1, ExecutionStays
  <2> QED  BY <2>1, <2>2
<1> QED  BY <1>1, <1>2 DEF SessionInv

\* What Go writes.
LEMMA Gone ==
    ASSUME SessionInv, NEW a \in Executions, NEW next \in Places
    PROVE  LET w == [process[a] EXCEPT !.at = next, !.phase = "idle"] IN
           /\ Go(a, next) = [process EXCEPT ![a] = w]
           /\ w \in ProcessRows /\ w.at = next /\ w.phase = "idle"
           /\ w.as = process[a].as /\ w.review = process[a].review /\ w.ask = process[a].ask
           /\ w.shaken = process[a].shaken
<1> DEFINE w == [process[a] EXCEPT !.at = next, !.phase = "idle"]
<1>1. process[a] \in ProcessRows /\ process \in [Executions -> ProcessRows]
  BY DEF SessionInv, SessionRows
<1>2. Go(a, next) = [process EXCEPT ![a] = w]
  BY <1>1 DEF Go
<1>3. /\ w \in ProcessRows /\ w.at = next /\ w.phase = "idle"
      /\ w.as = process[a].as /\ w.review = process[a].review /\ w.ask = process[a].ask
      /\ w.shaken = process[a].shaken
  BY <1>1 DEF ProcessRows
<1> QED  BY <1>2, <1>3

\* An attempt that ends without an outcome, or with a failure, leaves everything sound.
LEMMA Ending ==
    ASSUME SessionInv, NEW a \in Executions, process[a].at # "none",
           process' = Go(a, "ended"), UNCHANGED <<material, authority, stores>>,
           returned' = returned \/ returned' = [returned EXCEPT ![a] = "failed"]
    PROVE  SessionInv'
<1> DEFINE w == [process[a] EXCEPT !.at = "ended", !.phase = "idle"]
<1>1. /\ process' = [process EXCEPT ![a] = w] /\ w \in ProcessRows /\ w.at = "ended"
      /\ w.ask = process[a].ask
  BY Gone DEF Places
<1>2. PICK h \in {"none", "failed", "result", "waiting"} :
         returned' = [returned EXCEPT ![a] = h] /\ (h = returned[a] \/ h = "failed")
  BY DEF SessionInv, SessionRows
<1> HIDE DEF w
<1>3. UNCHANGED <<pinned, head, bound, kept, tasks, job, session, epoch, docs>>
  BY DEF stores, authority
<1>4. process'[a] = w /\ returned'[a] = h
  BY <1>1, <1>2 DEF SessionInv, SessionRows
<1>5. ExecutionSound(a)'
  BY <1>1, <1>2, <1>3, <1>4 DEF SessionInv, ExecutionSound, Asking, Closing, Owning, Verified
<1>6. KeptSound'  BY <1>3, StoresStay DEF SessionInv, KeptSound
<1> QED  BY <1>1, <1>2, <1>3, <1>5, <1>6, OwnStep DEF SessionInv, SessionRows

\* A step that only moves an attempt.
LEMMA Moving ==
    ASSUME SessionInv, NEW a \in Executions, NEW w \in ProcessRows, process' = [process EXCEPT ![a] = w],
           UNCHANGED <<material, authority, stores, returned>>, ExecutionSound(a)'
    PROVE  SessionInv'
<1>1. returned' = [returned EXCEPT ![a] = returned[a]] /\ returned[a] \in {"none", "failed", "result", "waiting"}
  BY DEF SessionInv, SessionRows
<1>2. UNCHANGED <<pinned, head, bound, kept, tasks>>  BY DEF stores
<1>3. KeptSound'  BY <1>2, StoresStay DEF SessionInv, KeptSound
<1> QED  BY <1>1, <1>2, <1>3, OwnStep DEF SessionInv, SessionRows

\* What happens around the attempts.
LEMMA Disturbed ==
    ASSUME SessionInv, NEW event, Around(event), UNCHANGED <<pinned, head, bound, kept, tasks>>,
           job' \in [attempt : 0..MaxExecutions, live : BOOLEAN, cancel : BOOLEAN],
           job'.attempt = job.attempt, session' \in 0..2, epoch' \in 0..1, docs' \in BOOLEAN,
           \A a \in Executions : Unfounded(a)'
    PROVE  SessionInv'
<1>1. /\ process' = Shaken /\ UNCHANGED <<material, returned>>
      /\ SessionRows /\ process \in [Executions -> ProcessRows]
  BY DEF Around, SessionInv, SessionRows
<1>2. ASSUME NEW a \in Executions
      PROVE  /\ process'[a] \in ProcessRows /\ process'[a].at = process[a].at /\ process'[a].review = process[a].review
             /\ process'[a].ask = process[a].ask
             /\ \/ process'[a] = process[a]
                \/ process[a].at \in {"controller", "stored"}
  <2>1. process'[a] = IF process[a].at \in {"controller", "stored"} THEN [process[a] EXCEPT !.shaken = TRUE] ELSE process[a]
    BY <1>1 DEF Shaken
  <2>2. process[a] \in ProcessRows  BY <1>1
  <2> QED  BY <2>1, <2>2 DEF ProcessRows
<1>3. process' = [a \in Executions |-> process'[a]]
  BY <1>1 DEF Shaken
<1>4. process' \in [Executions -> ProcessRows]
  BY <1>2, <1>3
<1>5. SessionRows'
  BY <1>1, <1>4 DEF SessionRows
<1>6. KeptSound'  BY <1>1, StoresStay DEF SessionInv, KeptSound
<1>7. KeptQuestions' = KeptQuestions  BY <1>1, QuestionsStay
<1>8. ASSUME NEW a \in Executions  PROVE  ExecutionSound(a)'
  <2>1. ExecutionSound(a) /\ Unfounded(a)'  BY DEF SessionInv
  <2>2. process'[a].shaken => process[a].at \in {"controller", "stored", "ended"}
    BY <1>2, <2>1 DEF ExecutionSound
  <2> QED
    BY <1>1, <1>2, <1>7, <2>1, <2>2 DEF ExecutionSound, Asking, Closing, Owning, Verified, CaseResult
<1> QED  BY <1>5, <1>6, <1>8 DEF SessionInv

LEMMA Surroundings ==
    ASSUME SessionInv, ClaimLapses \/ Cancel \/ SourceLost \/ Fence \/ RemoveSession
    PROVE  SessionInv'
<1>1. /\ job \in [attempt : 0..MaxExecutions, live : BOOLEAN, cancel : BOOLEAN]
      /\ session \in 0..2 /\ epoch \in 0..1 /\ docs \in BOOLEAN
  BY DEF SessionInv, SessionRows
<1>2. /\ \E event : Around(event)
      /\ UNCHANGED <<pinned, head, bound, kept, tasks>>
  BY DEF ClaimLapses, Cancel, SourceLost, Fence, RemoveSession, Around, stores
<1>3. /\ job' \in [attempt : 0..MaxExecutions, live : BOOLEAN, cancel : BOOLEAN]
      /\ job'.attempt = job.attempt /\ session' \in 0..2 /\ epoch' \in 0..1 /\ docs' \in BOOLEAN
      /\ ~job'.live \/ job'.cancel \/ ~docs' \/ epoch' = 1
  <2>1. CASE ClaimLapses  BY <1>1, <2>1 DEF ClaimLapses
  <2>2. CASE Cancel  BY <1>1, <2>2 DEF Cancel
  <2>3. CASE SourceLost  BY <1>1, <2>3 DEF SourceLost
  <2>4. CASE Fence  BY <1>1, <2>4 DEF Fence
  <2>5. CASE RemoveSession  BY <1>1, <2>5 DEF RemoveSession
  <2> QED  BY <2>1, <2>2, <2>3, <2>4, <2>5
<1>4. \A a \in Executions : Unfounded(a)'
  BY <1>3 DEF Unfounded
<1> QED  BY <1>2, <1>3, <1>4, Disturbed

LEMMA Granting ==
    ASSUME SessionInv, GrantCase \/ Idle \/ UNCHANGED sessionVars
    PROVE  SessionInv'
<1>1. /\ UNCHANGED <<material, job, epoch, docs, pinned, head, bound, kept, tasks, process, returned>>
      /\ session' \in 0..2
  BY DEF GrantCase, Idle, sessionVars, stores, authority, SessionInv, SessionRows
<1>2. SessionRows'  BY <1>1 DEF SessionInv, SessionRows
<1>3. KeptSound'  BY <1>1, StoresStay DEF SessionInv, KeptSound
<1>4. KeptQuestions' = KeptQuestions  BY <1>1, QuestionsStay
<1>5. ASSUME NEW a \in Executions  PROVE  ExecutionSound(a)'
  BY <1>1, <1>4 DEF SessionInv, ExecutionSound, Unfounded, Verified, CaseResult
<1> QED  BY <1>2, <1>3, <1>5 DEF SessionInv

LEMMA Claiming ==
    ASSUME SessionInv, ClaimRun
    PROVE  SessionInv'
<1> DEFINE c == job.attempt + 1
<1>1. /\ job \in [attempt : 0..MaxExecutions, live : BOOLEAN, cancel : BOOLEAN]
      /\ MaxExecutions \in Nat /\ process \in [Executions -> ProcessRows]
      /\ job.attempt < MaxExecutions /\ ~job.live
  BY SessionAssumption DEF SessionInv, SessionRows, ClaimRun
<1>2. /\ c \in Executions /\ c \in Nat /\ job' = [job EXCEPT !.attempt = c, !.live = TRUE]
      /\ process' = [process EXCEPT ![c].at = "start"]
      /\ UNCHANGED <<material, session, epoch, docs, pinned, head, bound, kept, tasks, returned>>
  BY <1>1 DEF ClaimRun, Executions, stores
<1>3. process[c] = NoWorker
  BY <1>1, <1>2 DEF SessionInv, ExecutionSound
<1>4. /\ process' \in [Executions -> ProcessRows] /\ process'[c] = [NoWorker EXCEPT !.at = "start"]
      /\ \A b \in Executions : b # c => process'[b] = process[b]
  <2>1. [NoWorker EXCEPT !.at = "start"] \in ProcessRows
    BY <1>1, <1>2, <1>3 DEF ProcessRows, Places
  <2>2. process' = [process EXCEPT ![c] = [NoWorker EXCEPT !.at = "start"]]
    BY <1>1, <1>2, <1>3
  <2> HIDE DEF c
  <2> QED  BY <2>1, <2>2, <1>1, <1>2
<1>5. job' \in [attempt : 0..MaxExecutions, live : BOOLEAN, cancel : BOOLEAN] /\ job'.attempt = c
  <2> HIDE DEF c
  <2>1. c \in 0..MaxExecutions  BY <1>1, <1>2 DEF Executions
  <2> QED  BY <1>1, <1>2, <2>1
<1> HIDE DEF c
<1>6. SessionRows'
  BY <1>2, <1>4, <1>5 DEF SessionInv, SessionRows
<1>7. KeptSound'  BY <1>2, StoresStay DEF SessionInv, KeptSound
<1>8. KeptQuestions' = KeptQuestions  BY <1>2, QuestionsStay
<1>9. ASSUME NEW a \in Executions  PROVE  ExecutionSound(a)'
  <2>0. ExecutionSound(a)  BY DEF SessionInv
  <2>1. CASE a = c
    <3>1. process'[a].at = "start" /\ ~process'[a].shaken /\ process'[a].ask = {} /\ a <= c
      BY <2>1, <1>2, <1>4 DEF NoWorker
    <3> QED
      BY <3>1, <1>2, <1>5, <1>8, <2>0 DEF ExecutionSound, Owning, Asking, Closing, Verified
  <2>2. CASE a # c
    <3>1. process'[a] = process[a]  BY <2>2, <1>4
    <3>2. Unfounded(a)'  BY <2>2, <1>5 DEF Unfounded
    <3>3. process[a].at # "none" => a <= job'.attempt
      BY <2>0, <1>1, <1>2, <1>5 DEF ExecutionSound, c, Executions
    <3> QED
      BY <3>1, <3>2, <3>3, <1>2, <1>8, <2>0 DEF ExecutionSound, Verified, CaseResult
  <2> QED  BY <2>1, <2>2
<1> QED  BY <1>6, <1>7, <1>9 DEF SessionInv

\* An attempt that goes on to the next place, with nothing shaken.
LEMMA GoesOn ==
    ASSUME SessionInv, NEW a \in Executions, NEW next \in Places \ {"none", "start", "ended"},
           process' = Go(a, next), UNCHANGED <<material, authority, stores, returned>>,
           process[a].at \notin {"none", "start", "ended"}, ~process[a].shaken, bound = a,
           next \in {"stored", "put"} => CaseResult(process[a].review),
           process[a].ask # {} => next \in Asking \cup Closing,
           next \in Asking => /\ kept.by = a /\ ~Verified(kept.review)
                             /\ process[a].ask # {} /\ process[a].ask = KeptQuestions,
           next \in Closing => kept.by = a /\ (IF process[a].ask = {} THEN Verified(kept.review) ELSE tasks # {})
    PROVE  SessionInv'
<1> DEFINE w == [process[a] EXCEPT !.at = next, !.phase = "idle"]
<1>1. /\ process' = [process EXCEPT ![a] = w] /\ w \in ProcessRows /\ w.at = next
      /\ w.ask = process[a].ask /\ w.review = process[a].review /\ w.shaken = process[a].shaken
  BY Gone
<1> HIDE DEF w
<1>2. /\ process'[a] = w
      /\ UNCHANGED <<pinned, head, bound, kept, tasks, job, session, epoch, docs, material, returned>>
  BY <1>1 DEF SessionInv, SessionRows, stores, authority
<1>3. KeptQuestions' = KeptQuestions  BY <1>2, QuestionsStay
<1>4. ExecutionSound(a)'
  BY <1>1, <1>2, <1>3 DEF SessionInv, ExecutionSound, Verified, CaseResult
<1> QED  BY <1>1, <1>4, Moving

\* What an attempt that is under way knows of itself.
LEMMA Knows ==
    ASSUME SessionInv, NEW a \in Executions
    PROVE  /\ ExecutionSound(a) /\ process[a] \in ProcessRows /\ process \in [Executions -> ProcessRows]
           /\ a \in Nat /\ a # 0 /\ a \in 0..MaxExecutions
           /\ RequireCurrent(a) => ~Unfounded(a) /\ pinned
BY SessionAssumption DEF SessionInv, SessionRows, Executions, RequireCurrent, Check, Unfounded

LEMMA Looking ==
    ASSUME SessionInv, NEW a \in Executions, Look(a)
    PROVE  SessionInv'
<1>1. process[a].at \in Staged /\ UNCHANGED <<material, authority>>  BY DEF Look
<1>2. CASE Fail(a)  BY <1>1, <1>2, Ending DEF Fail, End, Staged
<1>3. CASE /\ process' = [process EXCEPT ![a].phase = "seen", ![a].as = session]
           /\ UNCHANGED <<stores, returned>>
  <2> DEFINE w == [process[a] EXCEPT !.phase = "seen", !.as = session]
  <2>1. /\ process' = [process EXCEPT ![a] = w] /\ w \in ProcessRows /\ w.at = process[a].at
        /\ w.ask = process[a].ask /\ w.review = process[a].review /\ w.shaken = process[a].shaken
    <3>1. session \in 0..2  BY DEF SessionInv, SessionRows
    <3> QED  BY <1>3, <3>1, Knows DEF ProcessRows
  <2> HIDE DEF w
  <2>2. /\ process'[a] = w
        /\ UNCHANGED <<pinned, head, bound, kept, tasks, job, session, epoch, docs, material, returned>>
    BY <1>1, <1>3, <2>1, Knows DEF stores, authority
  <2>3. KeptQuestions' = KeptQuestions  BY <2>2, QuestionsStay
  <2>4. ExecutionSound(a)'
    BY <1>1, <2>1, <2>2, <2>3, Knows DEF ExecutionSound, Unfounded, Verified, CaseResult, Staged
  <2> QED  BY <1>1, <1>3, <2>1, <2>4, Moving
<1> QED  BY <1>2, <1>3 DEF Look

LEMMA Starting ==
    ASSUME SessionInv, NEW a \in Executions, StartExecution(a)
    PROVE  SessionInv'
<1>1. process[a].at = "start" /\ UNCHANGED <<material, authority>>  BY DEF StartExecution, At
<1>2. CASE Fail(a)  BY <1>1, <1>2, Ending DEF Fail, End
<1>3. CASE process' = Go(a, "seed") /\ pinned' = TRUE /\ UNCHANGED <<head, bound, kept, tasks, returned>>
  <2> DEFINE w == [process[a] EXCEPT !.at = "seed", !.phase = "idle"]
  <2>1. /\ process' = [process EXCEPT ![a] = w] /\ w \in ProcessRows /\ w.at = "seed"
        /\ w.ask = process[a].ask /\ w.shaken = process[a].shaken
    BY <1>3, Gone DEF Places, Staged
  <2> HIDE DEF w
  <2>2. /\ process'[a] = w /\ returned' = [returned EXCEPT ![a] = returned[a]]
        /\ UNCHANGED <<job, session, epoch, docs, material>>
    BY <1>1, <1>3, <2>1, Knows DEF authority, SessionInv, SessionRows
  <2>3. ExecutionSound(a)'
    BY <1>1, <1>3, <2>1, <2>2, Knows DEF ExecutionSound, Asking, Closing, Owning, Verified
  <2>4. KeptSound'  BY <1>1, <1>3, StoresStay
  <2>5. /\ returned[a] \in {"none", "failed", "result", "waiting"}
        /\ pinned' \in BOOLEAN /\ head' \in BOOLEAN /\ bound' \in 0..MaxExecutions
        /\ kept' \in [by : 0..MaxExecutions, review : Reviews \cup {NoReview}, shaken : BOOLEAN]
    BY <1>3 DEF SessionInv, SessionRows
  <2> QED  BY <1>1, <1>3, <2>1, <2>2, <2>3, <2>4, <2>5, OwnStep
<1> QED  BY <1>2, <1>3 DEF StartExecution

LEMMA Guarding ==
    ASSUME SessionInv, NEW a \in Executions, Guarded(a)
    PROVE  SessionInv'
<1>1. process[a].at \in {"seed", "register"} /\ UNCHANGED <<material, authority>>
  BY DEF Guarded, AdmitStage
<1>2. CASE Fail(a)  BY <1>1, <1>2, Ending DEF Fail, End
<1>3. CASE process' = [process EXCEPT ![a].phase = "checked"] /\ UNCHANGED <<stores, returned>>
  <2> DEFINE w == [process[a] EXCEPT !.phase = "checked"]
  <2>1. /\ process' = [process EXCEPT ![a] = w] /\ w \in ProcessRows /\ w.at = process[a].at
        /\ w.ask = process[a].ask /\ w.review = process[a].review /\ w.shaken = process[a].shaken
    BY <1>3, Knows DEF ProcessRows
  <2> HIDE DEF w
  <2>2. /\ process'[a] = w
        /\ UNCHANGED <<pinned, head, bound, kept, tasks, job, session, epoch, docs, material, returned>>
    BY <1>1, <1>3, <2>1, Knows DEF stores, authority
  <2>3. KeptQuestions' = KeptQuestions  BY <2>2, QuestionsStay
  <2>4. ExecutionSound(a)'
    BY <1>1, <2>1, <2>2, <2>3, Knows DEF ExecutionSound, Unfounded, Verified, CaseResult
  <2> QED  BY <1>1, <1>3, <2>1, <2>4, Moving
<1> QED  BY <1>2, <1>3 DEF Guarded, AdmitStage

LEMMA Seeding ==
    ASSUME SessionInv, NEW a \in Executions, Seed(a)
    PROVE  SessionInv'
<1>1. process[a].at = "seed" /\ UNCHANGED <<material, authority>>  BY DEF Seed, At
<1>2. CASE Fail(a)  BY <1>1, <1>2, Ending DEF Fail, End
<1>3. CASE head' = TRUE /\ process' = Go(a, "open") /\ UNCHANGED <<pinned, bound, kept, tasks, returned>>
  <2> DEFINE w == [process[a] EXCEPT !.at = "open", !.phase = "idle"]
  <2>1. /\ process' = [process EXCEPT ![a] = w] /\ w \in ProcessRows /\ w.at = "open"
        /\ w.ask = process[a].ask /\ w.shaken = process[a].shaken
    BY <1>3, Gone DEF Places, Staged
  <2> HIDE DEF w
  <2>2. /\ process'[a] = w /\ returned' = [returned EXCEPT ![a] = returned[a]]
        /\ UNCHANGED <<job, session, epoch, docs, material>> /\ pinned
    BY <1>1, <1>3, <2>1, Knows DEF authority, SessionInv, SessionRows, ExecutionSound
  <2>3. ExecutionSound(a)'
    BY <1>1, <1>3, <2>1, <2>2, Knows DEF ExecutionSound, Asking, Closing, Owning, Verified
  <2>4. KeptSound'  BY <1>1, <1>3, <2>2, StoresStay
  <2>5. /\ returned[a] \in {"none", "failed", "result", "waiting"}
        /\ pinned' \in BOOLEAN /\ head' \in BOOLEAN /\ bound' \in 0..MaxExecutions
        /\ kept' \in [by : 0..MaxExecutions, review : Reviews \cup {NoReview}, shaken : BOOLEAN]
    BY <1>3 DEF SessionInv, SessionRows
  <2> QED  BY <1>1, <1>3, <2>1, <2>2, <2>3, <2>4, <2>5, OwnStep
<1> QED  BY <1>2, <1>3 DEF Seed

LEMMA Opening ==
    ASSUME SessionInv, NEW a \in Executions, Open(a)
    PROVE  SessionInv'
<1>1. process[a].at = "open" /\ UNCHANGED <<material, authority>>  BY DEF Open, At
<1>2. CASE Fail(a)  BY <1>1, <1>2, Ending DEF Fail, End
<1>3. CASE /\ bound \in {0, a} /\ bound' = a /\ process' = Go(a, "review")
           /\ UNCHANGED <<pinned, head, kept, tasks, returned>>
  <2> DEFINE w == [process[a] EXCEPT !.at = "review", !.phase = "idle"]
  <2>1. /\ process' = [process EXCEPT ![a] = w] /\ w \in ProcessRows /\ w.at = "review"
        /\ w.ask = process[a].ask /\ w.shaken = process[a].shaken
    BY <1>3, Gone DEF Places, Staged
  <2> HIDE DEF w
  <2>2. /\ process'[a] = w /\ returned' = [returned EXCEPT ![a] = returned[a]]
        /\ UNCHANGED <<job, session, epoch, docs, material>> /\ pinned
    BY <1>1, <1>3, <2>1, Knows DEF authority, SessionInv, SessionRows, ExecutionSound
  <2>3. ExecutionSound(a)'
    BY <1>1, <1>3, <2>1, <2>2, Knows DEF ExecutionSound, Asking, Closing, Owning, Verified
  <2>4. KeptSound'
    <3>1. KeptQuestions' = KeptQuestions  BY <1>1, <1>3, QuestionsStay
    <3> QED  BY <1>3, <3>1, Knows DEF SessionInv, KeptSound, Verified, CaseResult, Registered
  <2>5. /\ returned[a] \in {"none", "failed", "result", "waiting"}
        /\ pinned' \in BOOLEAN /\ head' \in BOOLEAN /\ bound' \in 0..MaxExecutions
        /\ kept' \in [by : 0..MaxExecutions, review : Reviews \cup {NoReview}, shaken : BOOLEAN]
    BY <1>3, Knows DEF SessionInv, SessionRows
  <2> QED  BY <1>1, <1>3, <2>1, <2>2, <2>3, <2>4, <2>5, OwnStep
<1> QED  BY <1>2, <1>3 DEF Open

LEMMA Reviewed ==
    ASSUME SessionInv, NEW a \in Executions, Review(a)
    PROVE  SessionInv'
<1>1. process[a].at = "review" /\ UNCHANGED <<material, authority>>  BY DEF Review, AdmitStage, At
<1>2. CASE Fail(a)  BY <1>1, <1>2, Ending DEF Fail, End
<1>3. CASE /\ process' = Go(a, IF kept = NoRow THEN "controller" ELSE "use") /\ UNCHANGED <<stores, returned>>
  <2>1. PICK next \in {"controller", "use"} : process' = Go(a, next)  BY <1>3
  <2>2. /\ bound = a /\ ~process[a].shaken /\ process[a].ask = {}
        /\ next \in Places \ {"none", "start", "ended"} /\ next \notin Asking \cup Closing \cup {"stored", "put"}
    BY <1>1, Knows DEF ExecutionSound, Owning, Asking, Closing, Places, Staged
  <2> QED  BY <1>1, <1>3, <2>1, <2>2, GoesOn
<1> QED  BY <1>2, <1>3 DEF Review, AdmitStage

LEMMA Controlling ==
    ASSUME SessionInv, NEW a \in Executions, Controller(a)
    PROVE  SessionInv'
<1>1. process[a].at = "controller" /\ UNCHANGED <<material, authority, stores>>  BY DEF Controller, At
<1>2. CASE process' = Go(a, "ended") /\ returned' = [returned EXCEPT ![a] = "failed"]
  BY <1>1, <1>2, Ending
<1>3. ASSUME NEW r \in Reviews, CaseResult(r), process' = [Go(a, "stored") EXCEPT ![a].review = r],
             returned' = returned
      PROVE  SessionInv'
  <2> DEFINE v == [process[a] EXCEPT !.at = "stored", !.phase = "idle"]
             w == [v EXCEPT !.review = r]
  <2>1. /\ Go(a, "stored") = [process EXCEPT ![a] = v] /\ v \in ProcessRows /\ v.at = "stored"
        /\ v.ask = process[a].ask /\ v.shaken = process[a].shaken
    BY Gone DEF Places, Staged
  <2> HIDE DEF v
  <2>2. /\ w \in ProcessRows /\ w.at = "stored" /\ w.review = r
        /\ w.ask = process[a].ask /\ w.shaken = process[a].shaken
    BY <2>1 DEF ProcessRows
  <2>3. process' = [process EXCEPT ![a] = w]
    BY <1>3, <2>1, Knows
  <2> HIDE DEF w
  <2>4. /\ process'[a] = w
        /\ UNCHANGED <<pinned, head, bound, kept, tasks, job, session, epoch, docs, material, returned>>
    BY <1>1, <1>3, <2>2, <2>3, Knows DEF stores, authority
  <2>5. CaseResult(process[a].review)'
    BY <1>3, <2>2, <2>4 DEF CaseResult, Verified
  <2>6. Unfounded(a)' = Unfounded(a) /\ Verified(kept.review)' = Verified(kept.review)
    BY <2>4 DEF Unfounded, Verified
  <2>7. ExecutionSound(a)
    BY Knows
  <2>8. ExecutionSound(a)'
    BY <1>1, <2>2, <2>4, <2>5, <2>6, <2>7 DEF ExecutionSound, Asking, Closing, Owning
  <2> QED  BY <1>1, <1>3, <2>2, <2>3, <2>8, Moving
<1> QED  BY <1>2, <1>3 DEF Controller, End

LEMMA Storing ==
    ASSUME SessionInv, NEW a \in Executions, Stored(a)
    PROVE  SessionInv'
<1>1. process[a].at = "stored" /\ UNCHANGED <<material, authority>>  BY DEF Stored, AdmitStage, At
<1>2. CASE Fail(a)  BY <1>1, <1>2, Ending DEF Fail, End
<1>3. CASE RequireCurrent(a) /\ process' = Go(a, "put") /\ UNCHANGED <<stores, returned>>
  <2>1. bound = a /\ ~process[a].shaken /\ process[a].ask = {} /\ CaseResult(process[a].review)
    BY <1>1, <1>3, Knows DEF ExecutionSound, Owning, Asking, Closing
  <2>2. "put" \in Places \ {"none", "start", "ended"} /\ "put" \notin Asking \cup Closing
    BY DEF Places, Staged, Asking, Closing
  <2> QED  BY <1>1, <1>3, <2>1, <2>2, GoesOn
<1> QED  BY <1>2, <1>3 DEF Stored, AdmitStage

LEMMA Putting ==
    ASSUME SessionInv, NEW a \in Executions, Put(a)
    PROVE  SessionInv'
<1> DEFINE new == [by |-> a, review |-> process[a].review, shaken |-> process[a].shaken]
<1>1. process[a].at = "put" /\ UNCHANGED <<material, authority>>  BY DEF Put, At
<1>2. CASE Fail(a)  BY <1>1, <1>2, Ending DEF Fail, End
<1>3. CASE /\ kept \in {NoRow, new} /\ kept' = new /\ process' = Go(a, "use")
           /\ UNCHANGED <<pinned, head, bound, tasks, returned>>
  <2> DEFINE w == [process[a] EXCEPT !.at = "use", !.phase = "idle"]
  <2>1. /\ process' = [process EXCEPT ![a] = w] /\ w \in ProcessRows /\ w.at = "use"
        /\ w.ask = process[a].ask /\ w.shaken = process[a].shaken
    BY <1>3, Gone DEF Places, Staged
  <2> HIDE DEF w
  <2>2. /\ process'[a] = w /\ returned' = [returned EXCEPT ![a] = returned[a]]
        /\ UNCHANGED <<job, session, epoch, docs, material>> /\ pinned /\ bound = a
        /\ ~process[a].shaken /\ CaseResult(process[a].review) /\ process[a].ask = {}
        /\ process[a].review \in Reviews \cup {NoReview} /\ process[a].shaken \in BOOLEAN
    BY <1>1, <1>3, <2>1, Knows DEF authority, SessionInv, SessionRows, ExecutionSound, Owning, ProcessRows, Asking, Closing
  <2>3. /\ new \in [by : 0..MaxExecutions, review : Reviews \cup {NoReview}, shaken : BOOLEAN]
        /\ kept # NoRow => kept' = kept
    BY <1>3, <2>2, Knows
  <2>4. /\ kept'.by = a /\ kept'.review = process[a].review /\ kept'.shaken = process[a].shaken
        /\ kept' # NoRow
    BY <1>3, Knows DEF NoRow
  <2>5. ExecutionSound(a)'
    <3>1. /\ returned[a] \in {"result", "waiting"} => kept' = kept
          /\ ExecutionSound(a)
      BY <2>3, Knows DEF ExecutionSound, NoRow
    <3>2. Verified(kept.review)' = Verified(kept'.review)
      BY DEF Verified
    <3> QED
      BY <1>1, <1>3, <2>1, <2>2, <2>4, <3>1, <3>2 DEF ExecutionSound, Asking, Closing, Owning
  <2>6. KeptSound'
    <3>1. CASE kept = NoRow
      <4>1. tasks' = {} /\ (head' => pinned')
        BY <1>3, <3>1 DEF SessionInv, KeptSound
      <4> QED  BY <1>3, <2>2, <2>4, <4>1, Knows DEF KeptSound, CaseResult, Verified
    <3>2. CASE kept # NoRow
      BY <1>1, <1>3, <2>3, <3>2, StoresStay DEF SessionInv, KeptSound
    <3> QED  BY <3>1, <3>2
  <2>7. /\ returned[a] \in {"none", "failed", "result", "waiting"}
        /\ pinned' \in BOOLEAN /\ head' \in BOOLEAN /\ bound' \in 0..MaxExecutions
        /\ kept' \in [by : 0..MaxExecutions, review : Reviews \cup {NoReview}, shaken : BOOLEAN]
    BY <1>3, <2>3 DEF SessionInv, SessionRows
  <2> QED  BY <1>1, <1>3, <2>1, <2>2, <2>3, <2>5, <2>6, <2>7, OwnStep
<1> QED  BY <1>2, <1>3 DEF Put

LEMMA Using ==
    ASSUME SessionInv, NEW a \in Executions, Use(a)
    PROVE  SessionInv'
<1>1. process[a].at = "use" /\ UNCHANGED <<material, authority>>  BY DEF Use, At
<1>2. CASE Fail(a)  BY <1>1, <1>2, Ending DEF Fail, End
<1>3. bound = a /\ ~process[a].shaken /\ process[a].ask = {}
  BY <1>1, Knows DEF ExecutionSound, Owning, Asking, Closing
<1>4. CASE /\ kept.by = a /\ Verified(kept.review) /\ process' = Go(a, "close") /\ UNCHANGED <<stores, returned>>
  <2>1. "close" \in Places \ {"none", "start", "ended"} /\ "close" \notin Asking
    BY DEF Places, Staged, Asking
  <2> QED  BY <1>1, <1>3, <1>4, <2>1, GoesOn
<1>5. CASE /\ kept.by = a /\ ~Verified(kept.review) /\ KeptQuestions # {}
           /\ process' = [Go(a, "ask") EXCEPT ![a].ask = KeptQuestions] /\ UNCHANGED <<stores, returned>>
  <2> DEFINE v == [process[a] EXCEPT !.at = "ask", !.phase = "idle"]
             w == [v EXCEPT !.ask = KeptQuestions]
  <2>1. /\ Go(a, "ask") = [process EXCEPT ![a] = v] /\ v \in ProcessRows /\ v.at = "ask"
        /\ v.shaken = process[a].shaken
    BY Gone DEF Places, Staged
  <2> HIDE DEF v
  <2>2. KeptQuestions \in SUBSET Bindings
    BY DEF KeptQuestions, Questions, Asked, Considered
  <2>3. /\ w \in ProcessRows /\ w.at = "ask" /\ w.ask = KeptQuestions /\ w.shaken = process[a].shaken
    BY <2>1, <2>2 DEF ProcessRows
  <2>4. process' = [process EXCEPT ![a] = w]
    BY <1>5, <2>1, Knows
  <2> HIDE DEF w
  <2>5. /\ process'[a] = w
        /\ UNCHANGED <<pinned, head, bound, kept, tasks, job, session, epoch, docs, material, returned>>
    BY <1>1, <1>5, <2>3, <2>4, Knows DEF stores, authority
  <2>6. KeptQuestions' = KeptQuestions  BY <2>5, QuestionsStay
  <2>7. Verified(kept.review)' = Verified(kept.review) /\ ExecutionSound(a)
    BY <2>5, Knows DEF Verified
  <2>8. ExecutionSound(a)'
    BY <1>1, <1>3, <1>5, <2>3, <2>5, <2>6, <2>7 DEF ExecutionSound, Asking, Closing, Owning
  <2> QED  BY <1>1, <1>5, <2>3, <2>4, <2>8, Moving
<1> QED  BY <1>2, <1>4, <1>5 DEF Use, KeptQuestions

LEMMA AskingAgain ==
    ASSUME SessionInv, NEW a \in Executions, Ask(a)
    PROVE  SessionInv'
<1>1. process[a].at = "ask" /\ UNCHANGED <<material, authority>>  BY DEF Ask, AdmitStage, At
<1>2. CASE Fail(a)  BY <1>1, <1>2, Ending DEF Fail, End
<1>3. CASE process' = Go(a, "register") /\ UNCHANGED <<stores, returned>>
  <2>1. /\ bound = a /\ ~process[a].shaken /\ kept.by = a /\ ~Verified(kept.review)
        /\ process[a].ask # {} /\ process[a].ask = KeptQuestions
    BY <1>1, Knows DEF ExecutionSound, Owning, Asking
  <2>2. /\ "register" \in Places \ {"none", "start", "ended"} /\ "register" \in Asking
        /\ "register" \notin Closing
    BY DEF Places, Staged, Asking, Closing
  <2> QED  BY <1>1, <1>3, <2>1, <2>2, GoesOn
<1> QED  BY <1>2, <1>3 DEF Ask, AdmitStage

LEMMA Registering ==
    ASSUME SessionInv, NEW a \in Executions, Register(a)
    PROVE  SessionInv'
<1>1. process[a].at = "register" /\ UNCHANGED <<material, authority>>  BY DEF Register, At
<1>2. CASE Fail(a)  BY <1>1, <1>2, Ending DEF Fail, End
<1>3. CASE /\ tasks' = tasks \cup BatchOf(a) /\ process' = Go(a, "asked")
           /\ UNCHANGED <<pinned, head, bound, kept, returned>>
  <2> DEFINE w == [process[a] EXCEPT !.at = "asked", !.phase = "idle"]
  <2>1. /\ process' = [process EXCEPT ![a] = w] /\ w \in ProcessRows /\ w.at = "asked"
        /\ w.ask = process[a].ask /\ w.shaken = process[a].shaken
    BY <1>3, Gone DEF Places, Staged
  <2> HIDE DEF w
  <2>2. /\ process'[a] = w /\ returned' = [returned EXCEPT ![a] = returned[a]]
        /\ UNCHANGED <<job, session, epoch, docs, material>> /\ pinned /\ bound = a
        /\ ~process[a].shaken /\ kept.by = a /\ ~Verified(kept.review)
        /\ process[a].ask # {} /\ process[a].ask = KeptQuestions
    BY <1>1, <1>3, <2>1, Knows DEF authority, SessionInv, SessionRows, ExecutionSound, Owning, Asking
  <2>3. KeptQuestions' = KeptQuestions  BY <1>3, <2>2, QuestionsStay
  <2>4. BatchOf(a) = Registered(a, KeptQuestions) /\ BatchOf(a) # {}
    BY <2>2 DEF BatchOf, Registered
  <2>5. tasks' = BatchOf(a)
    <3>1. tasks = {} \/ tasks = BatchOf(a)
      BY <2>2, <2>4 DEF SessionInv, KeptSound
    <3> QED  BY <1>3, <3>1
  <2>6. Verified(kept.review)' = Verified(kept.review) /\ ExecutionSound(a)
    BY <1>3, Knows DEF Verified
  <2>7. ExecutionSound(a)'
    BY <1>1, <1>3, <2>1, <2>2, <2>3, <2>4, <2>5, <2>6 DEF ExecutionSound, Asking, Closing, Owning
  <2>8. KeptSound'
    <3>1. Registered(kept.by, KeptQuestions)' = BatchOf(a)
      BY <1>3, <2>2, <2>3, <2>4 DEF Registered
    <3>2. CaseResult(kept.review)' = CaseResult(kept.review)
      BY <1>3 DEF CaseResult, Verified
    <3>3. kept # NoRow
      BY <2>2, Knows DEF NoRow
    <3> QED  BY <1>3, <2>2, <2>5, <2>6, <3>1, <3>2, <3>3 DEF SessionInv, KeptSound
  <2>9. /\ returned[a] \in {"none", "failed", "result", "waiting"}
        /\ pinned' \in BOOLEAN /\ head' \in BOOLEAN /\ bound' \in 0..MaxExecutions
        /\ kept' \in [by : 0..MaxExecutions, review : Reviews \cup {NoReview}, shaken : BOOLEAN]
    BY <1>3 DEF SessionInv, SessionRows
  <2>10. tasks' # {}  BY <2>4, <2>5
  <2>11. /\ pinned => pinned'
         /\ bound # 0 => bound' = bound
         /\ kept # NoRow => kept' = kept
    BY <1>3
  <2>12. returned' = [returned EXCEPT ![a] = returned[a]]  BY <2>2
  <2> QED  BY <1>1, <2>1, <2>7, <2>8, <2>9, <2>10, <2>11, <2>12, OwnStep
<1> QED  BY <1>2, <1>3 DEF Register

LEMMA Confirming ==
    ASSUME SessionInv, NEW a \in Executions, Confirmed(a)
    PROVE  SessionInv'
<1>1. process[a].at = "asked" /\ UNCHANGED <<material, authority>>  BY DEF Confirmed, At
<1>2. CASE Fail(a)  BY <1>1, <1>2, Ending DEF Fail, End
<1>3. CASE BatchOf(a) \subseteq tasks /\ process' = Go(a, "close") /\ UNCHANGED <<stores, returned>>
  <2>1. bound = a /\ ~process[a].shaken /\ kept.by = a /\ process[a].ask # {}
    BY <1>1, Knows DEF ExecutionSound, Owning, Asking
  <2>2. tasks # {}
    BY <1>3, <2>1 DEF BatchOf
  <2>3. "close" \in Places \ {"none", "start", "ended"} /\ "close" \notin Asking /\ "close" \in Closing
    BY DEF Places, Staged, Asking, Closing
  <2> QED  BY <1>1, <1>3, <2>1, <2>2, <2>3, GoesOn
<1> QED  BY <1>2, <1>3 DEF Confirmed

LEMMA ClosingExecution ==
    ASSUME SessionInv, NEW a \in Executions, Close(a)
    PROVE  SessionInv'
<1>1. process[a].at = "close" /\ UNCHANGED <<material, authority>>  BY DEF Close, At
<1>2. CASE Fail(a)  BY <1>1, <1>2, Ending DEF Fail, End
<1>3. CASE process' = Go(a, "return") /\ UNCHANGED <<stores, returned>>
  <2>1. /\ bound = a /\ ~process[a].shaken /\ kept.by = a
        /\ IF process[a].ask = {} THEN Verified(kept.review) ELSE tasks # {}
    BY <1>1, Knows DEF ExecutionSound, Owning, Closing
  <2>2. "return" \in Places \ {"none", "start", "ended"} /\ "return" \notin Asking /\ "return" \in Closing
    BY DEF Places, Staged, Asking, Closing
  <2> QED  BY <1>1, <1>3, <2>1, <2>2, GoesOn
<1> QED  BY <1>2, <1>3 DEF Close

LEMMA Returning ==
    ASSUME SessionInv, NEW a \in Executions, Return(a)
    PROVE  SessionInv'
<1>1. process[a].at = "return" /\ UNCHANGED <<material, authority, stores>>
  BY DEF Return, At, Fail
<1>2. CASE Fail(a)  BY <1>1, <1>2, Ending DEF Fail, End
<1>3. CASE End(a, IF process[a].ask # {} THEN "waiting" ELSE "result")
  <2> DEFINE w == [process[a] EXCEPT !.at = "ended", !.phase = "idle"]
  <2>1. /\ process' = [process EXCEPT ![a] = w] /\ w \in ProcessRows /\ w.at = "ended"
        /\ w.ask = process[a].ask /\ w.shaken = process[a].shaken
    BY <1>3, Gone DEF Places, End
  <2> HIDE DEF w
  <2>2. PICK h \in {"result", "waiting"} :
           /\ returned' = [returned EXCEPT ![a] = h]
           /\ h = "waiting" <=> process[a].ask # {}
    BY <1>3 DEF End
  <2>3. /\ process'[a] = w /\ returned'[a] = h
        /\ UNCHANGED <<pinned, head, bound, kept, tasks, job, session, epoch, docs, material>>
    BY <1>1, <2>1, <2>2, Knows DEF authority, stores, SessionInv, SessionRows
  <2>4. /\ kept.by = a /\ (h = "result" => Verified(kept.review)) /\ (h = "waiting" => tasks # {})
        /\ ExecutionSound(a)
    BY <1>1, <2>2, Knows DEF ExecutionSound, Closing
  <2>5. Verified(kept.review)' = Verified(kept.review)
    BY <2>3 DEF Verified
  <2>6. ExecutionSound(a)'
    BY <1>1, <2>1, <2>3, <2>4, <2>5 DEF ExecutionSound, Asking, Closing, Owning
  <2>7. KeptSound'  BY <2>3, StoresStay DEF SessionInv, KeptSound
  <2>8. /\ h \in {"none", "failed", "result", "waiting"}
        /\ pinned' \in BOOLEAN /\ head' \in BOOLEAN /\ bound' \in 0..MaxExecutions
        /\ kept' \in [by : 0..MaxExecutions, review : Reviews \cup {NoReview}, shaken : BOOLEAN]
    BY <2>3 DEF SessionInv, SessionRows
  <2> QED  BY <1>1, <2>1, <2>2, <2>3, <2>6, <2>7, <2>8, OwnStep
<1> QED  BY <1>2, <1>3 DEF Return

LEMMA Dying ==
    ASSUME SessionInv, NEW a \in Executions, DieExecuting(a)
    PROVE  SessionInv'
BY Ending DEF DieExecuting

LEMMA SessionKept ==
    ASSUME SessionInv, [SessionNext]_sessionVars
    PROVE  SessionInv'
<1>1. CASE ClaimRun  BY <1>1, Claiming
<1>2. CASE ClaimLapses \/ Cancel \/ SourceLost \/ Fence \/ RemoveSession  BY <1>2, Surroundings
<1>3. CASE GrantCase \/ Idle \/ UNCHANGED sessionVars  BY <1>3, Granting
<1>4. ASSUME NEW a \in Executions,
             \/ StartExecution(a) \/ Look(a) \/ Guarded(a) \/ Seed(a) \/ Open(a) \/ Review(a) \/ Controller(a)
             \/ Stored(a) \/ Put(a) \/ Use(a) \/ Ask(a) \/ Register(a) \/ Confirmed(a) \/ Close(a) \/ Return(a)
             \/ DieExecuting(a)
      PROVE  SessionInv'
  BY <1>4, Starting, Looking, Guarding, Seeding, Opening, Reviewed, Controlling, Storing, Putting, Using,
     AskingAgain, Registering, Confirming, ClosingExecution, Returning, Dying
<1> QED  BY <1>1, <1>2, <1>3, <1>4 DEF SessionNext

LEMMA SessionBegins ==
    ASSUME SessionInit
    PROVE  SessionInv
<1>1. MaxExecutions \in Nat /\ 0 \in 0..MaxExecutions  BY SessionAssumption
<1>2. NoWorker \in ProcessRows /\ NoRow \in [by : 0..MaxExecutions, review : Reviews \cup {NoReview}, shaken : BOOLEAN]
  BY <1>1 DEF NoWorker, NoRow, ProcessRows, Places
<1>3. SessionRows
  <2>1. process \in [Executions -> ProcessRows] /\ returned \in [Executions -> {"none", "failed", "result", "waiting"}]
    BY <1>2 DEF SessionInit
  <2>2. job \in [attempt : 0..MaxExecutions, live : BOOLEAN, cancel : BOOLEAN]
    BY <1>1 DEF SessionInit
  <2>3. kept \in [by : 0..MaxExecutions, review : Reviews \cup {NoReview}, shaken : BOOLEAN]
    BY <1>2 DEF SessionInit
  <2>4. session \in 0..2 /\ epoch \in 0..1 /\ bound \in 0..MaxExecutions
    BY <1>1 DEF SessionInit
  <2> QED  BY <2>1, <2>2, <2>3, <2>4 DEF SessionInit, SessionRows
<1>4. KeptSound  BY DEF SessionInit, KeptSound
<1>5. ASSUME NEW a \in Executions  PROVE  ExecutionSound(a)
  BY DEF SessionInit, ExecutionSound, NoWorker, Owning, Asking, Closing
<1> QED  BY <1>3, <1>4, <1>5 DEF SessionInv

\* The invariant holds, for any inventory, bindings, reviews, number of attempts and
\* whatever happens around them (IntegratedWorkflowExecution.execute).
THEOREM SessionInvHolds == SessionSpec => []SessionInv
<1>1. SessionInit => SessionInv  BY SessionBegins
<1>2. SessionInv /\ [SessionNext]_sessionVars => SessionInv'  BY SessionKept
<1> QED  BY <1>1, <1>2, PTL DEF SessionSpec

\* Every finding of a review that is asked about has a question, or is one nobody can answer now.
LEMMA AskedWhole ==
    ASSUME SessionInv
    PROVE  NothingIsDropped
<1> DEFINE blocked == kept.review.blocked
           pending == \E f \in blocked : f.kind = "approval" /\ f.status = "needs_review"
<1>1. SUFFICES ASSUME tasks # {}, NEW f \in blocked
               PROVE  \/ \E t \in tasks : f.id \in t.findings
                      \/ f.kind = "approval"
                      \/ f.kind = "calculation" /\ \/ \E t \in tasks : t.context = f.context
                                                   \/ pending /\ \A p \in Inventory : p[1] = f.context => BothConfirmed(p[1], p[2])
                      \/ f.kind # "calculation" /\ pending /\ BothConfirmed(f.context, f.factor)
  BY DEF NothingIsDropped
<1>2. tasks = Registered(kept.by, KeptQuestions) /\ KeptQuestions = Questions(blocked)
  BY <1>1 DEF SessionInv, KeptSound, KeptQuestions
<1>3. Askable(blocked) /\ Questions(blocked) = Asked(blocked)
  BY <1>1, <1>2 DEF Registered, Questions
<1> HIDE DEF blocked
<1>4. ASSUME NEW b \in Asked(blocked)
      PROVE  \E t \in tasks : t.findings = b.findings /\ t.context = b.context
  <2> DEFINE t == [by |-> kept.by, id |-> b.id, kind |-> b.kind, context |-> b.context, factor |-> b.factor,
                   side |-> b.side, findings |-> b.findings]
  <2>1. t \in tasks  BY <1>2, <1>3, <1>4 DEF Registered
  <2>2. t.findings = b.findings /\ t.context = b.context  OBVIOUS
  <2> QED  BY <2>1, <2>2
<1>5. ApprovalPending(blocked) => pending
  BY DEF ApprovalPending
<1>6. ASSUME NEW p \in ConfirmedPairs(blocked)  PROVE  BothConfirmed(p[1], p[2])
  BY DEF ConfirmedPairs, BothConfirmed, Settled
<1>7. CASE f \in FindingsOf(Asked(blocked), blocked)
  BY <1>7, <1>4 DEF FindingsOf
<1>8. CASE f \in Deferred(blocked)
  <2>1. /\ ApprovalPending(blocked) /\ <<f.context, f.factor>> \in ConfirmedPairs(blocked)
        /\ f.kind # "calculation"
    BY <1>8 DEF Deferred
  <2>2. BothConfirmed(f.context, f.factor)
    BY <2>1, <1>6
  <2> QED  BY <2>1, <2>2, <1>5
<1>9. CASE f \in Recomputed(blocked)
  <2>1. f.kind = "calculation"  BY <1>9 DEF Recomputed
  <2>2. CASE \E b \in Asked(blocked) : b.context = f.context
    BY <2>1, <2>2, <1>4
  <2>3. CASE ApprovalPending(blocked) /\ f.context \in ConfirmedContexts(blocked)
    <3>1. \A p \in Inventory : p[1] = f.context => p \in ConfirmedPairs(blocked)
      BY <2>3 DEF ConfirmedContexts
    <3> QED  BY <2>1, <2>3, <3>1, <1>5, <1>6
  <2> QED  BY <1>9, <2>2, <2>3 DEF Recomputed
<1> QED  BY <1>1, <1>3, <1>7, <1>8, <1>9 DEF Askable

\* What the session stores and returns is its own review, made while it held the run, and a
\* run that asks leaves no finding without a question (WorkflowSession.invoke, _tasks).
THEOREM SessionsSound == SessionSpec => []SessionsAreSound
<1>1. SessionInv => SessionTypeOK
  <2>1. SUFFICES ASSUME SessionInv  PROVE  SessionTypeOK  OBVIOUS
  <2>2. /\ kept.by \in {0, bound} /\ (head => pinned)
        /\ \A t \in tasks : t.by = kept.by
    BY <2>1 DEF SessionInv, KeptSound, NoRow, Registered
  <2> QED  BY <2>1, <2>2 DEF SessionInv, SessionRows, SessionTypeOK, ProcessRows, Places
<1>2. SessionInv => StoredReviewsWereCurrent
  BY DEF SessionInv, KeptSound, StoredReviewsWereCurrent, NoRow
<1>3. SessionInv => OutcomeIsItsReview
  <2>1. SUFFICES ASSUME SessionInv, NEW a \in Executions
                 PROVE  /\ returned[a] = "result" => /\ kept.by = a /\ tasks = {}
                                                     /\ Verified(kept.review) /\ kept.review.can /\ kept.review.sound
                        /\ returned[a] = "waiting" => kept.by = a /\ tasks # {} /\ ~Verified(kept.review)
    BY DEF OutcomeIsItsReview
  <2>2. kept.by = a => kept # NoRow
    BY <2>1, Knows DEF NoRow
  <2> QED  BY <2>1, <2>2, Knows DEF SessionInv, KeptSound, ExecutionSound, CaseResult
<1>4. SessionInv => SessionsAreSound
  BY <1>1, <1>2, <1>3, AskedWhole DEF SessionsAreSound, ReviewsAreOwned
<1> QED  BY <1>4, SessionInvHolds, PTL

\* Questions are registered under the live claim, the standing grants and the admitted
\* principal only, checked in the transaction that stores them (SQLiteExecutionAuthority.register).
THEOREM TasksFenced == SessionSpec => TasksAreFenced
<1>1. ASSUME [SessionNext]_sessionVars, NEW t \in tasks' \ tasks
      PROVE  job.live /\ job.attempt = t.by /\ ~job.cancel /\ epoch = 0 /\ session = process[t.by].as
  <2>1. PICK a \in Executions : Register(a) /\ tasks' = tasks \cup BatchOf(a)
    BY <1>1 DEF SessionNext, sessionVars, stores, ClaimRun, ClaimLapses, Cancel, SourceLost, Fence, RemoveSession,
       GrantCase, Idle, Around, StartExecution, Look, Guarded, AdmitStage, Seed, Open, Review, Controller, Stored, Put,
       Use, Ask, Register, Confirmed, Close, Return, DieExecuting, Fail, End
  <2>2. t.by = a  BY <1>1, <2>1 DEF BatchOf
  <2>3. Check(a)
    <3>1. ~Fail(a)  BY <1>1 DEF Fail, stores
    <3> QED  BY <2>1, <3>1 DEF Register
  <2> QED  BY <2>2, <2>3 DEF Check
<1>2. [SessionNext]_sessionVars
        => [\A t \in tasks' \ tasks : job.live /\ job.attempt = t.by /\ ~job.cancel /\ epoch = 0
              /\ session = process[t.by].as]_sessionVars
  BY <1>1
<1> QED  BY <1>2, PTL DEF SessionSpec, TasksAreFenced

=============================================================================
