---------------------------- MODULE WorkflowRun -----------------------------
(***************************************************************************)
(* One controlled workflow run: its row in the SQLite run ledger, its      *)
(* decision trace, and the processes that work on it.  A runner executes   *)
(* BoundedWorkflowRunner.run, a decider ControlledWorkflowCoordinator      *)
(* .decide_once; both reserve the run in the ledger, ask the model which   *)
(* action to take, run the tool of the action it proposes and charge the   *)
(* run's budget for it.                                                    *)
(*                                                                         *)
(* The ledger and the trace are different tables, the model and the tools  *)
(* are external: every ledger or trace operation is one step, a call is    *)
(* one step to start and one to return, and a crash may come in between.   *)
(* All processes of one attempt share its session, hence its snapshot      *)
(* state, and die with it.                                                 *)
(*                                                                         *)
(* The job plane appears as `live', the attempt it holds current; it moves *)
(* on when a lease is taken over or the job is cancelled.  Time is         *)
(* abstracted: an allowance that has run out may be observed at every      *)
(* check of it.                                                            *)
(***************************************************************************)
EXTENDS Naturals, Sequences, FiniteSets

CONSTANTS
    Runners,        \* calls of BoundedWorkflowRunner.run
    Deciders,       \* calls of decide_once
    AttemptOf,      \* the attempt, part of the run reference, a call is made for
    LastAttempt,    \* bound: attempts of the run
    Steps,          \* the run's initial budget: tool steps,
    ModelCalls,     \*   model calls
    Retries,        \*   and retries
    MaxSends        \* model calls one selection may make (config.attempts)

Procs == Runners \cup Deciders
Attempts == 1..LastAttempt
None == 0

ASSUME WorkflowAssumption ==
    /\ Runners \cap Deciders = {} /\ None \notin Procs
    /\ LastAttempt \in Nat
    /\ AttemptOf \in [Procs -> Attempts]
    /\ {Steps, ModelCalls, Retries} \subseteq Nat
    /\ MaxSends \in Nat \ {0}

VARIABLES
    live,       \* the attempt the job plane holds current; LastAttempt + 1 once it has ended
    row,        \* the run's ledger row
    trace,      \* what the trace table holds of the run, by the kind of the event
    state,      \* state[a]: the workflow state of the session of attempt a
    proc,       \* proc[p]: control state and locals of a call
    sent,       \* history: model calls sent
    tools,      \* history: tool executions started
    lost        \* history: some call was given up with its outcome unknown

vars == <<live, row, trace, state, proc, sent, tools, lost>>

Budgets == [steps : Nat, calls : Nat, retries : Nat]
States == {"ready", "needs_review", "verified", "waiting"}
Terminations == {"none", "verified", "waiting", "exhausted", "permanent", "no_progress"}
Reasons == {"ok", "fault", "error", "refused", "unknown", "throttled", "malformed"}
Events == [disposition : {"executed", "failed", "rejected", "selection"}, reason : Reasons,
           at : States]
Trace == [decisions : Seq(Events), failures : Nat]
Results == [termination : Terminations, events : Seq(Events), failures : Nat]
Rows == [bound : Attempts \cup {None}, budget : Budgets, owner : Procs \cup {None},
         quarantined : BOOLEAN, result : Results]
CallRows == [pc : {"idle", "acquire", "begin", "loop", "active", "selecting", "proposed", "tool",
                   "failing", "charging", "recording", "settle", "result", "abandon", "release",
                   "done", "fault", "dead"},
             view : States, budget : Budgets, charge : {0, 1}, sends : 0..MaxSends,
             seen : SUBSET (States \X Reasons), events : Seq(Events), event : Events,
             result : Terminations]

Initial == [steps |-> Steps, calls |-> ModelCalls, retries |-> Retries]
NoResult == [termination |-> "none", events |-> <<>>, failures |-> 0]
NoEvent == [disposition |-> "executed", reason |-> "ok", at |-> "ready"]
NewCall == [pc |-> "idle", view |-> "ready", budget |-> Initial, charge |-> 0, sends |-> 0,
            seen |-> {}, events |-> <<>>, event |-> NoEvent, result |-> "none"]

Ended == {"done", "fault", "dead"}
Current(p) == live = AttemptOf[p]
StateOf(p) == state[AttemptOf[p]]
Success(termination) == termination \in {"verified", "waiting"}

\* The trace with an event appended: readers ask for the decisions, or count the failures
\* of selections.
Recorded(e) ==
    IF e.disposition = "selection" THEN [trace EXCEPT !.failures = @ + 1]
    ELSE [trace EXCEPT !.decisions = Append(@, e)]
Smaller(a, b) == IF a < b THEN a ELSE b

\* classify_event_failure and classify_selection_failure.
Category(e) ==
    CASE e.disposition = "executed"              -> "none"
      [] e.reason \in {"fault", "error", "throttled"} -> "retryable"
      [] e.reason = "unknown"                    -> "unresolved"
      [] OTHER                                   -> "permanent"

\* no_progress_fingerprint: the action and its inputs follow from the state.
Fingerprint(e) == <<e.at, e.reason>>

\* _consume.
Charged(b, steps, sends, retries) ==
    [steps |-> b.steps - steps, calls |-> b.calls - sends, retries |-> b.retries - retries]

SentRetries(p) == IF proc[p].sends > 1 THEN proc[p].sends - 1 ELSE 0

Goto(p, pc) == proc' = [proc EXCEPT ![p].pc = pc]

\* A result handed to complete().
Conclude(p, locals, termination) ==
    proc' = [proc EXCEPT ![p] = [locals EXCEPT !.pc = "result", !.result = termination]]

(***************************************************************************)
(* The ledger                                                              *)
(***************************************************************************)

\* The reserved run's owner goes on; anyone else is refused.
Reserve(p, stored) ==
    /\ row' = [stored EXCEPT !.owner = p]
    /\ proc' = [proc EXCEPT ![p].budget = stored.budget,
                            ![p].pc = IF p \in Runners THEN "begin" ELSE "active"]

\* acquire: bind the run on first use, replay a stored result, reserve an idle run.  A
\* replayed result must be the one the trace tells of.
Acquire(p) ==
    LET stored == IF row.bound = None THEN [row EXCEPT !.bound = AttemptOf[p]] ELSE row
        same == stored.bound = AttemptOf[p]
        replay == /\ p \in Runners /\ same /\ stored.result # NoResult
                  /\ trace.decisions \in {<<>>, stored.result.events}
    IN  /\ proc[p].pc = "acquire"
        /\ IF same /\ stored.result = NoResult /\ stored.owner = None /\ ~stored.quarantined
           THEN Reserve(p, stored)
           ELSE row' = stored /\ Goto(p, IF replay THEN "done" ELSE "fault")
        /\ UNCHANGED <<live, trace, state, sent, tools, lost>>

\* Mutant: the row of a call with no answer stays admissible.
NoQuarantine == row

Quarantined == [row EXCEPT !.quarantined = TRUE]

Checkpoint(b) == row' = [row EXCEPT !.budget = b]

\* Mutant: an abandoned run can be reserved again.
AbandonReleases(p) ==
    /\ proc[p].pc = "abandon"
    /\ row' = [row EXCEPT !.owner = None]
    /\ Goto(p, "fault")
    /\ UNCHANGED <<live, trace, state, sent, tools, lost>>

\* abandon: after any failure that is not a decision of its own.
Abandon(p) ==
    /\ proc[p].pc = "abandon"
    /\ row' = [Quarantined EXCEPT !.owner = None]
    /\ Goto(p, "fault")
    /\ UNCHANGED <<live, trace, state, sent, tools, lost>>

\* release: the end of a direct decision, quarantined or not.
ReleaseRun(p) ==
    /\ proc[p].pc = "release"
    /\ row' = [row EXCEPT !.owner = None]
    /\ Goto(p, "done")
    /\ UNCHANGED <<live, trace, state, sent, tools, lost>>

\* complete: a quarantined run never gets a success; the task of a superseded attempt may
\* be cancelled while it reads the trace.
Complete(p) ==
    /\ proc[p].pc = "result"
    /\ \/ /\ ~Current(p) \/ (row.quarantined /\ Success(proc[p].result))
          /\ Goto(p, "abandon")
          /\ UNCHANGED row
       \/ /\ ~(row.quarantined /\ Success(proc[p].result))
          /\ row' = [row EXCEPT !.owner = None, !.budget = proc[p].budget,
                                !.result = [termination |-> proc[p].result,
                                            events |-> proc[p].events,
                                            failures |-> trace.failures]]
          /\ Goto(p, "done")
    /\ UNCHANGED <<live, trace, state, sent, tools, lost>>

(***************************************************************************)
(* A decision                                                              *)
(***************************************************************************)

\* Both entries read the snapshot, which is refused to an attempt that is not current,
\* before they reserve the run; a direct decision goes on with what it has read.
Start(p) ==
    /\ proc[p].pc = "idle"
    /\ proc' = [proc EXCEPT ![p].pc = IF Current(p) THEN "acquire" ELSE "fault",
                            ![p].view = StateOf(p)]
    /\ UNCHANGED <<live, row, trace, state, sent, tools, lost>>

\* A selection that fails before or after the model was asked; a timeout, also one that
\* arrives as a cancellation, leaves the call running and quarantines the run.
SelectionFails(p, reason, stored) ==
    /\ row' = stored
    /\ proc' = [proc EXCEPT ![p].pc = "failing",
                            ![p].event = [disposition |-> "selection", reason |-> reason,
                                          at |-> StateOf(p)]]

\* ControlledActionPolicy.derive: some action is offered to the selector.
Offered(p, view) ==
    /\ view \in {"ready", "needs_review"}
    /\ proc[p].budget.steps >= 1
    /\ proc[p].budget.calls >= 1

\* _decide_once up to the selector's sends: a runner reads the snapshot again; the ledger
\* must still admit the call; the time allowance may have run out or the selector still be
\* busy with another call; an action must be offered; the selector's own retries stay
\* within the budget.
Select(p) ==
    LET view == IF p \in Runners THEN StateOf(p) ELSE proc[p].view
        admitted == (p \in Runners => Current(p)) /\ ~row.quarantined
    IN  /\ proc[p].pc = "active"
        /\ \/ /\ p \in Runners /\ ~Current(p)
              /\ Goto(p, "abandon")
              /\ UNCHANGED <<row, sent>>
           \/ /\ p \in Runners /\ Current(p) /\ row.quarantined
              /\ SelectionFails(p, "unknown", row)
              /\ UNCHANGED sent
           \/ /\ admitted
              /\ SelectionFails(p, "unknown", Quarantined)
              /\ UNCHANGED sent
           \/ /\ admitted /\ ~Offered(p, view)
              /\ SelectionFails(p, "malformed", row)
              /\ UNCHANGED sent
           \/ /\ admitted /\ Offered(p, view)
              /\ \E n \in 1..MaxSends :
                    /\ n <= Smaller(proc[p].budget.calls, proc[p].budget.retries + 1)
                    /\ proc' = [proc EXCEPT ![p].pc = "selecting", ![p].sends = n,
                                            ![p].view = view]
                    /\ sent' = sent + n
              /\ UNCHANGED row
        /\ UNCHANGED <<live, trace, state, tools, lost>>

SelectorReturns(p) ==
    /\ proc[p].pc = "selecting"
    /\ \/ Goto(p, "proposed") /\ UNCHANGED <<row, lost>>
       \/ \E reason \in {"throttled", "malformed"} :
             SelectionFails(p, reason, row) /\ UNCHANGED lost
       \/ SelectionFails(p, "unknown", Quarantined) /\ lost' = TRUE
    /\ UNCHANGED <<live, trace, state, sent, tools>>

\* _record_selection_failure, which may itself fail, or be cancelled with its attempt once
\* the row is on its way.  A selector that did not report how
\* often it called the model before it was stopped is charged all the calls that are left.
RecordFailure(p) ==
    /\ proc[p].pc = "failing"
    /\ \/ /\ trace' = Recorded(proc[p].event)
          /\ proc' = [proc EXCEPT ![p].pc = "charging",
                                  ![p].budget = Charged(@, 0, proc[p].sends, SentRetries(p))]
       \/ /\ proc[p].event.reason = "unknown"
          /\ proc[p].sends > 0
          /\ trace' = Recorded(proc[p].event)
          /\ proc' = [proc EXCEPT ![p].pc = "charging",
                                  ![p].budget = Charged(@, 0, @.calls, 0)]
       \/ Goto(p, "abandon") /\ trace' \in {trace, Recorded(proc[p].event)}
    /\ UNCHANGED <<live, row, state, sent, tools, lost>>

\* The runner retries a known provider failure while its allowance lasts.
ChargeFailure(p) ==
    LET b == proc[p].budget
        retry == Category(proc[p].event) = "retryable"
        again == retry /\ b.retries > 0 /\ b.calls > 0
    IN  /\ proc[p].pc = "charging"
        /\ Checkpoint(b)
        /\ \/ p \in Deciders /\ Goto(p, "release")
           \/ p \in Runners /\ ~Current(p) /\ Goto(p, "abandon")
           \/ /\ p \in Runners /\ Current(p) /\ again
              /\ proc' = [proc EXCEPT ![p].pc = "loop", ![p].sends = 0,
                                      ![p].budget = [b EXCEPT !.retries = @ - 1]]
           \/ /\ p \in Runners /\ Current(p)
              /\ Conclude(p, proc[p], IF retry THEN "exhausted" ELSE "permanent")
        /\ UNCHANGED <<live, trace, state, sent, tools, lost>>

\* The decision event a process is about to append, and the budget after it.
Dispose(p, disposition, reason, at, budget) ==
    proc' = [proc EXCEPT ![p].pc = "recording", ![p].budget = budget,
                         ![p].event = [disposition |-> disposition, reason |-> reason, at |-> at]]

\* admit_action on a fresh snapshot, and the retry allowance; then the tool starts.
Admit(p) ==
    LET b == proc[p].budget
        rejected == Charged(b, 0, proc[p].sends, SentRetries(p))
    IN  /\ proc[p].pc = "proposed"
        /\ \/ ~Current(p) /\ Goto(p, "abandon") /\ UNCHANGED tools
           \/ /\ Current(p)
              /\ Dispose(p, "rejected", "malformed", proc[p].view, rejected)
              /\ UNCHANGED tools
           \/ /\ Current(p)
              /\ proc[p].view = StateOf(p)
              /\ b.retries >= SentRetries(p) + proc[p].charge
              /\ Goto(p, "tool")
              /\ tools' = tools + 1
        /\ UNCHANGED <<live, row, trace, state, sent, lost>>

\* The session's state after a tool that took effect.
Moved(s) == IF s = "ready" THEN {"verified", "needs_review"} ELSE {"waiting"}

\* The tool returns: it took effect, failed, was refused, or its outcome is unknown, in
\* which case it may have taken effect and the run is quarantined.  An answer that does not
\* validate is quarantined too, under the reason of an ordinary error or of a refusal.  The
\* attempt may have been superseded, and its task cancelled for that, meanwhile.
ToolReturns(p) ==
    LET s == StateOf(p)
        b == Charged(proc[p].budget, 1, proc[p].sends, SentRetries(p) + proc[p].charge)
        moves(t) == state' = [state EXCEPT ![AttemptOf[p]] = t]
    IN  /\ proc[p].pc = "tool"
        /\ \/ /\ ~Current(p)
              /\ Goto(p, "abandon")
              /\ \E t \in Moved(s) \cup {s} : moves(t)
              /\ lost' \in {lost, TRUE}
              /\ UNCHANGED row
           \/ /\ Current(p)
              /\ \E t \in Moved(s) : moves(t)
              /\ Dispose(p, "executed", "ok", s, b)
              /\ UNCHANGED <<row, lost>>
           \/ /\ Current(p)
              /\ \E reason \in {"fault", "error", "refused"} : Dispose(p, "failed", reason, s, b)
              /\ UNCHANGED <<row, state, lost>>
           \/ /\ Current(p)
              /\ \E reason \in {"error", "refused", "unknown"} : Dispose(p, "failed", reason, s, b)
              /\ \E t \in Moved(s) \cup {s} : moves(t)
              /\ row' = Quarantined
              /\ lost' = TRUE
        /\ UNCHANGED <<live, trace, sent, tools>>

\* The trace append of a decision; like that of a selection failure it may fail.
Record(p) ==
    /\ proc[p].pc = "recording"
    /\ \/ /\ trace' = Recorded(proc[p].event)
          /\ proc' = [proc EXCEPT ![p].pc = "settle", ![p].events = Append(@, proc[p].event)]
       \/ Goto(p, "abandon") /\ trace' \in {trace, Recorded(proc[p].event)}
    /\ UNCHANGED <<live, row, state, sent, tools, lost>>

(***************************************************************************)
(* The bounded runner                                                      *)
(***************************************************************************)

\* Mutant: the runner starts without the decisions recorded before it.
BeginsAfresh(p) ==
    /\ proc[p].pc = "begin"
    /\ Goto(p, IF Current(p) THEN "loop" ELSE "abandon")
    /\ UNCHANGED <<live, row, trace, state, sent, tools, lost>>

\* _run up to its loop: the history of earlier direct decisions is the runner's own.
Begin(p) ==
    LET events == trace.decisions
        last == events[Len(events)]
        failed == events # <<>> /\ last.disposition # "executed"
        known == {Fingerprint(events[i]) :
                    i \in {j \in 1..Len(events) : events[j].disposition # "executed"}}
        locals == [proc[p] EXCEPT !.events = events, !.seen = known]
    IN  /\ proc[p].pc = "begin"
        /\ \/ ~Current(p) /\ Goto(p, "abandon")
           \/ /\ Current(p)
              /\ failed
              /\ Success(StateOf(p)) \/ Category(last) # "retryable"
              /\ Conclude(p, locals, "permanent")
           \/ /\ Current(p)
              /\ failed
              /\ ~Success(StateOf(p))
              /\ Category(last) = "retryable"
              /\ proc' = [proc EXCEPT ![p] = [locals EXCEPT !.pc = "loop", !.charge = 1]]
           \/ /\ Current(p)
              /\ ~failed
              /\ proc' = [proc EXCEPT ![p] = [locals EXCEPT !.pc = "loop"]]
        /\ UNCHANGED <<live, row, trace, state, sent, tools, lost>>

\* Mutant: a run with nothing left to spend waits instead of giving up.
LoopWaits(p) ==
    /\ proc[p].pc = "loop"
    /\ proc[p].budget.steps > 0
    /\ proc[p].charge = 1 => proc[p].budget.retries > 0
    /\ Checkpoint(proc[p].budget)
    /\ IF Success(StateOf(p)) THEN Conclude(p, proc[p], StateOf(p)) ELSE Goto(p, "active")
    /\ UNCHANGED <<live, trace, state, sent, tools, lost>>

\* The head of the loop; the time allowance may have run out, and a superseded attempt be
\* cancelled in the pause before a retry.
Loop(p) ==
    LET b == proc[p].budget
        spent == b.steps = 0 \/ (proc[p].charge = 1 /\ b.retries = 0)
    IN  /\ proc[p].pc = "loop"
        /\ \/ ~Current(p) /\ Goto(p, "abandon") /\ UNCHANGED row
           \/ /\ Checkpoint(b)
              /\ \/ Success(StateOf(p)) /\ Conclude(p, proc[p], StateOf(p))
                 \/ ~Success(StateOf(p)) /\ Conclude(p, proc[p], "exhausted")
                 \/ ~Success(StateOf(p)) /\ ~spent /\ Goto(p, "active")
        /\ UNCHANGED <<live, trace, state, sent, tools, lost>>

\* What the runner concludes from a failed decision; the rejected proposals of one state
\* may differ.
AfterFailure(p) ==
    LET e == proc[p].event
        b == proc[p].budget
    IN  \/ Success(StateOf(p)) /\ Conclude(p, proc[p], "permanent")
        \/ /\ ~Success(StateOf(p))
           /\ Fingerprint(e) \in proc[p].seen
           /\ Conclude(p, proc[p], "no_progress")
        \/ /\ ~Success(StateOf(p))
           /\ Fingerprint(e) \notin proc[p].seen \/ e.disposition = "rejected"
           /\ Category(e) # "retryable"
           /\ Conclude(p, proc[p], "permanent")
        \/ /\ ~Success(StateOf(p))
           /\ Fingerprint(e) \notin proc[p].seen
           /\ Category(e) = "retryable"
           /\ \/ Conclude(p, proc[p], "exhausted")
              \/ /\ b.retries > 0 /\ b.steps > 0
                 /\ proc' = [proc EXCEPT ![p].pc = "loop", ![p].charge = 1, ![p].sends = 0,
                                         ![p].seen = @ \cup {Fingerprint(e)}]

\* The charge for a recorded decision, and what follows from it.
Settle(p) ==
    LET e == proc[p].event
    IN  /\ proc[p].pc = "settle"
        /\ Checkpoint(proc[p].budget)
        /\ \/ p \in Deciders /\ Goto(p, "release")
           \/ p \in Runners /\ ~Current(p) /\ Goto(p, "abandon")
           \/ /\ p \in Runners /\ Current(p) /\ e.disposition = "executed"
              /\ IF Success(StateOf(p))
                 THEN Conclude(p, proc[p], StateOf(p))
                 ELSE proc' = [proc EXCEPT ![p].pc = "loop", ![p].charge = 0, ![p].sends = 0]
           \/ p \in Runners /\ Current(p) /\ e.disposition # "executed" /\ AfterFailure(p)
        /\ UNCHANGED <<live, trace, state, sent, tools, lost>>

(***************************************************************************)
(* The specification                                                       *)
(***************************************************************************)

\* The process of an attempt dies, with every call it serves.
Crash(a) ==
    LET dying == {p \in Procs : AttemptOf[p] = a /\ proc[p].pc \notin Ended \cup {"idle"}}
    IN  /\ dying # {}
        /\ proc' = [p \in Procs |-> IF AttemptOf[p] = a /\ proc[p].pc \notin Ended
                                    THEN [proc[p] EXCEPT !.pc = "dead"] ELSE proc[p]]
        /\ lost' = (lost \/ \E p \in dying : proc[p].pc \in {"selecting", "tool"})
        /\ UNCHANGED <<live, row, trace, state, sent, tools>>

\* The lease is taken over, or the job ends.
Supersede ==
    /\ live <= LastAttempt
    /\ live' \in (live + 1)..(LastAttempt + 1)
    /\ UNCHANGED <<row, trace, state, proc, sent, tools, lost>>

Init ==
    /\ live = 1
    /\ row = [bound |-> None, budget |-> Initial, owner |-> None, quarantined |-> FALSE,
              result |-> NoResult]
    /\ trace = [decisions |-> <<>>, failures |-> 0]
    /\ state = [a \in Attempts |-> "ready"]
    /\ proc = [p \in Procs |-> NewCall]
    /\ sent = 0
    /\ tools = 0
    /\ lost = FALSE

Step(p) ==
    \/ Acquire(p) \/ Begin(p) \/ Loop(p) \/ Select(p) \/ SelectorReturns(p) \/ RecordFailure(p)
    \/ ChargeFailure(p) \/ Admit(p) \/ ToolReturns(p) \/ Record(p) \/ Settle(p)
    \/ Complete(p) \/ Abandon(p) \/ ReleaseRun(p)

Next ==
    \/ \E p \in Procs : Start(p) \/ Step(p)
    \/ \E a \in Attempts : Crash(a)
    \/ Supersede

Spec == Init /\ [][Next]_vars

\* Calls return or time out, and a process that is not dead goes on.
Fairness == \A p \in Procs : WF_vars(Step(p))

FairSpec == Spec /\ Fairness

(***************************************************************************)
(* Properties                                                              *)
(***************************************************************************)

InFlight == {"selecting", "tool"}

\* Types of the row, the trace and the calls' locals.
TypeOK ==
    /\ live \in 1..(LastAttempt + 1)
    /\ row \in Rows
    /\ trace \in Trace
    /\ state \in [Attempts -> States]
    /\ proc \in [Procs -> CallRows]
    /\ sent \in Nat /\ tools \in Nat /\ lost \in BOOLEAN

\* The run as a whole never spends more than its initial budget, whatever runners,
\* direct decisions, retries, crashes and takeovers it went through.
SpendIsBounded == sent <= ModelCalls /\ tools <= Steps

\* Whenever the run can be reserved again, or has its final result, its remaining budget
\* is exactly what the calls really made have left.
AccountsBalance ==
    row.owner = None /\ ~row.quarantined =>
        /\ row.budget.steps = Steps - tools
        /\ row.budget.calls = ModelCalls - sent

\* No call starts beside one that is running, and none ever after one whose outcome is
\* unknown, be it a timeout, a cancellation, an unusable answer or a crash in the call.
NoCallBesideAnUnsettledOne ==
    [][lost \/ (\E p \in Procs : proc[p].pc \in InFlight) => UNCHANGED <<sent, tools>>]_vars

\* A stored result, which is replayed in place of the work, is the history the trace
\* tells; a success was earned by a decision that executed, with every call accounted for.
ResultIsTheTrace ==
    row.result # NoResult =>
        /\ row.result.events = trace.decisions
        /\ row.result.failures = trace.failures
        /\ Success(row.result.termination) =>
              /\ ~lost /\ ~row.quarantined
              /\ row.result.events # <<>>
              /\ row.result.events[Len(row.result.events)].disposition = "executed"
              /\ state[row.bound] = row.result.termination

\* A reservation belongs to a call that is still working or that died: no call that has
\* returned, with a result or an error, keeps the run from others.
ReservationsAreNotLeaked ==
    row.owner # None => proc[row.owner].pc \notin {"idle", "acquire", "done", "fault"}

\* The accounts of a run are right: the budget holds over all its calls and what is left
\* of it is what they left.
BudgetIsKept == TypeOK /\ SpendIsBounded /\ AccountsBalance

\* What a run leaves behind is true and usable: a result that is its history, and no
\* reservation of a call that has gone.
ResultsAreEarned == ResultIsTheTrace /\ ReservationsAreNotLeaked

\* Every call that has begun ends, unless its process dies: the retries, the failures
\* that make no progress and the budgets bound the loop.
EveryCallEnds ==
    \A p \in Procs : proc[p].pc # "idle" ~> proc[p].pc \in Ended
=============================================================================
