--------------------------- MODULE ModelDispatch ----------------------------
(***************************************************************************)
(* The one slot through which every process of the team sends to the       *)
(* model.  A sender is one SDK call: it holds a DispatchGuard, and botocore *)
(* hands every physical request of the call, its own retries included, to  *)
(* the dispatching transport.  A request contends for the durable owner    *)
(* slot, waits a full interval while it owns it, charges its guard, is     *)
(* admitted and sent, and gives the slot back.                             *)
(*                                                                         *)
(* The slot has no expiry.  A store call may fail after it took effect, a  *)
(* process may die at any point, and a guard may lose its deadline, its    *)
(* authority or its caller at any moment.  Time is counted in ticks, and   *)
(* only as far as the interval.                                            *)
(***************************************************************************)
EXTENDS Naturals, FiniteSets

CONSTANTS
    Senders,        \* SDK calls, each with a guard of its own
    MaxSends,       \* the guard's budget of physical sends
    MaxRequests,    \* bound: requests one SDK call makes, implicit retries included
    Interval        \* ticks an owner waits

None == 0

ASSUME DispatchAssumption ==
    /\ {MaxSends, MaxRequests, Interval} \subseteq Nat
    /\ None \notin Senders

VARIABLES
    slot,       \* the owner column of the scope's row
    call,       \* call[s]: where a request of s is, and its guard
    quiet,      \* ticks since the transport last stopped, up to Interval
    physical,   \* history: requests that have left the process
    allowed     \* history: how many of them may, once the guard is revoked

slotVars == <<slot, call, quiet, physical, allowed>>

Ended == {"returned", "denied", "dead"}
Owning == {"waiting", "charged", "ready", "sending", "releasing"}
Calls == [pc : {"idle", "contending", "failed"} \cup Owning \cup Ended,
          waited : 0..Interval, requests : 0..MaxRequests, sends : 0..MaxSends, revoked : BOOLEAN,
          then : Ended \cup {"failed"}]

Goto(s, pc) == call' = [call EXCEPT ![s].pc = pc]

\* The finally clause of send: what becomes of the request once the slot is released.
Leave(s, then) == call' = [call EXCEPT ![s].pc = "releasing", ![s].then = then]

\* The transport's send up to the dispatcher: an envelope that is not the captured
\* operation to the configured endpoint, with known headers, goes no further.
Enter(s) ==
    /\ call[s].pc \in {"idle", "failed"}
    /\ call[s].requests < MaxRequests
    /\ \E pc \in {"contending", "denied"} :
          call' = [call EXCEPT ![s].pc = pc, ![s].requests = @ + 1, ![s].waited = 0]
    /\ UNCHANGED <<slot, quiet, physical, allowed>>

\* The SDK gives up on a failed request.
GiveUp(s) ==
    /\ call[s].pc = "failed"
    /\ Goto(s, "returned")
    /\ UNCHANGED <<slot, quiet, physical, allowed>>

\* Mutant: an owner slot is taken whoever holds it.
TakesOver(s) == slot' = s

\* try_acquire, SQLite or DynamoDB: only an idle slot is taken.
TryAcquire(s) == slot = None /\ slot' = s

\* The acquisition loop of send: an idle slot is taken, a revoked guard ends the polling.
Acquire(s) ==
    /\ call[s].pc = "contending"
    /\ \/ ~call[s].revoked /\ TryAcquire(s) /\ Goto(s, "waiting")
       \/ call[s].revoked /\ Goto(s, "denied") /\ UNCHANGED slot
    /\ UNCHANGED <<quiet, physical, allowed>>

\* try_acquire raises: the request is denied whether or not the row was written.
LoseAcquireAnswer(s) ==
    /\ call[s].pc = "contending"
    /\ ~call[s].revoked
    /\ TryAcquire(s) \/ UNCHANGED slot
    /\ Goto(s, "denied")
    /\ UNCHANGED <<quiet, physical, allowed>>

\* Mutant: the wait returns one poll early.
WaitsLess(s) == call[s].waited + 1 >= Interval

\* _wait has run its full interval.
Waited(s) == call[s].waited = Interval

\* DispatchGuard.charge.
Chargeable(s) == call[s].sends < MaxSends

Charge(s) ==
    /\ call[s].pc = "waiting"
    /\ \/ /\ ~call[s].revoked /\ Waited(s) /\ Chargeable(s)
          /\ call' = [call EXCEPT ![s].pc = "charged", ![s].sends = @ + 1]
       \/ /\ call[s].revoked \/ (Waited(s) /\ ~Chargeable(s))
          /\ Leave(s, "denied")
    /\ UNCHANGED <<slot, quiet, physical, allowed>>

\* admitted_send: the competition admission may refuse, then a last check of the guard.
Admit(s) ==
    /\ call[s].pc = "charged"
    /\ (~call[s].revoked /\ Goto(s, "ready")) \/ Leave(s, "denied")
    /\ UNCHANGED <<slot, quiet, physical, allowed>>

\* transport.send: nothing stops it any more.
Transmit(s) ==
    /\ call[s].pc = "ready"
    /\ Goto(s, "sending")
    /\ physical' = [physical EXCEPT ![s] = @ + 1]
    /\ UNCHANGED <<slot, quiet, allowed>>

TransportReturns(s) ==
    /\ call[s].pc = "sending"
    /\ \E then \in {"returned", "failed"} : Leave(s, then)
    /\ quiet' = 0
    /\ UNCHANGED <<slot, physical, allowed>>

\* release, which is conditional on the exact owner; when its answer is lost the request
\* is reported as denied and the row keeps whatever state it has.
Release(s) ==
    /\ call[s].pc = "releasing"
    /\ \/ slot = s /\ slot' = None /\ Goto(s, call[s].then)
       \/ slot' \in {slot, IF slot = s THEN None ELSE slot} /\ Goto(s, "denied")
    /\ UNCHANGED <<quiet, physical, allowed>>

\* The deadline passes, the caller cancels, the execution scope closes, the ledger or the
\* job no longer vouches for the attempt, or one of these checks does not answer in time.
Revoke(s) ==
    /\ call[s].pc \notin Ended
    /\ ~call[s].revoked
    /\ call' = [call EXCEPT ![s].revoked = TRUE]
    /\ allowed' = [allowed EXCEPT ![s] = physical[s] + IF call[s].pc = "ready" THEN 1 ELSE 0]
    /\ UNCHANGED <<slot, quiet, physical>>

\* The process dies; the slot has no expiry.
Crash(s) ==
    /\ call[s].pc \notin Ended \cup {"idle"}
    /\ Goto(s, "dead")
    /\ quiet' = IF call[s].pc = "sending" THEN 0 ELSE quiet
    /\ UNCHANGED <<slot, physical, allowed>>

Tick ==
    /\ \/ quiet < Interval
       \/ \E s \in Senders : call[s].pc = "waiting" /\ call[s].waited < Interval
    /\ quiet' = IF quiet < Interval THEN quiet + 1 ELSE quiet
    /\ call' = [s \in Senders |->
                   IF call[s].pc = "waiting" /\ call[s].waited < Interval
                   THEN [call[s] EXCEPT !.waited = @ + 1] ELSE call[s]]
    /\ UNCHANGED <<slot, physical, allowed>>

SlotInit ==
    /\ slot = None
    /\ call = [s \in Senders |-> [pc |-> "idle", waited |-> 0, requests |-> 0, sends |-> 0,
                                 revoked |-> FALSE, then |-> "returned"]]
    /\ quiet = Interval
    /\ physical = [s \in Senders |-> 0]
    /\ allowed = [s \in Senders |-> MaxRequests]

SlotStep(s) ==
    \/ GiveUp(s) \/ Acquire(s) \/ Charge(s) \/ Admit(s) \/ Transmit(s)
    \/ TransportReturns(s) \/ Release(s)

SlotNext ==
    \/ \E s \in Senders : Enter(s) \/ SlotStep(s) \/ LoseAcquireAnswer(s) \/ Revoke(s) \/ Crash(s)
    \/ Tick

SlotSpec == SlotInit /\ [][SlotNext]_slotVars

(***************************************************************************)
(* Properties                                                              *)
(***************************************************************************)

\* Types of the row, the calls and the histories.
SlotTypeOK ==
    /\ slot \in Senders \cup {None}
    /\ call \in [Senders -> Calls]
    /\ quiet \in 0..Interval
    /\ physical \in [Senders -> Nat]
    /\ allowed \in [Senders -> Nat]

\* Whoever waits, sends or is about to release owns the slot, so no two requests of the
\* team are ever under way together, whatever store answers were lost.
SendersOwnTheSlot == \A s \in Senders : call[s].pc \in Owning => slot = s

\* A request leaves only after a full interval in which no transport was active.
SendsAreSpaced ==
    [][physical' # physical => quiet = Interval /\ \A s \in Senders : call[s].pc # "sending"]_slotVars

\* One SDK call never sends more often than its guard allows, however often botocore
\* retries, and a guard that is revoked before its last check lets nothing more out.
GuardsHold == \A s \in Senders : physical[s] <= MaxSends /\ physical[s] <= allowed[s]

\* A slot whose owner died, or whose release is unknown, is never taken over: the team
\* stops sending rather than send side by side.
LostOwnersBlock ==
    [][\A s \in Senders : slot = s /\ call[s].pc \in Ended => slot' = s /\ physical' = physical]_slotVars

\* No two requests of the team are under way together, and none that its guard does not
\* allow (SendersOwnTheSlot, GuardsHold).
SendsAreAdmitted == SendersOwnTheSlot /\ GuardsHold
=============================================================================
