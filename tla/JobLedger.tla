----------------------------- MODULE JobLedger ------------------------------
(***************************************************************************)
(* What the JobStore port promises: every call is atomic, decides on the   *)
(* rows as they are, and acts only for an attempt that was claimed.        *)
(***************************************************************************)
EXTENDS JobRows

VARIABLE ledger

\* Attempts that some claim has returned or will return.
ClaimedAttempts ==
    {[run |-> a.run, token |-> a.token, expected |-> v] : a \in ledger.attempts, v \in {0, 1}}

LedgerInit == ledger = Empty

LedgerNext ==
    /\ ledger' # ledger
    /\ \/ \E o \in Calls(ledger, ClaimedAttempts) : ledger' \in Effect(ledger, o)
       \/ ledger' \in Later(ledger)

LedgerSpec == LedgerInit /\ [][LedgerNext]_ledger
=============================================================================
