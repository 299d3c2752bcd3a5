---------------------------- MODULE MCProgress ------------------------------
(***************************************************************************)
(* What must eventually happen inside a run, on two levels: the run under  *)
(* the job plane and the workflow ledger (RunAuthority), and one call that *)
(* works on it (WorkflowRun).  They are checked side by side: `part' says  *)
(* which level moves, the other one rests in a state in which nothing is   *)
(* due.                                                                    *)
(***************************************************************************)
EXTENDS WorkflowRun, RunAuthority, TLC

VARIABLE part

\* Every call works for the first attempt.
FirstAttempt == [p \in Procs |-> 1]

\* At rest no call was made, and the run was cancelled before its first attempt.
MCInit ==
    /\ part \in {"run", "call"}
    /\ Init
    /\ IF part = "run" THEN AuthorityInit
       ELSE /\ facts = [status |-> "cancelled", cancel |-> FALSE, open |-> FALSE,
                        attempts |-> 0, takeovers |-> 0]
            /\ current = 0
            /\ ledger = [bound |-> 0, owner |-> 0, quarantined |-> FALSE, result |-> "none"]
            /\ worker = [a \in AttemptIds |-> "none"]
            /\ worked = {} /\ errors = {}
MCNext ==
    \/ part = "run" /\ AuthorityNext /\ UNCHANGED <<part, vars>>
    \/ part = "call" /\ Next /\ UNCHANGED <<part, authorityVars>>
MCSpec == MCInit /\ [][MCNext]_<<part, vars, authorityVars>> /\ Fairness /\ AuthorityFairness
=============================================================================
