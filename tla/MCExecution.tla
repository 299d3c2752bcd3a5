---------------------------- MODULE MCExecution -----------------------------
(***************************************************************************)
(* The execution of a run by its attempts: the calls that work under its   *)
(* budget (WorkflowRun), and the session around them that pins sources,    *)
(* reviews, registers questions and returns (IntegratedSession).  `part'   *)
(* says what a behaviour is about; the component it is not about rests:    *)
(*   call       two runners and two direct decisions under one budget      *)
(*   questions  what one undisturbed attempt asks about any review         *)
(*   attempts   what may happen around two attempts                        *)
(***************************************************************************)
EXTENDS WorkflowRun, IntegratedSession, TLC

CONSTANTS r1, r2, d1, d2

VARIABLE part

\* r1 and the direct decisions work for the first attempt, r2 for the last.
AttemptOfCall == [p \in Procs |-> IF p = r2 THEN LastAttempt ELSE 1]

\* Direct decisions of one attempt are alike.
DecidersAreAlike == Permutations({d1, d2})

(* Three factors in two comparisons, one of them with a single binding, and  *)
(* reviews with any combination of blocked findings.                         *)
BothSides == {"target", "comparable"}
F(id, kind, c, f, status, symptom) ==
  [id |-> id, kind |-> kind, context |-> c, factor |-> f, status |-> status, symptom |-> symptom]
Trust(status) == F("trust", "approval", "none", "none", status, FALSE)
Factor(c, f, kind) == F(c \o f, kind, c, f, "needs_review", FALSE)
Calculation(c) == F(c, "calculation", c, "none", "needs_review", FALSE)
Slot(symptom) == F("slot", "observed_unresolved", "x", "f", "needs_review", symptom)

Binding(kind, c, f, side, findings) ==
  [id |-> c \o f \o side, kind |-> kind, context |-> c, factor |-> f, side |-> side, findings |-> findings]
Pairs == {<<"x", "f">>, <<"x", "g">>, <<"y", "f">>}
ManyBindings ==
  {Binding("fact", p[1], p[2], s, {p[1] \o p[2]} \cup (IF p = <<"x", "f">> THEN {"slot"} ELSE {})) : p \in Pairs, s \in {"target"}} \cup
  {Binding("fact", p[1], p[2], "comparable", {p[1] \o p[2]} \cup (IF p = <<"x", "f">> THEN {"slot"} ELSE {})) : p \in {<<"x", "f">>}} \cup
  {Binding("correction", "y", "f", "comparable", {"yf"})}

Confirmations == {"x"} \X {"f", "g"} \X BothSides
Revision(ready, confirmed) == [ready |-> ready, confirmed |-> confirmed]
ManyMaterials == {Revision(TRUE, c) : c \in SUBSET Confirmations}

CaseReview(status, blocked) == [status |-> status, can |-> status = "verified", sound |-> status = "verified", case |-> TRUE, blocked |-> blocked]
Blocked ==
  {t \cup fs \cup cs \cup o :
     t \in {{}, {Trust("needs_review")}, {Trust("failed")}},
     fs \in UNION {SUBSET {Factor(p[1], p[2], k) : p \in Pairs} : k \in {"evidence_reliability", "mapping"}},
     cs \in SUBSET {Calculation("x"), Calculation("y")},
     o \in {{}, {Slot(TRUE)}, {Slot(FALSE)}}}
ManyReviews == {CaseReview("needs_review", b) : b \in Blocked}

\* One factor, everything around it
OneMaterials == {Revision(r, {}) : r \in BOOLEAN}
Clean == CaseReview("verified", {})
OneReviews == {Clean, [Clean EXCEPT !.can = FALSE], [Clean EXCEPT !.case = FALSE], [Clean EXCEPT !.status = "completed"],
               CaseReview("needs_review", {Factor("x", "f", "evidence_reliability"), Calculation("x"), Trust("needs_review")})}
AllEvents == {"lapse", "cancel", "source", "revoke", "grant", "die"}
AllMaterials == ManyMaterials \cup OneMaterials
AllReviews == ManyReviews \cup OneReviews

Reviewing(reviews) == \A a \in Executions : process'[a].review \in reviews \cup {NoReview}
Undisturbed ==
    /\ UNCHANGED <<session, epoch, docs>> /\ job'.attempt <= 1 /\ ~job'.cancel /\ (job.live => job'.live)
    /\ \A a \in Executions : process[a].at # "ended" /\ process'[a].at = "ended" => returned'[a] # "none"

MCInit ==
    /\ part \in {"call", "questions", "attempts"}
    /\ Init
    /\ SessionInit
    /\ CASE part = "call" -> material = CHOOSE m \in OneMaterials : TRUE
         [] part = "questions" -> material \in ManyMaterials
         [] part = "attempts" -> material \in OneMaterials
MCNext ==
    \/ part = "call" /\ Next /\ UNCHANGED <<part, sessionVars>>
    \/ /\ \/ part = "questions" /\ SessionNext /\ Undisturbed /\ Reviewing(ManyReviews)
          \/ part = "attempts" /\ SessionNext /\ Reviewing(OneReviews)
       /\ UNCHANGED <<part, vars>>
MCSpec == MCInit /\ [][MCNext]_<<part, vars, sessionVars>>
=============================================================================
