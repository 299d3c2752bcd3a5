----------------------------- MODULE MCAnswers ------------------------------
(***************************************************************************)
(* The two services that take reviewers' answers, side by side: the        *)
(* durable tasks of a job (HumanTasks) and the local task service over the *)
(* in-memory repository (WorkflowTasks).  They share no state; `part' says *)
(* which of them a behaviour is about, and the other one rests.            *)
(***************************************************************************)
EXTENDS HumanTasks, WorkflowTasks, TLC

CONSTANT MaxClaims   \* bound: attempts of the job over all its runs

VARIABLE part

(* Two reviewers with different permissions and a system principal; two      *)
(* comparisons whose material needs confirmations, corrections, evidence or  *)
(* approvals.                                                                *)
Human(name, permissions) == [name |-> name, kind |-> "human", permissions |-> permissions]
Approver == Human("ann", {"review", "confirm", "approve_rules", "approve_material", "publish"})
Corrector == Human("ben", {"review", "correct"})
Robot == [name |-> "robot", kind |-> "system", permissions |-> {"review"}]
SomePeople == {Approver, Corrector, Robot}

TwoSubjects == {[id |-> "s1", context |-> "x", factor |-> "f", side |-> "target"],
                [id |-> "s2", context |-> "y", factor |-> "g", side |-> "comparable"]}

Side(value, evidence, method, by) ==
    [value |-> value, evidence |-> evidence, clear |-> TRUE, method |-> method, by |-> by]
Proposed == Side(1, TRUE, "proposed", "nobody")
Native == Side(1, TRUE, "native", "nobody")
Claimed == Side(1, TRUE, "confirmed", "ann")
Missing == Side(0, FALSE, "proposed", "nobody")
Unclear == [Missing EXCEPT !.clear = FALSE]
Material(rules, a, b) == [rules |-> rules, sides |-> [s1 |-> a, s2 |-> b], wrong |-> {}]
SomeMaterials ==
    {Material({"approved"}, Proposed, Proposed), Material({"approved"}, Proposed, Claimed),
     Material({"candidate"}, Native, Native), Material({"approved"}, Missing, Native),
     Material({"approved"}, Native, Unclear),
     [Material({"approved"}, Native, Proposed) EXCEPT !.wrong = {"x"}]}

BothFacts == {<<"fact", "s1">>, <<"fact", "s2">>}
SomePlans == {BothFacts, {<<"fact", "s1">>}, {<<"fact", "s2">>},
              {<<"fact", "s1">>, <<"correction", "s2">>},
              {<<"evidence", "s1">>, <<"correction", "s2">>},
              {<<"correction", "s1">>, <<"evidence", "s2">>}}

Good == [value |-> 2, unit |-> TRUE, measured |-> TRUE, text |-> TRUE, source |-> "forms", anchors |-> TRUE]
SomeProposals == {Good, [Good EXCEPT !.anchors = FALSE]}

Symmetric == Permutations(Keys) \cup Permutations(Calls)

MCInit ==
    /\ part \in {"durable", "local"}
    /\ Init
    /\ TasksInit
    /\ part = "durable" => ~signed /\ material = CHOOSE m \in SomeMaterials : TRUE
MCNext ==
    \/ part = "durable" /\ Next /\ job'.claims <= MaxClaims /\ UNCHANGED <<part, localVars>>
    \/ part = "local" /\ TasksNext /\ UNCHANGED <<part, vars>>
MCSpec == MCInit /\ [][MCNext]_<<part, vars, localVars>>

\* An exact retry is answered as the first time, in the store and in the local service,
\* whose publications are authorized on exactly what was shown
\* (HumanTasks!ExactRetryIsHonoured, WorkflowTasks!LocalAnswersAreExact).
AnswersAreExact == ExactRetryIsHonoured /\ LocalAnswersAreExact
=============================================================================
