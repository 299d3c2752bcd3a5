------------------------------- MODULE MCRules -------------------------------
(***************************************************************************)
(* A case under review (CaseReview) and the factor engine it calls         *)
(* (FactorRules).  `part' says which instance a behaviour is about:        *)
(*   case   forms with every subset of four checks, and one context with   *)
(*          everything around it varied                                    *)
(*   bands  one factor, every two-band rule over two boundaries            *)
(*   cases  two factors, two pairs, results altered on their way           *)
(***************************************************************************)
EXTENDS CaseReview, FactorRules, TLC

CONSTANTS x1, f1, f2, g1, a, b, tot, u, c1, c2, c3, c4, good, poor, near

VARIABLE part

Doc(id, version, role) == [id |-> id, version |-> version, role |-> role, regions |-> 0..6]
Cell(n) == {[doc |-> "F", version |-> 1, region |-> n]}
Criterion(n) == {[doc |-> "C", version |-> 1, region |-> n]}
Sources == {Doc("F", 1, "forms"), Doc("C", 1, "criteria")}

\* A side of a pair, as it is read or confirmed.
Native(v) == [cites |-> Cell(0), ambiguous |-> FALSE, located |-> TRUE, known |-> TRUE,
              method |-> "native_numeric", measured |-> TRUE, confirmed |-> NoValue, value |-> v]
Confirmed(f, s, v) == [Native(v) EXCEPT !.method = "reviewer_confirmed", !.confirmed = <<x1, f, s, v>>]
Calc(p) == [status |-> "verified", grade |-> g1, percent |-> p]
NoCalc == [status |-> "needs_review", grade |-> NoValue, percent |-> NoValue]
Pair(f, out) == [ctx |-> x1, factor |-> f, target |-> Native(1), comparable |-> Confirmed(f, "comparable", 2),
                 outcome |-> out]
RuleSet == [ctx |-> x1, zone |-> 1, from |-> NoValue, to |-> NoValue, status |-> "candidate", source |-> "C",
            sourceVersion |-> 1, cites |-> Criterion(0), rules |-> {f1, f2}, critical |-> {f1}]
Slot_(id, f, v, n, d) == [id |-> id, ctx |-> x1, factor |-> f, value |-> v, derivable |-> d, cites |-> Cell(n)]
Obs(id, n, state, v, unit) == [slot |-> id, state |-> state, value |-> v, unit |-> unit, text |-> FALSE,
                               cites |-> Cell(n)]
Check(id, kind, ins, target, q, tol) == [id |-> id, kind |-> kind, inputs |-> ins, target |-> target,
                                         quantum |-> q, tolerance |-> tol, cites |-> Criterion(1)]
Case(p, fs, reg, auth) == [policy |-> p, facts |-> fs, registry |-> reg, authorized |-> auth]
Identity == [version |-> 1, zone |-> 1, date |-> 2]

(* The form: the adjustments a and b of two factors, their total tot, a subtotal u.       *)
Slots == <<Slot_(a, f1, "adjustment_percent", 1, TRUE), Slot_(b, f2, "adjustment_percent", 2, TRUE),
           Slot_(tot, NoValue, "total", 3, TRUE), Slot_(u, NoValue, "subtotal", 4, TRUE)>>
Checks == {Check(c1, "sum", <<a, b>>, tot, 1, 0), Check(c2, "equals", <<tot>>, u, 10, 0),
           Check(c3, "equals", <<u>>, a, 1, 7), Check(c4, "sum", <<a, b>>, u, 1, 1)}
Policy(slots, checks) ==
    [identity |-> Identity, registry |-> Sources, inspected |-> {"F", "C"}, unresolved |-> FALSE,
     contexts |-> <<[ctx |-> x1, factors |-> <<f1, f2>>, cites |-> Cell(0)]>>,
     slots |-> slots, checks |-> checks, ruleSets |-> <<RuleSet>>]
Present(id, n, v) == Obs(id, n, "present", v, "percent_points")
Blank(id, n) == Obs(id, n, "blank", NoValue, NoValue)
FactsOf(out, observed) ==
    [identity |-> Identity, unresolved |-> FALSE, pairs |-> <<Pair(f1, Calc(3)), Pair(f2, out)>>,
     observed |-> observed]

SlotCases ==
    {Case(Policy(Slots, SetToSeq(cs)), FactsOf(out, <<oa, ob, ot, ou>>), Sources, auth) :
        cs \in SUBSET Checks, out \in {Calc(2), NoCalc}, auth \in {TRUE},
        oa \in {Present(a, 1, 3), Present(a, 1, 4), Blank(a, 1)},
        ob \in {Present(b, 2, 2), Blank(b, 2)},
        ot \in {Present(tot, 3, 5), Blank(tot, 3), Obs(tot, 3, "present", 1, "ratio")},
        ou \in {Present(u, 4, 10), Present(u, 4, 5), Blank(u, 4), [Blank(u, 4) EXCEPT !.text = TRUE]}}

(* Contexts: one slot for a grade and one for an adjustment; everything around them varies. *)
GradeSlots == <<Slot_(a, f1, "adjustment_percent", 1, FALSE), Slot_(b, f1, "target_grade", 2, FALSE)>>
Good == FactsOf(Calc(2), <<Present(a, 1, 3), Obs(b, 2, "present", g1, "grade")>>)
Base == Policy(GradeSlots, <<>>)
Days == {NoValue, 1, 2}
Policies ==
    {[Base EXCEPT !.ruleSets = <<[RuleSet EXCEPT !.from = d, !.to = e]>>] :
        d \in Days, e \in {2, 3, NoValue}} \cup {[Base EXCEPT !.ruleSets[1].to = 1]}
    \cup {[Base EXCEPT !.ruleSets = <<RuleSet, [RuleSet EXCEPT !.from = d, !.zone = z]>>] :
             d \in {2, 3}, z \in {1, 2}}
    \cup {[Base EXCEPT !.ruleSets[1].status = "rejected"], [Base EXCEPT !.ruleSets[1].source = "F"],
          [Base EXCEPT !.ruleSets[1].critical = {f1, g1}], [Base EXCEPT !.ruleSets[1].rules = {f1}],
          [Base EXCEPT !.contexts[1].factors = <<f1, f1>>], [Base EXCEPT !.contexts[1].factors = <<f1>>],
          [Base EXCEPT !.contexts[1].cites = Criterion(0)], [Base EXCEPT !.slots[2].factor = NoValue],
          [Base EXCEPT !.slots[1].cites = Criterion(2)], [Base EXCEPT !.slots[2].id = a],
          [Base EXCEPT !.slots[2].value = "total", !.slots[2].factor = NoValue],
          [Base EXCEPT !.inspected = {"F"}], [Base EXCEPT !.unresolved = TRUE],
          [Base EXCEPT !.checks = <<Check(c1, "equals", <<tot>>, a, 1, 0)>>],
          [Base EXCEPT !.identity.version = 2]}
Facts_ ==
    {Good, [Good EXCEPT !.pairs[1].outcome.status = "failed"], [Good EXCEPT !.pairs[1].comparable.value = 3],
     [Good EXCEPT !.pairs[1].target.ambiguous = TRUE], [Good EXCEPT !.pairs[1].target.measured = FALSE],
     [Good EXCEPT !.pairs[1].target.method = "model_proposed"], [Good EXCEPT !.pairs[2].factor = g1],
     [Good EXCEPT !.pairs[2].ctx = c1], [Good EXCEPT !.pairs[2].factor = f1],
     [Good EXCEPT !.observed[1].cites = Cell(5)], [Good EXCEPT !.observed[1].cites = Cell(9)],
     [Good EXCEPT !.observed[1].slot = tot], [Good EXCEPT !.observed[1].value = 4],
     [Good EXCEPT !.observed[2].value = 1, !.observed[2].unit = "ratio"],
     [Good EXCEPT !.observed[1] = Obs(a, 1, "present", 1, "ratio"), !.pairs[1].outcome.percent = 100],
     [Good EXCEPT !.observed[1].state = "missing", !.observed[1].value = NoValue]}
Registries == {Sources, {Doc("F", 2, "forms"), Doc("C", 1, "criteria")},
               Sources \cup {Doc("D", 1, "forms")}}
ContextCases == {Case(p, f, r, auth) : p \in Policies, f \in Facts_, r \in Registries, auth \in BOOLEAN}
AllCases == SlotCases \cup ContextCases

------------------------------------------------------------------------------
\* Grades good and poor in two or three bands with boundaries at 1 and 2.
Ends == {Absent, 1, 2}
Band(g) == [grade : {g}, min : Ends, minInc : BOOLEAN, max : Ends, maxInc : BOOLEAN]
Square(gs) == [g \in gs |-> [h \in gs |-> IF g = h THEN 0 ELSE IF g = good THEN 3 ELSE -2]]
Ragged == good :> (poor :> 3) @@ poor :> (good :> -2 @@ poor :> 0)
Definition(kind, unit, bands, cats, matrix, critical) ==
    [kind |-> kind, unit |-> unit, bands |-> bands, cats |-> cats, matrix |-> matrix,
     critical |-> critical]
Cat(g, vs) == [grade |-> g, values |-> vs]

Banded == {Definition("distance_interval", "m", <<lo, hi>>, <<>>, Square({good, poor}), TRUE) :
              lo \in Band(good), hi \in Band(poor)}
Open(g) == [grade |-> g, min |-> Absent, minInc |-> TRUE, max |-> Absent, maxInc |-> TRUE]
Upto(g, n) == [Open(g) EXCEPT !.max = n]
From(g, n) == [Open(g) EXCEPT !.min = n, !.minInc = FALSE]
Named == {Definition("category", Absent, <<>>, <<Cat(good, {1}), Cat(poor, vs)>>, Square({good, poor}), crit) :
              vs \in {{2}, {1, 2}}, crit \in BOOLEAN}
Mixed == {Definition("presence_distance", "m", bands, cats, Square({good, poor}), TRUE) :
              bands \in {<<Upto(good, 1), From(poor, 1)>>, <<From(poor, 1)>>},
              cats \in {<<>>, <<Cat(good, {near})>>}}
Holed == {Definition("numeric_interval", Absent, <<Upto(good, 1), From(poor, 1)>>, <<>>, m, TRUE) :
              m \in {Ragged, Square({good, poor}), Square({good})}}

TwoBands == {r \in Banded : r.bands[1].minInc /\ ~r.bands[2].maxInc}
AnyRules == Named \cup Mixed \cup Holed
    \cup {Definition("numeric_interval", Absent, <<Upto(good, 1), From(poor, 1)>>,
               <<Cat(good, {1})>>, Square({good, poor}), TRUE)}

Number(n, unit) == [type |-> "number", number |-> n, unit |-> unit]
Text(word) == [type |-> "text", text |-> word]
Seen(v, e, c) == [value |-> v, evidence |-> e, confidence |-> c]

Lengths == {Seen(Number(p[1], p[2]), TRUE, 1) :
                 p \in {<<1, "m">>, <<2, "m">>, <<-1, "m">>, <<1, "km">>, <<1000, "mm">>,
                        <<1, Absent>>, <<2000, "mm">>, <<150, "cm">>}}
             \cup {Seen(Number(2, "m"), FALSE, 1), Seen(Number(2, "m"), TRUE, 0), Seen(Absent, TRUE, 1)}
Readings ==
    {Seen(Number(1, Absent), TRUE, 1), Seen(Text(1), TRUE, 0), Seen(Text(near), TRUE, 1)}
Altered == {0, 3}
OneFactor == {f1}
TwoFactors == {f1, f2}

Bands == INSTANCE FactorRules WITH Factors <- OneFactor, Definitions <- TwoBands,
    Observations <- Lengths, Adjustments <- Altered, MaxPairs <- 1
Cases == INSTANCE FactorRules WITH Factors <- TwoFactors, Definitions <- AnyRules,
    Observations <- Readings, Adjustments <- Altered, MaxPairs <- 2
ASSUME Bands!FactorAssumption /\ Cases!FactorAssumption
AnyDefinition == TwoBands \cup AnyRules
AnyObservation == Lengths \cup Readings

------------------------------------------------------------------------------
AtRest == input = CHOOSE i \in ContextCases : TRUE
MCInit ==
    /\ part \in {"case", "bands", "cases"}
    /\ IF part = "case" THEN CaseInit ELSE CaseInit /\ AtRest
    /\ CASE part = "bands" -> Bands!FactorInit
         [] part = "cases" -> Cases!FactorInit
         [] OTHER -> Bands!FactorInit /\ rules = CHOOSE r \in [OneFactor -> TwoBands] : TRUE
MCNext ==
    \/ part = "case" /\ CaseNext /\ UNCHANGED <<part, factorVars>>
    \/ part = "bands" /\ Bands!FactorNext /\ UNCHANGED <<part, caseVars>>
    \/ part = "cases" /\ Cases!FactorNext /\ UNCHANGED <<part, caseVars>>
MCSpec == MCInit /\ [][MCNext]_<<part, caseVars, factorVars>>
=============================================================================
