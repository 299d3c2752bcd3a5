---------------------------- MODULE FactorRules ----------------------------
(***************************************************************************)
(* Deterministic evaluation of appraisal factors: which rule definitions   *)
(* are admitted, how an observation is classified into a grade, how two    *)
(* grades become an adjustment, and the independent verification that      *)
(* recomputes a claimed result from the facts.  Decimal numbers are        *)
(* integers; units are powers of ten, so conversion is exact.  Grades,     *)
(* categories and factors are model values.                                *)
(***************************************************************************)
EXTENDS Integers, Sequences, FiniteSets, SequencesExt, FiniteSetsExt

CONSTANTS
    Factors,        \* factor ids
    Definitions,    \* rule definitions that may be offered for a factor
    Observations,   \* observations an extractor may report
    Adjustments,    \* adjustments that an untrusted result may claim
    MaxPairs,       \* bound: pairs of one evaluation request
    Absent          \* what an optional field holds when it is left out

VARIABLES
    stage,      \* "defined", "rejected", "admitted", "evaluated", "claimed", "verified"
    rules,      \* rules[f]: the definition offered for a factor; some may have none
    pairs,      \* the request: a sequence of [factor, target, comparable]
    confirmed,  \* sides a reviewer has confirmed: <<factor, side>>
    result,     \* the result as it is claimed: [items, total, status]
    report      \* status of the verification, Absent before it

factorVars == <<stage, rules, pairs, confirmed, result, report>>

Sides == {"target", "comparable"}
RuleKinds == {"numeric_interval", "distance_interval", "category", "presence_distance"}
IntervalKinds == {"numeric_interval", "distance_interval", "presence_distance"}
DistanceKinds == {"distance_interval", "presence_distance"}

\* _LENGTH_IN_METRES, in millimetres.
Millimetres == [mm |-> 1, cm |-> 10, m |-> 1000, km |-> 1000000]

ItemStatuses == {"verified", "needs_review", "failed"}

\* The types of the models of factor_models.py: numbers are numbers, an open end or a
\* missing field is None, flags are Booleans.
IsBand(b) ==
    /\ {b.min, b.max} \subseteq Int \cup {Absent} /\ b.grade # Absent
    /\ {b.minInc, b.maxInc} \subseteq BOOLEAN
IsDefinition(r) ==
    /\ r.kind \in RuleKinds
    /\ r.bands \in Seq(Range(r.bands)) /\ \A i \in 1..Len(r.bands) : IsBand(r.bands[i])
    /\ r.cats \in Seq(Range(r.cats)) /\ \A i \in 1..Len(r.cats) : r.cats[i].grade # Absent
    /\ \A g \in DOMAIN r.matrix : \A h \in DOMAIN r.matrix[g] : r.matrix[g][h] \in Int
IsObservation(o) ==
    /\ o.confidence \in Int /\ o.evidence \in BOOLEAN
    /\ o.value # Absent => \/ o.value.type = "number" /\ o.value.number \in Int
                           \/ o.value.type = "text"

ASSUME FactorAssumption ==
    /\ MaxPairs \in Nat
    /\ Absent \notin Int \cup ItemStatuses \cup DOMAIN Millimetres
    /\ \A r \in Definitions : IsDefinition(r)
    /\ \A o \in Observations : IsObservation(o)

\* A rule set has a definition for at least one factor.
RuleSets == UNION {[F -> Definitions] : F \in (SUBSET Factors) \ {{}}}

------------------------------------------------------------------------------
(* Admission of a definition.  A band is [grade, min, minInc, max, maxInc]  *)
(* with Absent for an open end.                                            *)

ValidBand(b) == b.min = Absent \/ b.max = Absent \/ b.min < b.max

ValidIntervals(bands) ==
    /\ bands[1].min = Absent /\ bands[Len(bands)].max = Absent
    /\ \A i \in 1..Len(bands) - 1 :
          /\ bands[i].max = bands[i + 1].min
          /\ bands[i].maxInc # bands[i + 1].minInc

Grades(seq) == {seq[i].grade : i \in 1..Len(seq)}

ValidMatrix(matrix, grades) ==
    DOMAIN matrix = grades /\ \A g \in grades : DOMAIN matrix[g] = grades

UniqueAliases(cats) ==
    \A i, j \in 1..Len(cats) : i # j => cats[i].values \cap cats[j].values = {}

ValidDefinition(r) ==
    /\ \A i \in 1..Len(r.bands) : ValidBand(r.bands[i])
    /\ IF r.kind \in IntervalKinds
       THEN r.bands # <<>> /\ (r.cats = <<>> <=> r.kind # "presence_distance")
            /\ ValidIntervals(r.bands)
       ELSE r.cats # <<>> /\ r.bands = <<>>
    /\ UniqueAliases(r.cats)
    /\ ValidMatrix(r.matrix, Grades(r.bands) \cup Grades(r.cats))

------------------------------------------------------------------------------
(* Classification.                                                         *)

BandContains(b, n, scale) ==
    /\ b.min = Absent \/ n > b.min * scale \/ (b.minInc /\ n = b.min * scale)
    /\ b.max = Absent \/ n < b.max * scale \/ (b.maxInc /\ n = b.max * scale)

\* Whether _normalize_number can express the value in the unit of the rule.
HasUnit(v, wanted) ==
    \/ wanted = v.unit
    \/ /\ wanted # Absent /\ v.unit # Absent
       /\ {wanted, v.unit} \subseteq DOMAIN Millimetres

\* Mutant: the factors of the conversion are exchanged.
SwappedScale(v, wanted) ==
    IF v.unit = wanted THEN <<v.number, 1>>
    ELSE <<v.number * Millimetres[wanted], Millimetres[v.unit]>>

\* The value over a common denominator: compare number * 1 with bound * scale.
Normalized(v, wanted) ==
    IF v.unit = wanted THEN <<v.number, 1>>
    ELSE <<v.number * Millimetres[v.unit], Millimetres[wanted]>>

Confident(f, side, o, sides, threshold) ==
    <<f, side>> \in sides \/ o.confidence >= threshold

NumberGrade(r, v) ==
    LET n == Normalized(v, r.unit)
        hits == {i \in 1..Len(r.bands) : BandContains(r.bands[i], n[1], n[2])}
    IN  IF ~HasUnit(v, r.unit) \/ (r.kind \in DistanceKinds /\ n[1] < 0) \/ hits = {}
        THEN Absent ELSE r.bands[Min(hits)].grade

CategoryGrade(r, v) ==
    LET hits == {i \in 1..Len(r.cats) : v.text \in r.cats[i].values}
    IN  IF hits = {} THEN Absent ELSE r.cats[Min(hits)].grade

\* Absent stands for ObservationNeedsReview.
Classify(f, r, o, side, sides, threshold) ==
    IF o.value = Absent \/ ~o.evidence \/ ~Confident(f, side, o, sides, threshold)
    THEN Absent
    ELSE IF r.kind \in {"numeric_interval", "distance_interval"}
            \/ (r.kind = "presence_distance" /\ o.value.type = "number")
    THEN IF o.value.type # "number" THEN Absent ELSE NumberGrade(r, o.value)
    ELSE IF o.value.type # "text" THEN Absent ELSE CategoryGrade(r, o.value)

Threshold == 1

Item(f, status, adjustment) == [factor |-> f, status |-> status, adjustment |-> adjustment]

EvaluatePair(p, rs, sides) ==
    LET t == Classify(p.factor, rs[p.factor], p.target, "target", sides, Threshold)
        c == Classify(p.factor, rs[p.factor], p.comparable, "comparable", sides, Threshold)
        matrix == rs[p.factor].matrix
    IN  IF p.factor \notin DOMAIN rs THEN Item(p.factor, "failed", Absent)
        ELSE IF t = Absent \/ c = Absent THEN Item(p.factor, "needs_review", Absent)
        ELSE IF t \notin DOMAIN matrix \/ c \notin DOMAIN matrix[t]
        THEN Item(p.factor, "failed", Absent)
        ELSE Item(p.factor, "verified", matrix[t][c])

WorstStatus(statuses) ==
    IF "failed" \in statuses THEN "failed"
    ELSE IF "needs_review" \in statuses THEN "needs_review" ELSE "verified"

TotalAdjustment(items) == FoldLeft(LAMBDA acc, it : acc + it.adjustment, 0, items)

EvaluatePairs(ps, rs, sides) ==
    LET items == [i \in 1..Len(ps) |-> EvaluatePair(ps[i], rs, sides)]
        status == WorstStatus({items[i].status : i \in 1..Len(ps)})
    IN  [items |-> items, status |-> status,
         total |-> IF status = "verified" THEN TotalAdjustment(items) ELSE Absent]

------------------------------------------------------------------------------
(* ReviewVerifier.verify: a result is an untrusted claim.                  *)

Ids(items) == [i \in 1..Len(items) |-> items[i].factor]
MissingCritical(items, rs) ==
    \E f \in DOMAIN rs : rs[f].critical /\ f \notin Range(Ids(items))

Verify(claim, rs, ps, sides) ==
    LET wanted == EvaluatePairs(ps, rs, sides)
        failed == ~IsInjective(Ids(claim.items)) \/ claim # wanted
                  \/ wanted.status = "failed"
    IN  IF failed THEN "failed"
        ELSE IF MissingCritical(claim.items, rs) \/ wanted.status # "verified"
        THEN "needs_review" ELSE "verified"

------------------------------------------------------------------------------
NotEvaluated == [items |-> <<>>, total |-> Absent, status |-> "none"]

FactorInit ==
    /\ stage = "defined" /\ rules \in RuleSets
    /\ pairs = <<>> /\ confirmed = {} /\ result = NotEvaluated /\ report = Absent

\* A rule set is loaded: a definition that is not valid is not.
AdmitRules ==
    /\ stage = "defined"
    /\ stage' = IF \A f \in DOMAIN rules : ValidDefinition(rules[f]) THEN "admitted" ELSE "rejected"
    /\ UNCHANGED <<rules, pairs, confirmed, result, report>>

\* The extractor reports a pair; factors are reported in no order, and may repeat.
Report(f, t, c) ==
    /\ stage = "admitted" /\ Len(pairs) < MaxPairs
    /\ pairs' = Append(pairs, [factor |-> f, target |-> t, comparable |-> c])
    /\ UNCHANGED <<stage, rules, confirmed, result, report>>

\* confirm_side: only a side with a value, evidence and sources can be confirmed.
ConfirmSide(i, side) ==
    /\ stage = "admitted" /\ i \in 1..Len(pairs)
    /\ pairs[i][side].value # Absent /\ pairs[i][side].evidence
    /\ confirmed' = confirmed \cup {<<pairs[i].factor, side>>}
    /\ UNCHANGED <<stage, rules, pairs, result, report>>

RunEngine ==
    /\ stage = "admitted"
    /\ result' = EvaluatePairs(pairs, rules, confirmed)
    /\ stage' = "evaluated"
    /\ UNCHANGED <<rules, pairs, confirmed, report>>

\* The result passes through an adapter that may have changed a figure, or all but drop
\* one item; its summary still claims what it claimed.
Alter(i, a) ==
    /\ stage = "evaluated" /\ i \in 1..Len(result.items)
    /\ result' = [result EXCEPT !.items[i].adjustment = a, !.items[i].status = "verified"]
    /\ stage' = "claimed"
    /\ UNCHANGED <<rules, pairs, confirmed, report>>

Omit ==
    /\ stage = "evaluated" /\ result.items # <<>>
    /\ result' = [result EXCEPT !.items = Front(@)]
    /\ stage' = "claimed"
    /\ UNCHANGED <<rules, pairs, confirmed, report>>

RunVerifier ==
    /\ stage \in {"evaluated", "claimed"}
    /\ report' = Verify(result, rules, pairs, confirmed)
    /\ stage' = "verified"
    /\ UNCHANGED <<rules, pairs, confirmed, result>>

FactorNext ==
    \/ AdmitRules \/ RunEngine \/ Omit \/ RunVerifier
    \/ \E f \in Factors, t, c \in Observations : Report(f, t, c)
    \/ \E i \in 1..MaxPairs, side \in Sides : ConfirmSide(i, side)
    \/ \E i \in 1..MaxPairs, a \in Adjustments : Alter(i, a)

FactorSpec == FactorInit /\ [][FactorNext]_factorVars

------------------------------------------------------------------------------
FactorTypeOK ==
    /\ stage \in {"defined", "rejected", "admitted", "evaluated", "claimed", "verified"}
    /\ rules \in RuleSets
    /\ pairs \in Seq([factor : Factors, target : Observations, comparable : Observations])
    /\ Len(pairs) <= MaxPairs
    /\ confirmed \subseteq Factors \X Sides
    /\ result.status \in ItemStatuses \cup {"none"}
    /\ report \in ItemStatuses \cup {Absent}

(* The reference: what an observation is, without bands in order or units.  *)
Length(v) == v.number * (IF v.unit \in DOMAIN Millimetres THEN Millimetres[v.unit] ELSE 1)
Bound(b, r) == b * (IF r.unit \in DOMAIN Millimetres THEN Millimetres[r.unit] ELSE 1)
Within(v, b, r) ==
    /\ b.min # Absent => Length(v) >= Bound(b.min, r)
    /\ b.max # Absent => Length(v) <= Bound(b.max, r)
    /\ b.min # Absent /\ Length(v) = Bound(b.min, r) => b.minInc
    /\ b.max # Absent /\ Length(v) = Bound(b.max, r) => b.maxInc
Measured(r, o) ==
    /\ o.value # Absent /\ o.value.type = "number" /\ r.kind \in IntervalKinds
    /\ (o.value.unit = r.unit \/ {o.value.unit, r.unit} \subseteq DOMAIN Millimetres)
Readable(r, o) ==
    \/ Measured(r, o) /\ (r.kind \in DistanceKinds => o.value.number >= 0)
    \/ /\ o.value # Absent /\ o.value.type = "text"
       /\ \E i \in 1..Len(r.cats) : o.value.text \in r.cats[i].values
RefGrades(r, o) ==
    {b.grade : b \in {b \in Range(r.bands) : Measured(r, o) /\ Within(o.value, b, r)}}
    \cup {k.grade : k \in {k \in Range(r.cats) : o.value.type = "text" /\ o.value.text \in k.values}}

\* An admitted rule leaves no gap: an observation that can be read in the unit or the
\* categories of the rule, with evidence and confidence, always has a grade, and two
\* grades always have an adjustment. Only the observation can stop an evaluation.
AdmittedRulesHaveNoGap ==
    stage \in {"evaluated", "claimed"} =>
        \A i \in DOMAIN result.items : pairs[i].factor \in DOMAIN rules =>
            /\ result.items[i].status # "failed"
            /\ result.items[i].status = "needs_review" =>
                  \E s \in Sides :
                      LET o == pairs[i][s] IN
                      \/ ~o.evidence \/ ~Readable(rules[pairs[i].factor], o)
                      \/ o.confidence < Threshold /\ <<pairs[i].factor, s>> \notin confirmed

\* What the verifier passes can be derived from the facts by hand: every critical factor
\* is there once, its adjustment is the cell of grades whose bands or categories hold the
\* observed quantities whatever their unit, nobody's low confidence went unconfirmed, and
\* the total is the sum.
VerifiedIsGrounded ==
    report = "verified" =>
        /\ \A f \in DOMAIN rules : rules[f].critical =>
              Cardinality({i \in DOMAIN result.items : result.items[i].factor = f}) = 1
        /\ \A i \in DOMAIN result.items :
              LET p == pairs[i]  r == rules[p.factor] IN
              /\ p.factor = result.items[i].factor /\ p.factor \in DOMAIN rules
              /\ \A s \in Sides : p[s].evidence /\
                    (p[s].confidence >= Threshold \/ <<p.factor, s>> \in confirmed)
              /\ \E t \in RefGrades(r, p.target), c \in RefGrades(r, p.comparable) :
                    result.items[i].adjustment = r.matrix[t][c]
        /\ result.total = TotalAdjustment(result.items)

\* A total is shown for a result whose every factor was computed, never a partial sum.
NoPartialTotal ==
    result.total # Absent /\ stage = "evaluated" =>
        \A i \in DOMAIN result.items : result.items[i].adjustment # Absent

\* Of the factor engine: an admitted rule leaves no gap, no partial sum is shown, and what
\* the verifier passes can be derived from the facts by hand.
GradesAreGrounded == AdmittedRulesHaveNoGap /\ VerifiedIsGrounded /\ NoPartialTotal

\* "a shared interval boundary must belong to exactly one band" (factor_models.py): the
\* bands of an admitted rule cover every number exactly once.
BandsAreDisjoint ==
    stage = "admitted" =>
        \A f \in DOMAIN rules, o \in Observations : Measured(rules[f], o) =>
            Cardinality({i \in 1..Len(rules[f].bands) : Within(o.value, rules[f].bands[i], rules[f])}) = 1
=============================================================================
