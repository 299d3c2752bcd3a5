----------------------------- MODULE CaseReview -----------------------------
(***************************************************************************)
(* The whole-case review: from a reviewed policy (sources, inventory, rule *)
(* sets), the facts of a case and the current source registry to findings, *)
(* a set of trusted numbers and one status.  Contexts are evaluated one by *)
(* one; then the slots of the form are validated along the dependency      *)
(* graph of the arithmetic checks, in any order the graph allows.  What a  *)
(* factor's pair of observations computes is FactorRules; here a pair      *)
(* carries the outcome of that calculation.  Percentages are integers, a   *)
(* quantum is a power of ten of their unit, digests are what they digest.  *)
(***************************************************************************)
EXTENDS Integers, Sequences, FiniteSets, SequencesExt, FiniteSetsExt

CONSTANTS
    Inputs,     \* cases: [policy, facts, registry, authorized] that may be reviewed
    NoValue

Statuses == {"verified", "needs_review", "failed"}

\* What the schemas of a case guarantee: dates are dates and no rule set ends before it
\* begins, lists are lists, and a computed item has a status, and when verified a result.
ASSUME InputsAssumption ==
    /\ NoValue \notin Int
    /\ \A c \in Inputs :
          /\ c.policy.contexts \in Seq(Range(c.policy.contexts))
          /\ c.policy.slots \in Seq(Range(c.policy.slots))
          /\ c.policy.ruleSets \in Seq(Range(c.policy.ruleSets))
          /\ c.policy.identity.date \in Int
          /\ \A r \in Range(c.policy.ruleSets) :
                /\ {r.from, r.to} \subseteq Int \cup {NoValue}
                /\ NoValue \notin {r.from, r.to} => r.from <= r.to
          /\ \A k \in Range(c.policy.checks) : k.inputs \in Seq(Range(k.inputs))
          /\ \A p \in Range(c.facts.pairs) :
                /\ p.outcome.status \in Statuses
                /\ p.outcome.status = "verified" => NoValue \notin {p.outcome.grade, p.outcome.percent}

VARIABLES
    input,      \* the case under review
    phase,      \* "inventory", "contexts", "slots", "done"
    findings,   \* set of [id, kind, status]
    ctxDone,    \* contexts already evaluated
    expected,   \* partial function: slot -> independently calculated value
    slotDone,   \* targets already validated
    trusted     \* partial function: slot -> number that passed every constraint

caseVars == <<input, phase, findings, ctxDone, expected, slotDone, trusted>>

policy == input.policy
facts == input.facts
currentSources == input.registry

Finding(id, kind, status) == [id |-> id, kind |-> kind, status |-> status]
Need(id, kind) == Finding(id, kind, "needs_review")
Fail(id, kind) == Finding(id, kind, "failed")
Pass(id, kind) == Finding(id, kind, "verified")
If(cond, f) == IF cond THEN {f} ELSE {}
NoSlots == <<>>            \* the function with no slot in its domain

------------------------------------------------------------------------------
(* Sources and citations.  A citation is [doc, version, region].           *)

Resolves(ref) ==
    \E d \in currentSources : d.id = ref.doc /\ d.version = ref.version /\ ref.region \in d.regions

CitationsValid(refs) == refs # {} /\ \A ref \in refs : Resolves(ref)

SameSources == currentSources = policy.registry

\* SourcePurposes.selected: exactly one current source of each selected role.
OfRole(role) == {d \in currentSources : d.role = role}
Selected == Cardinality(OfRole("forms")) = 1 /\ Cardinality(OfRole("criteria")) = 1

AllowedRoles(purpose) ==
    CASE purpose = "case" -> {"forms"}
      [] purpose = "rule" -> {"criteria"}
      [] OTHER -> {"forms", "criteria", "reference"}

Allows(refs, purpose) ==
    /\ CitationsValid(refs)
    /\ \A ref \in refs : \E d \in currentSources :
          d.id = ref.doc /\ d.version = ref.version /\ d.role \in AllowedRoles(purpose)

\* The ids of everything that cites a source which does not support that use.
Violations ==
    IF ~Selected THEN {<<"sources">>}
    ELSE {<<"ctx", e.ctx>> : e \in {e \in Range(policy.contexts) : ~Allows(e.cites, "case")}}
         \cup {<<"slot", s.id>> : s \in {s \in Range(policy.slots) : ~Allows(s.cites, "case")}}
         \cup {<<"slot", o.slot>> : o \in {o \in Range(facts.observed) : ~Allows(o.cites, "case")}}
         \cup {<<"factor", p.ctx, p.factor>> :
                  p \in {p \in Range(facts.pairs) : \E s \in {"target", "comparable"} :
                            ~Allows(p[s].cites, "case")}}
         \cup {<<"check", c.id>> : c \in {c \in Range(policy.checks) : ~Allows(c.cites, "procedure")}}
         \cup {<<"ctx", r.ctx>> : r \in {r \in Range(policy.ruleSets) :
                  \/ ~Allows(r.cites, "rule")
                  \/ \A d \in OfRole("criteria") : r.source # d.id \/ r.sourceVersion # d.version}}

------------------------------------------------------------------------------
(* The inventory.                                                          *)

Distinct(seq) == IsInjective(seq)
ContextIds == [i \in 1..Len(policy.contexts) |-> policy.contexts[i].ctx]
SlotIds == [i \in 1..Len(policy.slots) |-> policy.slots[i].id]

Duplicates ==
    ~ /\ Distinct(ContextIds)
      /\ Distinct([i \in 1..Len(facts.pairs) |-> <<facts.pairs[i].ctx, facts.pairs[i].factor>>])
      /\ Distinct(SlotIds)
      /\ Distinct([i \in 1..Len(policy.checks) |-> policy.checks[i].id])
      /\ Distinct([i \in 1..Len(facts.observed) |-> facts.observed[i].slot])

SlotOf(id) == CHOOSE s \in Range(policy.slots) : s.id = id
ObservationOf(id) == CHOOSE o \in Range(facts.observed) : o.slot = id
Observed(id) == \E o \in Range(facts.observed) : o.slot = id

FactorBound(s) == s.value \in {"target_grade", "comparable_grade", "adjustment_percent"}

ValidSlot(s) ==
    \E e \in Range(policy.contexts) :
        /\ e.ctx = s.ctx
        /\ IF FactorBound(s) THEN s.factor \in Range(e.factors) ELSE s.factor = NoValue

ValidSlots == {s.id : s \in {s \in Range(policy.slots) : ValidSlot(s)}}

\* Every anchor of the slot is an anchor of the observation and the other way round.
Binds(id) ==
    /\ Observed(id)
    /\ CitationsValid(SlotOf(id).cites) /\ CitationsValid(ObservationOf(id).cites)
    /\ SlotOf(id).cites = ObservationOf(id).cites

BoundSlots == {id \in ValidSlots : Binds(id)}

\* The whole inventory part: bindings, pages and tables of the selected sources, blank
\* columns, and what was declared unresolved or unsupported.
InventoryFindings ==
    {Fail(<<"slot", s.id>>, "slot_binding") : s \in {s \in Range(policy.slots) : ~ValidSlot(s)}}
    \cup If(\E o \in Range(facts.observed) : o.slot \notin Range(SlotIds),
            Fail(<<"inventory">>, "unknown_observed"))
    \cup If(\E p \in Range(facts.pairs) : p.ctx \notin Range(ContextIds),
            Fail(<<"inventory">>, "unknown_context"))
    \cup If(\E d \in currentSources : d.role \in {"forms", "criteria"} /\ d.id \notin policy.inspected,
            Need(<<"inventory">>, "page_coverage"))
    \cup If(policy.unresolved \/ facts.unresolved, Need(<<"inventory">>, "unresolved"))
    \cup {Pass(<<"inventory">>, "inventory")}
    \cup {Need(<<"slot", id>>, "observed_source_binding") : id \in ValidSlots \ BoundSlots}

\* Everything before the contexts; a duplicate identity or another case ends the review.
CheckInventory ==
    /\ phase = "inventory"
    /\ LET trust == IF input.authorized THEN Pass(<<"trust">>, "approval")
                    ELSE Need(<<"trust">>, "approval")
           sources == IF SameSources THEN Pass(<<"sources">>, "source_identity")
                      ELSE Fail(<<"sources">>, "source_identity")
           purpose == {Need(id, "source_purpose") : id \in Violations}
       IN  IF facts.identity # policy.identity
           THEN /\ findings' = {Fail(<<"trust">>, "case_identity")}
                /\ phase' = "done"
           ELSE IF Duplicates
           THEN /\ findings' = {trust, sources, Fail(<<"inventory">>, "duplicate_identity")} \cup purpose
                /\ phase' = "done"
           ELSE /\ findings' = {trust, sources} \cup purpose \cup InventoryFindings
                /\ phase' = "contexts"
    /\ UNCHANGED <<input, ctxDone, expected, slotDone, trusted>>

------------------------------------------------------------------------------
(* One context: the rule set that applies, the reliability of each pair,   *)
(* the calculation, and the values it makes available to slots.            *)

Applies(r, e) ==
    /\ r.ctx = e.ctx /\ r.zone = policy.identity.zone
    /\ r.from = NoValue \/ r.from <= policy.identity.date
    /\ r.to = NoValue \/ policy.identity.date <= r.to

Matching(e) == {i \in 1..Len(policy.ruleSets) : Applies(policy.ruleSets[i], e)}

RuleSourceValid(r, e) ==
    /\ \E d \in currentSources : d.id = r.source /\ d.version = r.sourceVersion
    /\ CitationsValid(r.cites) /\ CitationsValid(e.cites)
    /\ r.status # "rejected"
    /\ \A ref \in r.cites : ref.doc = r.source

\* Mutant: a confirmation counts whatever it confirmed.
SideReliableOnce(side, digest) ==
    /\ CitationsValid(side.cites) /\ ~side.ambiguous /\ side.located
    /\ \/ side.method = "reviewer_confirmed" /\ input.authorized
       \/ side.method = "native_numeric" /\ side.measured

\* confirmation_digest is the confirmed observation itself: a side that changed since it
\* was confirmed is not confirmed.
SideReliable(side, digest) ==
    /\ CitationsValid(side.cites) /\ ~side.ambiguous /\ side.located
    /\ \/ /\ side.method = "reviewer_confirmed"
          /\ input.authorized /\ side.confirmed = digest /\ side.known
       \/ side.method = "native_numeric" /\ side.measured

Digest(p, s) == <<p.ctx, p.factor, s, p[s].value>>

PairReliable(p) ==
    \A s \in {"target", "comparable"} : SideReliable(p[s], Digest(p, s))

PairsOf(e) == {p \in Range(facts.pairs) : p.ctx = e.ctx}
PairOf(e, f) == CHOOSE p \in PairsOf(e) : p.factor = f
Available(e, r) ==
    {f \in Range(e.factors) : f \in r.rules /\ \E p \in PairsOf(e) : p.factor = f}
ReliableFactors(e, r) == {f \in Available(e, r) : PairReliable(PairOf(e, f))}

\* FactorRuleEngine over the reliable pairs: each computed item is [status, grade, percent].
ItemOf(e, f) == PairOf(e, f).outcome
Worst(statuses) ==
    IF "failed" \in statuses THEN "failed"
    ELSE IF "needs_review" \in statuses THEN "needs_review" ELSE "verified"

\* ReviewVerifier over the same inputs: critical rules without a result are an error.
Calculation(e, r) ==
    LET worst == Worst({ItemOf(e, f).status : f \in ReliableFactors(e, r)})
    IN  IF worst = "verified" /\ ~(r.critical \subseteq ReliableFactors(e, r))
        THEN "needs_review" ELSE worst

Total(e, r) == FoldSet(LAMBDA f, acc : acc + ItemOf(e, f).percent, 0, ReliableFactors(e, r))

\* Mutant: the total counts as calculated although factors were left out of it.
ExpectedPartial(e, r, s) ==
    IF s.factor # NoValue
    THEN IF s.factor \in ReliableFactors(e, r) /\ ItemOf(e, s.factor).status = "verified"
         THEN IF s.value = "adjustment_percent" THEN ItemOf(e, s.factor).percent
              ELSE ItemOf(e, s.factor).grade
         ELSE NoValue
    ELSE IF s.value = "total" THEN Total(e, r) ELSE NoValue

\* The independent value of a slot of the context, NoValue when there is none.
Expected(e, r, s) ==
    IF s.factor # NoValue
    THEN IF s.factor \in ReliableFactors(e, r) /\ ItemOf(e, s.factor).status = "verified"
         THEN IF s.value = "adjustment_percent" THEN ItemOf(e, s.factor).percent
              ELSE ItemOf(e, s.factor).grade
         ELSE NoValue
    ELSE IF /\ s.value = "total"
            /\ Range(e.factors) \subseteq ReliableFactors(e, r)
            /\ Calculation(e, r) = "verified"
         THEN Total(e, r) ELSE NoValue

ContextFindings(e, r) ==
    If(~(r.critical \subseteq Range(e.factors)), Need(<<"ctx", e.ctx>>, "rule_coverage"))
    \cup If(\E p \in PairsOf(e) : p.factor \notin Range(e.factors),
            Fail(<<"ctx", e.ctx>>, "unknown_factor"))
    \cup {Need(<<"factor", e.ctx, f>>, "missing_factor") : f \in Range(e.factors) \ Available(e, r)}
    \cup {Need(<<"factor", e.ctx, f>>, "evidence_reliability") :
             f \in Available(e, r) \ ReliableFactors(e, r)}
    \cup {Finding(<<"ctx", e.ctx>>, "calculation", Calculation(e, r))}
    \cup {Finding(<<"factor", e.ctx, f>>, "factor", ItemOf(e, f).status) : f \in ReliableFactors(e, r)}

EvaluateContext(i) ==
    LET e == policy.contexts[i]
        key == <<"ctx", e.ctx>>
        r == policy.ruleSets[Min(Matching(e))]
        slots == {s \in Range(policy.slots) : ValidSlot(s) /\ s.ctx = e.ctx /\ Expected(e, r, s) # NoValue}
    IN  /\ phase = "contexts" /\ i \in 1..Len(policy.contexts) /\ i = Cardinality(ctxDone) + 1
        /\ ctxDone' = ctxDone \cup {e.ctx}
        /\ IF Cardinality(Matching(e)) # 1
           THEN findings' = findings \cup {Need(key, IF Matching(e) = {} THEN "not_applicable"
                                                     ELSE "selection_conflict")}
                /\ UNCHANGED expected
           ELSE IF ~RuleSourceValid(r, e)
           THEN findings' = findings \cup {Need(key, "rule_source")} /\ UNCHANGED expected
           ELSE IF ~Distinct(e.factors)
           THEN findings' = findings \cup {Fail(key, "duplicate_factor")} /\ UNCHANGED expected
           ELSE /\ findings' = findings \cup ContextFindings(e, r)
                /\ expected' = [id \in DOMAIN expected \cup {s.id : s \in slots} |->
                       IF id \in DOMAIN expected THEN expected[id] ELSE Expected(e, r, SlotOf(id))]
        /\ phase' = IF i = Len(policy.contexts) THEN "slots" ELSE phase
        /\ UNCHANGED <<input, slotDone, trusted>>

------------------------------------------------------------------------------
(* Slots along the graph of the arithmetic checks.                         *)

ChecksOn(id) == {c \in Range(policy.checks) : c.target = id}
Targets == ValidSlots \cup UNION {{c.target} \cup Range(c.inputs) : c \in Range(policy.checks)}
InputsOf(id) == UNION {Range(c.inputs) : c \in ChecksOn(id)}

\* CycleError: some targets all wait for one another.
Cyclic == \E S \in SUBSET Targets : S # {} /\ \A y \in S : InputsOf(y) \cap S # {}

\* Decimal.quantize with ROUND_HALF_UP: the nearest multiple, halves away from zero.
Abs(n) == IF n < 0 THEN -n ELSE n
Quantize(n, q) ==
    LET up == ((2 * Abs(n) + q) \div (2 * q)) * q IN IF n < 0 THEN -up ELSE up

Calculate(kind, seq, q) ==
    Quantize(IF kind = "sum" THEN FoldLeft(LAMBDA a, b : a + b, 0, seq) ELSE seq[1], q)

WellDefined(c) == {c.target} \cup Range(c.inputs) \subseteq ValidSlots /\ CitationsValid(c.cites)

\* Mutant: an input that is an independent figure need not have passed its own slot.
ComparableEarly(c) ==
    /\ WellDefined(c) /\ ~Cyclic /\ c.target \in BoundSlots
    /\ Range(c.inputs) \subseteq DOMAIN trusted \cup DOMAIN expected

\* A check can be calculated: its inputs passed every constraint of their own.
Comparable(c) ==
    /\ WellDefined(c) /\ ~Cyclic /\ c.target \in BoundSlots
    /\ Range(c.inputs) \subseteq DOMAIN trusted

CheckedValue(c) ==
    Calculate(c.kind, [i \in 1..Len(c.inputs) |->
        IF c.inputs[i] \in DOMAIN trusted THEN trusted[c.inputs[i]] ELSE expected[c.inputs[i]]], c.quantum)

Matches(value, c, candidate) == candidate \in Int /\ Abs(value - candidate) <= c.tolerance

\* percent: only a present value with a percent unit is a number.
ObservedCandidate(s, o) ==
    IF s.value \in {"target_grade", "comparable_grade"} /\ o.unit = "grade" THEN o.value
    ELSE IF o.unit \notin {"percent_points", "ratio"} THEN NoValue
    ELSE IF o.unit = "ratio" THEN o.value * 100 ELSE o.value

\* source_trust: the approval, the sources and their use must all have passed.
SourceTrust ==
    /\ input.authorized /\ Violations = {}
    /\ \A f \in findings : f.id \in {<<"sources">>, <<"trust">>} => f.status = "verified"

Slot(status, kind, candidate) == [status |-> status, kind |-> kind, candidate |-> candidate]

\* One candidate against every constraint, and against the independent value: a present
\* total may differ from it by the rounding and tolerance of its checks, any other value
\* is compared exactly.
Agrees(s, o, ind, cons, candidate) ==
    /\ \A c \in cons : Matches(CheckedValue(c), c, candidate)
    /\ ind = NoValue
       \/ IF s.factor = NoValue /\ cons # {} /\ o.state = "present"
          THEN \A c \in cons : Matches(Quantize(ind, c.quantum), c, candidate)
          ELSE candidate = ind

\* The expected value: the independent one, or the one all constraints agree on.
FillOf(ind, cons) ==
    LET values == {CheckedValue(c) : c \in cons}
    IN  IF ind # NoValue THEN ind
        ELSE IF Cardinality(values) = 1 THEN Min(values) ELSE NoValue

ValidateSlot(s, o, ind, cons, ready) ==
    LET want == FillOf(ind, cons)
        candidate == IF o.state = "present" THEN ObservedCandidate(s, o) ELSE want
    IN  CASE o.state \notin {"present", "blank"} -> Slot("needs_review", "observed_unresolved", NoValue)
          [] o.state = "blank" /\ o.text -> Slot("needs_review", "blank_contradiction", NoValue)
          [] o.state = "blank" /\ ~o.text /\ ~s.derivable -> Slot("needs_review", "observed_unresolved", NoValue)
          [] o.state = "present" /\ candidate = NoValue -> Slot("needs_review", "observed_unresolved", NoValue)
          [] OTHER ->
             IF ~ready THEN Slot("needs_review", "arithmetic_dependency", candidate)
             ELSE IF ~SourceTrust THEN Slot("needs_review", "observed_unresolved", candidate)
             ELSE IF candidate = NoValue \/ (want = NoValue /\ cons = {})
             THEN Slot("needs_review", "observed_missing", candidate)
             ELSE Slot(IF Agrees(s, o, ind, cons, candidate) THEN "verified" ELSE "failed",
                       IF o.state = "blank" THEN "derivable_blank" ELSE "observed_comparison", candidate)

Independent(id) == IF id \in DOMAIN expected THEN expected[id] ELSE NoValue

\* Validate target id against what is trusted now.
Judged(id) ==
    LET cons == {c \in ChecksOn(id) : Comparable(c)}
    IN  ValidateSlot(SlotOf(id), ObservationOf(id), Independent(id), cons, cons = ChecksOn(id))

CheckFindings(id) ==
    {Need(<<"check", c.id>>, IF WellDefined(c) THEN "arithmetic_dependency" ELSE "arithmetic_definition") :
        c \in {c \in ChecksOn(id) : ~Comparable(c)}}
    \cup IF id \notin BoundSlots THEN {}
         ELSE {Finding(<<"check", c.id>>, "arithmetic",
                   IF Matches(CheckedValue(c), c, Judged(id).candidate) THEN "verified"
                   ELSE IF Judged(id).candidate = NoValue THEN "needs_review" ELSE "failed") :
                  c \in {c \in ChecksOn(id) : Comparable(c)}}

\* trusted_number
Trusts(id) == id \in BoundSlots /\ Judged(id).status = "verified" /\ Judged(id).candidate \in Int

\* TopologicalSorter.static_order: all inputs first; with a cycle, any order.
InOrder(id) == Cyclic \/ InputsOf(id) \subseteq slotDone

ReviewSlot(id) ==
    /\ phase = "slots" /\ id \in Targets \ slotDone /\ InOrder(id)
    /\ slotDone' = slotDone \cup {id}
    /\ findings' = findings \cup CheckFindings(id)
          \cup IF id \in BoundSlots THEN {Finding(<<"slot", id>>, Judged(id).kind, Judged(id).status)} ELSE {}
    /\ trusted' = IF Trusts(id)
                  THEN [x \in DOMAIN trusted \cup {id} |->
                           IF x = id THEN Judged(id).candidate ELSE trusted[x]]
                  ELSE trusted
    /\ UNCHANGED <<input, phase, ctxDone, expected>>

Finish ==
    /\ phase = "slots" /\ slotDone = Targets
    /\ phase' = "done"
    /\ UNCHANGED <<input, findings, ctxDone, expected, slotDone, trusted>>

------------------------------------------------------------------------------
\* required: everything the inventory says must be reviewed.
Required ==
    {<<"trust">>, <<"sources">>, <<"inventory">>}
    \cup {<<"slot", s.id>> : s \in Range(policy.slots)}
    \cup {<<"ctx", c>> : c \in Range(ContextIds)}
    \cup (UNION {{<<"factor", e.ctx, f>> : f \in Range(e.factors)} : e \in Range(policy.contexts)})
    \cup {<<"check", c.id>> : c \in Range(policy.checks)}
    \cup Violations

VerifiedIds == {f.id : f \in {f \in findings : f.status = "verified"}}
BlockedIds == {f.id : f \in {f \in findings : f.status # "verified"}}

\* Mutant: an id with a verified finding counts, whatever else was found about it.
StatusByVerified ==
    IF \E f \in findings : f.status = "failed" THEN "failed"
    ELSE IF ~(Required \subseteq VerifiedIds) THEN "needs_review" ELSE "verified"

\* finish(): failed before needs_review before verified.
Status ==
    IF \E f \in findings : f.status = "failed" THEN "failed"
    ELSE IF BlockedIds # {} \/ ~(Required \subseteq VerifiedIds) THEN "needs_review" ELSE "verified"

CaseInit ==
    /\ input \in Inputs /\ phase = "inventory" /\ findings = {} /\ ctxDone = {}
    /\ expected = NoSlots /\ slotDone = {} /\ trusted = NoSlots

Done == phase = "done" /\ UNCHANGED caseVars

CaseNext == \/ CheckInventory \/ Finish \/ Done
        \/ \E i \in 1..Len(policy.contexts) : EvaluateContext(i)
        \/ \E id \in Targets : ReviewSlot(id)

CaseSpec == CaseInit /\ [][CaseNext]_caseVars

------------------------------------------------------------------------------
CaseTypeOK ==
    /\ input \in Inputs
    /\ phase \in {"inventory", "contexts", "slots", "done"}
    /\ \A f \in findings : f.status \in Statuses
    /\ ctxDone \subseteq Range(ContextIds)
    /\ DOMAIN expected \subseteq ValidSlots
    /\ slotDone \subseteq Targets
    /\ DOMAIN trusted \subseteq BoundSlots \cap slotDone
    /\ \A id \in DOMAIN trusted : trusted[id] \in Int

InForce(r, e) ==
    /\ r.ctx = e.ctx /\ r.zone = policy.identity.zone
    /\ r.from # NoValue => ~(policy.identity.date < r.from)
    /\ r.to # NoValue => ~(policy.identity.date > r.to)

\* What an observation says, in percent when it is a share.
ReadAs(o) == IF o.unit = "ratio" THEN o.value * 100 ELSE o.value

\* ADR 0007: "A leaf must be an independently computed, passed factor value": every
\* trusted number rests, through checks, on independent values; no number supports itself.
TrustIsGrounded ==
    /\ \A id \in DOMAIN trusted :
          (id \in DOMAIN expected \/ ChecksOn(id) # {}) /\ InputsOf(id) \subseteq DOMAIN trusted
    /\ \A S \in SUBSET DOMAIN trusted : S # {} => \E id \in S : InputsOf(id) \cap S = {}

\* Original values are never replaced by expected ones: what is trusted of a present value
\* is that value, of a blank the only value its constraints and the calculation leave.
ObservationsAreKept ==
    \A id \in DOMAIN trusted :
        LET o == ObservationOf(id) IN
        IF o.state = "present" THEN trusted[id] = ReadAs(o)
        ELSE /\ o.state = "blank" /\ SlotOf(id).derivable
             /\ id \in DOMAIN expected => trusted[id] = expected[id]
             /\ id \notin DOMAIN expected => ChecksOn(id) # {}

\* Every incoming check of a trusted number was calculated, from trusted numbers, and holds.
ConstraintsHold ==
    \A id \in DOMAIN trusted : \A c \in ChecksOn(id) :
        /\ Range(c.inputs) \subseteq DOMAIN trusted
        /\ Abs(Calculate(c.kind, [i \in 1..Len(c.inputs) |-> trusted[c.inputs[i]]], c.quantum)
               - trusted[id]) <= c.tolerance

\* The order in which independent slots are taken does not matter: at the end a slot is
\* trusted exactly when it passes against everything that is trusted.
OrderDoesNotMatter ==
    phase = "done" /\ slotDone # {} =>
        \A id \in BoundSlots : Trusts(id) <=> id \in DOMAIN trusted

\* "only complete verified coverage can reach output": a verified case was approved as it
\* is, from the sources it was approved with, by exactly one applicable rule set for each
\* context whose every factor was computed from evidence, and each form field was read in
\* its own cell and agrees with the calculation.
VerifiedIsComplete ==
    phase = "done" /\ Status = "verified" =>
        /\ input.authorized /\ currentSources = policy.registry /\ facts.identity = policy.identity
        /\ \A e \in Range(policy.contexts) :
              /\ Cardinality({i \in 1..Len(policy.ruleSets) : InForce(policy.ruleSets[i], e)}) = 1
              /\ \A f \in Range(e.factors) : \E p \in PairsOf(e) : p.factor = f
                    /\ p.outcome.status = "verified"
                    /\ \A s \in {"target", "comparable"} : CitationsValid(p[s].cites) /\
                          (p[s].method = "reviewer_confirmed" => p[s].confirmed = Digest(p, s))
        /\ \A s \in Range(policy.slots) :
              /\ Observed(s.id) /\ ObservationOf(s.id).cites = s.cites
              /\ s.factor # NoValue /\ ObservationOf(s.id).state = "present" =>
                    \E p \in Range(facts.pairs) : p.ctx = s.ctx /\ p.factor = s.factor /\
                       ReadAs(ObservationOf(s.id)) \in {p.outcome.percent, p.outcome.grade}

\* A rule set is in force on its first and on its last day.
InForceOnItsDays ==
    phase = "done" => \A e \in Range(policy.contexts), r \in Range(policy.ruleSets) :
        r.ctx = e.ctx /\ r.zone = policy.identity.zone /\ policy.identity.date \in {r.from, r.to} =>
            Need(<<"ctx", e.ctx>>, "not_applicable") \notin findings

\* A number is trusted, and a case verified, for the reasons ADR 0007 gives and no other:
\* no number supports itself, readings are kept, every check holds, the order of the work
\* does not matter, and a verified case is complete and judged by the rules in force.
ReviewIsGrounded ==
    /\ TrustIsGrounded /\ ObservationsAreKept /\ ConstraintsHold
    /\ OrderDoesNotMatter /\ VerifiedIsComplete /\ InForceOnItsDays
=============================================================================
