-------------------------- MODULE CompetitionSend --------------------------
(***************************************************************************)
(* The guarded AWS clients of a competition deployment.  A call passes the *)
(* profile, the authorisation of its parameters, the binding of the wire   *)
(* to the call and the data review; a model call then reserves its worst   *)
(* case in a team budget, one DynamoDB row that several processes update   *)
(* by compare-and-set; and trust is checked again before the physical send. *)
(* Prices are per token; a resource, model or key is a name.               *)
(***************************************************************************)
EXTENDS Integers, FiniteSets, FiniteSetsExt, Sequences

CONSTANTS
  Procs, Calls,     \* processes and the calls they may make
  Profiles,         \* a sequence of the profiles a deployment may be started with
  Catalog,          \* the IAM actions of the competition's service list
  Entrypoints,      \* the entry points that must share the throttle
  Wires,            \* what the SDK may make of a request
  None,
  MaxTries,         \* attempts of the compare-and-set
  MaxSends,         \* bound: physical sends of one call (SDK retries)
  WindowEnd, ReviewEnd, \* when the budget window and the data review end
  MaxTime           \* bound on the clock

CompetitionAssumption ==
  /\ MaxTries \in Nat \ {0} /\ MaxSends \in Nat \ {0}
  /\ WindowEnd \in Nat /\ ReviewEnd \in Nat /\ MaxTime \in Nat

VARIABLES
  chosen, composed,  \* the profile in use; whether the clients were built
  trust,             \* the current authority, and the dispatcher they were built with
  now,
  row,               \* the budget row: [pin, used, version]
  job,               \* process -> its call in progress
  spent,             \* what the calls sent can have cost, at most
  sent               \* the request that went out last

vars == <<chosen, composed, trust, now, row, job, spent, sent>>

profile == Profiles[chosen]

Dimensions == {"calls", "input", "output", "cost"}
ModelServices == {"bedrock", "bedrock-runtime"}

(***************************************************************************)
(* check_profile: no finding.                                              *)
(***************************************************************************)
SourcesRead(f) == f.sources = "complete"
Identified(f) == f.pinned /\ f.identity = "observed" /\ f.roleEvidence

\* OperationReservation.covers_worst_case
Ceiling(r) == r.input * r.inPrice + r.output * r.outPrice + r.fee
CoversWorstCase(r, uses) ==
  /\ r.priced
  /\ r.operation \in {"Converse", "InvokeModel", "CountTokens"} =>
       uses # {} /\ \A m \in uses : m.context # None /\ r.input >= m.context
  /\ r.operation \in {"Converse", "InvokeModel"} => r.inPrice > 0 /\ r.outPrice > 0
  /\ r.cost >= Ceiling(r)

Budgeted(f) ==
  /\ f.limits # None /\ f.window /\ f.reservations # {}
  /\ \A r \in f.reservations : CoversWorstCase(r, {m \in f.models : m.id = r.model})

PolicyBound(f) == f.policy /\ f.syntheticReference
RoutingApproved(f) ==
  /\ f.crossRegion \/ f.global => f.routing
  /\ f.global => f.crossRegion

ModelAction(op) == IF op \in {"Converse", "InvokeModel"} THEN "InvokeModel" ELSE op
RequiredOperations(f) ==
  {"Converse", "CountTokens", "GetFoundationModel", "InvokeAgentRuntime"}
    \cup (IF \E m \in f.models : m.kind # "foundation" THEN {"GetInferenceProfile"} ELSE {})
ActionsListed(f) ==
  /\ f.actions \subseteq Catalog
  /\ {ModelAction(op) : op \in RequiredOperations(f)} \subseteq f.actions

\* A destination is [region, id]; a foundation model is its own only destination.
FoundationMatches(m, f) == m.kind = "foundation" => m.destinations = {[region |-> f.region, id |-> m.id]}
ModelsApproved(f) ==
  /\ f.models # {}
  /\ \A m \in f.models :
       /\ m.destinations # {} /\ m.snapshot # None
       /\ FoundationMatches(m, f)
       /\ m.globalId => f.global
       /\ (\E d \in m.destinations : d.region # f.region) => f.crossRegion

ThrottleShared(f) ==
  /\ f.controlPlane /\ Entrypoints \subseteq f.entrypoints /\ f.throttleEvidence
  /\ f.store = "budget-table"
InvocationVerified(f) == f.invocation
ResourcesInScope(f) ==
  /\ f.resources # {} /\ \E r \in f.resources : r.kind = "runtime"
  /\ \A r \in f.resources : r.name # None /\ r.inScope /\ r.stops
  /\ \A r, s \in f.resources : r.name = s.name => r = s

CheckProfile(f) ==
  /\ SourcesRead(f) /\ Identified(f) /\ Budgeted(f) /\ PolicyBound(f) /\ RoutingApproved(f)
  /\ ActionsListed(f) /\ ModelsApproved(f) /\ ThrottleShared(f) /\ InvocationVerified(f)
  /\ ResourcesInScope(f)

\* The profile is frozen: each check of it gives the same answer.
Passing == {i \in DOMAIN Profiles : CheckProfile(Profiles[i])}

(***************************************************************************)
(* What a call may touch: authorize and the table, bucket and model rules. *)
(***************************************************************************)
Bound1(f, kind, name) == {r \in f.resources : r.kind = kind /\ r.name = name}

S3Action(c) ==
  CASE c.operation = "HeadObject" -> IF c.version = None THEN "GetObject" ELSE "GetObjectVersion"
    [] c.operation = "GetObject" -> IF c.version = None THEN "GetObject" ELSE "GetObjectVersion"
    [] OTHER -> c.operation
AuthorizeObject(f, c) ==
  /\ \E r \in Bound1(f, "bucket", c.resource) : c.key = None \/ c.key \in r.keys
  /\ c.version # "invalid"
  /\ S3Action(c) \in f.actions
  /\ c.operation = "PutObject" => c.private

AuthorizeTable(f, c) ==
  \* the entries of a transaction are authorised one by one
  \A entry \in c.entries :
    /\ entry.action \in f.actions
    /\ c.operation = "TransactGetItems" => entry.action = "GetItem"
    /\ \E r \in Bound1(f, "table", entry.table) : entry.index = None \/ entry.index \in r.keys

ModelTargets(f, op) ==
  IF op = "GetFoundationModel" THEN {d.id : d \in UNION {m.destinations : m \in f.models}}
  ELSE {m.id : m \in f.models}
AuthorizeModel(f, c) == ModelAction(c.operation) \in f.actions /\ c.resource \in ModelTargets(f, c.operation)

AuthorizeRuntime(f, c) ==
  /\ "InvokeAgentRuntime" \in f.actions /\ Bound1(f, "runtime", c.resource) # {} /\ c.key = None

Authorize(f, c) ==
  \/ c.service = "s3" /\ AuthorizeObject(f, c)
  \/ c.service = "dynamodb" /\ c.entries # {} /\ AuthorizeTable(f, c)
  \/ c.service \in ModelServices /\ AuthorizeModel(f, c)
  \/ c.service = "bedrock-agentcore" /\ AuthorizeRuntime(f, c)

\* CompetitionAWSClients.client: a client of the own region, or of a model's
ClientScope(f, c) ==
  \/ c.region = f.region
  \/ /\ c.service \in ModelServices /\ f.crossRegion
     /\ c.region \in {d.region : d \in UNION {m.destinations : m \in f.models}}

\* While an authority is asked for, the clients only read.
IsRead(c) ==
  \/ c.service = "dynamodb" /\ c.operation \in {"GetItem", "TransactGetItems"}
  \/ c.service = "s3" /\ (c.operation = "HeadObject" \/ (c.operation = "GetObject" /\ c.version # None))
InReadScope(c) == c.nested => IsRead(c)

(***************************************************************************)
(* Trust.                                                                  *)
(***************************************************************************)
\* An authority read does not ask for the authority again.
RequireCurrent(c) ==
  /\ trust.dispatcher
  /\ c.nested \/ trust.authority
  /\ chosen \in Passing
RequireCall(p) == job[p].live

(***************************************************************************)
(* Calls.                                                                  *)
(***************************************************************************)
Free == [pc |-> "free", call |-> None, wire |-> "none", live |-> FALSE, seen |-> None, tries |-> 0, sends |-> 0,
         mark |-> None]
NoUse == [d \in Dimensions |-> 0]

Init ==
  /\ chosen \in DOMAIN Profiles /\ composed = "no"
  /\ trust = [authority |-> TRUE, dispatcher |-> TRUE]
  /\ now = 0
  /\ row = [pin |-> "seeded", used |-> NoUse, version |-> 0]
  /\ job = [p \in Procs |-> Free]
  /\ spent = NoUse /\ sent = None

\* CompetitionAWSClients and its budget: no client before the profile is approved
Compose ==
  /\ composed = "no"
  /\ composed' = IF trust.authority /\ chosen \in Passing THEN "built" ELSE "refused"
  /\ UNCHANGED <<chosen, trust, now, row, job, spent, sent>>

Deny(p) == job' = [job EXCEPT ![p] = Free] /\ UNCHANGED <<row, spent, sent>>

\* _Client.invoke; wire is what the SDK will have made of the parameters
Invoke(p, c, w) ==
  /\ composed = "built" /\ job[p].pc = "free"
  /\ InReadScope(c) /\ RequireCurrent(c) /\ ClientScope(profile, c) /\ Authorize(profile, c)
  /\ job' = [job EXCEPT ![p] = [Free EXCEPT !.pc = "wire", !.call = c, !.wire = w, !.live = TRUE]]
  /\ UNCHANGED <<chosen, composed, trust, now, row, spent, sent>>

\* WireBinding.check and the header rules of both transports
WireBound(w) == w \notin {"other method", "unknown header"}
\* validate_wire_url
WireUrl(w) == w \notin {"other host", "other resource"}

\* ReviewedCompetitionAdmission.check of the exact parts
Reviewed(c) == c.reviewed /\ now < ReviewEnd
Transport(p) ==
  LET j == job[p] IN
  /\ j.pc = "wire"
  /\ IF WireBound(j.wire) /\ WireUrl(j.wire) /\ RequireCurrent(j.call) /\ RequireCall(p) /\ Reviewed(j.call)
       THEN /\ job' = [job EXCEPT ![p].pc = IF j.call.service \in ModelServices THEN "read" ELSE "confirm",
                                  ![p].tries = 0,
                                  ![p].mark = [time |-> now, authority |-> trust.authority, dispatcher |-> trust.dispatcher]]
            /\ UNCHANGED <<row, spent, sent>>
       ELSE Deny(p)
  /\ UNCHANGED <<chosen, composed, trust, now>>

(***************************************************************************)
(* DynamoDBCompetitionBudget.reserve.                                      *)
(***************************************************************************)
InWindow == now < WindowEnd
Matching(c) == {r \in profile.reservations : r.operation = c.operation /\ r.model = c.resource}
UsesOf(c) ==
  {m \in profile.models : \/ m.id = c.resource
                          \/ c.operation = "GetFoundationModel" /\ \E d \in m.destinations : d.id = c.resource}
\* _bound
Bounded(c) ==
  /\ Cardinality(Matching(c)) = 1
  /\ \A r \in Matching(c) :
       /\ UsesOf(c) # {} /\ \A m \in UsesOf(c) : m.snapshot = r.snapshot
       /\ CoversWorstCase(r, UsesOf(c))
       /\ c.bytes <= r.bytes
       /\ c.operation = "Converse" =>
            r.input >= 1 /\ r.output >= 1 /\ r.cost > 0 /\ c.maxTokens \in 1..r.output
       /\ c.operation # "InvokeModel"
Bound(c) == CHOOSE r \in Matching(c) : TRUE
Charge(c) == [calls |-> 1, input |-> Bound(c).input, output |-> Bound(c).output, cost |-> Bound(c).cost]
Plus(u, v) == [d \in Dimensions |-> u[d] + v[d]]
WithinLimits(u) == \A d \in Dimensions : u[d] <= profile.limits[d]

\* get_item, and the tests of the row that was read
ReadRow(p) ==
  LET j == job[p] IN
  /\ j.pc = "read"
  /\ IF Bounded(j.call) /\ InWindow /\ row.pin = "seeded" /\ WithinLimits(Plus(row.used, Charge(j.call)))
       THEN job' = [job EXCEPT ![p].pc = "write", ![p].seen = row] /\ UNCHANGED <<row, spent, sent>>
       ELSE Deny(p)
  /\ UNCHANGED <<chosen, composed, trust, now>>

Marked(j) == [j EXCEPT !.pc = "confirm", !.seen = None,
                       !.mark = [time |-> now, authority |-> trust.authority, dispatcher |-> trust.dispatcher]]
Charged(r, c) == [r EXCEPT !.used = Plus(@, Charge(c)), !.version = @ + 1]

\* update_item under the condition that the whole row is as it was read
WriteRow(p) ==
  LET j == job[p] IN
  /\ j.pc = "write"
  /\ \/ /\ row = j.seen
        /\ row' = Charged(row, j.call) /\ job' = [job EXCEPT ![p] = Marked(j)]
     \/ /\ row # j.seen
        /\ job' = [job EXCEPT ![p] = IF j.tries + 1 < MaxTries THEN [@ EXCEPT !.pc = "read", !.tries = @ + 1, !.seen = None]
                                     ELSE Free]
        /\ UNCHANGED row
  /\ UNCHANGED <<chosen, composed, trust, now, spent, sent>>

\* The answer of the update, or the update itself, is lost: what was reserved stays.
LoseWrite(p) ==
  LET j == job[p] IN
  /\ j.pc = "write"
  /\ job' = [job EXCEPT ![p] = Free]
  /\ row' \in {row} \cup (IF row = j.seen THEN {Charged(row, j.call)} ELSE {})
  /\ UNCHANGED <<chosen, composed, trust, now, spent, sent>>

\* After the reservation: the window, current trust, the call and its guard, then the send
TrustedAgain(p) ==
  /\ job[p].call.service \in ModelServices => InWindow
  /\ RequireCurrent(job[p].call) /\ RequireCall(p)
Confirm(p) ==
  LET j == job[p] IN
  /\ j.pc = "confirm"
  /\ IF TrustedAgain(p) THEN job' = [job EXCEPT ![p].pc = "send"] /\ UNCHANGED <<row, spent, sent>>
     ELSE Deny(p)
  /\ UNCHANGED <<chosen, composed, trust, now>>

\* The provider may use the whole context of the model and all output tokens asked for.
WorstUse(c) ==
  LET r == Bound(c)
      input == IF c.operation \in {"Converse", "CountTokens"} THEN Max({m.context : m \in UsesOf(c)}) ELSE 0
      output == IF c.operation = "Converse" THEN c.maxTokens ELSE 0
  IN [calls |-> 1, input |-> input, output |-> output,
      cost |-> input * r.inPrice + output * r.outPrice + r.fee]

\* The physical send; the SDK may send the request again, through the transport.
Send(p) ==
  LET j == job[p] IN
  /\ j.pc = "send"
  /\ sent' = [call |-> j.call, wire |-> j.wire]
  /\ spent' = IF j.call.service \in ModelServices THEN Plus(spent, WorstUse(j.call)) ELSE spent
  /\ \/ job' = [job EXCEPT ![p] = Free]
     \/ j.sends + 1 < MaxSends /\ job' = [job EXCEPT ![p].pc = "wire", ![p].sends = @ + 1]
  /\ UNCHANGED <<chosen, composed, trust, now, row>>

(***************************************************************************)
(* Surroundings.                                                           *)
(***************************************************************************)
Tick == now < MaxTime /\ now' = now + 1 /\ UNCHANGED <<chosen, composed, trust, row, job, spent, sent>>
Revoke ==
  /\ \/ trust.authority /\ trust' = [trust EXCEPT !.authority = FALSE]
     \/ trust.dispatcher /\ composed = "built" /\ trust' = [trust EXCEPT !.dispatcher = FALSE]
  /\ UNCHANGED <<chosen, composed, now, row, job, spent, sent>>
\* The deadline of the call passes, or its lease is lost.
Expire(p) ==
  /\ job[p].live /\ job' = [job EXCEPT ![p].live = FALSE]
  /\ UNCHANGED <<chosen, composed, trust, now, row, spent, sent>>
\* An operator changes the caps or the profile pin in the row.
Drift ==
  /\ row.pin = "seeded" /\ row' = [row EXCEPT !.pin = "changed"]
  /\ UNCHANGED <<chosen, composed, trust, now, job, spent, sent>>

Step(p) == Transport(p) \/ ReadRow(p) \/ WriteRow(p) \/ LoseWrite(p) \/ Confirm(p) \/ Send(p)
Next ==
  \/ Compose \/ Tick \/ Revoke \/ Drift
  \/ \E p \in Procs : Step(p) \/ Expire(p) \/ \E c \in Calls, w \in Wires : Invoke(p, c, w)
Spec == Init /\ [][Next]_vars

(***************************************************************************)
(* Properties.                                                             *)
(***************************************************************************)
\* The stages of a call and what each has at hand.
TypeOK ==
  /\ composed \in {"no", "built", "refused"}
  /\ \A p \in Procs :
       /\ job[p].pc \in {"free", "wire", "read", "write", "confirm", "send"}
       /\ job[p].pc = "free" <=> job[p].call = None
       /\ job[p].pc = "write" <=> job[p].seen # None
       /\ job[p].tries < MaxTries /\ job[p].sends < MaxSends

\* What the calls sent can have cost, tokens, calls and dollars, was reserved, and no
\* more than the team's limits was reserved: with lost answers, retries of the SDK and
\* processes that race for the row (competition_budget.reserve, covers_worst_case).
SpendIsReserved ==
  \A d \in Dimensions : /\ spent[d] <= row.used[d]
                        /\ profile.limits # None => row.used[d] <= profile.limits[d]
                        /\ profile.limits = None => row.used[d] = 0

\* A request goes out as it was authorised, to a resource, key, index or model of the
\* profile (authorize, validate_wire_url, WireBinding.check).
SentAsApproved ==
  sent # None => sent.wire = "as serialised" /\ Authorize(profile, sent.call) /\ sent.call.reviewed

\* No model is invoked outside of the primary region unless the profile says so and
\* names the approval of that (check_profile).
RoutingIsApproved ==
  sent # None /\ sent.call.service \in ModelServices =>
    /\ sent.call.region # profile.region => profile.crossRegion /\ profile.routing
    /\ \A m \in UsesOf(sent.call) : \A d \in m.destinations :
         d.region # profile.region => profile.crossRegion /\ profile.routing

Sends(p) == job[p].pc = "send" /\ job'[p].pc # "send"

\* Trust that was gone when the reservation was made stops the request; only the reads
\* of an authority check go on without the authority (_Admission.check).
RevocationStops ==
  [][\A p \in DOMAIN job : Sends(p) =>
       /\ job[p].mark.dispatcher
       /\ job[p].mark.authority \/ (job[p].call.nested /\ IsRead(job[p].call))]_vars

\* A model call is sent on a reservation made inside the window.
WindowHolds ==
  [][\A p \in DOMAIN job : Sends(p) /\ job[p].call.service \in ModelServices => job[p].mark.time < WindowEnd]_vars

\* The claim of the data admission: bytes are not sent once their review has expired,
\* here before the reservation for them was made.
ReviewOutlivesReservation == [][\A p \in DOMAIN job : Sends(p) => job[p].mark.time < ReviewEnd]_vars
=============================================================================
