--------------------------- MODULE PageExtraction ---------------------------
(***************************************************************************)
(* Extraction of the pages of one run by a model: BedrockSnapshotBackend   *)
(* takes the pages through rendering, the access preflight and execute's   *)
(* bounded attempts, all of them against one ExtractionLedger.  A call     *)
(* runs in a worker thread that outlives its caller's timeout or           *)
(* cancellation, so late workers, their reservations and their slots       *)
(* interleave with the other pages.  What a model answers is checked       *)
(* against the page before it becomes a candidate with questions for a     *)
(* person.  The transport's own slot is the subject of ModelDispatch.      *)
(***************************************************************************)
EXTENDS Integers, Sequences, FiniteSets, FiniteSetsExt

CONSTANTS
  PageRequests, \* the page requests: run, document, purpose, page, bytes
  Regions,      \* Regions[d][p]: the parser's regions on page p of document d
  Policy,       \* the reviewed access policy: region, routing flags, models
  Worlds,       \* what STS and Bedrock may answer the preflight
  Bodies,       \* what a response may hold: stop reason, shape, proposal
  Errors,       \* the provider errors a call may end with
  Amounts,      \* output tokens a call may really produce
  Rendered,     \* what rendering and payload building may end with
  Observing,    \* whether the attempt observer may succeed (TRUE) or raise (FALSE)
  Priced,       \* whether PricedRuntime counts tokens before inference
  Grants,       \* what the source checks may find
  Tokens, Attempts,   \* ExtractionConfig: max_output_tokens, attempts
  MaxPages, MaxCalls, MaxAttempts, MaxConcurrency, MaxBytes, MaxTokens  \* ExecutionBudget

VARIABLES
  ledger,   \* ExtractionLedger
  expired,  \* the run's elapsed time is used up
  lock,     \* {} or the holder of the preflight lock
  page,     \* page[r]: the task extracting request r
  worker,   \* worker[c]: the thread of call c, an attempt of a request
  fetched   \* history: regions whose model metadata was fetched

pageVars == <<ledger, expired, lock, page, worker, fetched>>

NoUsage == -1
Nobody == "nobody"
NoProposal == [rules |-> {}, contexts |-> {}, pairs |-> {}, slots |-> {}, observed |-> {},
               unresolved |-> FALSE, unsupported |-> FALSE]
NoBody == [stop |-> "none", shape |-> "absent", proposal |-> NoProposal]
NoReply == [failure |-> "none", returned |-> FALSE, body |-> NoBody, out |-> NoUsage]
NoOutcome == [status |-> "none", failure |-> "none", proposal |-> NoProposal, handoffs |-> {}]

LastAttempt == Min({Attempts, MaxAttempts})
PageCalls == PageRequests \X (1 .. LastAttempt)

PagesInit ==
  /\ ledger = [run |-> Nobody, pages |-> 0, calls |-> 0, inFlight |-> 0, reserved |-> 0, stopped |-> FALSE]
  /\ expired = FALSE /\ lock = {} /\ fetched = {}
  /\ page = [r \in PageRequests |-> [pc |-> "idle", attempt |-> 0, code |-> "none", proposal |-> NoProposal,
                                 records |-> <<>>, outcome |-> NoOutcome]]
  /\ worker = [c \in PageCalls |-> [pc |-> "none", made |-> 0, cancelled |-> FALSE, reply |-> NoReply]]

-----------------------------------------------------------------------------
(* Error codes. *)

Known == {"unauthorized_source", "privacy_unavailable", "source_changed", "unsupported_input",
          "unsupported_capability", "budget_exhausted", "access_denied", "configuration_error", "throttled",
          "service_unavailable", "timeout", "refused", "truncated_output", "malformed_output",
          "invalid_source_reference", "provider_error"}

\* The types of a proposal, and what rendering may end with.
IsSide(s) == s = [cites |-> s.cites, evidence |-> s.evidence, unit |-> s.unit, open |-> s.open,
                  method |-> s.method, confident |-> s.confident]
IsPair(q) == /\ q = [context |-> q.context, factor |-> q.factor, target |-> q.target, comparable |-> q.comparable]
             /\ IsSide(q.target) /\ IsSide(q.comparable)
IsProposal(p) ==
  /\ p = [rules |-> p.rules, contexts |-> p.contexts, pairs |-> p.pairs, slots |-> p.slots, observed |-> p.observed,
          unresolved |-> p.unresolved, unsupported |-> p.unsupported]
  /\ \A q \in p.pairs : IsPair(q)
  /\ \A o \in p.observed : o.state \in {"present", "blank", "missing", "not_present", "not_applicable"}

ASSUME ExtractionAssumption ==
  /\ {Tokens, Attempts, MaxPages, MaxCalls, MaxAttempts, MaxConcurrency, MaxBytes, MaxTokens} \subseteq Nat \ {0}
  /\ MaxAttempts <= MaxCalls /\ MaxConcurrency <= MaxCalls
  /\ Amounts \subseteq Nat /\ Observing \subseteq BOOLEAN /\ Priced \in BOOLEAN
  /\ IsFiniteSet(PageRequests) /\ \A r \in PageRequests : r.run # Nobody
  /\ Rendered \subseteq {"image", "page_context_limit"} \cup Known
  /\ \A b \in Bodies : IsProposal(b.proposal)

SafeCode(code) ==
  CASE code = "none" -> "none"
    [] code = "page_context_limit" -> "unsupported_input"
    [] code = "unsupported_response" -> "malformed_output"
    [] code = "conflicting_legacy_evidence" -> "invalid_source_reference"
    [] OTHER -> IF code \in Known THEN code ELSE "provider_error"

ProviderFailure(error) ==
  CASE error \in {"ThrottlingException", "TooManyRequestsException"} -> "throttled"
    [] error \in {"ServiceUnavailableException", "InternalServerException", "ModelNotReadyException"} -> "service_unavailable"
    [] error \in {"AccessDeniedException", "ExpiredTokenException"} -> "access_denied"
    [] error \in {"ValidationException", "ResourceNotFoundException", "NoCredentialsError"} -> "configuration_error"
    [] error \in {"ModelTimeoutException", "ReadTimeoutError", "ConnectionClosedError"} -> "timeout"
    [] OTHER -> "provider_error"

-----------------------------------------------------------------------------
(* The ledger.  Its operations are atomic under its lock. *)

Spent == ledger.stopped \/ expired
BeginPage(r) ==
  IF ledger.run \notin {Nobody, r.run} THEN "configuration_error"
  ELSE IF Spent \/ ledger.pages >= MaxPages THEN "budget_exhausted" ELSE "none"
MayReserve ==
  /\ ledger.run # Nobody /\ ~Spent
  /\ ledger.calls < MaxCalls /\ ledger.inFlight < MaxConcurrency
  /\ ledger.reserved + Tokens <= MaxTokens
ReserveCall(l) == [l EXCEPT !.calls = @ + 1, !.inFlight = @ + 1, !.reserved = @ + Tokens]
FinishedCall(l) == [l EXCEPT !.inFlight = @ - 1]
SettleTokens(l, out) ==
  IF out = NoUsage THEN l
  ELSE LET now == l.reserved + out - Tokens IN
       [l EXCEPT !.reserved = now, !.stopped = @ \/ out > Tokens \/ now > MaxTokens]
Stop(l) == [l EXCEPT !.stopped = TRUE]

-----------------------------------------------------------------------------
(* What the model proposed, against the page it was shown. *)

CiteResolves(d, c) == c.doc = d /\ c.page \in DOMAIN Regions[d] /\ c.region \in Regions[d][c.page]
ProposedSides(p) == UNION {{pair.target, pair.comparable} : pair \in p.pairs}
Citations(p) == UNION {i.cites : i \in p.rules \cup p.contexts \cup p.slots \cup p.observed \cup ProposedSides(p)}

CanonicalEvidence(side) ==
  IF side.cites = {} THEN "invalid_source_reference"
  ELSE IF ~(side.evidence \subseteq side.cites) THEN "conflicting_legacy_evidence" ELSE "none"

Localized(side) ==
  [side EXCEPT !.evidence = side.cites, !.method = "model_proposed", !.confident = FALSE,
               !.open = @ \/ side.unit \notin {"missing", "none", "m", "km", "cm", "mm"}]

Validated(p) == [p EXCEPT !.pairs = {[q EXCEPT !.target = Localized(@), !.comparable = Localized(@)] : q \in @}]

CitesThePage(r, p) == \A c \in Citations(p) : c.page = r.page /\ CiteResolves(r.doc, c)

Validate(r, body) ==
  IF body.stop \in {"max_tokens", "model_context_window_exceeded"} THEN "truncated_output"
  ELSE IF body.stop \in {"guardrail_intervened", "content_filtered", "refusal"} THEN "refused"
  ELSE IF body.stop # "end_turn" \/ body.shape = "several" THEN "unsupported_response"
  ELSE IF body.shape # "text" THEN "malformed_output"
  ELSE IF ~CitesThePage(r, body.proposal) THEN "invalid_source_reference"
  ELSE IF \E s \in ProposedSides(body.proposal) : CanonicalEvidence(s) # "none"
  THEN CanonicalEvidence(CHOOSE s \in ProposedSides(body.proposal) : CanonicalEvidence(s) # "none")
  ELSE "none"
ValidateResponse(r, body) ==
  IF body.stop = "end_turn" /\ body.shape \in {"too_long", "absent"} THEN "malformed_output" ELSE Validate(r, body)

SuitsPurpose(r, p) ==
  /\ p.rules # {} => r.purpose = "criteria"
  /\ (p.contexts \cup p.pairs \cup p.slots \cup p.observed # {}) => r.purpose = "forms"
HonestOutcome(r, p) == SuitsPurpose(r, p) /\ \A c \in Citations(p) : c.doc = r.doc /\ c.page = r.page
ValidateOutcome(r, p) == HonestOutcome(r, p) /\ \A c \in Citations(p) : CiteResolves(r.doc, c)

(* with_candidate_handoffs: the questions a candidate raises, each located. *)
Located(r, cites) == IF cites = {} THEN {[page |-> r.page, region |-> "page"]}
                     ELSE {[page |-> c.page, region |-> c.region] : c \in cites}
Ask(r, reason, cites) == [reason |-> reason, locations |-> Located(r, cites)]

OfSide(r, s) ==
  (IF s.unit = "missing" THEN {Ask(r, "missing", s.cites)} ELSE {}) \cup
  (IF s.open THEN {Ask(r, "conflicting", s.cites)} ELSE {}) \cup
  (IF s.method = "model_proposed" \/ ~s.confident THEN {Ask(r, "low_confidence", s.cites)} ELSE {})
Unpaired(p) == {c \in p.contexts : \E f \in c.factors : ~\E q \in p.pairs : q.context = c.id /\ q.factor = f}
Unanswered(p) ==
  {s \in p.slots : LET of == {o \in p.observed : o.slot = s.id} IN
     of = {} \/ \E o \in of : o.state = "missing" \/ (o.state = "blank" /\ ~s.derivable)}
Handoffs(r, p) ==
  (IF p.unsupported THEN {Ask(r, "unsupported", {})} ELSE {}) \cup
  (IF p.unresolved THEN {Ask(r, "conflicting", {})} ELSE {}) \cup
  {Ask(r, "conflicting", x.cites) : x \in {y \in p.rules : y.open}} \cup
  (UNION {OfSide(r, s) : s \in ProposedSides(p)}) \cup
  {Ask(r, "missing", x.cites) : x \in Unpaired(p)} \cup
  {Ask(r, "missing", x.cites) : x \in Unanswered(p)}

Failed(r, code) == [status |-> "failed", failure |-> SafeCode(code), proposal |-> NoProposal,
                    handoffs |-> {Ask(r, "page_failed", {})}]
Candidate(r, p) == [status |-> "candidate", failure |-> "none", proposal |-> p, handoffs |-> Handoffs(r, p)]

(* The end of extract: an outcome that does not validate keeps its attempts. *)
Marked(records) == IF records = <<>> THEN <<>>
                   ELSE [records EXCEPT ![Len(records)].failure = "invalid_source_reference"]
End(r, code, p, records) ==
  LET bad == code = "none" /\ ~ValidateOutcome(r, p)
      final == IF bad THEN "invalid_source_reference" ELSE code IN
  [page[r] EXCEPT !.pc = "done", !.code = final, !.proposal = NoProposal,
     !.records = IF bad THEN Marked(records) ELSE records,
     !.outcome = IF final = "none" THEN Candidate(r, p) ELSE Failed(r, final)]
EndBefore(r, code) == End(r, code, NoProposal, <<>>)

-----------------------------------------------------------------------------
(* AuthorizedExtractionService.extract and the start of the backend. *)

ExplicitRouting ==
  /\ Policy.regions # {Policy.region} => Policy.crossRegion
  /\ Policy.globalModel => Policy.global
Coherent == Tokens <= MaxTokens /\ Attempts <= MaxAttempts

Refusal(found) ==
  IF found = "forbidden" THEN "unauthorized_source"
  ELSE IF found = "no_resolver" THEN "privacy_unavailable"
  ELSE IF found = "changed" THEN "source_changed"
  ELSE IF ~ExplicitRouting THEN "provider_error"
  ELSE IF ~Coherent THEN "configuration_error" ELSE "none"

Refuse(r) == \E found \in Grants :
  /\ page[r].pc = "idle" /\ Refusal(found) # "none"
  /\ page' = [page EXCEPT ![r].pc = "raised", ![r].code = Refusal(found)]
  /\ UNCHANGED <<ledger, expired, lock, worker, fetched>>

Begin(r) ==
  /\ page[r].pc = "idle" /\ \E found \in Grants : Refusal(found) = "none"
  /\ LET code == BeginPage(r) IN
     /\ ledger' = [ledger EXCEPT !.run = IF @ = Nobody THEN r.run ELSE @,
                                 !.pages = IF code = "none" THEN @ + 1 ELSE @]
     /\ page' = [page EXCEPT ![r] =
          IF code # "none" THEN EndBefore(r, code)
          ELSE IF r.bytes > MaxBytes THEN EndBefore(r, "budget_exhausted")
          ELSE [@ EXCEPT !.pc = "rendering"]]
  /\ UNCHANGED <<expired, lock, worker, fetched>>

Render(r) == \E result \in Rendered :
  /\ page[r].pc = "rendering"
  /\ page' = [page EXCEPT ![r] =
       IF result # "image" THEN EndBefore(r, result)
       ELSE IF expired THEN EndBefore(r, "budget_exhausted")
       ELSE [@ EXCEPT !.pc = "locking"]]
  /\ UNCHANGED <<ledger, expired, lock, worker, fetched>>

-----------------------------------------------------------------------------
(* preflight: identity, destinations and model metadata, no inference. *)

Destinations(w) == IF Policy.kind = "foundation" THEN {[region |-> Policy.region, id |-> Policy.model]} ELSE w.destinations

ProfileMatches(w) ==
  \/ Policy.kind = "foundation"
  \/ /\ w.active /\ w.kind = Policy.kind /\ w.profile = Policy.model
     /\ w.globalProfile => Policy.global
AllowedDestinations(w) ==
  /\ Destinations(w) # {}
  /\ \A m \in Destinations(w) :
       /\ m.region \in Policy.regions /\ m.id \in Policy.models
       /\ m.region # Policy.region => Policy.crossRegion
Invocable(w) == \A m \in Destinations(w) : m \in w.invocable

Preflight(w) ==
  IF w.error # "none"
  THEN IF ProviderFailure(w.error) = "provider_error" THEN "configuration_error" ELSE ProviderFailure(w.error)
  ELSE IF w.role # Policy.role THEN "access_denied"
  ELSE IF ~ProfileMatches(w) THEN "configuration_error"
  ELSE IF ~AllowedDestinations(w) \/ ~Invocable(w) THEN "unsupported_capability" ELSE "none"
Fetched(w) ==
  IF w.error = "none" /\ w.role = Policy.role /\ ProfileMatches(w) /\ AllowedDestinations(w)
  THEN {m.region : m \in Destinations(w)} ELSE {}

TakeLock(r) ==
  /\ page[r].pc = "locking" /\ lock = {}
  /\ IF Spent THEN page' = [page EXCEPT ![r] = EndBefore(r, "budget_exhausted")] /\ UNCHANGED lock
     ELSE page' = [page EXCEPT ![r].pc = "checking"] /\ lock' = {r}
  /\ UNCHANGED <<ledger, expired, worker, fetched>>

CheckAccess(r) == \E w \in Worlds :
  /\ page[r].pc = "checking"
  /\ lock' = {} /\ fetched' = fetched \cup Fetched(w)
  /\ page' = [page EXCEPT ![r] = IF Preflight(w) = "none" THEN [@ EXCEPT !.pc = "attempt", !.attempt = 1]
                                 ELSE EndBefore(r, Preflight(w))]
  /\ UNCHANGED <<ledger, expired, worker>>

\* wait_for ends while the page renders, waits for the lock or is checked
SetupTimesOut(r) ==
  /\ page[r].pc \in {"rendering", "locking", "checking"}
  /\ ledger' = Stop(ledger)
  /\ lock' = lock \ {r}
  /\ page' = [page EXCEPT ![r] = EndBefore(r, "timeout")]
  /\ UNCHANGED <<expired, worker, fetched>>

-----------------------------------------------------------------------------
(* execute: one attempt. *)

Attempt(r) ==
  /\ page[r].pc = "attempt"
  /\ IF MayReserve
     THEN /\ ledger' = ReserveCall(ledger)
          /\ worker' = [worker EXCEPT ![<<r, page[r].attempt>>].pc = "queued"]
          /\ page' = [page EXCEPT ![r].pc = "waiting"]
     ELSE /\ page' = [page EXCEPT ![r] = End(r, "budget_exhausted", NoProposal, @.records)]
          /\ UNCHANGED <<ledger, worker>>
  /\ UNCHANGED <<expired, lock, fetched>>

(* invoke, in the worker thread *)
Denied == [NoReply EXCEPT !.failure = "budget_exhausted"]
Replied(c, reply) ==
  /\ ledger' = FinishedCall(ledger)
  /\ worker' = [worker EXCEPT ![c].pc = "done", ![c].reply = reply]
Permitted(c) == ~worker[c].cancelled /\ ~Spent

Invoke(c) ==
  /\ worker[c].pc = "queued"
  /\ IF Spent THEN Replied(c, Denied)
     ELSE worker' = [worker EXCEPT ![c].pc = IF Priced THEN "counting" ELSE "ready"] /\ UNCHANGED ledger
  /\ UNCHANGED <<expired, lock, page, fetched>>

\* PricedRuntime.converse: CountTokens through the transport, then can_invoke again
Count(c) == \E within \in BOOLEAN :
  /\ worker[c].pc = "counting"
  /\ IF ~within \/ ~Permitted(c) THEN Replied(c, Denied)
     ELSE worker' = [worker EXCEPT ![c].pc = "ready"] /\ UNCHANGED ledger
  /\ UNCHANGED <<expired, lock, page, fetched>>

\* DispatchGuard.charge and check
PassGuard(c) == \E late \in BOOLEAN :
  /\ worker[c].pc = "ready"
  /\ IF late \/ ~Permitted(c) THEN Replied(c, Denied)
     ELSE worker' = [worker EXCEPT ![c].pc = "admitted"] /\ UNCHANGED ledger
  /\ UNCHANGED <<expired, lock, page, fetched>>

\* transport.send: the request leaves the machine, whatever its caller does meanwhile
Send(c) == \E made \in Amounts :
  /\ worker[c].pc = "admitted"
  /\ worker' = [worker EXCEPT ![c].pc = "sent", ![c].made = made]
  /\ UNCHANGED <<ledger, expired, lock, page, fetched>>

\* An answer, an error, or a slot whose release is unknown (DispatchDenied after the send)
ProviderResponds(c) ==
  /\ worker[c].pc = "sent"
  /\ \/ \E error \in Errors : Replied(c, [NoReply EXCEPT !.failure = ProviderFailure(error)])
     \/ Replied(c, Denied)
     \/ Replied(c, [NoReply EXCEPT !.failure = "malformed_output", !.returned = TRUE])
     \/ \E body \in Bodies, told \in BOOLEAN :
          Replied(c, [failure |-> "none", returned |-> TRUE, body |-> body, out |-> IF told THEN worker[c].made ELSE NoUsage])
  /\ UNCHANGED <<expired, lock, page, fetched>>

(* The caller's side. *)
Note(completion, code, out) == [completion |-> completion, failure |-> SafeCode(code), out |-> out]

AttemptCode(r, reply) ==
  LET code == IF reply.failure # "none" THEN reply.failure ELSE ValidateResponse(r, reply.body)
  IN IF reply.out > Tokens \/ (expired /\ code = "none") THEN "budget_exhausted" ELSE code
\* Mutant: a call that timed out is taken for one that failed.
TimeoutIsFailure(reply) == IF reply.failure # "none" /\ ~reply.returned THEN "failed" ELSE "returned"
Completion(reply) == IF reply.failure = "timeout" THEN "unknown"
                     ELSE IF reply.failure # "none" /\ ~reply.returned THEN "failed" ELSE "returned"

Retryable == {"throttled", "service_unavailable"}

\* settle, classify, validate, tell the observer, then retry after a pause or end
Settle(r, reply) == \E told \in Observing :
  LET code == AttemptCode(r, reply)
      note == Note(Completion(reply), code, reply.out)
      settled == SettleTokens(ledger, reply.out)
      final == IF told THEN code ELSE "provider_error"
      records == Append(page[r].records, note)
      retry == final \in Retryable /\ page[r].attempt < Attempts
  IN /\ ledger' = IF Completion(reply) = "unknown" \/ ~told THEN Stop(settled) ELSE settled
     /\ \/ /\ retry /\ ~expired
           /\ page' = [page EXCEPT ![r] = [@ EXCEPT !.pc = "pausing", !.code = final, !.records = records]]
        \/ /\ retry   \* the pause does not fit in the time that is left
           /\ page' = [page EXCEPT ![r] = End(r, "budget_exhausted", NoProposal, records)]
        \/ /\ ~retry
           /\ page' = [page EXCEPT ![r] = End(r, final, Validated(reply.body.proposal), records)]

Receive(r) ==
  LET c == <<r, page[r].attempt>> IN
  /\ page[r].pc = "waiting" /\ worker[c].pc = "done"
  /\ Settle(r, worker[c].reply)
  /\ UNCHANGED <<expired, lock, worker, fetched>>

\* The shielded worker goes on, keeping its slot and its reservation
TimeOut(r) ==
  LET c == <<r, page[r].attempt>> IN
  /\ page[r].pc = "waiting" /\ worker[c].pc # "done"
  /\ worker' = [worker EXCEPT ![c].cancelled = TRUE]
  /\ Settle(r, [NoReply EXCEPT !.failure = "timeout"])
  /\ UNCHANGED <<expired, lock, fetched>>

Wake(r) == LET p == page[r] IN
  /\ p.pc = "pausing"
  /\ page' = [page EXCEPT ![r] =
       IF expired THEN End(r, "budget_exhausted", NoProposal, p.records)
       ELSE IF p.attempt < LastAttempt THEN [p EXCEPT !.pc = "attempt", !.attempt = p.attempt + 1]
       ELSE End(r, p.code, NoProposal, p.records)]
  /\ UNCHANGED <<ledger, expired, lock, worker, fetched>>

\* The task is cancelled at an await
Cancel(r) ==
  /\ page[r].pc \in {"rendering", "locking", "checking", "waiting", "pausing"}
  /\ ledger' = Stop(ledger)
  /\ lock' = lock \ {r}
  /\ page' = [page EXCEPT ![r].pc = "cancelled"]
  /\ worker' = IF page[r].pc = "waiting" THEN [worker EXCEPT ![<<r, page[r].attempt>>].cancelled = TRUE] ELSE worker
  /\ UNCHANGED <<expired, fetched>>

Expire == ledger.run # Nobody /\ ~expired /\ expired' = TRUE /\ UNCHANGED <<ledger, lock, page, worker, fetched>>

Setup(r) == Refuse(r) \/ Begin(r) \/ Render(r) \/ TakeLock(r) \/ CheckAccess(r) \/ SetupTimesOut(r)
Run(r) == Attempt(r) \/ Receive(r) \/ TimeOut(r) \/ Wake(r)
Work(c) == Invoke(c) \/ Count(c) \/ PassGuard(c) \/ Send(c) \/ ProviderResponds(c)

Over == {"done", "raised", "cancelled"}
RunEnded ==
  /\ \A r \in PageRequests : page[r].pc \in Over
  /\ \A c \in PageCalls : worker[c].pc \in {"none", "done"}
  /\ UNCHANGED pageVars

PagesNext ==
  \/ \E r \in PageRequests : Setup(r) \/ Run(r) \/ Cancel(r)
  \/ \E c \in PageCalls : Work(c)
  \/ Expire \/ RunEnded

PagesSpec == PagesInit /\ [][PagesNext]_pageVars

-----------------------------------------------------------------------------
(* Properties. *)

\* Types of the state.
PagesTypeOK ==
  /\ ledger.run \in {Nobody} \cup {r.run : r \in PageRequests}
  /\ ledger.pages \in Nat /\ ledger.calls \in Nat /\ ledger.inFlight \in Nat /\ ledger.reserved \in Nat
  /\ ledger.stopped \in BOOLEAN /\ expired \in BOOLEAN /\ lock \subseteq PageRequests
  /\ \A r \in PageRequests :
       /\ page[r].pc \in {"idle", "rendering", "locking", "checking", "attempt", "waiting", "pausing"} \cup Over
       /\ page[r].attempt \in 0 .. LastAttempt
       /\ page[r].outcome.failure \in Known \cup {"none"}
  /\ \A c \in PageCalls : worker[c].pc \in {"none", "queued", "counting", "ready", "admitted", "sent", "done"}

Live == {c \in DOMAIN worker : worker[c].pc \notin {"none", "done"}}
Reserved == {c \in DOMAIN worker : worker[c].pc # "none"}
Excess(c) == IF worker[c].made > Tokens THEN worker[c].made - Tokens ELSE 0

\* ExtractionLedger's limits hold over every worker, the ones whose callers
\* have left included: a slot is held exactly as long as its thread runs, so
\* at most max_concurrency calls are alive, never two of one page, and no
\* call of a second run is ever admitted (extraction_budget.py:21-55).
LimitsHold ==
  /\ ledger.inFlight = Cardinality(Live) /\ Cardinality(Live) <= MaxConcurrency
  /\ \A c, d \in Live : c[1] = d[1] => c = d
  /\ ledger.calls = Cardinality(Reserved) /\ ledger.calls <= MaxCalls
  /\ \A c \in Reserved : c[1].run = ledger.run
  /\ Cardinality({c[1] : c \in Reserved}) <= ledger.pages /\ ledger.pages <= MaxPages

\* What the model really produced never exceeds what the ledger holds for
\* it, whatever was reported, lost or answered after a timeout; only a
\* provider that ignores maxTokens can go beyond, by its own excess, and the
\* ledger admits nothing more once it has seen that.
TokensAreReserved ==
  LET excess == MapThenSumSet(Excess, PageCalls)
      made(c) == worker[c].made
  IN /\ MapThenSumSet(made, PageCalls) <= ledger.reserved + excess
     /\ ledger.reserved <= MaxTokens + excess
     /\ (\E r \in DOMAIN page : \E i \in DOMAIN page[r].records : page[r].records[i].out > Tokens) => ledger.stopped

\* Once an attempt's fate is unknown, or a page was cancelled, the guard admits
\* no further request of any page of the run, however late its worker or its
\* CountTokens answer arrives.  Only a request that had passed the guard by then
\* can still leave the machine: its thread shares no lock with the ledger.
NothingIsAdmittedAfterDoubt ==
  [][(\E r \in DOMAIN page : \/ page[r].pc = "cancelled"
                          \/ \E i \in DOMAIN page[r].records : page[r].records[i].completion = "unknown")
     => \A c \in DOMAIN worker :
          /\ worker'[c].pc = "admitted" => worker[c].pc = "admitted"
          /\ worker'[c].pc = "sent" => worker[c].pc \in {"admitted", "sent"}]_pageVars

\* The attempts an ended page reports are the calls it made: none is left
\* out or invented, each tells whether an answer came back and what it
\* used, and only the last may be unknown; a candidate rests on an attempt
\* that returned and was accepted.
RecordsTellTheTruth ==
  \A r \in DOMAIN page : page[r].pc = "done" =>
    LET kept == page[r].records
        reply(i) == worker[<<r, i>>].reply
    IN /\ Len(kept) = Cardinality({c \in Reserved : c[1] = r})
       /\ \A i \in DOMAIN kept :
            /\ kept[i].completion = "returned" => reply(i).returned /\ kept[i].out = reply(i).out
            /\ kept[i].completion = "failed" => worker[<<r, i>>].pc = "done" /\ ~reply(i).returned
            /\ kept[i].completion = "unknown" => i = Len(kept)
       /\ page[r].outcome.status = "candidate" =>
            kept # <<>> /\ kept[Len(kept)].failure = "none" /\ kept[Len(kept)].completion = "returned"

\* A candidate cites nothing but regions of the page that was asked about,
\* proposes only what its source's purpose allows, and every value the
\* model read from the page is put to a person at the regions it cites.
CandidatesAreGrounded ==
  \A r \in DOMAIN page : page[r].outcome.status = "candidate" =>
    LET p == page[r].outcome.proposal IN
    /\ \A c \in Citations(p) : c.doc = r.doc /\ c.page = r.page /\ c.region \in Regions[r.doc][r.page]
    /\ (p.rules # {} => r.purpose = "criteria") /\ (p.pairs # {} => r.purpose = "forms")

\* Nothing a model proposed is taken on its own word: every side of every
\* pair, and every slot the page does not answer, is a question of the
\* outcome that points at regions of the page, whatever method or
\* confidence the model claimed for it.
EveryProposalIsQuestioned ==
  \A r \in DOMAIN page : page[r].outcome.status = "candidate" =>
    LET p == page[r].outcome.proposal
        points(q) == {l.region : l \in q.locations}
        cited(x) == {c.region : c \in x.cites}
    IN /\ \A s \in ProposedSides(p) : \E q \in page[r].outcome.handoffs :
            q.reason = "low_confidence" /\ points(q) = cited(s) /\ points(q) \subseteq Regions[r.doc][r.page]
       /\ \A s \in p.slots :
            \/ /\ \E o \in p.observed : o.slot = s.id
               /\ \A o \in p.observed : o.slot = s.id =>
                    o.state \in {"present", "not_present", "not_applicable"} \/ (o.state = "blank" /\ s.derivable)
            \/ \E q \in page[r].outcome.handoffs : q.reason = "missing" /\ points(q) \subseteq Regions[r.doc][r.page] \cup {"page"}

\* The preflight reads model metadata, and so reveals its interest, only in
\* regions the reviewed policy names: a profile that also routes elsewhere
\* is refused before any of its destinations is asked.
OnlyPolicyRegionsAreAsked == fetched \subseteq Policy.regions

\* Of the extraction of pages: the ledger bounds what its calls do, late ones included; the
\* attempts of a page are its calls; candidates are grounded and questioned; and metadata is
\* asked for in reviewed regions only.
PagesAreAccounted ==
  /\ LimitsHold /\ RecordsTellTheTruth /\ CandidatesAreGrounded /\ EveryProposalIsQuestioned
  /\ OnlyPolicyRegionsAreAsked
=============================================================================
