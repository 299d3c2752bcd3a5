------------------------------- MODULE MCModels -------------------------------
(***************************************************************************)
(* The team's shared model slot (ModelDispatch), the competition client    *)
(* and its budget row (CompetitionSend) and the extraction of pages with a *)
(* model (PageExtraction).  `part' says which instance a behaviour is      *)
(* about:                                                                  *)
(*   slot     SDK calls with implicit retries contend for the slot         *)
(*   budget   two processes race for a budget of two calls                 *)
(*   scope    every call in every wire form under every profile            *)
(*   limits   three pages of two runs share one extraction ledger          *)
(*   answers  every answer, error, grant and preflight of a page           *)
(***************************************************************************)
EXTENDS ModelDispatch, PageExtraction, TLC

CONSTANTS Procs, Nil

VARIABLES part, chosen, composed, trust, now, row, job, spent, sent

competition == <<chosen, composed, trust, now, row, job, spent, sent>>

(* A deployment with a model in its own region and a routed one, a bucket, two tables and a *)
(* runtime; profiles differ from the approved one in one respect each.                     *)
AllEntrypoints == {"extractor", "worker"}
AllActions == {"InvokeModel", "CountTokens", "GetFoundationModel", "GetInferenceProfile", "InvokeAgentRuntime",
              "GetItem", "PutItem", "UpdateItem", "GetObject", "GetObjectVersion", "PutObject"}

Local == [id |-> "local", kind |-> "foundation", destinations |-> {[region |-> "home", id |-> "local"]},
          snapshot |-> "s1", context |-> 3, globalId |-> FALSE]
Routed == [id |-> "routed", kind |-> "system_profile", destinations |-> {[region |-> "home", id |-> "local"], [region |-> "away", id |-> "far"]},
           snapshot |-> "s1", context |-> 2, globalId |-> FALSE]
Worldwide == [Routed EXCEPT !.globalId = TRUE]

Reserve(op, model, in, out, cost) ==
  [operation |-> op, model |-> model, bytes |-> 1, input |-> in, output |-> out, cost |-> cost, snapshot |-> "s1",
   priced |-> TRUE, inPrice |-> 1, outPrice |-> 2, fee |-> 1]
\* 3 + 2*2 + 1 and 3 + 1
Converse3 == Reserve("Converse", "local", 3, 2, 8)
Count3 == Reserve("CountTokens", "local", 3, 0, 4)
Away2 == Reserve("Converse", "routed", 2, 1, 5)
Look == Reserve("GetFoundationModel", "local", 0, 0, 1)

Thing(kind, name, keys) == [kind |-> kind, name |-> name, keys |-> keys, inScope |-> TRUE, stops |-> TRUE]

Approved ==
  [sources |-> "complete", pinned |-> TRUE, identity |-> "observed", roleEvidence |-> TRUE,
   limits |-> [calls |-> 2, input |-> 9, output |-> 4, cost |-> 20], window |-> TRUE,
   reservations |-> {Converse3, Count3, Look}, policy |-> TRUE, syntheticReference |-> TRUE,
   crossRegion |-> FALSE, global |-> FALSE, routing |-> FALSE, region |-> "home",
   actions |-> AllActions \ {"GetObject"}, models |-> {Local}, controlPlane |-> TRUE,
   entrypoints |-> AllEntrypoints, throttleEvidence |-> TRUE, store |-> "budget-table", invocation |-> TRUE,
   resources |-> {Thing("runtime", "agent", {}), Thing("bucket", "documents", {"in"}), Thing("table", "jobs", {"by-state"}),
                  Thing("table", "budget-table", {})}]
CrossRegion == [Approved EXCEPT !.models = {Local, Routed}, !.reservations = @ \cup {Away2}, !.crossRegion = TRUE, !.routing = TRUE]

OneProfile == <<Approved>>
AllProfiles ==
  <<Approved, CrossRegion,
   [Approved EXCEPT !.sources = "partial"], [Approved EXCEPT !.pinned = FALSE], [Approved EXCEPT !.identity = "other"],
   [Approved EXCEPT !.limits = Nil], [Approved EXCEPT !.window = FALSE], [Approved EXCEPT !.policy = FALSE],
   [Approved EXCEPT !.reservations = {[Converse3 EXCEPT !.cost = 7], Count3, Look}],
   [Approved EXCEPT !.reservations = {[Converse3 EXCEPT !.input = 2], Count3}],
   [Approved EXCEPT !.reservations = {[Converse3 EXCEPT !.snapshot = "s2"], Count3}],
   [CrossRegion EXCEPT !.crossRegion = FALSE], [CrossRegion EXCEPT !.routing = FALSE], [Approved EXCEPT !.global = TRUE],
   [CrossRegion EXCEPT !.models = {Local, Worldwide}],
   [Approved EXCEPT !.actions = @ \cup {"DeleteTable"}], [Approved EXCEPT !.actions = {"InvokeModel"}],
   [Approved EXCEPT !.entrypoints = {"worker"}], [Approved EXCEPT !.store = "elsewhere"],
   [Approved EXCEPT !.invocation = FALSE], [Approved EXCEPT !.resources = {}]>>

Base == [service |-> "s3", operation |-> "none", resource |-> Nil, key |-> Nil, version |-> Nil, private |-> TRUE,
         entries |-> {}, bytes |-> 1, maxTokens |-> 0, reviewed |-> TRUE, nested |-> FALSE, region |-> "home"]
Model(op, id, tokens) ==
  [Base EXCEPT !.service = IF op \in {"Converse", "InvokeModel", "CountTokens"} THEN "bedrock-runtime" ELSE "bedrock",
               !.operation = op, !.resource = id, !.maxTokens = tokens]
Object(op, bucket, key, version) ==
  [Base EXCEPT !.operation = op, !.resource = bucket, !.key = key, !.version = version]
Entry(action, table, index) == [action |-> action, table |-> table, index |-> index]
Rows(op, entries) == [Base EXCEPT !.service = "dynamodb", !.operation = op, !.entries = entries]

\* Spending: two model calls, and the read of an authority
SpendCalls == {Model("Converse", "local", 2),
               [Rows("GetItem", {Entry("GetItem", "jobs", Nil)}) EXCEPT !.nested = TRUE]}
ScopeCalls ==
  {Model("Converse", "local", 2), Model("Converse", "local", 3), Model("Converse", "routed", 1), Model("Converse", "far", 1),
   [Model("Converse", "routed", 1) EXCEPT !.region = "away"], [Object("PutObject", "documents", "in", Nil) EXCEPT !.region = "away"],
   [Model("Converse", "local", 2) EXCEPT !.bytes = 2], [Model("Converse", "local", 2) EXCEPT !.reviewed = FALSE],
   Model("InvokeModel", "local", 2), Model("GetFoundationModel", "local", 0), Model("GetFoundationModel", "far", 0),
   Object("PutObject", "documents", "in", Nil), [Object("PutObject", "documents", "in", Nil) EXCEPT !.private = FALSE],
   Object("PutObject", "documents", "out", Nil), Object("PutObject", "elsewhere", "in", Nil),
   Object("GetObject", "documents", "in", Nil), Object("GetObject", "documents", "in", "v1"),
   Object("HeadObject", "documents", "in", "invalid"),
   [Object("PutObject", "documents", "in", Nil) EXCEPT !.nested = TRUE],
   Rows("TransactWriteItems", {Entry("PutItem", "jobs", Nil), Entry("UpdateItem", "other", Nil)}),
   Rows("TransactWriteItems", {Entry("PutItem", "jobs", Nil), Entry("UpdateItem", "jobs", Nil)}),
   Rows("TransactGetItems", {Entry("PutItem", "jobs", Nil)}), Rows("Query", {}),
   Rows("GetItem", {Entry("GetItem", "jobs", "by-owner")}),
   [Base EXCEPT !.service = "bedrock-agentcore", !.operation = "InvokeAgentRuntime", !.resource = "agent"],
   [Base EXCEPT !.service = "bedrock-agentcore", !.operation = "InvokeAgentRuntime", !.resource = "agent", !.key = "v2"],
   [Base EXCEPT !.service = "sqs", !.operation = "SendMessage"]}

Serialised == {"as serialised"}
AllWires == {"as serialised", "other method", "other host"}
OneProc == {"p"}

Budget == INSTANCE CompetitionSend WITH None <- Nil, Calls <- SpendCalls, Profiles <- OneProfile,
    Wires <- Serialised, Catalog <- AllActions, Entrypoints <- AllEntrypoints,
    MaxTries <- 2, MaxSends <- 2, WindowEnd <- 1, ReviewEnd <- 3, MaxTime <- 1
Scope == INSTANCE CompetitionSend WITH None <- Nil, Procs <- OneProc, Calls <- ScopeCalls, Profiles <- AllProfiles,
    Wires <- AllWires, Catalog <- AllActions, Entrypoints <- AllEntrypoints,
    MaxTries <- 1, MaxSends <- 1, WindowEnd <- 1, ReviewEnd <- 3, MaxTime <- 0
ASSUME Budget!CompetitionAssumption /\ Scope!CompetitionAssumption

------------------------------------------------------------------------------
(* A form of two pages and a criteria document, pages of one run and one of another;       *)
(* answers that differ from an acceptable one in one respect.                              *)
PageRegions == [form |-> <<{"a", "b"}, {"c"}>>, rules |-> <<{"a"}>>]

Request(run, doc, purpose, p) == [run |-> run, doc |-> doc, purpose |-> purpose, page |-> p, bytes |-> 1]
First == Request("r1", "form", "forms", 1)
Second == Request("r1", "form", "forms", 2)
Criteria == Request("r1", "rules", "criteria", 1)
OtherRun == Request("r2", "form", "forms", 1)
TwoRuns == {First, Second, OtherRun}
BothPurposes == {First, Criteria}

Cite(doc, p, region) == [doc |-> doc, page |-> p, region |-> region]
Side(cites) == [cites |-> cites, evidence |-> {}, unit |-> "m", open |-> FALSE, method |-> "deterministic", confident |-> TRUE]
Pair(target, comparable) == [context |-> "x", factor |-> "f", target |-> target, comparable |-> comparable]
A1 == Cite("form", 1, "a")
B1 == Cite("form", 1, "b")
Plain == [NoProposal EXCEPT !.pairs = {Pair(Side({A1}), Side({A1, B1}))}]
Pairs(t) == [NoProposal EXCEPT !.pairs = {Pair(t, Side({B1}))}]
Slot(derivable) == [id |-> "s", derivable |-> derivable, cites |-> {A1}]
Seen(state) == [slot |-> "s", state |-> state, cites |-> {A1}]

Proposals ==
  {Plain,
   Pairs(Side({})), Pairs(Side({Cite("form", 1, "z")})), Pairs(Side({Cite("form", 2, "c")})), Pairs(Side({Cite("rules", 1, "a")})),
   Pairs([Side({A1}) EXCEPT !.evidence = {A1}]), Pairs([Side({A1}) EXCEPT !.evidence = {B1}]),
   Pairs([Side({A1}) EXCEPT !.unit = "missing"]), Pairs([Side({A1}) EXCEPT !.unit = "miles"]), Pairs([Side({A1}) EXCEPT !.open = TRUE]),
   [NoProposal EXCEPT !.rules = {[cites |-> {Cite("rules", 1, "a")}, open |-> FALSE]}],
   [NoProposal EXCEPT !.rules = {[cites |-> {Cite("rules", 1, "a")}, open |-> TRUE]}, !.unresolved = TRUE],
   [NoProposal EXCEPT !.rules = {[cites |-> {A1}, open |-> FALSE]}, !.unsupported = TRUE],
   [Plain EXCEPT !.contexts = {[id |-> "x", factors |-> {"f", "g"}, cites |-> {B1}]}],
   [NoProposal EXCEPT !.slots = {Slot(FALSE)}],
   [NoProposal EXCEPT !.slots = {Slot(FALSE)}, !.observed = {Seen("blank")}],
   [NoProposal EXCEPT !.slots = {Slot(TRUE)}, !.observed = {Seen("blank")}],
   [NoProposal EXCEPT !.slots = {Slot(TRUE)}, !.observed = {Seen("missing"), Seen("present")}],
   [NoProposal EXCEPT !.slots = {Slot(FALSE)}, !.observed = {Seen("not_present")}]}

Text(p) == [stop |-> "end_turn", shape |-> "text", proposal |-> p]
AllBodies ==
  {Text(p) : p \in Proposals} \cup {[Text(Plain) EXCEPT !.shape = x] : x \in {"too_long", "several", "absent", "garbled"}} \cup
  {[Text(Plain) EXCEPT !.stop = x] : x \in {"max_tokens", "refusal", "tool_use"}}
OneBody == {Text(NoProposal)}

HomePolicy == [region |-> "home", regions |-> {"home"}, crossRegion |-> FALSE, global |-> FALSE, globalModel |-> FALSE,
               kind |-> "foundation", model |-> "m", models |-> {"m"}, role |-> "reviewer"]
RoutedPolicy == [HomePolicy EXCEPT !.regions = {"home", "away"}, !.crossRegion = TRUE, !.kind = "profile", !.model = "p"]
At(region) == [region |-> region, id |-> "m"]
GoodWorld == [error |-> "none", role |-> "reviewer", active |-> TRUE, kind |-> "profile", profile |-> "p", globalProfile |-> FALSE,
              destinations |-> {At("home"), At("away")}, invocable |-> {At("home"), At("away"), At("far")}]
OneWorld == {GoodWorld}
AllWorlds ==
  {GoodWorld, [GoodWorld EXCEPT !.error = "DispatchDenied"], [GoodWorld EXCEPT !.error = "ExpiredTokenException"],
   [GoodWorld EXCEPT !.role = "other"], [GoodWorld EXCEPT !.active = FALSE], [GoodWorld EXCEPT !.globalProfile = TRUE],
   [GoodWorld EXCEPT !.destinations = {}], [GoodWorld EXCEPT !.destinations = @ \cup {At("far")}],
   [GoodWorld EXCEPT !.invocable = {At("home")}]}

FewErrors == {"ThrottlingException", "ReadTimeoutError"}
AllErrors == {"ThrottlingException", "AccessDeniedException", "ReadTimeoutError", "ModelErrorException"}
Granted == {"granted"}
AllGrants == {"granted", "forbidden", "no_resolver", "changed"}
Image == {"image"}
AllRendered == {"image", "unsupported_input", "page_context_limit"}
Quiet == {TRUE}
BothOutcomes == BOOLEAN

Limits == INSTANCE PageExtraction WITH PageRequests <- TwoRuns, Policy <- HomePolicy,
    Worlds <- OneWorld, Bodies <- OneBody, Errors <- FewErrors, Rendered <- Image,
    Observing <- Quiet, Priced <- TRUE, Grants <- Granted
Answers == INSTANCE PageExtraction WITH PageRequests <- BothPurposes, Amounts <- {1}, Priced <- FALSE,
    MaxCalls <- 2, MaxConcurrency <- 1, MaxTokens <- 4
AnyPages == TwoRuns \cup BothPurposes
AnyBody == AllBodies \cup OneBody
AnyAmount == 1..3
ASSUME Limits!ExtractionAssumption /\ Answers!ExtractionAssumption

------------------------------------------------------------------------------


MCInit ==
    /\ part \in {"slot", "budget", "scope", "limits", "answers"}
    /\ SlotInit
    /\ IF part = "scope" THEN Scope!Init ELSE Budget!Init
    /\ IF part = "answers" THEN Answers!PagesInit ELSE Limits!PagesInit
MCNext ==
    \/ part = "slot" /\ SlotNext /\ UNCHANGED <<part, competition, pageVars>>
    \/ /\ \/ part = "budget" /\ Budget!Next
          \/ part = "scope" /\ Scope!Next
       /\ UNCHANGED <<part, slotVars, pageVars>>
    \/ /\ \/ part = "limits" /\ Limits!PagesNext
          \/ part = "answers" /\ Answers!PagesNext
       /\ UNCHANGED <<part, slotVars, competition>>
MCSpec == MCInit /\ [][MCNext]_<<part, slotVars, competition, pageVars>>

\* What calls can have cost was reserved, within the team's and the run's limits, with lost
\* answers and late workers, and what was sent is what was authorised.
CallsAreAccounted ==
    CASE part = "budget" -> Budget!SpendIsReserved
      [] part = "scope" -> Scope!SpendIsReserved /\ Scope!SentAsApproved /\ Scope!RoutingIsApproved
      [] part = "limits" -> Limits!TokensAreReserved
      [] OTHER -> TRUE

\* Requests leave a full interval apart and never beside a lost owner; none is admitted
\* unpaid, on trust that was revoked, outside the window, or once an attempt's fate is
\* unknown (ModelDispatch, CompetitionSend and PageExtraction).
NothingIsAdmittedInDoubt ==
    /\ SendsAreSpaced /\ LostOwnersBlock
    /\ Budget!RevocationStops /\ Budget!WindowHolds
    /\ NothingIsAdmittedAfterDoubt /\ []CallsAreAccounted
=============================================================================
