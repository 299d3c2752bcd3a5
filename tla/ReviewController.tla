-------------------------- MODULE ReviewController --------------------------
(***************************************************************************)
(* The case review from page extractions to the written report: candidate  *)
(* material is assembled from extracted pages, corrected, confirmed and    *)
(* approved by a reviewer; ReviewAgentController then reviews a request    *)
(* against a copy of that material, re-reading every source, and calls the *)
(* PDF writer only for what it could verify.  Sources and material may be  *)
(* changed, and approvals given, between any two awaits of the controller. *)
(* What the case reviewer finds is the subject of CaseReview, what the     *)
(* writer does of PdfWrite.                                                *)
(***************************************************************************)
EXTENDS Naturals, Sequences, FiniteSets

CONSTANTS
  Contexts,     \* comparison contexts of the case
  Pages,        \* Pages[d]: the pages of source d
  Proposals,    \* Proposals[d]: what the model may propose on a page of d: contexts and rules
  Reviewers, Owner,  \* OS users; the one the approval store belongs to
  Requests,     \* the requests clients send
  Adapters,     \* adapter sets the service may be configured with
  Verdicts,     \* what the case reviewer may find besides the approval
  Outcomes,     \* what the writer may do
  Strays,       \* contents a parser may return for another document
  MaxVersion, MaxEdits, MaxPrepared, MaxRevision, MaxRuns  \* bounds

Docs == {"criteria", "forms", "brief"}

ASSUME ControllerAssumption ==
  /\ {MaxEdits, MaxPrepared, MaxRuns} \subseteq Nat
  /\ {MaxVersion, MaxRevision} \subseteq Nat \ {0}
  /\ IsFiniteSet(Contexts) /\ Contexts # {} /\ Requests # {}
  /\ Owner \in Reviewers /\ DOMAIN Pages = Docs
  /\ \A d \in Docs : \A q \in Proposals[d] : q.contexts \subseteq Contexts
  /\ Verdicts \subseteq {"verified", "needs_review", "failed"}

VARIABLES
  doc,       \* doc[d]: the contents of source d, 0 when unreadable
  registry,  \* the sources as they were parsed for extraction
  scans,     \* the page extractions
  material,  \* the candidate material
  seen,      \* seen[u]: the material reviewer u last looked at
  receipts,  \* the approval store
  adapters,  \* the configured adapters
  run,       \* the run in progress
  log,       \* what the audit logger holds
  asked,     \* history: what the writer was asked to write
  runs,      \* how many runs were started
  edits,     \* how many times a source was edited
  prepared   \* how many times material was assembled

prep == <<registry, scans, material, prepared>>
trust == <<seen, receipts>>
vars == <<doc, prep, trust, adapters, run, log, asked, runs, edits>>

NoMaterial == [reg |-> [d \in Docs |-> 0], contexts |-> {}, scoped |-> {}, pages |-> {},
               unresolved |-> TRUE, rev |-> 0, conf |-> <<0, Owner>>]
NoResult == [kind |-> "none", status |-> "", artifact |-> "not_requested", findings |-> FALSE,
             uri |-> FALSE, pdfError |-> FALSE]
Resting == [pc |-> "rest", req |-> CHOOSE r \in Requests : TRUE, mat |-> NoMaterial,
            read |-> [d \in Docs |-> 0], verdict |-> "", comps |-> {}, events |-> <<>>,
            result |-> NoResult]

Init ==
  /\ doc = [d \in Docs |-> 1] /\ registry = doc
  /\ scans = {} /\ material = NoMaterial
  /\ seen = [u \in Reviewers |-> NoMaterial] /\ receipts = {}
  /\ adapters \in Adapters
  /\ run = Resting /\ log = <<>> /\ asked = {} /\ runs = 0 /\ edits = 0 /\ prepared = 0

(***************************************************************************)
(* Candidate material.                                                     *)
(***************************************************************************)
Idle == UNCHANGED <<adapters, run, log, asked, runs>>

Register ==
  /\ registry' = doc
  /\ UNCHANGED <<doc, scans, material, prepared, trust, edits>> /\ Idle

\* One page as it is now, with what the model proposed on it
Scan(d, p) ==
  /\ material = NoMaterial
  /\ \A s \in scans : s.doc = d /\ s.page = p => s.ver # doc[d]
  /\ doc[d] # 0
  /\ \E q \in Proposals[d] : scans' = scans \cup {[doc |-> d, page |-> p, ver |-> doc[d], proposal |-> q]}
  /\ UNCHANGED <<doc, registry, material, prepared, trust, edits>> /\ Idle

\* assemble: each page once, of the registered content
EachPageOnce == \A s, t \in scans : <<s.doc, s.page>> = <<t.doc, t.page>> => s = t
Assemblable == EachPageOnce /\ \A s \in scans : s.ver = registry[s.doc]

\* Case proposals belong to the forms, rules to the criteria; the rest is kept as unresolved.
Misplaced(s) ==
  \/ s.proposal.contexts # {} /\ s.doc # "forms"
  \/ s.proposal.rules /\ s.doc # "criteria"

Assembled ==
  LET cs == UNION {s.proposal.contexts : s \in scans}
      ruled == \E s \in scans : s.proposal.rules /\ s.doc = "criteria"
  IN [reg |-> registry, contexts |-> cs, scoped |-> IF ruled THEN cs ELSE {},
      pages |-> {<<s.doc, s.page>> : s \in scans},
      unresolved |-> ~ruled \/ \E s \in scans : Misplaced(s), rev |-> 1, conf |-> <<0, Owner>>]

Assemble ==
  /\ material = NoMaterial /\ scans # {} /\ prepared < MaxPrepared
  /\ Assemblable
  /\ material' = Assembled /\ scans' = {} /\ prepared' = prepared + 1
  /\ UNCHANGED <<doc, registry, trust, edits>> /\ Idle

\* The prepared file is thrown away and extraction starts over.
Discard ==
  /\ material # NoMaterial \/ scans # {}
  /\ prepared < MaxPrepared
  /\ scans' = {} /\ material' = NoMaterial
  /\ UNCHANGED <<doc, registry, prepared, trust, edits>> /\ Idle

\* A correction of the candidate file: the facts are no longer those confirmed.
Correct ==
  /\ material.rev \in 1..(MaxRevision - 1)
  /\ \E u \in {material.unresolved, FALSE} :
       material' = [material EXCEPT !.rev = @ + 1, !.unresolved = u]
  /\ UNCHANGED <<doc, registry, scans, prepared, trust, edits>> /\ Idle

Confirm(u) ==
  /\ material.rev > 0
  /\ material' = [material EXCEPT !.conf = <<material.rev, u>>]
  /\ UNCHANGED <<doc, registry, scans, prepared, trust, edits>> /\ Idle

(***************************************************************************)
(* The approval store.                                                     *)
(***************************************************************************)
IdentityKey(u) == u = Owner

Look(u) ==
  /\ IdentityKey(u) /\ material.rev > 0
  /\ seen' = [seen EXCEPT ![u] = material]
  /\ UNCHANGED <<doc, prep, receipts, edits>> /\ Idle

\* Every input confirmed by this reviewer, as it is now, and some input there
ConfirmationsValid(m, u) == m.contexts # {} /\ m.conf = <<m.rev, u>>

\* approve: the digest the reviewer saw is that of the exact material
Approve(u) ==
  /\ IdentityKey(u) /\ ConfirmationsValid(material, u)
  /\ seen[u] = material
  /\ [mat |-> material, by |-> u] \notin receipts
  /\ receipts' = receipts \cup {[mat |-> material, by |-> u]}
  /\ UNCHANGED <<doc, prep, seen, edits>> /\ Idle

CaseOnly(m) == \E r \in receipts : r.mat.reg = m.reg
Permits(m) == ConfirmationsValid(m, Owner) /\ [mat |-> m, by |-> Owner] \in receipts

(***************************************************************************)
(* The controller.                                                         *)
(***************************************************************************)
EditSource(d) ==
  /\ edits < MaxEdits /\ edits' = edits + 1
  /\ \E v \in 0..MaxVersion : v # doc[d] /\ doc' = [doc EXCEPT ![d] = v]
  /\ UNCHANGED <<prep, trust>> /\ Idle

Becomes(r) == run' = r
Quiet == UNCHANGED <<doc, prep, trust, adapters, runs, edits>>

\* _record: the event joins the run and then the log; a logger that fails
\* takes the run down with it.
Record(r, events) ==
  /\ log' = log \o events
  /\ Becomes([r EXCEPT !.events = @ \o events])
LogFails(r, events) ==
  /\ adapters.audit /\ log' = log
  /\ Becomes([r EXCEPT !.events = @ \o events, !.pc = "end", !.result = [NoResult EXCEPT !.kind = "error"]])
RecordOrFail(r, events) == Record(r, events) \/ LogFails(r, events)

Returned(status) == [NoResult EXCEPT !.kind = "run", !.status = status]
Ends(r, result) == [r EXCEPT !.pc = "end", !.result = result]

\* review: a source that cannot be bound ends the run as failed, and is recorded
BindingFails(r) == RecordOrFail(Ends(r, Returned("failed")), <<"source_binding_failed">>)
\* anything else that is raised becomes review_execution_failed
Raises(r) == Becomes(Ends(r, [NoResult EXCEPT !.kind = "error"])) /\ UNCHANGED log

\* execute_review: without a controller there is no run
Start ==
  /\ run.pc = "rest" /\ runs < MaxRuns /\ runs' = runs + 1
  /\ \E q \in Requests :
       IF adapters.configured
         THEN Record([Resting EXCEPT !.pc = "criteria", !.req = q, !.mat = material], <<"workflow_started">>)
         ELSE Becomes(Ends([Resting EXCEPT !.req = q], [NoResult EXCEPT !.kind = "unconfigured"])) /\ UNCHANGED log
  /\ asked' = asked /\ UNCHANGED <<doc, prep, trust, adapters, edits>>

\* _parse: the parser answers for the requested document and role, or the run ends.
\* An older parser gives no typed source (0), which is let through here.
Parsed(d) == IF adapters.typed THEN doc[d] ELSE 0
Parses(d, next, event) ==
  \/ doc[d] # 0 /\ RecordOrFail([run EXCEPT !.pc = next, !.read[d] = Parsed(d)], event)
  \/ (doc[d] = 0 \/ d \in Strays) /\ BindingFails(run)

ParseCriteria ==
  /\ run.pc = "criteria" /\ Parses("criteria", "rules", <<"criteria_parsed">>)
  /\ asked' = asked /\ Quiet

\* MaterialProvider.load_or_build_rules compares the source with the material's;
\* an older provider hands out a rule set that may not be approved.
LoadRules ==
  /\ run.pc = "rules"
  /\ IF adapters.policy
       THEN IF run.read["criteria"] = run.mat.reg["criteria"] /\ run.mat.rev > 0
              THEN RecordOrFail([run EXCEPT !.pc = "forms"], <<"rules_loaded">>)
              ELSE Raises(run)
       ELSE IF adapters.approved
              THEN RecordOrFail([run EXCEPT !.pc = "forms"], <<"rules_loaded">>)
              ELSE RecordOrFail(Ends(run, Returned("needs_review")),
                                <<"rules_loaded", "factors_evaluated", "human_review_required">>)
  /\ asked' = asked /\ Quiet

ParseForms ==
  /\ run.pc = "forms" /\ Parses("forms", "facts", <<"case_parsed">>)
  /\ asked' = asked /\ Quiet

ExtractFacts ==
  /\ run.pc = "facts"
  /\ IF adapters.policy => run.read["forms"] = run.mat.reg["forms"]
       THEN RecordOrFail([run EXCEPT !.pc = IF adapters.policy THEN "bind" ELSE "evaluate"], <<"facts_extracted">>)
       ELSE Raises(run)
  /\ asked' = asked /\ Quiet

\* Every registered source is read again and must be what was registered.
SameContent(d, read) == read[d] = run.mat.reg[d]

BindRegistry ==
  /\ run.pc = "bind"
  /\ LET read == [run.read EXCEPT !["brief"] = Parsed("brief")]
     IN IF doc["brief"] # 0 /\ \A d \in Docs : read[d] # 0 => SameContent(d, read)
          THEN IF \A d \in Docs : read[d] # 0
                 THEN Becomes([run EXCEPT !.pc = "evaluate", !.read = read]) /\ UNCHANGED log
                 ELSE Becomes(Ends(run, Returned("needs_review"))) /\ UNCHANGED log
          ELSE BindingFails(run)
  /\ asked' = asked /\ Quiet

InspectedAll(m) == m.pages = UNION {{d} \X Pages[d] : d \in Docs}

\* CaseReviewer.review: complete, resolved and approved material, and findings that hold
CaseVerdict(m, v) ==
  IF Permits(m) /\ ~m.unresolved /\ InspectedAll(m) /\ m.scoped = m.contexts THEN v
  ELSE IF v = "failed" THEN "failed" ELSE "needs_review"

\* ReviewVerifier.verify is given no facts here, so an older rule set is never verified.
LegacyVerdict(v) == IF v = "failed" THEN "failed" ELSE "needs_review"

Evaluate ==
  /\ run.pc = "evaluate"
  /\ \E v \in Verdicts :
       LET verdict == IF adapters.policy THEN CaseVerdict(run.mat, v) ELSE LegacyVerdict(v)
           comps == IF adapters.policy THEN run.mat.scoped ELSE {CHOOSE c \in Contexts : TRUE}
           r == [run EXCEPT !.verdict = verdict, !.comps = comps]
           told == [Returned(verdict) EXCEPT !.findings = TRUE]
       IN RecordOrFail(IF verdict = "verified" THEN [r EXCEPT !.pc = "decide"] ELSE Ends(r, told),
                       <<"factors_evaluated", "results_verified">>)
  /\ asked' = asked /\ Quiet

Single == Cardinality(run.comps) = 1
Findings(status, artifact) ==
  [Returned(status) EXCEPT !.findings = TRUE, !.artifact = artifact]

MapComplete == run.req.mapped # {} /\ run.comps \subseteq run.req.mapped
ManyWritable == run.req.out /\ Cardinality(run.comps) > 1 /\ adapters.writer = "multi" /\ MapComplete

\* The branches before the writer, in their order
Decide ==
  /\ run.pc = "decide"
  /\ IF ~Single /\ ~ManyWritable
       THEN /\ Becomes(Ends(run, Findings("verified", IF run.req.out THEN "unsupported_contexts" ELSE "not_requested")))
            /\ UNCHANGED log
     ELSE IF ~run.req.out THEN Becomes(Ends(run, Findings("verified", "not_requested"))) /\ UNCHANGED log
     ELSE IF adapters.writer = "none" THEN Becomes(Ends(run, Findings("verified", "unavailable"))) /\ UNCHANGED log
     ELSE IF ~run.req.template \/ ~run.req.hasMap
       THEN RecordOrFail(Ends(run, [Findings("failed", "not_requested") EXCEPT !.pdfError = TRUE]), <<"pdf_write_blocked">>)
     ELSE Becomes([run EXCEPT !.pc = "write"]) /\ UNCHANGED log
  /\ asked' = asked /\ Quiet

\* PDFWriteRequest refuses a destination that is a source and fields of other comparisons
WriteRequestValid == ~run.req.conflict /\ run.req.mapped # {} /\ run.req.mapped \subseteq run.comps

PdfFailed(r) ==
  RecordOrFail(Ends(r, [Findings("failed", "not_requested") EXCEPT !.pdfError = TRUE]), <<"pdf_write_failed">>)

\* The result is compared with the request: the same destination, exactly its fields.
ResultMatches(o) == o \in {"written", "simulated"}

WritePdf ==
  /\ run.pc = "write"
  /\ IF ~WriteRequestValid THEN PdfFailed(run) /\ asked' = asked
     ELSE \E o \in Outcomes :
       /\ asked' = asked \cup {[mat |-> run.mat, verdict |-> run.verdict, fields |-> run.req.mapped,
                               comps |-> run.comps, wrote |-> IF o = "written" THEN run.req.mapped ELSE {}]}
       /\ IF ~ResultMatches(o) THEN PdfFailed(run)
          ELSE IF o = "simulated"
            THEN RecordOrFail(Ends(run, Findings("verified", "simulated")), <<"pdf_simulated">>)
            ELSE RecordOrFail(Ends(run, [Findings("completed", "written") EXCEPT !.uri = TRUE]), <<"pdf_written">>)
  /\ Quiet

\* The response has been sent; another request may come.
Respond ==
  /\ run.pc = "end" /\ run' = Resting /\ log' = <<>>
  /\ UNCHANGED <<doc, prep, trust, adapters, asked, runs, edits>>

Step ==
  \/ ParseCriteria \/ LoadRules \/ ParseForms \/ ExtractFacts \/ BindRegistry
  \/ Evaluate \/ Decide \/ WritePdf
Prepare ==
  \/ Register \/ Assemble \/ Discard \/ Correct
  \/ \E d \in Docs : EditSource(d) \/ \E p \in Pages[d] : Scan(d, p)
  \/ \E u \in Reviewers : Confirm(u) \/ Look(u) \/ Approve(u)

Next == Prepare \/ Start \/ Step \/ Respond
Spec == Init /\ [][Next]_vars

(***************************************************************************)
(* Properties.                                                             *)
(***************************************************************************)
Materials == [reg : [Docs -> 0..MaxVersion], contexts : SUBSET Contexts, scoped : SUBSET Contexts,
              pages : SUBSET UNION {{d} \X Pages[d] : d \in Docs}, unresolved : BOOLEAN,
              rev : 0..MaxRevision, conf : (0..MaxRevision) \X Reviewers]
Events == {"workflow_started", "source_binding_failed", "criteria_parsed", "rules_loaded", "case_parsed",
           "facts_extracted", "factors_evaluated", "results_verified", "human_review_required",
           "pdf_write_blocked", "pdf_write_failed", "pdf_simulated", "pdf_written"}
Answers == [kind : {"none", "run", "error", "unconfigured"},
            status : {"", "verified", "needs_review", "failed", "completed"},
            artifact : {"not_requested", "unsupported_contexts", "unavailable", "simulated", "written"},
            findings : BOOLEAN, uri : BOOLEAN, pdfError : BOOLEAN]
Reviews == [pc : {"rest", "criteria", "rules", "forms", "facts", "bind", "evaluate", "decide", "write", "end"},
            req : Requests, mat : Materials, read : [Docs -> 0..MaxVersion],
            verdict : {"", "verified", "needs_review", "failed"}, comps : SUBSET Contexts,
            events : Seq(Events), result : Answers]

\* Sources, materials, the review in progress and its log have their shape; a run has a
\* result when it ended.
TypeOK ==
  /\ doc \in [Docs -> 0..MaxVersion] /\ registry \in [Docs -> 0..MaxVersion]
  /\ \A s \in scans : s.doc \in Docs /\ s.page \in Pages[s.doc] /\ s.proposal \in Proposals[s.doc]
  /\ material \in Materials /\ seen \in [Reviewers -> Materials]
  /\ receipts \subseteq [mat : Materials, by : Reviewers]
  /\ adapters \in Adapters /\ run \in Reviews /\ log \in Seq(Events)
  /\ runs \in 0..MaxRuns /\ edits \in 0..MaxEdits /\ prepared \in 0..MaxPrepared
  /\ run.pc = "end" <=> run.result.kind # "none"

Trusted(m, read) ==
  /\ m.conf = <<m.rev, Owner>> /\ m.contexts # {} /\ ~m.unresolved
  /\ \A d \in Docs : read[d] = m.reg[d] /\ \A p \in Pages[d] : <<d, p>> \in m.pages
  /\ [mat |-> m, by |-> Owner] \in receipts

\* A run that ends as verified or completed read, itself, exactly the sources
\* that the material was extracted from, every page of them, and the material
\* is the one its reviewer confirmed and approved (controller._review,
\* approval.permits).
VerifiedIsApproved ==
  run.result.kind = "run" /\ run.result.status \in {"verified", "completed"} =>
    Trusted(run.mat, run.read)

\* The writer is asked only for material that was approved, and never for a part
\* of the verified comparisons.
WriterSeesOnlyVerified ==
  \A a \in asked :
    /\ a.verdict = "verified" /\ a.fields = a.comps
    /\ \E r \in receipts : r.mat = a.mat

\* What the reviewer approved is what the reviewer looked at: an approval never
\* covers a revision that came after the look.
ApprovalsWereSeen ==
  [][\A r \in receipts' \ receipts : seen[r.by] = r.mat]_vars

\* Once the comparisons were computed no failure of the output discards them, and
\* a completed run has its file: the answer's status, artifact and address agree.
OutcomeIsHonest ==
  run.result.kind = "run" =>
    /\ run.comps # {} => run.result.findings
    /\ run.result.status = "completed" <=> run.result.uri /\ run.result.artifact = "written"
    /\ run.result.status = "completed" => \E a \in asked : a.mat = run.mat /\ a.wrote = run.req.mapped
    /\ run.result.pdfError => run.result.status = "failed" /\ run.verdict = "verified"

\* The audit trail of a returned run ends with the event of its outcome, and the
\* log holds every event of the run.
AuditTellsTheOutcome ==
  run.result.kind = "run" =>
    /\ log = run.events
    /\ LET last == run.events[Len(run.events)]
       IN /\ run.result.status = "completed" <=> last = "pdf_written"
          /\ run.result.pdfError <=> last \in {"pdf_write_failed", "pdf_write_blocked"}
          /\ last = "source_binding_failed" => run.result.status = "failed" /\ ~run.result.findings

\* The answer of a run rests on what was approved, and says what happened: only approved
\* material is verified or written, and status, findings, file and audit trail agree.
OutcomeIsEarned ==
  VerifiedIsApproved /\ WriterSeesOnlyVerified /\ OutcomeIsHonest /\ AuditTellsTheOutcome
=============================================================================
