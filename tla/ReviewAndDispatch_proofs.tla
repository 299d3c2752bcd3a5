---------------------- MODULE ReviewAndDispatch_proofs ----------------------
(***************************************************************************)
(* Theorems about the review of a case, for any contexts, pages, requests, *)
(* adapter sets, reviewers and edits of the sources; about the dispatch    *)
(* slot through which every model call of the team leaves, for every set   *)
(* of senders, budget, number of requests and interval; about the          *)
(* whole-case review, for every case that may be reviewed; and about the   *)
(* extraction of pages, for any requests, answers, errors and limits.      *)
(***************************************************************************)
EXTENDS ReviewController, ModelDispatch, CaseReview, FactorRules, PageExtraction, FiniteSetTheorems,
        SequenceTheorems, WellFoundedInduction, TLAPS

-----------------------------------------------------------------------------
(***************************************************************************)
(* The inductive invariant                                                 *)
(***************************************************************************)

Reading == {"criteria", "rules", "forms", "facts", "bind", "evaluate"}
Working == Reading \cup {"decide", "write"}
OutcomeEvents == {"pdf_written", "pdf_write_failed", "pdf_write_blocked", "source_binding_failed"}

\* The log holds the run's events, and none of them is that of an outcome.
InProgress(x) == log = x.events /\ x.events # <<>> /\ Last(x.events) \notin OutcomeEvents

\* What the answer of a run says, of whichever run.
Answered(x) ==
  /\ x.result.status \in {"verified", "completed"} => Trusted(x.mat, x.read)
  /\ x.comps # {} => x.result.findings
  /\ x.result.status = "completed" <=> x.result.uri /\ x.result.artifact = "written"
  /\ x.result.status = "completed" => \E a \in asked : a.mat = x.mat /\ a.wrote = x.req.mapped
  /\ x.result.pdfError => x.result.status = "failed" /\ x.verdict = "verified"
  /\ log = x.events
  /\ x.result.status = "completed" <=> Last(x.events) = "pdf_written"
  /\ x.result.pdfError <=> Last(x.events) \in {"pdf_write_failed", "pdf_write_blocked"}
  /\ Last(x.events) = "source_binding_failed" => x.result.status = "failed" /\ ~x.result.findings

\* A review has got as far as its place says: before it evaluates it has found nothing, when
\* it evaluates the registered material it has read every source as it was registered, and
\* it comes to the output only with a verified result of approved material.
ReviewSound(x) ==
  /\ x.pc = "rest" => log = <<>>
  /\ x.pc \in Reading => x.comps = {}
  /\ x.pc \in Working => InProgress(x)
  /\ x.pc = "bind" => adapters.policy
  /\ x.pc = "evaluate" /\ adapters.policy => x.read = x.mat.reg
  /\ x.pc \in {"decide", "write"} => x.verdict = "verified" /\ x.comps # {} /\ Trusted(x.mat, x.read)
  /\ x.pc = "write" => Cardinality(x.comps) = 1 \/ x.comps \subseteq x.req.mapped
  /\ x.result.kind = "run" => Answered(x)

Inv == WriterSeesOnlyVerified /\ ReviewSound(run)

-----------------------------------------------------------------------------
(***************************************************************************)
(* Steps of the controller in general                                      *)
(***************************************************************************)

LEMMA LastOfConcat ==
  ASSUME NEW s \in Seq(Events), NEW t \in Seq(Events), t # <<>>
  PROVE  s \o t \in Seq(Events) /\ s \o t # <<>> /\ Last(s \o t) = Last(t)
<1>1. /\ Len(s) \in Nat /\ Len(t) \in Nat /\ Len(t) > 0
      /\ s \o t \in Seq(Events) /\ Len(s \o t) = Len(s) + Len(t)
  OBVIOUS
<1>2. (s \o t)[Len(s) + Len(t)] = t[Len(t)]
  BY <1>1
<1> QED
  BY <1>1, <1>2 DEF Last

LEMMA LastOfShort ==
  ASSUME NEW a \in Events, NEW b \in Events
  PROVE  /\ <<a>> \in Seq(Events) /\ <<a>> # <<>> /\ Last(<<a>>) = a
         /\ <<a, b>> \in Seq(Events) /\ <<a, b>> # <<>> /\ Last(<<a, b>>) = b
BY DEF Last

\* Approvals and requests to the writer are only added.
LEMMA SoundStays ==
  ASSUME NEW x, ReviewSound(x), receipts \subseteq receipts', asked \subseteq asked',
         UNCHANGED <<adapters, log>>
  PROVE  ReviewSound(x)'
<1>1. \A m, read : Trusted(m, read) => Trusted(m, read)'
  BY DEF Trusted
<1>2. Answered(x) => Answered(x)'
  BY <1>1 DEF Answered
<1>3. InProgress(x) => InProgress(x)'
  BY DEF InProgress
<1> QED
  BY <1>1, <1>2, <1>3 DEF ReviewSound

LEMMA StepMoves ==
  ASSUME TypeOK, NEW x \in Reviews, run' = x, log' \in Seq(Events), ReviewSound(x)',
         WriterSeesOnlyVerified', x.pc = "end" <=> x.result.kind # "none", Quiet
  PROVE  TypeOK' /\ Inv'
<1>1. TypeOK'
  BY DEF TypeOK, Quiet, prep, trust
<1>2. ReviewSound(run)'
  BY DEF ReviewSound, Answered, InProgress
<1> QED
  BY <1>1, <1>2 DEF Inv

LEMMA WriterStays ==
  ASSUME Inv, UNCHANGED <<asked, receipts>>
  PROVE  WriterSeesOnlyVerified'
BY DEF Inv, WriterSeesOnlyVerified

\* A run that ends without an answer of its own says nothing.
LEMMA SilentEnds ==
  ASSUME NEW x \in Reviews, x.pc = "end", x.result.kind # "run"
  PROVE  ReviewSound(x)'
BY DEF ReviewSound, Reading, Working

\* What _record leaves of the run it was given.
Told(x, y, ev) ==
  /\ x \in Reviews /\ run' = x
  /\ log' \in Seq(Events) /\ log' = x.events /\ x.events # <<>> /\ Last(x.events) = Last(ev)
  /\ x.pc = y.pc /\ x.req = y.req /\ x.mat = y.mat /\ x.read = y.read
  /\ x.verdict = y.verdict /\ x.comps = y.comps /\ x.result = y.result

LEMMA Records ==
  ASSUME TypeOK, NEW y \in Reviews, y.events = log, NEW ev \in Seq(Events), ev # <<>>, Record(y, ev)
  PROVE  \E x : Told(x, y, ev)
<1>1. PICK es \in Seq(Events) : es = y.events \o ev /\ es # <<>> /\ Last(es) = Last(ev)
  BY LastOfConcat DEF Reviews
<1>2. PICK x : x = [y EXCEPT !.events = es]
  OBVIOUS
<1>3. run' = x /\ log' = es
  BY <1>1, <1>2 DEF Record, Becomes
<1>4. x \in Reviews
  BY <1>2 DEF Reviews
<1>5. /\ x.events = es /\ x.pc = y.pc /\ x.req = y.req /\ x.mat = y.mat /\ x.read = y.read
      /\ x.verdict = y.verdict /\ x.comps = y.comps /\ x.result = y.result
  BY <1>2 DEF Reviews
<1> QED
  BY <1>1, <1>3, <1>4, <1>5 DEF Told

LEMMA NoResultType == NoResult \in Answers /\ NoResult.kind = "none"
BY DEF NoResult, Answers

\* A logger that fails takes the run down with it.
LEMMA LogFailsMoves ==
  ASSUME TypeOK, NEW y \in Reviews, NEW ev \in Seq(Events), LogFails(y, ev),
         WriterSeesOnlyVerified', Quiet
  PROVE  TypeOK' /\ Inv'
<1>1. PICK es \in Seq(Events) : es = y.events \o ev
  <2>1. y.events \in Seq(Events)
    BY DEF Reviews
  <2> QED
    BY <2>1, ConcatProperties
<1>2. PICK res \in Answers : res = [NoResult EXCEPT !.kind = "error"] /\ res.kind = "error"
  <2>1. PICK res : res = [NoResult EXCEPT !.kind = "error"]
    OBVIOUS
  <2>2. res \in Answers /\ res.kind = "error"
    BY <2>1, NoResultType DEF Answers
  <2> QED
    BY <2>1, <2>2
<1>3. PICK x : x = [y EXCEPT !.events = es, !.pc = "end", !.result = res]
  OBVIOUS
<1>4. run' = x /\ log' = log
  BY <1>1, <1>2, <1>3 DEF LogFails, Becomes
<1>5. x \in Reviews /\ x.pc = "end" /\ x.result = res
  BY <1>3 DEF Reviews
<1>6. log' \in Seq(Events)
  BY <1>4 DEF TypeOK
<1>7. ReviewSound(x)'
  BY <1>2, <1>5, SilentEnds
<1> QED
  BY <1>2, <1>4, <1>5, <1>6, <1>7, StepMoves

-----------------------------------------------------------------------------
(***************************************************************************)
(* Reading the sources                                                     *)
(***************************************************************************)

\* What the run was when a step of the controller found it.
Found(y) == y = run /\ y \in Reviews /\ ReviewSound(y) /\ (y.pc = "end" <=> y.result.kind # "none")

LEMMA RunFound ==
  ASSUME TypeOK, Inv
  PROVE  \E y : Found(y)
BY DEF TypeOK, Inv, Found

\* The run of a step that goes on with another source: it has still found nothing.
LEMMA GoesOn ==
  ASSUME TypeOK, NEW x, NEW y, NEW ev, Told(x, y, ev), y.pc \in Reading, y.comps = {},
         y.result.kind = "none", Last(ev) \notin OutcomeEvents, UNCHANGED adapters,
         y.pc = "bind" => adapters.policy,
         y.pc = "evaluate" /\ adapters.policy => y.read = y.mat.reg
  PROVE  ReviewSound(x)' /\ x.result.kind = "none" /\ x.pc # "end"
<1>1. InProgress(x)'
  BY DEF Told, InProgress
<1> QED
  BY <1>1 DEF Told, ReviewSound, Reading, Working

\* What a run is told that ends before the comparisons were computed.
LEMMA EarlyEnd ==
  ASSUME NEW y \in Reviews, NEW status \in {"needs_review", "failed"}
  PROVE  \E z \in Reviews :
           /\ z = Ends(y, Returned(status))
           /\ z.pc = "end" /\ z.result.kind = "run" /\ z.result.status = status
           /\ z.result.artifact = "not_requested" /\ ~z.result.findings /\ ~z.result.uri
           /\ ~z.result.pdfError
           /\ z.events = y.events /\ z.comps = y.comps /\ z.verdict = y.verdict
<1>1. PICK res : res = Returned(status)
  OBVIOUS
<1>2. /\ res \in Answers /\ res.kind = "run" /\ res.status = status
      /\ res.artifact = "not_requested" /\ ~res.findings /\ ~res.uri /\ ~res.pdfError
  BY <1>1 DEF Returned, NoResult, Answers
<1>3. PICK z : z = [y EXCEPT !.pc = "end", !.result = res]
  OBVIOUS
<1>4. /\ z \in Reviews /\ z.pc = "end" /\ z.result = res
      /\ z.events = y.events /\ z.comps = y.comps /\ z.verdict = y.verdict
  BY <1>2, <1>3 DEF Reviews
<1> QED
  BY <1>1, <1>2, <1>3, <1>4 DEF Ends

LEMMA BindingFailsMoves ==
  ASSUME TypeOK, Inv, NEW y, Found(y), y.pc \in Reading, BindingFails(run), UNCHANGED asked, Quiet
  PROVE  TypeOK' /\ Inv'
<1>1. /\ y \in Reviews /\ y.events = log /\ y.comps = {}
      /\ BindingFails(y)
  BY DEF Found, ReviewSound, InProgress, Working
<1>2. PICK z \in Reviews :
           /\ z = Ends(y, Returned("failed"))
           /\ z.pc = "end" /\ z.result.kind = "run" /\ z.result.status = "failed"
           /\ z.result.artifact = "not_requested" /\ ~z.result.findings /\ ~z.result.uri
           /\ ~z.result.pdfError
           /\ z.events = y.events /\ z.comps = y.comps /\ z.verdict = y.verdict
  BY <1>1, EarlyEnd
<1>3. PICK ev \in Seq(Events) : ev = <<"source_binding_failed">> /\ ev # <<>>
                               /\ Last(ev) = "source_binding_failed"
  <2>1. "source_binding_failed" \in Events
    BY DEF Events
  <2> QED
    BY <2>1, LastOfShort
<1>4. Record(z, ev) \/ LogFails(z, ev)
  BY <1>1, <1>2, <1>3 DEF BindingFails, RecordOrFail
<1>5. WriterSeesOnlyVerified'
  BY WriterStays DEF Quiet, trust
<1>6. ASSUME NEW x, Told(x, z, ev) PROVE TypeOK' /\ Inv'
  <2>1. Answered(x)'
    BY <1>1, <1>2, <1>3, <1>6 DEF Told, Answered
  <2>2. ReviewSound(x)'
    BY <1>2, <1>6, <2>1 DEF Told, ReviewSound, Reading, Working
  <2> QED
    BY <1>2, <1>5, <1>6, <2>2, StepMoves DEF Told
<1> QED
  BY <1>1, <1>2, <1>3, <1>4, <1>5, <1>6, Records, LogFailsMoves

\* What raises ends the run as an error, without an answer.
LEMMA RaisesMoves ==
  ASSUME TypeOK, Inv, Raises(run), UNCHANGED asked, Quiet
  PROVE  TypeOK' /\ Inv'
<1>1. PICK y \in Reviews : y = run
  BY DEF TypeOK
<1>2. PICK res : res = [NoResult EXCEPT !.kind = "error"]
  OBVIOUS
<1>3. res \in Answers /\ res.kind = "error"
  BY <1>2, NoResultType DEF Answers
<1>4. PICK x : x = [y EXCEPT !.pc = "end", !.result = res]
  OBVIOUS
<1>5. x \in Reviews /\ x.pc = "end" /\ x.result = res
  BY <1>3, <1>4 DEF Reviews
<1>6. run' = x /\ log' = log
  BY <1>1, <1>2, <1>4 DEF Raises, Becomes, Ends
<1>7. ReviewSound(x)' /\ log' \in Seq(Events)
  BY <1>3, <1>5, <1>6, SilentEnds DEF TypeOK
<1>8. WriterSeesOnlyVerified'
  BY WriterStays DEF Quiet, trust
<1> QED
  BY <1>3, <1>5, <1>6, <1>7, <1>8, StepMoves

\* A step that goes on with another source, or to the review itself, and is recorded.
LEMMA GoesOnMoves ==
  ASSUME TypeOK, Inv, NEW y, Found(y), y.pc \in Reading, NEW z \in Reviews, NEW e \in Events \ OutcomeEvents,
         RecordOrFail(z, <<e>>), z.pc \in Reading, z.comps = {}, z.events = y.events,
         z.result.kind = "none", z.pc = "bind" => adapters.policy,
         z.pc = "evaluate" /\ adapters.policy => z.read = z.mat.reg, UNCHANGED asked, Quiet
  PROVE  TypeOK' /\ Inv'
<1>1. y.events = log
  BY DEF Found, ReviewSound, InProgress, Working
<1>2. PICK ev \in Seq(Events) : ev = <<e>> /\ ev # <<>> /\ Last(ev) = e
  BY LastOfShort
<1>3. WriterSeesOnlyVerified'
  BY WriterStays DEF Quiet, trust
<1>4. ASSUME NEW x, Told(x, z, ev) PROVE TypeOK' /\ Inv'
  <2>1. ReviewSound(x)' /\ x.result.kind = "none" /\ x.pc # "end"
    BY <1>2, <1>4, GoesOn DEF Quiet
  <2> QED
    BY <1>3, <1>4, <2>1, StepMoves DEF Told
<1> QED
  BY <1>1, <1>2, <1>3, <1>4, Records, LogFailsMoves DEF RecordOrFail

\* The source that was asked for is read as it is now, or the run ends.
LEMMA ParsesMoves ==
  ASSUME TypeOK, Inv, NEW y, Found(y), NEW d \in Docs, NEW next \in {"rules", "facts"},
         NEW e \in Events \ OutcomeEvents, y.pc \in Reading,
         Parses(d, next, <<e>>), UNCHANGED asked, Quiet
  PROVE  TypeOK' /\ Inv'
<1>1. y \in Reviews /\ y = run /\ y.comps = {} /\ y.result.kind = "none"
  BY DEF Found, ReviewSound, Reading
<1>2. PICK n \in 0..MaxVersion : n = Parsed(d)
  BY ControllerAssumption DEF Parsed, TypeOK
<1>3. CASE BindingFails(run)
  BY <1>3, BindingFailsMoves
<1>4. CASE RecordOrFail([y EXCEPT !.pc = next, !.read[d] = n], <<e>>)
  <2>1. PICK read \in [Docs -> 0..MaxVersion] : read = [y.read EXCEPT ![d] = n]
    BY <1>1 DEF Reviews
  <2>2. PICK z : z = [y EXCEPT !.pc = next, !.read = read]
    OBVIOUS
  <2>3. /\ z \in Reviews /\ z.pc = next /\ z.comps = {} /\ z.events = y.events
        /\ z.result.kind = "none"
    BY <1>1, <2>2 DEF Reviews
  <2>4. RecordOrFail(z, <<e>>)
    BY <1>1, <1>4, <2>1, <2>2 DEF Reviews
  <2> QED
    BY <2>3, <2>4, GoesOnMoves DEF Reading
<1> QED
  BY <1>1, <1>2, <1>3, <1>4 DEF Parses

LEMMA ParseCriteriaMoves ==
  ASSUME TypeOK, Inv, ParseCriteria
  PROVE  TypeOK' /\ Inv'
<1>1. PICK y : Found(y)
  BY RunFound
<1>2. "criteria_parsed" \in Events \ OutcomeEvents /\ "criteria" \in Docs
  BY DEF Events, OutcomeEvents, Docs
<1> QED
  BY <1>1, <1>2, ParsesMoves DEF ParseCriteria, Found, Reading

LEMMA ParseFormsMoves ==
  ASSUME TypeOK, Inv, ParseForms
  PROVE  TypeOK' /\ Inv'
<1>1. PICK y : Found(y)
  BY RunFound
<1>2. "case_parsed" \in Events \ OutcomeEvents /\ "forms" \in Docs
  BY DEF Events, OutcomeEvents, Docs
<1> QED
  BY <1>1, <1>2, ParsesMoves DEF ParseForms, Found, Reading

\* The run goes on to pc without a change of what it knows.
LEMMA Advances ==
  ASSUME TypeOK, Inv, NEW y, Found(y), y.pc \in Reading, NEW pc \in Reading,
         NEW e \in Events \ OutcomeEvents, RecordOrFail([y EXCEPT !.pc = pc], <<e>>),
         pc = "bind" => adapters.policy, pc = "evaluate" => ~adapters.policy, UNCHANGED asked, Quiet
  PROVE  TypeOK' /\ Inv'
<1>1. y \in Reviews /\ y = run /\ y.comps = {} /\ y.result.kind = "none"
  BY DEF Found, ReviewSound, Reading
<1>2. PICK z : z = [y EXCEPT !.pc = pc]
  OBVIOUS
<1>3. z \in Reviews /\ z.pc = pc /\ z.comps = {} /\ z.events = y.events /\ z.result.kind = "none"
  BY <1>1, <1>2 DEF Reviews, Reading
<1> QED
  BY <1>2, <1>3, GoesOnMoves

LEMMA ExtractFactsMoves ==
  ASSUME TypeOK, Inv, ExtractFacts
  PROVE  TypeOK' /\ Inv'
<1>1. PICK y : Found(y)
  BY RunFound
<1>2. y = run /\ y.pc = "facts" /\ UNCHANGED asked /\ Quiet
  BY <1>1 DEF ExtractFacts, Found
<1>3. "facts_extracted" \in Events \ OutcomeEvents
  BY DEF Events, OutcomeEvents
<1>4. CASE Raises(run)
  BY <1>2, <1>4, RaisesMoves
<1>5. ASSUME NEW pc \in {"bind", "evaluate"}, pc = "bind" <=> adapters.policy,
             RecordOrFail([y EXCEPT !.pc = pc], <<"facts_extracted">>)
      PROVE  TypeOK' /\ Inv'
  BY <1>1, <1>2, <1>3, <1>5, Advances DEF Reading
<1> QED
  BY <1>2, <1>4, <1>5 DEF ExtractFacts

-----------------------------------------------------------------------------
(***************************************************************************)
(* The answer                                                              *)
(***************************************************************************)

\* The answer is one that may be given after event e, when the writer was asked for as.
Fits(z, e, as) ==
  /\ z \in Reviews /\ z.pc = "end" /\ z.result.kind = "run" /\ z.events = log
  /\ z.result.status \in {"verified", "completed"} => Trusted(z.mat, z.read)
  /\ z.comps # {} => z.result.findings
  /\ z.result.status = "completed" <=> z.result.uri /\ z.result.artifact = "written"
  /\ z.result.status = "completed" => \E a \in as : a.mat = z.mat /\ a.wrote = z.req.mapped
  /\ z.result.pdfError => z.result.status = "failed" /\ z.verdict = "verified"
  /\ z.result.status = "completed" <=> e = "pdf_written"
  /\ z.result.pdfError <=> e \in {"pdf_write_failed", "pdf_write_blocked"}
  /\ e = "source_binding_failed" => z.result.status = "failed" /\ ~z.result.findings

LEMMA AnswerRecorded ==
  ASSUME TypeOK, Inv, WriterSeesOnlyVerified', Quiet, NEW z, NEW ev \in Seq(Events), ev # <<>>,
         Fits(z, Last(ev), asked'), RecordOrFail(z, ev)
  PROVE  TypeOK' /\ Inv'
<1>1. z \in Reviews /\ z.events = log /\ z.pc = "end" /\ z.result.kind = "run"
  BY DEF Fits
<1>2. ASSUME NEW x, Told(x, z, ev) PROVE TypeOK' /\ Inv'
  <2>1. Trusted(x.mat, x.read) => Trusted(x.mat, x.read)'
    BY DEF Trusted, Quiet, trust
  <2>2. Answered(x)'
    BY <1>2, <2>1 DEF Told, Fits, Answered
  <2>3. ReviewSound(x)'
    BY <1>1, <1>2, <2>2 DEF Told, ReviewSound, Reading, Working
  <2> QED
    BY <1>1, <1>2, <2>3, StepMoves DEF Told
<1> QED
  BY <1>1, <1>2, Records, LogFailsMoves DEF RecordOrFail

LEMMA AnswerUnrecorded ==
  ASSUME TypeOK, Inv, WriterSeesOnlyVerified', Quiet, NEW z, Fits(z, Last(log), asked'),
         Becomes(z), UNCHANGED log
  PROVE  TypeOK' /\ Inv'
<1>1. Trusted(z.mat, z.read) => Trusted(z.mat, z.read)'
  BY DEF Trusted, Quiet, trust
<1>2. Answered(z)'
  BY <1>1 DEF Fits, Answered
<1>3. ReviewSound(z)'
  BY <1>2 DEF Fits, ReviewSound, Reading, Working
<1>4. log' \in Seq(Events) /\ run' = z
  BY DEF TypeOK, Becomes
<1> QED
  BY <1>3, <1>4, StepMoves DEF Fits

\* A run that has found nothing may end for review after any event but an outcome's.
LEMMA EarlyFits ==
  ASSUME TypeOK, Inv, NEW y, Found(y), y.pc \in Reading, NEW e \in Events \ OutcomeEvents
  PROVE  Fits(Ends(y, Returned("needs_review")), e, asked')
<1>1. y \in Reviews /\ y.events = log /\ y.comps = {}
  BY DEF Found, ReviewSound, InProgress, Working
<1>2. PICK z \in Reviews :
           /\ z = Ends(y, Returned("needs_review"))
           /\ z.pc = "end" /\ z.result.kind = "run" /\ z.result.status = "needs_review"
           /\ z.result.artifact = "not_requested" /\ ~z.result.findings /\ ~z.result.uri
           /\ ~z.result.pdfError
           /\ z.events = y.events /\ z.comps = y.comps /\ z.verdict = y.verdict
  BY <1>1, EarlyEnd
<1>3. Fits(z, e, asked')
  BY <1>1, <1>2 DEF Fits, OutcomeEvents
<1> QED
  BY <1>2, <1>3

LEMMA LoadRulesMoves ==
  ASSUME TypeOK, Inv, LoadRules
  PROVE  TypeOK' /\ Inv'
<1>1. PICK y : Found(y)
  BY RunFound
<1>2. y = run /\ y.pc = "rules" /\ y.pc \in Reading /\ UNCHANGED asked /\ Quiet
  BY <1>1 DEF LoadRules, Found, Reading
<1>3. /\ "rules_loaded" \in Events \ OutcomeEvents
      /\ "factors_evaluated" \in Events /\ "human_review_required" \in Events \ OutcomeEvents
  BY DEF Events, OutcomeEvents
<1>4. CASE Raises(run)
  BY <1>2, <1>4, RaisesMoves
<1>5. CASE RecordOrFail([y EXCEPT !.pc = "forms"], <<"rules_loaded">>)
  BY <1>1, <1>2, <1>3, <1>5, Advances DEF Reading
<1>6. CASE RecordOrFail(Ends(y, Returned("needs_review")),
                        <<"rules_loaded", "factors_evaluated", "human_review_required">>)
  <2>1. PICK ev \in Seq(Events) :
           /\ ev = <<"rules_loaded", "factors_evaluated", "human_review_required">>
           /\ ev # <<>> /\ Last(ev) = "human_review_required"
    <3>1. PICK a \in Events, b \in Events, c \in Events :
             a = "rules_loaded" /\ b = "factors_evaluated" /\ c = "human_review_required"
      BY <1>3
    <3>2. <<a, b, c>> \in Seq(Events) /\ <<a, b, c>> # <<>> /\ Last(<<a, b, c>>) = c
      <4>1. <<a, b, c>> \in Seq(Events) /\ Len(<<a, b, c>>) = 3
        OBVIOUS
      <4> QED
        BY <4>1 DEF Last
    <3> QED
      BY <3>1, <3>2
  <2>2. Fits(Ends(y, Returned("needs_review")), Last(ev), asked')
    BY <1>1, <1>2, <1>3, <2>1, EarlyFits
  <2>3. WriterSeesOnlyVerified'
    BY <1>2, WriterStays DEF Quiet, trust
  <2> QED
    BY <1>2, <1>6, <2>1, <2>2, <2>3, AnswerRecorded
<1> QED
  BY <1>2, <1>4, <1>5, <1>6 DEF LoadRules

\* Every source has been read again, as it was registered, before anything is evaluated.
LEMMA BindRegistryMoves ==
  ASSUME TypeOK, Inv, BindRegistry
  PROVE  TypeOK' /\ Inv'
<1>1. PICK y : Found(y)
  BY RunFound
<1>2. y = run /\ y.pc = "bind" /\ y.pc \in Reading /\ UNCHANGED asked /\ Quiet
  BY <1>1 DEF BindRegistry, Found, Reading
<1>3. y \in Reviews /\ y.comps = {} /\ y.result.kind = "none" /\ adapters.policy /\ InProgress(y)
  BY <1>1, <1>2 DEF Found, ReviewSound, Reading, Working
<1>4. PICK read \in [Docs -> 0..MaxVersion] : read = [y.read EXCEPT !["brief"] = Parsed("brief")]
  <2>1. Parsed("brief") \in 0..MaxVersion
    BY ControllerAssumption DEF Parsed, TypeOK, Docs
  <2> QED
    BY <1>3, <2>1 DEF Reviews
<1>5. WriterSeesOnlyVerified'
  BY <1>2, WriterStays DEF Quiet, trust
<1>6. CASE BindingFails(run)
  BY <1>1, <1>2, <1>6, BindingFailsMoves
<1>7. CASE Becomes(Ends(y, Returned("needs_review"))) /\ UNCHANGED log
  <2>1. Last(log) \in Events \ OutcomeEvents
    <3>1. log \in Seq(Events) /\ log # <<>> /\ Last(log) \notin OutcomeEvents
      BY <1>3 DEF TypeOK, InProgress
    <3> QED
      BY <3>1 DEF Last
  <2> QED
    BY <1>1, <1>2, <1>5, <1>7, <2>1, EarlyFits, AnswerUnrecorded
<1>8. ASSUME \A d \in Docs : read[d] # 0, \A d \in Docs : read[d] # 0 => SameContent(d, read),
             Becomes([y EXCEPT !.pc = "evaluate", !.read = read]), UNCHANGED log
      PROVE  TypeOK' /\ Inv'
  <2>1. PICK x : x = [y EXCEPT !.pc = "evaluate", !.read = read]
    OBVIOUS
  <2>2. /\ x \in Reviews /\ run' = x /\ x.pc = "evaluate" /\ x.read = read /\ x.mat = y.mat
        /\ x.comps = {} /\ x.events = y.events /\ x.result.kind = "none"
    BY <1>3, <1>8, <2>1 DEF Reviews, Becomes
  <2>3. x.read = x.mat.reg
    <3>1. y.mat.reg \in [Docs -> 0..MaxVersion] /\ \A d \in Docs : read[d] = y.mat.reg[d]
      BY <1>2, <1>3, <1>8 DEF SameContent, Reviews, Materials
    <3> QED
      BY <2>2, <3>1
  <2>4. InProgress(x)' /\ log' \in Seq(Events)
    BY <1>3, <1>8, <2>2 DEF InProgress, TypeOK
  <2>5. ReviewSound(x)'
    BY <2>2, <2>3, <2>4 DEF ReviewSound, Reading, Working
  <2> QED
    BY <1>2, <1>5, <2>2, <2>4, <2>5, StepMoves
<1> QED
  BY <1>2, <1>4, <1>6, <1>7, <1>8 DEF BindRegistry

\* CaseReviewer.review gives "verified" only for approved, resolved and complete material.
LEMMA VerifiedIsTrusted ==
  ASSUME NEW m \in Materials, NEW read, read = m.reg, NEW v \in Verdicts, CaseVerdict(m, v) = "verified"
  PROVE  Trusted(m, read) /\ m.scoped # {}
<1>1. Permits(m) /\ ~m.unresolved /\ InspectedAll(m) /\ m.scoped = m.contexts
  BY DEF CaseVerdict
<1>2. /\ m.conf = <<m.rev, Owner>> /\ m.contexts # {} /\ [mat |-> m, by |-> Owner] \in receipts
  BY <1>1 DEF Permits, ConfirmationsValid
<1>3. \A d \in Docs : \A p \in Pages[d] : <<d, p>> \in m.pages
  BY <1>1 DEF InspectedAll
<1> QED
  BY <1>1, <1>2, <1>3 DEF Trusted

LEMMA VerdictType ==
  ASSUME NEW m, NEW v \in Verdicts
  PROVE  /\ CaseVerdict(m, v) \in {"verified", "needs_review", "failed"}
         /\ LegacyVerdict(v) \in {"needs_review", "failed"}
BY ControllerAssumption DEF CaseVerdict, LegacyVerdict

\* What was found, as Evaluate leaves it, and the answer that tells it.
Verdict(x, y, verdict, comps) ==
  /\ x \in Reviews /\ x.verdict = verdict /\ x.comps = comps
  /\ x.events = y.events /\ x.mat = y.mat /\ x.read = y.read /\ x.req = y.req

LEMMA EvaluateMoves ==
  ASSUME TypeOK, Inv, Evaluate
  PROVE  TypeOK' /\ Inv'
<1>1. PICK y : Found(y)
  BY RunFound
<1>2. /\ y = run /\ y.pc = "evaluate" /\ UNCHANGED asked /\ Quiet
      /\ y \in Reviews /\ y.events = log /\ y.result.kind = "none"
  BY <1>1 DEF Evaluate, Found, ReviewSound, InProgress, Working, Reading
<1>3. WriterSeesOnlyVerified'
  BY <1>2, WriterStays DEF Quiet, trust
<1>4. PICK v, verdict, comps :
         /\ v \in Verdicts
         /\ verdict = IF adapters.policy THEN CaseVerdict(y.mat, v) ELSE LegacyVerdict(v)
         /\ comps = IF adapters.policy THEN y.mat.scoped ELSE {CHOOSE c \in Contexts : TRUE}
         /\ RecordOrFail(IF verdict = "verified" THEN [[y EXCEPT !.verdict = verdict, !.comps = comps] EXCEPT !.pc = "decide"]
                         ELSE Ends([y EXCEPT !.verdict = verdict, !.comps = comps],
                                   [Returned(verdict) EXCEPT !.findings = TRUE]),
                        <<"factors_evaluated", "results_verified">>)
  BY <1>2 DEF Evaluate
<1>5. verdict \in {"verified", "needs_review", "failed"}
  BY <1>4, VerdictType
<1>6. comps \in SUBSET Contexts
  BY <1>2, <1>4, ControllerAssumption DEF Reviews, Materials
<1>7. PICK ev \in Seq(Events) : /\ ev = <<"factors_evaluated", "results_verified">>
                               /\ ev # <<>> /\ Last(ev) = "results_verified"
  <2>1. PICK a \in Events, b \in Events : a = "factors_evaluated" /\ b = "results_verified"
    BY DEF Events
  <2>2. <<a, b>> \in Seq(Events) /\ <<a, b>> # <<>> /\ Last(<<a, b>>) = b
    BY LastOfShort
  <2> QED
    BY <2>1, <2>2
<1>8. PICK r : r = [y EXCEPT !.verdict = verdict, !.comps = comps]
  OBVIOUS
<1>9. r \in Reviews /\ Verdict(r, y, verdict, comps) /\ r.result.kind = "none"
  BY <1>2, <1>5, <1>6, <1>8 DEF Reviews, Verdict
<1>10. CASE verdict = "verified"
  <2>1. PICK z : z = [r EXCEPT !.pc = "decide"]
    OBVIOUS
  <2>2. z \in Reviews /\ Verdict(z, y, verdict, comps) /\ z.pc = "decide" /\ z.result.kind = "none"
    BY <1>9, <2>1 DEF Reviews, Verdict
  <2>3. RecordOrFail(z, ev)
    BY <1>4, <1>7, <1>8, <1>10, <2>1
  <2>4. adapters.policy /\ CaseVerdict(y.mat, v) = "verified" /\ comps = y.mat.scoped
    BY <1>4, <1>10, VerdictType
  <2>5. Trusted(y.mat, y.read) /\ comps # {}
    <3>1. y.mat \in Materials /\ y.read = y.mat.reg
      BY <1>1, <1>2, <2>4 DEF Found, ReviewSound, Reviews
    <3> QED
      BY <1>4, <2>4, <3>1, VerifiedIsTrusted
  <2>6. ASSUME NEW x, Told(x, z, ev) PROVE TypeOK' /\ Inv'
    <3>1. InProgress(x)'
      BY <1>7, <2>6 DEF Told, InProgress, OutcomeEvents
    <3>2. Trusted(x.mat, x.read)'
      BY <1>2, <2>2, <2>5, <2>6 DEF Told, Verdict, Trusted, Quiet, trust
    <3>3. x.pc = "decide" /\ x.verdict = "verified" /\ x.comps # {} /\ x.result.kind = "none"
      BY <1>10, <2>2, <2>5, <2>6 DEF Told, Verdict
    <3>4. ReviewSound(x)'
      BY <3>1, <3>2, <3>3 DEF ReviewSound, Reading, Working
    <3> QED
      BY <1>2, <1>3, <2>6, <3>3, <3>4, StepMoves DEF Told
  <2>7. z.events = log
    BY <1>2, <2>2 DEF Verdict
  <2> QED
    BY <1>2, <1>3, <1>7, <2>2, <2>3, <2>6, <2>7, Records, LogFailsMoves DEF RecordOrFail
<1>11. CASE verdict # "verified"
  <2>1. PICK res : res = [Returned(verdict) EXCEPT !.findings = TRUE]
    OBVIOUS
  <2>2. /\ res \in Answers /\ res.kind = "run" /\ res.status = verdict /\ res.findings
        /\ ~res.uri /\ ~res.pdfError
    BY <1>5, <2>1 DEF Returned, NoResult, Answers
  <2>3. PICK z : z = [r EXCEPT !.pc = "end", !.result = res]
    OBVIOUS
  <2>4. z \in Reviews /\ z.pc = "end" /\ z.result = res /\ z.events = log
    BY <1>2, <1>9, <2>2, <2>3 DEF Reviews, Verdict
  <2>5. RecordOrFail(z, ev)
    BY <1>4, <1>7, <1>8, <1>11, <2>1, <2>3 DEF Ends
  <2>6. Fits(z, Last(ev), asked')
    BY <1>5, <1>7, <1>11, <2>2, <2>4 DEF Fits
  <2> QED
    BY <1>2, <1>3, <1>7, <2>5, <2>6, AnswerRecorded
<1> QED
  BY <1>10, <1>11

-----------------------------------------------------------------------------
(***************************************************************************)
(* The output                                                              *)
(***************************************************************************)

\* What a step of the output finds: a verified result of approved material, none given yet.
AtOutput(y) ==
  /\ y = run /\ y \in Reviews /\ y.events = log /\ y.result.kind = "none"
  /\ y.verdict = "verified" /\ y.comps # {} /\ Trusted(y.mat, y.read)
  /\ log # <<>> /\ Last(log) \notin OutcomeEvents /\ IsFiniteSet(y.comps)

LEMMA OutputFound ==
  ASSUME TypeOK, Inv, NEW y, Found(y), y.pc \in {"decide", "write"}
  PROVE  AtOutput(y)
<1>1. /\ y = run /\ y \in Reviews /\ y.result.kind = "none" /\ y.verdict = "verified" /\ y.comps # {}
      /\ Trusted(y.mat, y.read) /\ InProgress(y)
  BY DEF Found, ReviewSound, Working
<1>2. IsFiniteSet(y.comps)
  BY <1>1, ControllerAssumption, FS_Subset DEF Reviews
<1> QED
  BY <1>1, <1>2 DEF AtOutput, InProgress

\* The answers that carry the findings.
LEMMA FindingsEnd ==
  ASSUME NEW y, AtOutput(y), NEW status \in {"verified", "failed", "completed"},
         NEW artifact \in {"not_requested", "unsupported_contexts", "unavailable", "simulated", "written"}
  PROVE  /\ Findings(status, artifact) \in Answers
         /\ Findings(status, artifact).kind = "run" /\ Findings(status, artifact).status = status
         /\ Findings(status, artifact).artifact = artifact
         /\ Findings(status, artifact).findings
         /\ ~Findings(status, artifact).uri /\ ~Findings(status, artifact).pdfError
BY DEF Findings, Returned, NoResult, Answers

LEMMA OutputEnds ==
  ASSUME NEW y, AtOutput(y), NEW res \in Answers
  PROVE  \E z \in Reviews :
           /\ z = Ends(y, res) /\ z.pc = "end" /\ z.result = res /\ z.events = log
           /\ z.mat = y.mat /\ z.read = y.read /\ z.req = y.req /\ z.comps = y.comps
           /\ z.verdict = "verified" /\ Trusted(z.mat, z.read)
<1>1. PICK z : z = [y EXCEPT !.pc = "end", !.result = res]
  OBVIOUS
<1>2. /\ z \in Reviews /\ z.pc = "end" /\ z.result = res /\ z.events = y.events
      /\ z.mat = y.mat /\ z.read = y.read /\ z.req = y.req /\ z.comps = y.comps
      /\ z.verdict = y.verdict
  BY <1>1 DEF AtOutput, Reviews
<1> QED
  BY <1>1, <1>2 DEF AtOutput, Ends

\* The result is verified and there is no file to tell of.
LEMMA VerifiedFits ==
  ASSUME NEW y, AtOutput(y), NEW e, e \notin OutcomeEvents, NEW as,
         NEW artifact \in {"not_requested", "unsupported_contexts", "unavailable", "simulated"}
  PROVE  Fits(Ends(y, Findings("verified", artifact)), e, as)
<1>1. PICK res \in Answers :
         /\ res = Findings("verified", artifact) /\ res.kind = "run" /\ res.status = "verified"
         /\ res.findings /\ ~res.uri /\ ~res.pdfError
  BY FindingsEnd
<1>2. PICK z \in Reviews :
         /\ z = Ends(y, res) /\ z.pc = "end" /\ z.result = res /\ z.events = log
         /\ Trusted(z.mat, z.read)
  BY OutputEnds
<1>3. Fits(z, e, as)
  BY <1>1, <1>2 DEF Fits, OutcomeEvents
<1> QED
  BY <1>1, <1>2, <1>3

\* The output failed: the findings are kept and the answer says so.
LEMMA PdfErrorFits ==
  ASSUME NEW y, AtOutput(y), NEW e \in {"pdf_write_failed", "pdf_write_blocked"}, NEW as
  PROVE  Fits(Ends(y, [Findings("failed", "not_requested") EXCEPT !.pdfError = TRUE]), e, as)
<1>1. PICK told \in Answers :
         /\ told = Findings("failed", "not_requested") /\ told.kind = "run"
         /\ told.status = "failed" /\ told.findings /\ ~told.uri
  BY FindingsEnd
<1>2. PICK res : res = [told EXCEPT !.pdfError = TRUE]
  OBVIOUS
<1>3. /\ res \in Answers /\ res.kind = "run" /\ res.status = "failed" /\ res.findings
      /\ ~res.uri /\ res.pdfError
  BY <1>1, <1>2 DEF Answers
<1>4. PICK z \in Reviews :
         /\ z = Ends(y, res) /\ z.pc = "end" /\ z.result = res /\ z.events = log
         /\ z.verdict = "verified"
  BY <1>3, OutputEnds
<1>5. Fits(z, e, as)
  BY <1>3, <1>4 DEF Fits
<1> QED
  BY <1>1, <1>2, <1>4, <1>5

LEMMA DecideMoves ==
  ASSUME TypeOK, Inv, Decide
  PROVE  TypeOK' /\ Inv'
<1>1. PICK y : Found(y)
  BY RunFound
<1>2. y = run /\ y.pc = "decide" /\ UNCHANGED asked /\ Quiet
  BY <1>1 DEF Decide, Found
<1>3. AtOutput(y)
  BY <1>1, <1>2, OutputFound
<1>4. WriterSeesOnlyVerified'
  BY <1>2, WriterStays DEF Quiet, trust
<1>5. ASSUME NEW artifact \in {"unsupported_contexts", "not_requested", "unavailable"},
             Becomes(Ends(y, Findings("verified", artifact))), UNCHANGED log
      PROVE  TypeOK' /\ Inv'
  <2>1. Fits(Ends(y, Findings("verified", artifact)), Last(log), asked')
    BY <1>3, VerifiedFits DEF AtOutput
  <2> QED
    BY <1>2, <1>4, <1>5, <2>1, AnswerUnrecorded
<1>6. CASE RecordOrFail(Ends(y, [Findings("failed", "not_requested") EXCEPT !.pdfError = TRUE]),
                        <<"pdf_write_blocked">>)
  <2>1. PICK ev \in Seq(Events) : ev = <<"pdf_write_blocked">> /\ ev # <<>> /\ Last(ev) = "pdf_write_blocked"
    <3>1. "pdf_write_blocked" \in Events
      BY DEF Events
    <3> QED
      BY <3>1, LastOfShort
  <2>2. Fits(Ends(y, [Findings("failed", "not_requested") EXCEPT !.pdfError = TRUE]), Last(ev), asked')
    BY <1>3, <2>1, PdfErrorFits
  <2> QED
    BY <1>2, <1>4, <1>6, <2>1, <2>2, AnswerRecorded
<1>7. ASSUME Single \/ ManyWritable, Becomes([y EXCEPT !.pc = "write"]), UNCHANGED log
      PROVE  TypeOK' /\ Inv'
  <2>1. PICK x : x = [y EXCEPT !.pc = "write"]
    OBVIOUS
  <2>2. /\ x \in Reviews /\ run' = x /\ x.pc = "write" /\ x.result.kind = "none" /\ x.comps = y.comps
        /\ x.req = y.req /\ x.mat = y.mat /\ x.read = y.read /\ x.verdict = y.verdict /\ x.events = y.events
    BY <1>3, <1>7, <2>1 DEF AtOutput, Reviews, Becomes
  <2>3. Cardinality(x.comps) = 1 \/ x.comps \subseteq x.req.mapped
    BY <1>2, <1>7, <2>2 DEF Single, ManyWritable, MapComplete
  <2>4. InProgress(x)' /\ Trusted(x.mat, x.read)' /\ log' \in Seq(Events)
    BY <1>2, <1>3, <1>7, <2>2 DEF AtOutput, InProgress, Trusted, Quiet, trust, TypeOK
  <2>5. ReviewSound(x)'
    BY <1>3, <2>2, <2>3, <2>4 DEF AtOutput, ReviewSound, Reading, Working
  <2> QED
    BY <1>2, <1>4, <2>2, <2>4, <2>5, StepMoves
<1> QED
  BY <1>2, <1>5, <1>6, <1>7 DEF Decide

LEMMA PdfFailedMoves ==
  ASSUME TypeOK, Inv, NEW y, AtOutput(y), WriterSeesOnlyVerified', PdfFailed(run), Quiet
  PROVE  TypeOK' /\ Inv'
<1>1. PICK ev \in Seq(Events) : ev = <<"pdf_write_failed">> /\ ev # <<>> /\ Last(ev) = "pdf_write_failed"
  <2>1. "pdf_write_failed" \in Events
    BY DEF Events
  <2> QED
    BY <2>1, LastOfShort
<1>2. Fits(Ends(y, [Findings("failed", "not_requested") EXCEPT !.pdfError = TRUE]), Last(ev), asked')
  BY <1>1, PdfErrorFits
<1>3. RecordOrFail(Ends(y, [Findings("failed", "not_requested") EXCEPT !.pdfError = TRUE]), ev)
  BY <1>1 DEF PdfFailed, AtOutput
<1> QED
  BY <1>1, <1>2, <1>3, AnswerRecorded

\* The fields of a valid request are those of all verified comparisons: the request refuses
\* other fields, and Decide lets only one comparison or a complete map through.
LEMMA WholeResult ==
  ASSUME TypeOK, Inv, NEW y, Found(y), y.pc = "write", WriteRequestValid
  PROVE  y.req.mapped = y.comps
<1>1. /\ y = run /\ y.req.mapped # {} /\ y.req.mapped \subseteq y.comps /\ IsFiniteSet(y.comps)
      /\ Cardinality(y.comps) = 1 \/ y.comps \subseteq y.req.mapped
  BY OutputFound DEF WriteRequestValid, Found, ReviewSound, AtOutput
<1>2. CASE Cardinality(y.comps) = 1
  <2>1. PICK c : y.comps = {c}
    BY <1>1, <1>2, FS_Singleton
  <2> QED
    BY <1>1, <2>1
<1> QED
  BY <1>1, <1>2

LEMMA WritePdfMoves ==
  ASSUME TypeOK, Inv, WritePdf
  PROVE  TypeOK' /\ Inv'
<1>1. PICK y : Found(y)
  BY RunFound
<1>2. y = run /\ y.pc = "write" /\ Quiet
  BY <1>1 DEF WritePdf, Found
<1>3. AtOutput(y)
  BY <1>1, <1>2, OutputFound
<1>4. CASE ~WriteRequestValid
  <2>1. WriterSeesOnlyVerified'
    BY <1>2, <1>4, WriterStays DEF Quiet, trust, WritePdf
  <2> QED
    BY <1>2, <1>3, <1>4, <2>1, PdfFailedMoves DEF WritePdf
<1>5. ASSUME WriteRequestValid, NEW o \in Outcomes, NEW a,
             a = [mat |-> y.mat, verdict |-> y.verdict, fields |-> y.req.mapped, comps |-> y.comps,
                  wrote |-> IF o = "written" THEN y.req.mapped ELSE {}],
             asked' = asked \cup {a},
             \/ PdfFailed(run)
             \/ RecordOrFail(Ends(y, Findings("verified", "simulated")), <<"pdf_simulated">>)
             \/ /\ o = "written"
                /\ RecordOrFail(Ends(y, [Findings("completed", "written") EXCEPT !.uri = TRUE]), <<"pdf_written">>)
      PROVE  TypeOK' /\ Inv'
  <2>1. WriterSeesOnlyVerified'
    <3>1. /\ a.verdict = "verified" /\ a.fields = a.comps
          /\ \E r \in receipts : r.mat = a.mat
      <4>1. [mat |-> y.mat, by |-> Owner] \in receipts
        BY <1>3 DEF AtOutput, Trusted
      <4> QED
        BY <1>1, <1>2, <1>3, <1>5, <4>1, WholeResult DEF AtOutput
    <3> QED
      BY <1>2, <1>5, <3>1 DEF Inv, WriterSeesOnlyVerified, Quiet, trust
  <2>2. CASE PdfFailed(run)
    BY <1>2, <1>3, <2>1, <2>2, PdfFailedMoves
  <2>3. CASE RecordOrFail(Ends(y, Findings("verified", "simulated")), <<"pdf_simulated">>)
    <3>1. PICK ev \in Seq(Events) : ev = <<"pdf_simulated">> /\ ev # <<>> /\ Last(ev) = "pdf_simulated"
      <4>1. "pdf_simulated" \in Events
        BY DEF Events
      <4> QED
        BY <4>1, LastOfShort
    <3>2. Fits(Ends(y, Findings("verified", "simulated")), Last(ev), asked')
      BY <1>3, <3>1, VerifiedFits DEF OutcomeEvents
    <3> QED
      BY <1>2, <2>1, <2>3, <3>1, <3>2, AnswerRecorded
  <2>4. CASE /\ o = "written"
             /\ RecordOrFail(Ends(y, [Findings("completed", "written") EXCEPT !.uri = TRUE]), <<"pdf_written">>)
    <3>1. PICK ev \in Seq(Events) : ev = <<"pdf_written">> /\ ev # <<>> /\ Last(ev) = "pdf_written"
      <4>1. "pdf_written" \in Events
        BY DEF Events
      <4> QED
        BY <4>1, LastOfShort
    <3>2. PICK told \in Answers :
             /\ told = Findings("completed", "written") /\ told.kind = "run" /\ told.status = "completed"
             /\ told.artifact = "written" /\ told.findings /\ ~told.pdfError
      BY <1>3, FindingsEnd
    <3>3. PICK res : res = [told EXCEPT !.uri = TRUE]
      OBVIOUS
    <3>4. /\ res \in Answers /\ res.kind = "run" /\ res.status = "completed" /\ res.artifact = "written"
          /\ res.findings /\ res.uri /\ ~res.pdfError
      BY <3>2, <3>3 DEF Answers
    <3>5. PICK z \in Reviews :
             /\ z = Ends(y, res) /\ z.pc = "end" /\ z.result = res /\ z.events = log
             /\ z.mat = y.mat /\ z.req = y.req /\ Trusted(z.mat, z.read)
      BY <1>3, <3>4, OutputEnds
    <3>6. a \in asked' /\ a.mat = z.mat /\ a.wrote = z.req.mapped
      BY <1>5, <2>4, <3>5
    <3>7. Fits(z, Last(ev), asked')
      BY <3>1, <3>4, <3>5, <3>6 DEF Fits
    <3>8. RecordOrFail(z, ev)
      BY <2>4, <3>1, <3>2, <3>3, <3>5
    <3> QED
      BY <1>2, <2>1, <3>1, <3>7, <3>8, AnswerRecorded
  <2> QED
    BY <1>5, <2>2, <2>3, <2>4
<1>6. CASE WriteRequestValid
  <2>1. PICK o \in Outcomes :
       /\ asked' = asked \cup {[mat |-> y.mat, verdict |-> y.verdict, fields |-> y.req.mapped, comps |-> y.comps,
                                wrote |-> IF o = "written" THEN y.req.mapped ELSE {}]}
       /\ IF ~ResultMatches(o) THEN PdfFailed(run)
          ELSE IF o = "simulated"
            THEN RecordOrFail(Ends(y, Findings("verified", "simulated")), <<"pdf_simulated">>)
            ELSE RecordOrFail(Ends(y, [Findings("completed", "written") EXCEPT !.uri = TRUE]), <<"pdf_written">>)
    BY <1>2, <1>6 DEF WritePdf
  <2>2. \/ PdfFailed(run)
        \/ RecordOrFail(Ends(y, Findings("verified", "simulated")), <<"pdf_simulated">>)
        \/ /\ o = "written"
           /\ RecordOrFail(Ends(y, [Findings("completed", "written") EXCEPT !.uri = TRUE]), <<"pdf_written">>)
    BY <2>1 DEF ResultMatches
  <2> QED
    BY <1>5, <1>6, <2>1, <2>2
<1> QED
  BY <1>4, <1>6

-----------------------------------------------------------------------------
(***************************************************************************)
(* Requests, and everything around a run                                   *)
(***************************************************************************)

LEMMA NoMaterialType == NoMaterial \in Materials
<1>1. [d \in Docs |-> 0] \in [Docs -> 0..MaxVersion]
  BY ControllerAssumption
<1>2. <<0, Owner>> \in (0..MaxRevision) \X Reviewers
  BY ControllerAssumption
<1> QED
  BY <1>1, <1>2, ControllerAssumption DEF NoMaterial, Materials

LEMMA RestingType ==
  /\ Resting \in Reviews /\ Resting.pc = "rest" /\ Resting.result.kind = "none"
  /\ Resting.events = <<>> /\ Resting.comps = {}
<1>1. [d \in Docs |-> 0] \in [Docs -> 0..MaxVersion] /\ (CHOOSE r \in Requests : TRUE) \in Requests
  BY ControllerAssumption
<1>2. <<>> \in Seq(Events) /\ {} \in SUBSET Contexts
  OBVIOUS
<1> QED
  BY <1>1, <1>2, NoMaterialType, NoResultType DEF Resting, Reviews

LEMMA StartMoves ==
  ASSUME TypeOK, Inv, Start
  PROVE  TypeOK' /\ Inv'
<1>1. /\ log = <<>> /\ runs' = runs + 1 /\ runs' \in 0..MaxRuns
      /\ UNCHANGED <<asked, doc, prep, trust, adapters, edits>>
  BY ControllerAssumption DEF Start, TypeOK, Inv, ReviewSound
<1>2. WriterSeesOnlyVerified'
  BY <1>1, WriterStays DEF trust
<1>3. ASSUME NEW x \in Reviews, run' = x, log' \in Seq(Events), ReviewSound(x)',
             x.pc = "end" <=> x.result.kind # "none"
      PROVE  TypeOK' /\ Inv'
  <2>1. TypeOK'
    BY <1>1, <1>3 DEF TypeOK, prep, trust
  <2>2. ReviewSound(run)'
    BY <1>3 DEF ReviewSound, Answered, InProgress
  <2> QED
    BY <1>2, <2>1, <2>2 DEF Inv
<1>4. ASSUME NEW q \in Requests,
             Record([Resting EXCEPT !.pc = "criteria", !.req = q, !.mat = material], <<"workflow_started">>)
      PROVE  TypeOK' /\ Inv'
  <2>1. PICK z : z = [Resting EXCEPT !.pc = "criteria", !.req = q, !.mat = material]
    OBVIOUS
  <2>2. z \in Reviews /\ z.pc = "criteria" /\ z.events = <<>> /\ z.comps = {} /\ z.result.kind = "none"
    <3>1. Resting \in Reviews /\ material \in Materials
      BY RestingType DEF TypeOK
    <3> QED
      BY <2>1, <3>1, RestingType DEF Reviews
  <2>3. PICK ev \in Seq(Events) : ev = <<"workflow_started">> /\ ev # <<>> /\ Last(ev) = "workflow_started"
    <3>1. "workflow_started" \in Events
      BY DEF Events
    <3> QED
      BY <3>1, LastOfShort
  <2>4. PICK x : Told(x, z, ev)
    BY <1>1, <1>4, <2>1, <2>2, <2>3, Records
  <2>5. ReviewSound(x)' /\ x.result.kind = "none" /\ x.pc # "end"
    BY <1>1, <2>2, <2>3, <2>4, GoesOn DEF Reading, OutcomeEvents
  <2> QED
    BY <1>3, <2>4, <2>5 DEF Told
<1>5. ASSUME NEW q \in Requests, UNCHANGED log,
             Becomes(Ends([Resting EXCEPT !.req = q], [NoResult EXCEPT !.kind = "unconfigured"]))
      PROVE  TypeOK' /\ Inv'
  <2>1. PICK res : res = [NoResult EXCEPT !.kind = "unconfigured"]
    OBVIOUS
  <2>2. res \in Answers /\ res.kind = "unconfigured"
    BY <2>1, NoResultType DEF Answers
  <2>3. PICK r : r = [Resting EXCEPT !.req = q]
    OBVIOUS
  <2>4. r \in Reviews
    BY <2>3, RestingType DEF Reviews
  <2>5. PICK x : x = [r EXCEPT !.pc = "end", !.result = res]
    OBVIOUS
  <2>6. x \in Reviews /\ x.pc = "end" /\ x.result = res
    BY <2>2, <2>4, <2>5 DEF Reviews
  <2>7. run' = x /\ log' \in Seq(Events)
    BY <1>5, <2>1, <2>3, <2>5 DEF Becomes, Ends, TypeOK
  <2>8. ReviewSound(x)'
    BY <2>2, <2>6, SilentEnds
  <2> QED
    BY <1>3, <2>2, <2>6, <2>7, <2>8
<1> QED
  BY <1>4, <1>5 DEF Start

LEMMA RespondMoves ==
  ASSUME TypeOK, Inv, Respond
  PROVE  TypeOK' /\ Inv'
<1>1. run' = Resting /\ log' = <<>> /\ UNCHANGED <<doc, prep, trust, adapters, asked, runs, edits>>
  BY DEF Respond
<1>2. TypeOK'
  BY <1>1, RestingType DEF TypeOK, prep, trust
<1>3. ReviewSound(run)'
  BY <1>1, RestingType DEF ReviewSound, Reading, Working
<1>4. WriterSeesOnlyVerified'
  BY <1>1, WriterStays DEF trust
<1> QED
  BY <1>2, <1>3, <1>4 DEF Inv

\* What is done to sources, material and approvals leaves the run alone.
LEMMA AroundMoves ==
  ASSUME TypeOK, Inv, Idle, receipts \subseteq receipts',
         doc' \in [Docs -> 0..MaxVersion], registry' \in [Docs -> 0..MaxVersion],
         \A s \in scans' : s.doc \in Docs /\ s.page \in Pages[s.doc] /\ s.proposal \in Proposals[s.doc],
         material' \in Materials, seen' \in [Reviewers -> Materials],
         receipts' \subseteq [mat : Materials, by : Reviewers],
         edits' \in 0..MaxEdits, prepared' \in 0..MaxPrepared
  PROVE  TypeOK' /\ Inv'
<1>1. TypeOK'
  BY DEF TypeOK, Idle
<1>2. PICK x : x = run /\ x = run'
  BY DEF Idle
<1>3. ReviewSound(x)'
  BY <1>2, SoundStays DEF Inv, Idle
<1>4. ReviewSound(run)'
  BY <1>2, <1>3 DEF ReviewSound, Answered, InProgress
<1>5. WriterSeesOnlyVerified'
  BY DEF Inv, Idle, WriterSeesOnlyVerified
<1> QED
  BY <1>1, <1>4, <1>5 DEF Inv

LEMMA RegisterMoves ==
  ASSUME TypeOK, Inv, Register
  PROVE  TypeOK' /\ Inv'
BY AroundMoves DEF Register, TypeOK, trust

LEMMA ScanMoves ==
  ASSUME TypeOK, Inv, NEW d \in Docs, NEW p \in Pages[d], Scan(d, p)
  PROVE  TypeOK' /\ Inv'
<1>1. \A s \in scans' : s.doc \in Docs /\ s.page \in Pages[s.doc] /\ s.proposal \in Proposals[s.doc]
  BY DEF Scan, TypeOK
<1> QED
  BY <1>1, AroundMoves DEF Scan, TypeOK, trust

LEMMA AssembleMoves ==
  ASSUME TypeOK, Inv, Assemble
  PROVE  TypeOK' /\ Inv'
<1>1. PICK cs : cs = UNION {s.proposal.contexts : s \in scans}
  OBVIOUS
<1>2. cs \in SUBSET Contexts
  BY <1>1, ControllerAssumption DEF TypeOK
<1>3. {<<s.doc, s.page>> : s \in scans} \in SUBSET UNION {{d} \X Pages[d] : d \in Docs}
  BY DEF TypeOK
<1>4. <<0, Owner>> \in (0..MaxRevision) \X Reviewers /\ 1 \in 0..MaxRevision
  BY ControllerAssumption
<1>5. \E un \in BOOLEAN, sc \in {cs, {}} :
         Assembled = [reg |-> registry, contexts |-> cs, scoped |-> sc,
                      pages |-> {<<s.doc, s.page>> : s \in scans}, unresolved |-> un,
                      rev |-> 1, conf |-> <<0, Owner>>]
  BY <1>1 DEF Assembled
<1>6. Assembled \in Materials
  BY <1>2, <1>3, <1>4, <1>5 DEF Materials, TypeOK
<1>7. prepared' \in 0..MaxPrepared
  BY ControllerAssumption DEF Assemble, TypeOK
<1> QED
  BY <1>6, <1>7, AroundMoves DEF Assemble, TypeOK, trust

LEMMA DiscardMoves ==
  ASSUME TypeOK, Inv, Discard
  PROVE  TypeOK' /\ Inv'
BY NoMaterialType, AroundMoves DEF Discard, TypeOK, trust

LEMMA CorrectMoves ==
  ASSUME TypeOK, Inv, Correct
  PROVE  TypeOK' /\ Inv'
<1>1. PICK n \in 0..MaxRevision, u \in BOOLEAN : material' = [material EXCEPT !.rev = n, !.unresolved = u]
  <2>1. material.unresolved \in BOOLEAN /\ material.rev + 1 \in 0..MaxRevision
    BY ControllerAssumption DEF Correct, TypeOK, Materials
  <2> QED
    BY <2>1 DEF Correct
<1>2. material' \in Materials
  BY <1>1 DEF TypeOK, Materials
<1> QED
  BY <1>2, AroundMoves DEF Correct, TypeOK, trust

LEMMA ConfirmMoves ==
  ASSUME TypeOK, Inv, NEW u \in Reviewers, Confirm(u)
  PROVE  TypeOK' /\ Inv'
<1>1. PICK c \in (0..MaxRevision) \X Reviewers : material' = [material EXCEPT !.conf = c]
  <2>1. material.rev \in 0..MaxRevision
    BY DEF TypeOK, Materials
  <2> QED
    BY <2>1 DEF Confirm
<1>2. material' \in Materials
  BY <1>1 DEF TypeOK, Materials
<1> QED
  BY <1>2, AroundMoves DEF Confirm, TypeOK, trust

LEMMA LookMoves ==
  ASSUME TypeOK, Inv, NEW u \in Reviewers, Look(u)
  PROVE  TypeOK' /\ Inv'
<1>1. seen' \in [Reviewers -> Materials]
  BY DEF Look, TypeOK
<1> QED
  BY <1>1, AroundMoves DEF Look, TypeOK, prep

LEMMA ApproveMoves ==
  ASSUME TypeOK, Inv, NEW u \in Reviewers, Approve(u)
  PROVE  TypeOK' /\ Inv'
<1>1. receipts \subseteq receipts' /\ receipts' \subseteq [mat : Materials, by : Reviewers]
  BY DEF Approve, TypeOK
<1> QED
  BY <1>1, AroundMoves DEF Approve, TypeOK, prep

LEMMA EditMoves ==
  ASSUME TypeOK, Inv, NEW d \in Docs, EditSource(d)
  PROVE  TypeOK' /\ Inv'
<1>1. doc' \in [Docs -> 0..MaxVersion] /\ edits' \in 0..MaxEdits
  BY ControllerAssumption DEF EditSource, TypeOK
<1> QED
  BY <1>1, AroundMoves DEF EditSource, TypeOK, prep, trust

-----------------------------------------------------------------------------
(***************************************************************************)
(* The theorems                                                            *)
(***************************************************************************)

\* The invariant of the controller, of whatever adapters, requests and edits.
THEOREM InvHolds == Spec => [](TypeOK /\ Inv)
<1>1. Init => TypeOK /\ Inv
  <2> SUFFICES ASSUME Init PROVE TypeOK /\ Inv
    OBVIOUS
  <2>1. doc \in [Docs -> 0..MaxVersion]
    BY ControllerAssumption DEF Init
  <2>2. TypeOK
    BY <2>1, RestingType, NoMaterialType, ControllerAssumption DEF Init, TypeOK
  <2>3. ReviewSound(run)
    BY RestingType DEF Init, ReviewSound, Reading, Working
  <2> QED
    BY <2>2, <2>3 DEF Init, Inv, WriterSeesOnlyVerified
<1>2. TypeOK /\ Inv /\ [Next]_vars => TypeOK' /\ Inv'
  <2> SUFFICES ASSUME TypeOK, Inv, [Next]_vars PROVE TypeOK' /\ Inv'
    OBVIOUS
  <2>1. CASE Prepare
    BY <2>1, RegisterMoves, AssembleMoves, DiscardMoves, CorrectMoves, EditMoves, ScanMoves,
       ConfirmMoves, LookMoves, ApproveMoves DEF Prepare
  <2>2. CASE Step
    BY <2>2, ParseCriteriaMoves, LoadRulesMoves, ParseFormsMoves, ExtractFactsMoves,
       BindRegistryMoves, EvaluateMoves, DecideMoves, WritePdfMoves DEF Step
  <2>3. CASE UNCHANGED vars
    <3>1. TypeOK'
      BY <2>3 DEF vars, prep, trust, TypeOK
    <3>2. WriterSeesOnlyVerified'
      BY <2>3, WriterStays DEF vars, prep, trust
    <3>3. ReviewSound(run)'
      BY <2>3 DEF vars, prep, trust, Inv, ReviewSound, Answered, InProgress, Trusted
    <3> QED
      BY <3>1, <3>2, <3>3 DEF Inv
  <2> QED
    BY <2>1, <2>2, <2>3, StartMoves, RespondMoves DEF Next
<1> QED
  BY <1>1, <1>2, PTL DEF Spec

\* OutcomeIsEarned for any number of contexts, pages, reviewers, requests and edits: what
\* _review answers as verified was read from the registered sources and approved as it is,
\* the writer was asked for whole verified results only, and the answer's status, findings,
\* file and audit trail agree, whatever adapter, logger or writer fails.
THEOREM OutcomeEarned == Spec => []OutcomeIsEarned
<1>1. TypeOK /\ Inv => OutcomeIsEarned
  <2> SUFFICES ASSUME TypeOK, Inv PROVE OutcomeIsEarned
    OBVIOUS
  <2>1. run.result.kind = "run" => Answered(run)
    BY DEF Inv, ReviewSound
  <2>2. WriterSeesOnlyVerified
    BY DEF Inv
  <2> QED
    BY <2>1, <2>2 DEF OutcomeIsEarned, Answered, VerifiedIsApproved, OutcomeIsHonest,
                      AuditTellsTheOutcome, Last
<1> QED
  BY <1>1, InvHolds, PTL

-----------------------------------------------------------------------------
(***************************************************************************)
(* The dispatch slot                                                       *)
(***************************************************************************)

\* What a guard has been charged for has left the process or is about to, and each
\* request of the SDK call sends at most once.
ChargedFirst ==
    \A s \in Senders :
      /\ physical[s] <= call[s].sends
      /\ call[s].pc \in {"charged", "ready"} => physical[s] < call[s].sends
      /\ physical[s] <= call[s].requests
      /\ call[s].pc \in {"contending", "waiting", "charged", "ready"} => physical[s] < call[s].requests

\* A guard that still stands allows every request; a revoked one what it let pass.
AllowanceKept ==
    \A s \in Senders :
      /\ ~call[s].revoked => allowed[s] = MaxRequests
      /\ call[s].revoked => /\ physical[s] <= allowed[s]
                            /\ call[s].pc = "ready" => physical[s] < allowed[s]

\* The owner's wait is not longer than the silence, and a charged owner has waited.
WaitsAreQuiet ==
    \A s \in Senders :
      /\ call[s].pc = "contending" => call[s].waited = 0
      /\ call[s].pc = "waiting" => call[s].waited <= quiet
      /\ call[s].pc \in {"charged", "ready"} => quiet = Interval

SlotInv == SlotTypeOK /\ SendersOwnTheSlot /\ ChargedFirst /\ AllowanceKept /\ WaitsAreQuiet

\* A request enters the transport with an empty wait, or is refused there.
LEMMA EnterKeeps ==
    ASSUME SlotInv, NEW s \in Senders, Enter(s)
    PROVE  SlotInv'
<1> USE DispatchAssumption DEF Calls, Owning, Ended, None
<1>1. SlotTypeOK'
  BY DEF SlotInv, SlotTypeOK, Enter
<1>2. SendersOwnTheSlot'
  BY DEF SlotInv, SlotTypeOK, SendersOwnTheSlot, Enter
<1>3. ChargedFirst'
  BY DEF SlotInv, SlotTypeOK, ChargedFirst, Enter
<1>4. AllowanceKept'
  BY DEF SlotInv, SlotTypeOK, ChargedFirst, AllowanceKept, Enter
<1>5. WaitsAreQuiet'
  BY DEF SlotInv, SlotTypeOK, SendersOwnTheSlot, WaitsAreQuiet, Enter
<1> QED
  BY <1>1, <1>2, <1>3, <1>4, <1>5 DEF SlotInv

\* The SDK gives up on a failed request.
LEMMA GiveUpKeeps ==
    ASSUME SlotInv, NEW s \in Senders, GiveUp(s)
    PROVE  SlotInv'
<1> USE DispatchAssumption DEF Calls, Owning, Ended, None
<1>1. SlotTypeOK'
  BY DEF SlotInv, SlotTypeOK, GiveUp, Goto
<1>2. SendersOwnTheSlot'
  BY DEF SlotInv, SlotTypeOK, SendersOwnTheSlot, GiveUp, Goto
<1>3. ChargedFirst'
  BY DEF SlotInv, SlotTypeOK, ChargedFirst, GiveUp, Goto
<1>4. AllowanceKept'
  BY DEF SlotInv, SlotTypeOK, ChargedFirst, AllowanceKept, GiveUp, Goto
<1>5. WaitsAreQuiet'
  BY DEF SlotInv, SlotTypeOK, SendersOwnTheSlot, WaitsAreQuiet, GiveUp, Goto
<1> QED
  BY <1>1, <1>2, <1>3, <1>4, <1>5 DEF SlotInv

\* Only an idle slot is taken, and the wait begins.
LEMMA AcquireKeeps ==
    ASSUME SlotInv, NEW s \in Senders, Acquire(s)
    PROVE  SlotInv'
<1> USE DispatchAssumption DEF Calls, Owning, Ended, None
<1>1. SlotTypeOK'
  BY DEF SlotInv, SlotTypeOK, Acquire, TryAcquire, Goto
<1>2. SendersOwnTheSlot'
  BY DEF SlotInv, SlotTypeOK, SendersOwnTheSlot, Acquire, TryAcquire, Goto
<1>3. ChargedFirst'
  BY DEF SlotInv, SlotTypeOK, ChargedFirst, Acquire, TryAcquire, Goto
<1>4. AllowanceKept'
  BY DEF SlotInv, SlotTypeOK, ChargedFirst, AllowanceKept, Acquire, TryAcquire, Goto
<1>5. WaitsAreQuiet'
  BY DEF SlotInv, SlotTypeOK, SendersOwnTheSlot, WaitsAreQuiet, Acquire, TryAcquire, Goto
<1> QED
  BY <1>1, <1>2, <1>3, <1>4, <1>5 DEF SlotInv

\* A lost answer of try_acquire denies the request, whoever owns the slot now.
LEMMA LoseAcquireAnswerKeeps ==
    ASSUME SlotInv, NEW s \in Senders, LoseAcquireAnswer(s)
    PROVE  SlotInv'
<1> USE DispatchAssumption DEF Calls, Owning, Ended, None
<1>1. SlotTypeOK'
  BY DEF SlotInv, SlotTypeOK, LoseAcquireAnswer, TryAcquire, Goto
<1>2. SendersOwnTheSlot'
  BY DEF SlotInv, SlotTypeOK, SendersOwnTheSlot, LoseAcquireAnswer, TryAcquire, Goto
<1>3. ChargedFirst'
  BY DEF SlotInv, SlotTypeOK, ChargedFirst, LoseAcquireAnswer, TryAcquire, Goto
<1>4. AllowanceKept'
  BY DEF SlotInv, SlotTypeOK, ChargedFirst, AllowanceKept, LoseAcquireAnswer, TryAcquire, Goto
<1>5. WaitsAreQuiet'
  BY DEF SlotInv, SlotTypeOK, SendersOwnTheSlot, WaitsAreQuiet, LoseAcquireAnswer, TryAcquire, Goto
<1> QED
  BY <1>1, <1>2, <1>3, <1>4, <1>5 DEF SlotInv

\* A charge is made by the owner, after its wait, within the budget.
LEMMA ChargeKeeps ==
    ASSUME SlotInv, NEW s \in Senders, Charge(s)
    PROVE  SlotInv'
<1> USE DispatchAssumption DEF Calls, Owning, Ended, None
<1>1. SlotTypeOK'
  BY DEF SlotInv, SlotTypeOK, Charge, Waited, Chargeable, Leave
<1>2. SendersOwnTheSlot'
  BY DEF SlotInv, SlotTypeOK, SendersOwnTheSlot, Charge, Waited, Chargeable, Leave
<1>3. ChargedFirst'
  BY DEF SlotInv, SlotTypeOK, ChargedFirst, Charge, Waited, Chargeable, Leave
<1>4. AllowanceKept'
  BY DEF SlotInv, SlotTypeOK, ChargedFirst, AllowanceKept, Charge, Waited, Chargeable, Leave
<1>5. WaitsAreQuiet'
  BY DEF SlotInv, SlotTypeOK, SendersOwnTheSlot, WaitsAreQuiet, Charge, Waited, Chargeable, Leave
<1> QED
  BY <1>1, <1>2, <1>3, <1>4, <1>5 DEF SlotInv

\* The last check of the guard.
LEMMA AdmitKeeps ==
    ASSUME SlotInv, NEW s \in Senders, Admit(s)
    PROVE  SlotInv'
<1> USE DispatchAssumption DEF Calls, Owning, Ended, None
<1>a. \/ ~call[s].revoked /\ call' = [call EXCEPT ![s].pc = "ready"]
      \/ call' = [call EXCEPT ![s].pc = "releasing", ![s].then = "denied"]
  BY DEF Admit, Goto, Leave
<1>1. SlotTypeOK'
  BY <1>a DEF SlotInv, SlotTypeOK, Admit
<1>2. SendersOwnTheSlot'
  BY DEF SlotInv, SlotTypeOK, SendersOwnTheSlot, Admit, Goto, Leave
<1>3. ChargedFirst'
  BY DEF SlotInv, SlotTypeOK, ChargedFirst, Admit, Goto, Leave
<1>4. AllowanceKept'
  <2>1. CASE ~call[s].revoked /\ call' = [call EXCEPT ![s].pc = "ready"]
    BY <2>1 DEF SlotInv, SlotTypeOK, AllowanceKept, Admit
  <2>2. CASE call' = [call EXCEPT ![s].pc = "releasing", ![s].then = "denied"]
    BY <2>2 DEF SlotInv, SlotTypeOK, AllowanceKept, Admit
  <2> QED
    BY <1>a, <2>1, <2>2
<1>5. WaitsAreQuiet'
  BY DEF SlotInv, SlotTypeOK, SendersOwnTheSlot, WaitsAreQuiet, Admit, Goto, Leave
<1> QED
  BY <1>1, <1>2, <1>3, <1>4, <1>5 DEF SlotInv

\* The request leaves the process.
LEMMA TransmitKeeps ==
    ASSUME SlotInv, NEW s \in Senders, Transmit(s)
    PROVE  SlotInv'
<1> USE DispatchAssumption DEF Calls, Owning, Ended, None
<1>1. SlotTypeOK'
  BY DEF SlotInv, SlotTypeOK, Transmit, Goto
<1>2. SendersOwnTheSlot'
  BY DEF SlotInv, SlotTypeOK, SendersOwnTheSlot, Transmit, Goto
<1>3. ChargedFirst'
  BY DEF SlotInv, SlotTypeOK, ChargedFirst, Transmit, Goto
<1>4. AllowanceKept'
  BY DEF SlotInv, SlotTypeOK, ChargedFirst, AllowanceKept, Transmit, Goto
<1>5. WaitsAreQuiet'
  BY DEF SlotInv, SlotTypeOK, SendersOwnTheSlot, WaitsAreQuiet, Transmit, Goto
<1> QED
  BY <1>1, <1>2, <1>3, <1>4, <1>5 DEF SlotInv

\* The transport returns or fails; the silence begins anew.
LEMMA TransportReturnsKeeps ==
    ASSUME SlotInv, NEW s \in Senders, TransportReturns(s)
    PROVE  SlotInv'
<1> USE DispatchAssumption DEF Calls, Owning, Ended, None
<1>a. \/ call' = [call EXCEPT ![s].pc = "releasing", ![s].then = "returned"]
      \/ call' = [call EXCEPT ![s].pc = "releasing", ![s].then = "failed"]
  BY DEF TransportReturns, Leave
<1>1. SlotTypeOK'
  BY <1>a DEF SlotInv, SlotTypeOK, TransportReturns
<1>2. SendersOwnTheSlot'
  BY DEF SlotInv, SlotTypeOK, SendersOwnTheSlot, TransportReturns, Leave
<1>3. ChargedFirst'
  BY DEF SlotInv, SlotTypeOK, ChargedFirst, TransportReturns, Leave
<1>4. AllowanceKept'
  BY DEF SlotInv, SlotTypeOK, ChargedFirst, AllowanceKept, TransportReturns, Leave
<1>5. WaitsAreQuiet'
  BY DEF SlotInv, SlotTypeOK, SendersOwnTheSlot, WaitsAreQuiet, TransportReturns, Leave
<1> QED
  BY <1>1, <1>2, <1>3, <1>4, <1>5 DEF SlotInv

\* The slot is given back by its owner, or is not.
LEMMA ReleaseKeeps ==
    ASSUME SlotInv, NEW s \in Senders, Release(s)
    PROVE  SlotInv'
<1> USE DispatchAssumption DEF Calls, Owning, Ended, None
<1>1. SlotTypeOK'
  BY DEF SlotInv, SlotTypeOK, Release, Goto
<1>2. SendersOwnTheSlot'
  BY DEF SlotInv, SlotTypeOK, SendersOwnTheSlot, Release, Goto
<1>3. ChargedFirst'
  BY SMTT(30) DEF SlotInv, SlotTypeOK, ChargedFirst, Release, Goto
<1>4. AllowanceKept'
  BY DEF SlotInv, SlotTypeOK, ChargedFirst, AllowanceKept, Release, Goto
<1>5. WaitsAreQuiet'
  BY DEF SlotInv, SlotTypeOK, SendersOwnTheSlot, WaitsAreQuiet, Release, Goto
<1> QED
  BY <1>1, <1>2, <1>3, <1>4, <1>5 DEF SlotInv

\* The guard fixes what it has let pass.
LEMMA RevokeKeeps ==
    ASSUME SlotInv, NEW s \in Senders, Revoke(s)
    PROVE  SlotInv'
<1> USE DispatchAssumption DEF Calls, Owning, Ended, None
<1>1. SlotTypeOK'
  <2>1. call' \in [Senders -> Calls]
    <3>1. call \in [Senders -> Calls] /\ call' = [call EXCEPT ![s].revoked = TRUE]
      BY DEF SlotInv, SlotTypeOK, Revoke
    <3>2. [call[s] EXCEPT !.revoked = TRUE] \in Calls
      BY <3>1
    <3> QED
      BY <3>1, <3>2, Zenon
  <2>2. allowed' \in [Senders -> Nat]
    <3>1. physical[s] + (IF call[s].pc = "ready" THEN 1 ELSE 0) \in Nat
      BY DEF SlotInv, SlotTypeOK
    <3> QED
      BY <3>1 DEF SlotInv, SlotTypeOK, Revoke
  <2> QED
    BY <2>1, <2>2 DEF SlotInv, SlotTypeOK, Revoke
<1>2. SendersOwnTheSlot'
  BY DEF SlotInv, SlotTypeOK, SendersOwnTheSlot, Revoke
<1>3. ChargedFirst'
  BY DEF SlotInv, SlotTypeOK, ChargedFirst, Revoke
<1>4. AllowanceKept'
  BY DEF SlotInv, SlotTypeOK, ChargedFirst, AllowanceKept, Revoke
<1>5. WaitsAreQuiet'
  BY DEF SlotInv, SlotTypeOK, SendersOwnTheSlot, WaitsAreQuiet, Revoke
<1> QED
  BY <1>1, <1>2, <1>3, <1>4, <1>5 DEF SlotInv

\* The process dies; its slot stays taken.
LEMMA CrashKeeps ==
    ASSUME SlotInv, NEW s \in Senders, Crash(s)
    PROVE  SlotInv'
<1> USE DispatchAssumption DEF Calls, Owning, Ended, None
<1>1. SlotTypeOK'
  BY DEF SlotInv, SlotTypeOK, Crash, Goto
<1>2. SendersOwnTheSlot'
  BY DEF SlotInv, SlotTypeOK, SendersOwnTheSlot, Crash, Goto
<1>3. ChargedFirst'
  BY DEF SlotInv, SlotTypeOK, ChargedFirst, Crash, Goto
<1>4. AllowanceKept'
  BY DEF SlotInv, SlotTypeOK, ChargedFirst, AllowanceKept, Crash, Goto
<1>5. WaitsAreQuiet'
  BY DEF SlotInv, SlotTypeOK, SendersOwnTheSlot, WaitsAreQuiet, Crash, Goto
<1> QED
  BY <1>1, <1>2, <1>3, <1>4, <1>5 DEF SlotInv

\* Time passes for the owner and for the silence alike.
LEMMA TickKeeps ==
    ASSUME SlotInv, Tick
    PROVE  SlotInv'
<1> USE DispatchAssumption DEF Calls, Owning, Ended, None
<1>1. SlotTypeOK'
  BY DEF SlotInv, SlotTypeOK, Tick
<1>2. SendersOwnTheSlot'
  BY DEF SlotInv, SlotTypeOK, SendersOwnTheSlot, Tick
<1>3. ChargedFirst'
  BY DEF SlotInv, SlotTypeOK, ChargedFirst, Tick
<1>4. AllowanceKept'
  BY DEF SlotInv, SlotTypeOK, AllowanceKept, Tick
<1>5. WaitsAreQuiet'
  BY DEF SlotInv, SlotTypeOK, WaitsAreQuiet, Tick
<1> QED
  BY <1>1, <1>2, <1>3, <1>4, <1>5 DEF SlotInv

\* Every step keeps the invariant.
LEMMA StepKeeps ==
    ASSUME SlotInv, [SlotNext]_slotVars
    PROVE  SlotInv'
<1>1. CASE SlotNext
  BY <1>1, EnterKeeps, GiveUpKeeps, AcquireKeeps, LoseAcquireAnswerKeeps, ChargeKeeps, AdmitKeeps,
     TransmitKeeps, TransportReturnsKeeps, ReleaseKeeps, RevokeKeeps, CrashKeeps, TickKeeps
     DEF SlotNext, SlotStep
<1>2. CASE UNCHANGED slotVars
  BY <1>2 DEF slotVars, SlotInv, SlotTypeOK, SendersOwnTheSlot, ChargedFirst, AllowanceKept, WaitsAreQuiet
<1> QED
  BY <1>1, <1>2

\* The invariant holds in every reachable state.
LEMMA SlotInvHolds == SlotSpec => []SlotInv
<1>1. SlotInit => SlotInv
  BY DispatchAssumption DEF SlotInit, SlotInv, SlotTypeOK, SendersOwnTheSlot, ChargedFirst, AllowanceKept,
     WaitsAreQuiet, Calls, Owning, Ended, None
<1> QED
  BY <1>1, StepKeeps, PTL DEF SlotSpec

-----------------------------------------------------------------------------
(***************************************************************************)
(* The theorems                                                            *)
(***************************************************************************)

\* Types of the slot's row, of the calls and their guards.
THEOREM TypeCorrect == SlotSpec => []SlotTypeOK
BY SlotInvHolds, PTL DEF SlotInv

\* No two requests of the team are ever under way together, whatever store answers are
\* lost and whichever processes die, and no guard lets out more requests than its budget
\* or than it had let pass when it was revoked (BoundedDispatcher.send, DispatchGuard).
THEOREM SendsAdmitted == SlotSpec => []SendsAreAdmitted
<1>1. SlotInv => SendsAreAdmitted
  <2> SUFFICES ASSUME SlotInv, NEW s \in Senders
               PROVE  physical[s] <= MaxSends /\ physical[s] <= allowed[s]
    BY DEF SlotInv, SendsAreAdmitted, GuardsHold
  <2>1. /\ physical[s] \in Nat /\ allowed[s] \in Nat
        /\ call[s].sends \in 0..MaxSends /\ call[s].requests \in 0..MaxRequests
        /\ call[s].revoked \in BOOLEAN
    BY DEF SlotInv, SlotTypeOK, Calls
  <2> QED
    BY <2>1, DispatchAssumption DEF SlotInv, ChargedFirst, AllowanceKept
<1> QED
  BY <1>1, SlotInvHolds, PTL

\* A request leaves the process only after a full interval in which no transport of the
\* team was active: the owner's own wait is enough, because nobody else can send while it
\* waits (_wait, transport.send).
THEOREM SendsSpaced == SlotSpec => SendsAreSpaced
<1>1. SlotInv /\ [SlotNext]_slotVars =>
        [physical' # physical => quiet = Interval /\ \A s \in Senders : call[s].pc # "sending"]_slotVars
  <2> SUFFICES ASSUME SlotInv, SlotNext, physical' # physical
               PROVE  quiet = Interval /\ \A s \in Senders : call[s].pc # "sending"
    BY DEF slotVars
  <2>1. PICK s \in Senders : Transmit(s)
    BY DEF SlotNext, SlotStep, Enter, GiveUp, Acquire, LoseAcquireAnswer, Charge, Admit,
       TransportReturns, Release, Revoke, Crash, Tick
  <2>2. call[s].pc = "ready" /\ slot = s
    BY <2>1 DEF Transmit, SlotInv, SendersOwnTheSlot, Owning
  <2>3. quiet = Interval
    BY <2>2 DEF SlotInv, WaitsAreQuiet
  <2> QED
    BY <2>2, <2>3 DEF SlotInv, SendersOwnTheSlot, Owning
<1> QED
  BY <1>1, SlotInvHolds, PTL DEF SlotSpec, SendsAreSpaced

\* Once the owner of the slot has died, or its release was not confirmed and did not
\* happen, nothing is sent any more and nobody takes the slot over (try_acquire).
THEOREM LostOwnersStop == SlotSpec => LostOwnersBlock
<1>1. SlotInv /\ [SlotNext]_slotVars =>
        [\A s \in Senders : slot = s /\ call[s].pc \in Ended => slot' = s /\ physical' = physical]_slotVars
  <2> SUFFICES ASSUME SlotInv, SlotNext, NEW r \in Senders, slot = r, call[r].pc \in Ended
               PROVE  slot' = r /\ physical' = physical
    BY DEF slotVars
  <2>1. \A s \in Senders : call[s].pc \notin Owning /\ slot # None
    BY DispatchAssumption DEF SlotInv, SendersOwnTheSlot, Owning, Ended
  <2>2. CASE Tick
    BY <2>2 DEF Tick
  <2>3. ASSUME NEW s \in Senders,
               Enter(s) \/ SlotStep(s) \/ LoseAcquireAnswer(s) \/ Revoke(s) \/ Crash(s)
        PROVE  slot' = r /\ physical' = physical
    BY <2>1, <2>3 DEF SlotStep, Enter, GiveUp, Acquire, TryAcquire, LoseAcquireAnswer, Charge, Admit,
       Transmit, TransportReturns, Release, Revoke, Crash, Owning
  <2> QED
    BY <2>2, <2>3 DEF SlotNext
<1> QED
  BY <1>1, SlotInvHolds, PTL DEF SlotSpec, LostOwnersBlock

-----------------------------------------------------------------------------
(***************************************************************************)
(* The whole-case review (CaseReview).                                     *)
(***************************************************************************)

\* The rule set that judges a context when exactly one applies.
RuleOf(e) == policy.ruleSets[Min(Matching(e))]

\* What CheckInventory reports first, whatever else it finds.
Approval == IF input.authorized THEN Pass(<<"trust">>, "approval") ELSE Need(<<"trust">>, "approval")
SourcesKept == IF SameSources THEN Pass(<<"sources">>, "source_identity")
             ELSE Fail(<<"sources">>, "source_identity")

\* The independent value of a slot for a factor.
FactorValue(e, r, s) ==
  IF s.factor \in ReliableFactors(e, r) /\ ItemOf(e, s.factor).status = "verified"
  THEN IF s.value = "adjustment_percent" THEN ItemOf(e, s.factor).percent
       ELSE ItemOf(e, s.factor).grade
  ELSE NoValue

\* The review went past the inventory: everything the inventory found is still reported.
Admitted ==
  /\ facts.identity = policy.identity /\ ~Duplicates
  /\ {Approval, SourcesKept} \cup {Need(id, "source_purpose") : id \in Violations}
       \cup InventoryFindings \subseteq findings

\* It ended there: with a failure, and with nothing trusted.
Refused ==
  /\ phase = "done" /\ expected = NoSlots /\ slotDone = {} /\ trusted = NoSlots
  /\ \E f \in findings : f.status = "failed"

Blocked == \E f \in findings : f.status # "verified"

\* Context e was judged: it is reported as blocked, or one rule set applied to it, all its
\* findings are reported and its slots have their independent values.
Evaluated(e) ==
  \/ Blocked
  \/ /\ Cardinality(Matching(e)) = 1
     /\ ContextFindings(e, RuleOf(e)) \subseteq findings
     /\ \A s \in Range(policy.slots) :
          ValidSlot(s) /\ s.ctx = e.ctx /\ s.factor # NoValue /\ FactorValue(e, RuleOf(e), s) # NoValue =>
            s.id \in DOMAIN expected

\* Contexts are judged in the order of the policy, ctxDone are the first of them.
ContextsInTurn ==
  /\ phase = "contexts" =>
       /\ IsFiniteSet(ctxDone) /\ Cardinality(ctxDone) <= Len(policy.contexts)
       /\ ctxDone = {policy.contexts[j].ctx : j \in 1..Cardinality(ctxDone)}
       /\ \A j \in 1..Cardinality(ctxDone) : Evaluated(policy.contexts[j])
  /\ phase \in {"slots", "done"} /\ ~Refused => \A e \in Range(policy.contexts) : Evaluated(e)

\* The independent value of a slot for a factor is what its context computes.
ExpectedIsComputed ==
  \A id \in DOMAIN expected :
    /\ id \in ValidSlots /\ expected[id] # NoValue
    /\ SlotOf(id).factor # NoValue =>
         \E e \in Range(policy.contexts) :
           e.ctx = SlotOf(id).ctx /\ expected[id] = FactorValue(e, RuleOf(e), SlotOf(id))

\* A context is said to have no rule set only when none applies to it, and a slot is only
\* said to be verified when what is written in it is the independent value of a factor.
FindingsAreEarned ==
  \A f \in findings :
    /\ f.status \in Statuses
    /\ f.kind = "not_applicable" =>
         \E e \in Range(policy.contexts) : f.id = <<"ctx", e.ctx>> /\ Matching(e) = {}
    /\ \A id \in BoundSlots : f.id = <<"slot", id>> /\ f.status = "verified" =>
         /\ id \in slotDone
         /\ ObservationOf(id).state = "present" /\ SlotOf(id).factor # NoValue /\ id \in DOMAIN expected =>
              ReadAs(ObservationOf(id)) = expected[id]

\* Slots are taken in an order of the graph, and trusted exactly when they pass against
\* what is trusted by now.
SlotsInOrder ==
  /\ slotDone \subseteq Targets /\ DOMAIN trusted \subseteq BoundSlots \cap slotDone
  /\ \A id \in slotDone : InOrder(id)
  /\ \A id \in BoundSlots \cap slotDone : Trusts(id) <=> id \in DOMAIN trusted

PhasesInTurn ==
  /\ phase = "inventory" => findings = {} /\ ctxDone = {} /\ expected = NoSlots
  /\ phase \in {"inventory", "contexts"} => slotDone = {} /\ trusted = NoSlots
  /\ phase # "inventory" => Admitted \/ Refused
  /\ phase = "done" => Refused \/ slotDone = Targets

ReviewInv ==
  /\ PhasesInTurn /\ ContextsInTurn /\ ExpectedIsComputed /\ FindingsAreEarned /\ SlotsInOrder
  /\ TrustIsGrounded /\ ObservationsAreKept /\ ConstraintsHold

CaseInv == CaseTypeOK /\ ReviewInv

\* The case does not change while it is reviewed, and so does nothing that is computed
\* from the case alone.
LEMMA CaseKept ==
  ASSUME input' = input
  PROVE  /\ policy' = policy /\ facts' = facts /\ currentSources' = currentSources
         /\ (\A refs : Resolves(refs)' = Resolves(refs))
         /\ (\A refs : CitationsValid(refs)' = CitationsValid(refs))
         /\ (\A refs, purpose : Allows(refs, purpose)' = Allows(refs, purpose))
         /\ Violations' = Violations
         /\ SameSources' = SameSources /\ Duplicates' = Duplicates
         /\ (\A id : SlotOf(id)' = SlotOf(id) /\ ObservationOf(id)' = ObservationOf(id))
         /\ ValidSlots' = ValidSlots /\ BoundSlots' = BoundSlots
         /\ (\A id : ChecksOn(id)' = ChecksOn(id) /\ InputsOf(id)' = InputsOf(id))
         /\ Targets' = Targets /\ Cyclic' = Cyclic
         /\ (\A c : WellDefined(c)' = WellDefined(c))
<1>1. policy' = policy /\ facts' = facts /\ currentSources' = currentSources
  BY DEF policy, facts, currentSources
<1>2. \A ref : Resolves(ref)' = Resolves(ref)
  BY <1>1 DEF Resolves
<1>3. \A refs : CitationsValid(refs)' = CitationsValid(refs)
  BY <1>2 DEF CitationsValid
<1>4. \A refs, purpose : Allows(refs, purpose)' = Allows(refs, purpose)
  BY <1>1, <1>3 DEF Allows
<1>5. \A role : OfRole(role)' = OfRole(role)
  BY <1>1 DEF OfRole
<1>6. Selected' = Selected
  BY <1>5 DEF Selected
<1>7. Violations' = Violations
  BY <1>1, <1>4, <1>5, <1>6 DEF Violations
<1>8. SameSources' = SameSources
  BY <1>1 DEF SameSources
<1>9. ContextIds' = ContextIds /\ SlotIds' = SlotIds
  BY <1>1 DEF ContextIds, SlotIds
<1>10. Duplicates' = Duplicates
  BY <1>1, <1>9 DEF Duplicates
<1>11. \A id : SlotOf(id)' = SlotOf(id) /\ ObservationOf(id)' = ObservationOf(id)
  BY <1>1 DEF SlotOf, ObservationOf
<1>12. \A s : ValidSlot(s)' = ValidSlot(s)
  BY <1>1 DEF ValidSlot
<1>13. ValidSlots' = ValidSlots
  BY <1>1, <1>12 DEF ValidSlots
<1>14. \A id : Observed(id)' = Observed(id)
  BY <1>1 DEF Observed
<1>15. \A id : Binds(id)' = Binds(id)
  BY <1>3, <1>11, <1>14 DEF Binds
<1>16. BoundSlots' = BoundSlots
  BY <1>13, <1>15 DEF BoundSlots
<1>17. \A id : ChecksOn(id)' = ChecksOn(id)
  BY <1>1 DEF ChecksOn
<1>18. \A id : InputsOf(id)' = InputsOf(id)
  BY <1>17 DEF InputsOf
<1>19. Targets' = Targets
  BY <1>1, <1>13 DEF Targets
<1>20. Cyclic' = Cyclic
  BY <1>18, <1>19 DEF Cyclic
<1>21. \A c : WellDefined(c)' = WellDefined(c)
  BY <1>3, <1>13 DEF WellDefined
<1> QED
  BY <1>1, <1>2, <1>3, <1>4, <1>7, <1>8, <1>10, <1>11, <1>13, <1>16, <1>17, <1>18, <1>19, <1>20, <1>21

LEMMA ContextsKept ==
  ASSUME input' = input
  PROVE  /\ InventoryFindings' = InventoryFindings
         /\ Approval' = Approval /\ SourcesKept' = SourcesKept
         /\ (\A e : Matching(e)' = Matching(e) /\ RuleOf(e)' = RuleOf(e))
         /\ (\A e, r : ContextFindings(e, r)' = ContextFindings(e, r))
         /\ (\A e, r, s : FactorValue(e, r, s)' = FactorValue(e, r, s))
         /\ (\A s : ValidSlot(s)' = ValidSlot(s))
<1>1. /\ policy' = policy /\ facts' = facts /\ currentSources' = currentSources
      /\ input.authorized' = input.authorized /\ SameSources' = SameSources
      /\ ValidSlots' = ValidSlots /\ BoundSlots' = BoundSlots
      /\ \A refs : CitationsValid(refs)' = CitationsValid(refs)
  BY CaseKept
<1>2. \A s : ValidSlot(s)' = ValidSlot(s)
  BY <1>1 DEF ValidSlot
<1>3. ContextIds' = ContextIds /\ SlotIds' = SlotIds
  BY <1>1 DEF ContextIds, SlotIds
<1>4. InventoryFindings' = InventoryFindings
  <2>1. {Fail(<<"slot", s.id>>, "slot_binding") : s \in {s \in Range(policy.slots) : ~ValidSlot(s)}}'
        = {Fail(<<"slot", s.id>>, "slot_binding") : s \in {s \in Range(policy.slots) : ~ValidSlot(s)}}
    BY <1>1, <1>2
  <2>2. {Need(<<"slot", id>>, "observed_source_binding") : id \in ValidSlots \ BoundSlots}'
        = {Need(<<"slot", id>>, "observed_source_binding") : id \in ValidSlots \ BoundSlots}
    BY <1>1
  <2> QED
    BY <1>1, <1>3, <2>1, <2>2, Zenon DEF InventoryFindings
<1>5. Approval' = Approval /\ SourcesKept' = SourcesKept
  BY <1>1 DEF Approval, SourcesKept
<1>6. \A r, e : Applies(r, e)' = Applies(r, e)
  BY <1>1 DEF Applies
<1>7. \A e : Matching(e)' = Matching(e)
  BY <1>1, <1>6 DEF Matching
<1>8. \A e : RuleOf(e)' = RuleOf(e)
  BY <1>1, <1>7 DEF RuleOf
<1>9. \A side, digest : SideReliable(side, digest)' = SideReliable(side, digest)
  BY <1>1 DEF SideReliable
<1>10. \A p : PairReliable(p)' = PairReliable(p)
  BY <1>9 DEF PairReliable
<1>11. \A e : PairsOf(e)' = PairsOf(e)
  BY <1>1 DEF PairsOf
<1>12. \A e, f : PairOf(e, f)' = PairOf(e, f) /\ ItemOf(e, f)' = ItemOf(e, f)
  BY <1>11 DEF PairOf, ItemOf
<1>13. \A e, r : Available(e, r)' = Available(e, r)
  BY <1>11 DEF Available
<1>14. \A e, r : ReliableFactors(e, r)' = ReliableFactors(e, r)
  BY <1>10, <1>12, <1>13 DEF ReliableFactors
<1>15. \A e, r : Calculation(e, r)' = Calculation(e, r)
  BY <1>12, <1>14 DEF Calculation
<1>16. \A e, r : ContextFindings(e, r)' = ContextFindings(e, r)
  <2> TAKE e, r
  <2>1. /\ PairsOf(e)' = PairsOf(e) /\ Available(e, r)' = Available(e, r)
        /\ ReliableFactors(e, r)' = ReliableFactors(e, r) /\ Calculation(e, r)' = Calculation(e, r)
    BY <1>11, <1>13, <1>14, <1>15
  <2>2. {Finding(<<"factor", e.ctx, f>>, "factor", ItemOf(e, f).status) : f \in ReliableFactors(e, r)}'
        = {Finding(<<"factor", e.ctx, f>>, "factor", ItemOf(e, f).status) : f \in ReliableFactors(e, r)}
    BY <1>12, <2>1
  <2> QED
    BY <2>1, <2>2, Zenon DEF ContextFindings
<1>17. \A e, r, s : FactorValue(e, r, s)' = FactorValue(e, r, s)
  BY <1>12, <1>14 DEF FactorValue
<1> QED
  BY <1>2, <1>4, <1>5, <1>7, <1>8, <1>16, <1>17

\* Sequences of the case are indexed from 1, and their elements are those of their range.
LEMMA CaseLists ==
  ASSUME input \in Inputs
  PROVE  /\ Len(policy.contexts) \in Nat /\ Len(policy.ruleSets) \in Nat /\ Len(policy.slots) \in Nat
         /\ Range(policy.contexts) = {policy.contexts[j] : j \in 1..Len(policy.contexts)}
         /\ Range(policy.ruleSets) = {policy.ruleSets[j] : j \in 1..Len(policy.ruleSets)}
         /\ Range(policy.slots) = {policy.slots[j] : j \in 1..Len(policy.slots)}
         /\ Range(ContextIds) = {e.ctx : e \in Range(policy.contexts)}
         /\ \A c \in Range(policy.checks) :
              Len(c.inputs) \in Nat /\ Range(c.inputs) = {c.inputs[j] : j \in 1..Len(c.inputs)}
<1>1. /\ policy.contexts \in Seq(Range(policy.contexts)) /\ policy.ruleSets \in Seq(Range(policy.ruleSets))
      /\ policy.slots \in Seq(Range(policy.slots))
      /\ \A c \in Range(policy.checks) : c.inputs \in Seq(Range(c.inputs))
  BY InputsAssumption DEF policy
<1>2. ASSUME NEW s, s \in Seq(Range(s))
      PROVE  Len(s) \in Nat /\ Range(s) = {s[j] : j \in 1..Len(s)}
  <2>1. DOMAIN s = 1..Len(s) /\ Len(s) \in Nat
    BY <1>2
  <2> QED
    BY <2>1 DEF Range
<1>3. /\ Len(policy.contexts) \in Nat /\ Len(policy.ruleSets) \in Nat /\ Len(policy.slots) \in Nat
      /\ Range(policy.contexts) = {policy.contexts[j] : j \in 1..Len(policy.contexts)}
      /\ Range(policy.ruleSets) = {policy.ruleSets[j] : j \in 1..Len(policy.ruleSets)}
      /\ Range(policy.slots) = {policy.slots[j] : j \in 1..Len(policy.slots)}
  BY <1>1, <1>2
<1>4. Range(ContextIds) = {e.ctx : e \in Range(policy.contexts)}
  <2>1. DOMAIN ContextIds = 1..Len(policy.contexts)
    BY DEF ContextIds
  <2>2. \A j \in 1..Len(policy.contexts) : ContextIds[j] = policy.contexts[j].ctx
    BY DEF ContextIds
  <2>3. Range(ContextIds) = {ContextIds[j] : j \in 1..Len(policy.contexts)}
    BY <2>1 DEF Range
  <2> QED
    BY <2>2, <2>3, <1>3
<1> QED
  BY <1>1, <1>2, <1>3, <1>4

\* Without duplicates a context has one entry and a slot has one definition.
LEMMA NoDuplicates ==
  ASSUME input \in Inputs, ~Duplicates
  PROVE  /\ \A i, j \in 1..Len(policy.contexts) : policy.contexts[i].ctx = policy.contexts[j].ctx => i = j
         /\ \A e, g \in Range(policy.contexts) : e.ctx = g.ctx => e = g
         /\ \A s \in Range(policy.slots) : SlotOf(s.id) = s
<1>1. Distinct(ContextIds) /\ Distinct(SlotIds)
  BY DEF Duplicates
<1>2. \A i, j \in 1..Len(policy.contexts) : policy.contexts[i].ctx = policy.contexts[j].ctx => i = j
  <2>1. DOMAIN ContextIds = 1..Len(policy.contexts)
    BY DEF ContextIds
  <2>2. \A j \in 1..Len(policy.contexts) : ContextIds[j] = policy.contexts[j].ctx
    BY DEF ContextIds
  <2> QED
    BY <1>1, <2>1, <2>2 DEF Distinct, IsInjective
<1>3. \A i, j \in 1..Len(policy.slots) : policy.slots[i].id = policy.slots[j].id => i = j
  <2>1. DOMAIN SlotIds = 1..Len(policy.slots)
    BY DEF SlotIds
  <2>2. \A j \in 1..Len(policy.slots) : SlotIds[j] = policy.slots[j].id
    BY DEF SlotIds
  <2> QED
    BY <1>1, <2>1, <2>2 DEF Distinct, IsInjective
<1>4. \A e, g \in Range(policy.contexts) : e.ctx = g.ctx => e = g
  BY <1>2, CaseLists
<1>5. \A s \in Range(policy.slots) : SlotOf(s.id) = s
  <2> TAKE s \in Range(policy.slots)
  <2>1. \A t \in Range(policy.slots) : t.id = s.id => t = s
    BY <1>3, CaseLists
  <2> QED
    BY <2>1 DEF SlotOf
<1> QED
  BY <1>2, <1>4, <1>5

\* What a valid and what a bound slot is.
LEMMA SlotFacts ==
  ASSUME input \in Inputs, ~Duplicates, NEW id \in ValidSlots
  PROVE  /\ SlotOf(id) \in Range(policy.slots) /\ SlotOf(id).id = id /\ ValidSlot(SlotOf(id))
         /\ id \in Targets
<1>1. PICK s \in Range(policy.slots) : ValidSlot(s) /\ s.id = id
  BY DEF ValidSlots
<1>2. SlotOf(id) = s
  BY <1>1, NoDuplicates
<1> QED
  BY <1>1, <1>2 DEF Targets

\* What is judged of a slot depends on the numbers its checks take, and on no other.
LEMMA JudgedFromInputs ==
  ASSUME input \in Inputs, input' = input, expected' = expected, SourceTrust' = SourceTrust, NEW id,
         Cyclic \/ \A x \in InputsOf(id) :
                      /\ x \in DOMAIN trusted' <=> x \in DOMAIN trusted
                      /\ x \in DOMAIN trusted => trusted'[x] = trusted[x]
  PROVE  Judged(id)' = Judged(id) /\ Trusts(id)' = Trusts(id)
<1>1. /\ SlotOf(id)' = SlotOf(id) /\ ObservationOf(id)' = ObservationOf(id)
      /\ ChecksOn(id)' = ChecksOn(id) /\ BoundSlots' = BoundSlots /\ Cyclic' = Cyclic
      /\ \A c : WellDefined(c)' = WellDefined(c)
  BY CaseKept
<1>2. Independent(id)' = Independent(id)
  BY DEF Independent
<1>3. \A c \in ChecksOn(id) : Range(c.inputs) \subseteq InputsOf(id) /\ c \in Range(policy.checks)
  BY DEF InputsOf, ChecksOn
<1>4. \A c \in ChecksOn(id) : Comparable(c)' = Comparable(c)
  BY <1>1, <1>3 DEF Comparable
<1>5. \A c \in ChecksOn(id) : Comparable(c) => CheckedValue(c)' = CheckedValue(c)
  <2> TAKE c \in ChecksOn(id)
  <2> HAVE Comparable(c)
  <2>1. ~Cyclic /\ Range(c.inputs) \subseteq DOMAIN trusted
    BY DEF Comparable
  <2>2. \A i \in 1..Len(c.inputs) : c.inputs[i] \in Range(c.inputs)
    BY <1>3, CaseLists
  <2>3. [i \in 1..Len(c.inputs) |->
           IF c.inputs[i] \in DOMAIN trusted THEN trusted[c.inputs[i]] ELSE expected[c.inputs[i]]]'
        = [i \in 1..Len(c.inputs) |->
           IF c.inputs[i] \in DOMAIN trusted THEN trusted[c.inputs[i]] ELSE expected[c.inputs[i]]]
    BY <1>3, <2>1, <2>2
  <2> QED
    BY <2>3, Zenon DEF CheckedValue
<1> DEFINE cons == {c \in ChecksOn(id) : Comparable(c)}
<1>6. cons' = cons
  BY <1>1, <1>4
<1>7. \A c \in cons : CheckedValue(c)' = CheckedValue(c)
  BY <1>5
<1> HIDE DEF cons
<1>8. \A ind : FillOf(ind, cons)' = FillOf(ind, cons)
  <2>1. {CheckedValue(c) : c \in cons}' = {CheckedValue(c) : c \in cons}
    BY <1>6, <1>7
  <2> QED
    BY <2>1 DEF FillOf
<1>9. \A s, o, ind, candidate : Agrees(s, o, ind, cons, candidate)' = Agrees(s, o, ind, cons, candidate)
  BY <1>6, <1>7 DEF Agrees, Matches
<1>10. \A s, o, ind, ready : ValidateSlot(s, o, ind, cons, ready)' = ValidateSlot(s, o, ind, cons, ready)
  <2> TAKE s, o, ind, ready
  <2>1. FillOf(ind, cons)' = FillOf(ind, cons) /\ SourceTrust' = SourceTrust /\ cons' = cons
    BY <1>6, <1>8
  <2>2. \A candidate : Agrees(s, o, ind, cons, candidate)' = Agrees(s, o, ind, cons, candidate)
    BY <1>9
  <2> QED
    BY <2>1, <2>2, SMTT(60) DEF ValidateSlot
<1>11. Judged(id) = ValidateSlot(SlotOf(id), ObservationOf(id), Independent(id), cons, cons = ChecksOn(id))
  BY DEF Judged, cons
<1>12. Judged(id)' = ValidateSlot(SlotOf(id), ObservationOf(id), Independent(id), cons, cons = ChecksOn(id))'
  BY DEF Judged, cons
<1>13. Judged(id)' = Judged(id)
  BY <1>1, <1>2, <1>6, <1>10, <1>11, <1>12
<1> QED
  BY <1>1, <1>13 DEF Trusts

\* A slot passes only when every check on it could be calculated, and its candidate, the
\* reading or the one value left for a blank, agrees with all of them.
LEMMA PassedSlot ==
  ASSUME NEW id, Judged(id).status = "verified"
  PROVE  LET s == SlotOf(id)
             o == ObservationOf(id)
             want == FillOf(Independent(id), ChecksOn(id))
             candidate == Judged(id).candidate
         IN  /\ \A c \in ChecksOn(id) : Comparable(c)
             /\ SourceTrust
             /\ o.state \in {"present", "blank"}
             /\ o.state = "present" => candidate = ObservedCandidate(s, o)
             /\ o.state = "blank" => s.derivable /\ candidate = want
             /\ candidate # NoValue
             /\ want # NoValue \/ ChecksOn(id) # {}
             /\ Agrees(s, o, Independent(id), ChecksOn(id), candidate)
<1> DEFINE s == SlotOf(id)
           o == ObservationOf(id)
           ind == Independent(id)
           cons == {c \in ChecksOn(id) : Comparable(c)}
           want == FillOf(ind, cons)
           candidate == IF o.state = "present" THEN ObservedCandidate(s, o) ELSE want
           ready == cons = ChecksOn(id)
           V == Slot(IF Agrees(s, o, ind, cons, candidate) THEN "verified" ELSE "failed",
                     IF o.state = "blank" THEN "derivable_blank" ELSE "observed_comparison", candidate)
<1>1. Judged(id) = ValidateSlot(s, o, ind, cons, ready)
  BY DEF Judged
<1>2. \A kind, c : Slot("needs_review", kind, c).status # "verified"
  BY DEF Slot
<1> HIDE DEF s, o, ind, cons, ready
<1>3. /\ ready /\ SourceTrust /\ o.state \in {"present", "blank"}
      /\ o.state = "blank" => s.derivable
      /\ candidate # NoValue /\ ~(want = NoValue /\ cons = {})
      /\ ValidateSlot(s, o, ind, cons, ready) = V
  <2> HIDE DEF V, candidate, want
  <2>1. CASE o.state \notin {"present", "blank"}
    BY <2>1, <1>1, <1>2 DEF ValidateSlot
  <2>2. CASE o.state = "blank" /\ o.text
    BY <2>2, <1>1, <1>2 DEF ValidateSlot
  <2>3. CASE o.state = "blank" /\ ~o.text /\ ~s.derivable
    BY <2>3, <1>1, <1>2 DEF ValidateSlot
  <2>4. CASE o.state = "present" /\ candidate = NoValue
    BY <2>4, <1>1, <1>2 DEF ValidateSlot, candidate
  <2>5. CASE /\ o.state \in {"present", "blank"} /\ ~(o.state = "blank" /\ (o.text \/ ~s.derivable))
             /\ ~(o.state = "present" /\ candidate = NoValue)
    <3>1. ValidateSlot(s, o, ind, cons, ready)
          = IF ~ready THEN Slot("needs_review", "arithmetic_dependency", candidate)
            ELSE IF ~SourceTrust THEN Slot("needs_review", "observed_unresolved", candidate)
            ELSE IF candidate = NoValue \/ (want = NoValue /\ cons = {})
            THEN Slot("needs_review", "observed_missing", candidate)
            ELSE V
      BY <2>5 DEF ValidateSlot, V, candidate, want
    <3> QED
      BY <3>1, <2>5, <1>1, <1>2
  <2> QED
    BY <2>1, <2>2, <2>3, <2>4, <2>5
<1>4. /\ Judged(id).status = (IF Agrees(s, o, ind, cons, candidate) THEN "verified" ELSE "failed")
      /\ Judged(id).candidate = candidate
  <2> HIDE DEF candidate
  <2>1. Judged(id) = V
    BY <1>1, <1>3
  <2> QED
    BY <2>1 DEF Slot
<1>5. cons = ChecksOn(id)
  BY <1>3 DEF ready
<1> USE DEF candidate, want
<1> HIDE DEF V
<1>6. Agrees(s, o, ind, cons, candidate)
  BY <1>4
<1>7. \A c \in ChecksOn(id) : Comparable(c)
  BY <1>5 DEF cons
<1> QED
  BY <1>3, <1>4, <1>5, <1>6, <1>7 DEF s, o, ind

\* A review of which nothing is trusted yet.
LEMMA NothingTrusted ==
  ASSUME input \in Inputs, trusted = NoSlots, slotDone = {}
  PROVE  TrustIsGrounded /\ ObservationsAreKept /\ ConstraintsHold /\ SlotsInOrder
<1>1. DOMAIN trusted = {}
  BY DEF NoSlots
<1>2. TrustIsGrounded
  BY <1>1 DEF TrustIsGrounded
<1>3. ObservationsAreKept /\ ConstraintsHold
  BY <1>1 DEF ObservationsAreKept, ConstraintsHold
<1>4. SlotsInOrder
  BY <1>1 DEF SlotsInOrder
<1> QED
  BY <1>2, <1>3, <1>4

LEMMA NothingTrustedNext ==
  ASSUME trusted' = NoSlots, slotDone' = {}
  PROVE  (TrustIsGrounded /\ ObservationsAreKept /\ ConstraintsHold /\ SlotsInOrder)'
<1>1. DOMAIN trusted' = {}
  BY DEF NoSlots
<1>2. TrustIsGrounded'
  BY <1>1 DEF TrustIsGrounded
<1>3. (ObservationsAreKept /\ ConstraintsHold)'
  BY <1>1 DEF ObservationsAreKept, ConstraintsHold
<1>4. SlotsInOrder'
  BY <1>1 DEF SlotsInOrder
<1> QED
  BY <1>2, <1>3, <1>4

LEMMA CaseStarts == CaseInit => CaseInv
<1> SUFFICES ASSUME CaseInit PROVE CaseInv
  OBVIOUS
<1> USE DEF CaseInit
<1>1. DOMAIN expected = {} /\ DOMAIN trusted = {}
  BY DEF NoSlots
<1>2. CaseTypeOK
  BY <1>1 DEF CaseTypeOK
<1>3. TrustIsGrounded /\ ObservationsAreKept /\ ConstraintsHold /\ SlotsInOrder
  BY NothingTrusted
<1>4. PhasesInTurn
  BY DEF PhasesInTurn
<1>5. ContextsInTurn
  BY DEF ContextsInTurn
<1>6. ExpectedIsComputed
  BY <1>1 DEF ExpectedIsComputed
<1>7. FindingsAreEarned
  BY DEF FindingsAreEarned
<1> QED
  BY <1>2, <1>3, <1>4, <1>5, <1>6, <1>7 DEF CaseInv, ReviewInv

\* Names of one thing are not names of another.
LEMMA DistinctIds ==
  /\ \A x : <<"trust">> # <<"slot", x>> /\ <<"sources">> # <<"slot", x>> /\ <<"inventory">> # <<"slot", x>>
  /\ \A x, y : /\ <<"ctx", x>> # <<"slot", y>> /\ <<"check", x>> # <<"slot", y>>
               /\ <<"ctx", x>> = <<"ctx", y>> => x = y
               /\ <<"slot", x>> = <<"slot", y>> => x = y
               /\ <<"check", x>> \notin {<<"sources">>, <<"trust">>}
               /\ <<"slot", x>> \notin {<<"sources">>, <<"trust">>}
  /\ \A x, y, z : <<"factor", x, y>> # <<"slot", z>>
OBVIOUS

\* What the inventory reports: never that no rule applies, and nothing verified of a slot.
LEMMA InventoryKinds ==
  /\ \A f \in InventoryFindings : /\ f.status \in Statuses /\ f.kind # "not_applicable"
                                  /\ f.status = "verified" => f.id = <<"inventory">>
  /\ \A id : LET f == Need(id, "source_purpose")
             IN  f.status = "needs_review" /\ f.kind # "not_applicable"
  /\ \A f \in {Approval, SourcesKept} : /\ f.status \in Statuses /\ f.kind # "not_applicable"
                                        /\ f.id \in {<<"trust">>, <<"sources">>}
<1> USE DEF Statuses, Need, Fail, Pass, Finding
<1>1. \A f \in InventoryFindings : /\ f.status \in Statuses /\ f.kind # "not_applicable"
                                   /\ f.status = "verified" => f.id = <<"inventory">>
  BY DEF InventoryFindings, If
<1>2. \A id : LET f == Need(id, "source_purpose")
              IN  f.status = "needs_review" /\ f.kind # "not_applicable"
  OBVIOUS
<1>3. \A f \in {Approval, SourcesKept} : /\ f.status \in Statuses /\ f.kind # "not_applicable"
                                         /\ f.id \in {<<"trust">>, <<"sources">>}
  BY DEF Approval, SourcesKept
<1> QED
  BY <1>1, <1>2, <1>3

LEMMA CheckInventoryKeeps == CaseInv /\ CheckInventory => CaseInv'
<1> SUFFICES ASSUME CaseInv, CheckInventory PROVE CaseInv'
  OBVIOUS
<1>1. /\ phase = "inventory" /\ UNCHANGED <<input, ctxDone, expected, slotDone, trusted>>
      /\ input \in Inputs
  BY DEF CheckInventory, CaseInv, CaseTypeOK
<1>2. /\ findings = {} /\ ctxDone = {} /\ expected = NoSlots /\ slotDone = {} /\ trusted = NoSlots
  BY <1>1 DEF CaseInv, ReviewInv, PhasesInTurn
<1>3. (TrustIsGrounded /\ ObservationsAreKept /\ ConstraintsHold /\ SlotsInOrder)'
  BY <1>1, <1>2, NothingTrustedNext
<1>4. DOMAIN expected' = {} /\ DOMAIN trusted' = {}
  BY <1>1, <1>2 DEF NoSlots
<1>5. ExpectedIsComputed'
  BY <1>4 DEF ExpectedIsComputed
<1> DEFINE purpose == {Need(id, "source_purpose") : id \in Violations}
<1>6. \/ /\ phase' = "done" /\ findings' = {Fail(<<"trust">>, "case_identity")}
      \/ /\ phase' = "done"
         /\ findings' = {Approval, SourcesKept, Fail(<<"inventory">>, "duplicate_identity")} \cup purpose
      \/ /\ phase' = "contexts" /\ facts.identity = policy.identity /\ ~Duplicates
         /\ findings' = {Approval, SourcesKept} \cup purpose \cup InventoryFindings
  BY DEF CheckInventory, Approval, SourcesKept
<1>7. \A id : \A k \in {"case_identity", "duplicate_identity"} :
        Fail(id, k).status = "failed" /\ Fail(id, k).kind = k /\ Fail(id, k).kind # "not_applicable"
  BY DEF Fail, Finding
<1>8. \A f \in findings' : /\ f.status \in Statuses /\ f.kind # "not_applicable"
                           /\ f.status = "verified" => f.id \in {<<"trust">>, <<"sources">>, <<"inventory">>}
  BY <1>6, <1>7, InventoryKinds DEF Statuses
<1>9. FindingsAreEarned'
  BY <1>8, DistinctIds DEF FindingsAreEarned
<1>10. CASE phase' = "done" /\ \E f \in findings' : f.status = "failed"
  <2>1. Refused'
    BY <1>1, <1>2, <1>10 DEF Refused
  <2>2. PhasesInTurn'
    BY <1>10, <2>1 DEF PhasesInTurn
  <2>3. ContextsInTurn'
    BY <1>10, <2>1 DEF ContextsInTurn
  <2>4. CaseTypeOK'
    BY <1>1, <1>2, <1>4, <1>8, <1>10 DEF CaseTypeOK
  <2> QED
    BY <1>3, <1>5, <1>9, <2>2, <2>3, <2>4 DEF CaseInv, ReviewInv
<1>11. CASE /\ phase' = "contexts" /\ facts.identity = policy.identity /\ ~Duplicates
            /\ findings' = {Approval, SourcesKept} \cup purpose \cup InventoryFindings
  <2>1. /\ facts' = facts /\ policy' = policy /\ Duplicates' = Duplicates /\ Violations' = Violations
        /\ Approval' = Approval /\ SourcesKept' = SourcesKept /\ InventoryFindings' = InventoryFindings
    BY <1>1, CaseKept, ContextsKept
  <2>2. Admitted'
    BY <2>1, <1>11 DEF Admitted
  <2>3. PhasesInTurn'
    BY <1>1, <1>2, <1>11, <2>2 DEF PhasesInTurn
  <2>4. IsFiniteSet(ctxDone') /\ Cardinality(ctxDone') = 0 /\ 1..0 = {}
    BY <1>1, <1>2, FS_EmptySet
  <2>5. Len(policy.contexts) \in Nat
    BY <1>1, CaseLists
  <2>6. ContextsInTurn'
    BY <1>1, <1>2, <1>11, <2>1, <2>4, <2>5 DEF ContextsInTurn
  <2>7. CaseTypeOK'
    BY <1>1, <1>2, <1>4, <1>8, <1>11 DEF CaseTypeOK
  <2> QED
    BY <1>3, <1>5, <1>9, <2>3, <2>6, <2>7 DEF CaseInv, ReviewInv
<1> QED
  BY <1>6, <1>7, <1>10, <1>11

\* The pair a factor is computed from.
LEMMA PairFacts ==
  ASSUME input \in Inputs, NEW e, NEW r, NEW f \in Available(e, r)
  PROVE  /\ PairOf(e, f) \in PairsOf(e) /\ PairOf(e, f) \in Range(facts.pairs)
         /\ PairOf(e, f).ctx = e.ctx /\ PairOf(e, f).factor = f
         /\ ItemOf(e, f).status \in Statuses
         /\ ItemOf(e, f).status = "verified" =>
              ItemOf(e, f).grade # NoValue /\ ItemOf(e, f).percent # NoValue
<1>1. \E p \in PairsOf(e) : p.factor = f
  BY DEF Available
<1>2. PairOf(e, f) \in PairsOf(e) /\ PairOf(e, f).factor = f
  BY <1>1 DEF PairOf
<1>3. PairOf(e, f) \in Range(facts.pairs) /\ PairOf(e, f).ctx = e.ctx
  BY <1>2 DEF PairsOf
<1>4. \A p \in Range(facts.pairs) :
        /\ p.outcome.status \in Statuses
        /\ p.outcome.status = "verified" => p.outcome.grade # NoValue /\ p.outcome.percent # NoValue
  BY InputsAssumption DEF facts
<1> QED
  BY <1>2, <1>3, <1>4 DEF ItemOf

\* What is reported of a context that was calculated.
LEMMA ContextKinds ==
  ASSUME input \in Inputs, NEW e, NEW r, NEW f \in ContextFindings(e, r)
  PROVE  /\ f.status \in Statuses /\ f.kind # "not_applicable"
         /\ \A x : f.id # <<"slot", x>>
<1>1. Calculation(e, r) \in Statuses
  BY DEF Calculation, Worst, Statuses
<1>2. \A g \in ReliableFactors(e, r) : ItemOf(e, g).status \in Statuses
  BY PairFacts DEF ReliableFactors
<1>3. \/ \E k \in {"rule_coverage", "calculation"}, s \in Statuses : f = Finding(<<"ctx", e.ctx>>, k, s)
      \/ f = Fail(<<"ctx", e.ctx>>, "unknown_factor")
      \/ \E g : \E k \in {"missing_factor", "evidence_reliability", "factor"}, s \in Statuses :
            f = Finding(<<"factor", e.ctx, g>>, k, s)
  BY <1>1, <1>2 DEF ContextFindings, If, Need, Statuses
<1> QED
  BY <1>3, DistinctIds DEF Finding, Fail, Statuses

\* The independent value of a slot for a factor.
LEMMA ExpectedOfFactor ==
  \A e, r, s : s.factor # NoValue => Expected(e, r, s) = FactorValue(e, r, s)
BY DEF Expected, FactorValue

\* What was evaluated stays evaluated.
LEMMA EvaluatedKept ==
  ASSUME input' = input, findings \subseteq findings', DOMAIN expected \subseteq DOMAIN expected',
         NEW e, Evaluated(e)
  PROVE  Evaluated(e)'
<1>1. Blocked => Blocked'
  BY DEF Blocked
<1>2. /\ Matching(e)' = Matching(e) /\ RuleOf(e)' = RuleOf(e) /\ policy' = policy
      /\ ContextFindings(e, RuleOf(e))' = ContextFindings(e, RuleOf(e))
      /\ \A s : ValidSlot(s)' = ValidSlot(s)
      /\ \A s : FactorValue(e, RuleOf(e), s)' = FactorValue(e, RuleOf(e), s)
  BY CaseKept, ContextsKept
<1> QED
  BY <1>1, <1>2 DEF Evaluated

LEMMA AdmittedKept ==
  ASSUME input' = input, findings \subseteq findings', Admitted
  PROVE  Admitted'
<1>1. /\ facts' = facts /\ policy' = policy /\ Duplicates' = Duplicates /\ Violations' = Violations
      /\ Approval' = Approval /\ SourcesKept' = SourcesKept /\ InventoryFindings' = InventoryFindings
  BY CaseKept, ContextsKept
<1> QED
  BY <1>1 DEF Admitted

\* One context is evaluated: what is reported, and which independent values it adds.
LEMMA ContextStep ==
  ASSUME CaseInv, NEW i \in 1..Len(policy.contexts), EvaluateContext(i)
  PROVE  LET e == policy.contexts[i]
         IN  /\ findings \subseteq findings' /\ DOMAIN expected \subseteq DOMAIN expected'
             /\ \A f \in findings' \ findings :
                  /\ f.status \in Statuses /\ \A x : f.id # <<"slot", x>>
                  /\ f.kind = "not_applicable" => f.id = <<"ctx", e.ctx>> /\ Matching(e) = {}
             /\ Evaluated(e)'
             /\ ExpectedIsComputed'
<1> DEFINE e == policy.contexts[i]
           r == RuleOf(e)
           key == <<"ctx", e.ctx>>
           slots == {s \in Range(policy.slots) : ValidSlot(s) /\ s.ctx = e.ctx /\ Expected(e, r, s) # NoValue}
<1>1. /\ input \in Inputs /\ input' = input /\ phase = "contexts" /\ Admitted /\ ~Duplicates
      /\ ExpectedIsComputed /\ e \in Range(policy.contexts)
  <2>1. input \in Inputs /\ input' = input /\ phase = "contexts" /\ ExpectedIsComputed
    BY DEF EvaluateContext, CaseInv, CaseTypeOK, ReviewInv
  <2>2. Admitted
    BY <2>1 DEF CaseInv, ReviewInv, PhasesInTurn, Refused
  <2>3. e \in Range(policy.contexts)
    BY <2>1, CaseLists
  <2> QED
    BY <2>1, <2>2, <2>3 DEF Admitted
<1>2. /\ policy' = policy /\ ValidSlots' = ValidSlots /\ Matching(e)' = Matching(e)
      /\ \A id : SlotOf(id)' = SlotOf(id)
      /\ \A g : RuleOf(g)' = RuleOf(g)
      /\ \A s : ValidSlot(s)' = ValidSlot(s)
      /\ \A g, q, s : FactorValue(g, q, s)' = FactorValue(g, q, s)
      /\ \A g, q : ContextFindings(g, q)' = ContextFindings(g, q)
  BY <1>1, CaseKept, ContextsKept
<1>3. \/ \E f : /\ findings' = findings \cup {f} /\ expected' = expected
                /\ f.id = key /\ f.status \in {"needs_review", "failed"}
                /\ f.kind = "not_applicable" => Matching(e) = {}
      \/ /\ Cardinality(Matching(e)) = 1 /\ findings' = findings \cup ContextFindings(e, r)
         /\ expected' = [id \in DOMAIN expected \cup {s.id : s \in slots} |->
               IF id \in DOMAIN expected THEN expected[id] ELSE Expected(e, r, SlotOf(id))]
  <2>1. CASE Cardinality(Matching(e)) # 1
    <3> DEFINE f == Need(key, IF Matching(e) = {} THEN "not_applicable" ELSE "selection_conflict")
    <3>1. findings' = findings \cup {f} /\ expected' = expected
      BY <2>1, Zenon DEF EvaluateContext
    <3>2. /\ f.id = key /\ f.status \in {"needs_review", "failed"}
          /\ f.kind = "not_applicable" => Matching(e) = {}
      BY DEF Need, Finding
    <3> QED
      BY <3>1, <3>2
  <2>2. CASE Cardinality(Matching(e)) = 1 /\ ~RuleSourceValid(r, e)
    <3>1. findings' = findings \cup {Need(key, "rule_source")} /\ expected' = expected
      BY <2>2, Zenon DEF EvaluateContext, RuleOf
    <3>2. LET f == Need(key, "rule_source")
          IN  f.id = key /\ f.status = "needs_review" /\ f.kind # "not_applicable"
      BY DEF Need, Finding
    <3> QED
      BY <3>1, <3>2
  <2>3. CASE Cardinality(Matching(e)) = 1 /\ RuleSourceValid(r, e) /\ ~Distinct(e.factors)
    <3>1. findings' = findings \cup {Fail(key, "duplicate_factor")} /\ expected' = expected
      BY <2>3, Zenon DEF EvaluateContext, RuleOf
    <3>2. LET f == Fail(key, "duplicate_factor")
          IN  f.id = key /\ f.status = "failed" /\ f.kind # "not_applicable"
      BY DEF Fail, Finding
    <3> QED
      BY <3>1, <3>2
  <2>4. CASE Cardinality(Matching(e)) = 1 /\ RuleSourceValid(r, e) /\ Distinct(e.factors)
    BY <2>4, Zenon DEF EvaluateContext, RuleOf
  <2> QED
    BY <2>1, <2>2, <2>3, <2>4
<1>4. CASE \E f : /\ findings' = findings \cup {f} /\ expected' = expected
                  /\ f.id = key /\ f.status \in {"needs_review", "failed"}
                  /\ f.kind = "not_applicable" => Matching(e) = {}
  <2>1. PICK f : /\ findings' = findings \cup {f} /\ expected' = expected
                 /\ f.id = key /\ f.status \in {"needs_review", "failed"}
                 /\ f.kind = "not_applicable" => Matching(e) = {}
    BY <1>4
  <2>2. Evaluated(e)'
    BY <2>1 DEF Evaluated, Blocked
  <2>3. ExpectedIsComputed'
    BY <1>1, <1>2, <2>1 DEF ExpectedIsComputed
  <2> QED
    BY <2>1, <2>2, <2>3, DistinctIds DEF Statuses
<1>5. CASE /\ Cardinality(Matching(e)) = 1 /\ findings' = findings \cup ContextFindings(e, r)
           /\ expected' = [id \in DOMAIN expected \cup {s.id : s \in slots} |->
               IF id \in DOMAIN expected THEN expected[id] ELSE Expected(e, r, SlotOf(id))]
  <2>1. /\ DOMAIN expected' = DOMAIN expected \cup {s.id : s \in slots}
        /\ \A id \in DOMAIN expected : expected'[id] = expected[id]
        /\ \A id \in {s.id : s \in slots} \ DOMAIN expected : expected'[id] = Expected(e, r, SlotOf(id))
    BY <1>5
  <2>2. Evaluated(e)'
    <3>1. \A s \in Range(policy.slots) :
            ValidSlot(s) /\ s.ctx = e.ctx /\ s.factor # NoValue /\ FactorValue(e, r, s) # NoValue =>
              s.id \in DOMAIN expected'
      BY <2>1, ExpectedOfFactor
    <3>2. /\ Matching(e)' = Matching(e) /\ RuleOf(e)' = r
          /\ ContextFindings(e, RuleOf(e))' = ContextFindings(e, r)
      BY <1>2
    <3> QED
      BY <1>2, <1>5, <3>1, <3>2 DEF Evaluated
  <2>3. ExpectedIsComputed'
    <3> SUFFICES ASSUME NEW id \in DOMAIN expected'
                 PROVE  /\ id \in ValidSlots /\ expected'[id] # NoValue
                        /\ SlotOf(id).factor # NoValue =>
                             \E g \in Range(policy.contexts) :
                               g.ctx = SlotOf(id).ctx /\ expected'[id] = FactorValue(g, RuleOf(g), SlotOf(id))
      BY <1>2 DEF ExpectedIsComputed
    <3>1. CASE id \in DOMAIN expected
      BY <1>1, <2>1, <3>1 DEF ExpectedIsComputed
    <3>2. CASE id \notin DOMAIN expected
      <4>1. PICK s \in slots : s.id = id
        BY <2>1, <3>2
      <4>2. SlotOf(id) = s
        BY <1>1, <4>1, NoDuplicates
      <4>3. expected'[id] = Expected(e, r, s) /\ Expected(e, r, s) # NoValue
        BY <2>1, <3>2, <4>1, <4>2
      <4>4. s.factor # NoValue => Expected(e, r, s) = FactorValue(e, r, s)
        BY ExpectedOfFactor
      <4>5. id \in ValidSlots
        BY <4>1 DEF ValidSlots
      <4> QED
        BY <1>1, <4>1, <4>2, <4>3, <4>4, <4>5
    <3> QED
      BY <3>1, <3>2
  <2> QED
    BY <1>1, <1>5, <2>1, <2>2, <2>3, ContextKinds
<1> QED
  BY <1>3, <1>4, <1>5

LEMMA EvaluateContextKeeps ==
  ASSUME CaseInv, NEW i \in 1..Len(policy.contexts), EvaluateContext(i)
  PROVE  CaseInv'
<1> DEFINE e == policy.contexts[i]
           L == Len(policy.contexts)
<1>1. /\ input \in Inputs /\ phase = "contexts" /\ i = Cardinality(ctxDone) + 1
      /\ ctxDone' = ctxDone \cup {e.ctx}
      /\ phase' = IF i = Len(policy.contexts) THEN "slots" ELSE phase
      /\ input' = input /\ slotDone' = slotDone /\ trusted' = trusted
  BY DEF EvaluateContext, CaseInv, CaseTypeOK
<1>2. /\ Admitted /\ ~Duplicates /\ slotDone = {} /\ trusted = NoSlots
  BY <1>1 DEF CaseInv, ReviewInv, PhasesInTurn, Refused, Admitted
<1>3. /\ IsFiniteSet(ctxDone) /\ Cardinality(ctxDone) <= L
      /\ ctxDone = {policy.contexts[j].ctx : j \in 1..Cardinality(ctxDone)}
      /\ \A j \in 1..Cardinality(ctxDone) : Evaluated(policy.contexts[j])
  BY <1>1 DEF CaseInv, ReviewInv, ContextsInTurn
<1>4. /\ findings \subseteq findings' /\ DOMAIN expected \subseteq DOMAIN expected'
      /\ \A f \in findings' \ findings :
           /\ f.status \in Statuses /\ \A x : f.id # <<"slot", x>>
           /\ f.kind = "not_applicable" => f.id = <<"ctx", e.ctx>> /\ Matching(e) = {}
      /\ Evaluated(e)' /\ ExpectedIsComputed'
  BY ContextStep
<1>5. /\ policy' = policy /\ ValidSlots' = ValidSlots /\ BoundSlots' = BoundSlots
      /\ \A g : Matching(g)' = Matching(g)
  BY <1>1, CaseKept, ContextsKept
<1>6. (TrustIsGrounded /\ ObservationsAreKept /\ ConstraintsHold /\ SlotsInOrder)'
  BY <1>1, <1>2, NothingTrustedNext
<1>7. L \in Nat /\ Cardinality(ctxDone) \in Nat /\ i \in Nat
  BY <1>1, <1>3, CaseLists, FS_CardinalityType
<1>8. e \in Range(policy.contexts) /\ Range(policy.contexts) = {policy.contexts[j] : j \in 1..L}
  BY <1>1, CaseLists
<1>9. IsFiniteSet(ctxDone') /\ Cardinality(ctxDone') = i
  <2>1. e.ctx \notin ctxDone
    <3> SUFFICES ASSUME e.ctx \in ctxDone PROVE FALSE
      OBVIOUS
    <3>1. PICK j \in 1..Cardinality(ctxDone) : policy.contexts[j].ctx = e.ctx
      BY <1>3
    <3>2. j \in 1..L /\ j # i
      BY <1>1, <1>3, <1>7
    <3> QED
      BY <1>1, <1>2, <3>1, <3>2, NoDuplicates
  <2> QED
    BY <1>1, <1>3, <2>1, FS_AddElement
<1>10. ctxDone' = {policy.contexts[j].ctx : j \in 1..i}
  <2>1. \A j \in 1..i : j \in 1..Cardinality(ctxDone) \/ j = i
    BY <1>1, <1>7
  <2>2. \A j \in 1..Cardinality(ctxDone) : j \in 1..i
    BY <1>1, <1>7
  <2>3. i \in 1..i
    BY <1>1, <1>7
  <2> QED
    BY <1>1, <1>3, <2>1, <2>2, <2>3
<1>11. \A j \in 1..i : Evaluated(policy.contexts[j])'
  <2> TAKE j \in 1..i
  <2>1. CASE j = i
    BY <1>4, <2>1
  <2>2. CASE j # i
    <3>1. Evaluated(policy.contexts[j])
      BY <1>1, <1>3, <1>7, <2>2
    <3>2. \A g : Evaluated(g) => Evaluated(g)'
      BY <1>1, <1>4, EvaluatedKept
    <3>3. policy.contexts[j]' = policy.contexts[j]
      BY <1>5
    <3> QED
      BY <3>1, <3>2, <3>3 DEF Evaluated
  <2> QED
    BY <2>1, <2>2
<1>12. ContextsInTurn'
  <2>1. phase' = "contexts" \/ (phase' = "slots" /\ i = L)
    BY <1>1
  <2>2. CASE phase' = "contexts"
    BY <1>5, <1>9, <1>10, <1>11, <2>2 DEF ContextsInTurn, Evaluated
  <2>3. CASE phase' = "slots" /\ i = L
    BY <1>5, <1>8, <1>11, <2>3 DEF ContextsInTurn, Evaluated
  <2> QED
    BY <2>1, <2>2, <2>3
<1>13. FindingsAreEarned'
  <2> SUFFICES ASSUME NEW f \in findings'
               PROVE  /\ f.status \in Statuses
                      /\ f.kind = "not_applicable" =>
                           \E g \in Range(policy.contexts) : f.id = <<"ctx", g.ctx>> /\ Matching(g) = {}
                      /\ \A id \in BoundSlots : ~(f.id = <<"slot", id>> /\ f.status = "verified")
    BY <1>5 DEF FindingsAreEarned
  <2>1. CASE f \in findings
    BY <1>2, <2>1 DEF CaseInv, ReviewInv, FindingsAreEarned
  <2>2. CASE f \notin findings
    BY <1>4, <1>8, <2>2
  <2> QED
    BY <2>1, <2>2
<1>14. PhasesInTurn'
  <2>1. Admitted'
    BY <1>1, <1>2, <1>4, AdmittedKept
  <2> QED
    BY <1>1, <1>2, <2>1 DEF PhasesInTurn
<1>15. CaseTypeOK'
  <2>1. ctxDone' \subseteq Range(ContextIds)'
    <3>1. ContextIds' = ContextIds
      BY <1>5 DEF ContextIds
    <3>2. e.ctx \in Range(ContextIds)
      BY <1>1, <1>8, CaseLists
    <3> QED
      BY <1>1, <3>1, <3>2 DEF CaseInv, CaseTypeOK
  <2>2. DOMAIN expected' \subseteq ValidSlots'
    BY <1>4 DEF ExpectedIsComputed
  <2>3. DOMAIN trusted' = {} /\ slotDone' = {}
    BY <1>1, <1>2 DEF NoSlots
  <2>4. \A f \in findings' : f.status \in Statuses
    BY <1>13 DEF FindingsAreEarned
  <2> QED
    BY <1>1, <2>1, <2>2, <2>3, <2>4 DEF CaseTypeOK
<1> QED
  BY <1>4, <1>6, <1>12, <1>13, <1>14, <1>15 DEF CaseInv, ReviewInv

\* What is reported of a slot and of the checks on it.
LEMMA SlotKinds ==
  ASSUME NEW id
  PROVE  /\ Judged(id).status \in Statuses /\ Judged(id).kind # "not_applicable"
         /\ \A f \in CheckFindings(id) :
              /\ f.status \in Statuses /\ f.kind # "not_applicable"
              /\ f.id \notin {<<"sources">>, <<"trust">>} /\ \A x : f.id # <<"slot", x>>
<1>1. \A s, o, ind, cons, ready : LET v == ValidateSlot(s, o, ind, cons, ready)
                                  IN  v.status \in Statuses /\ v.kind # "not_applicable"
  <2> TAKE s, o, ind, cons, ready
  <2> DEFINE Kinds == {"observed_unresolved", "blank_contradiction", "arithmetic_dependency",
                       "observed_missing", "derivable_blank", "observed_comparison"}
  <2>1. \E st \in Statuses, k \in Kinds : \E c : ValidateSlot(s, o, ind, cons, ready) = Slot(st, k, c)
    <3> DEFINE want == FillOf(ind, cons)
               candidate == IF o.state = "present" THEN ObservedCandidate(s, o) ELSE want
               kind == IF o.state = "blank" THEN "derivable_blank" ELSE "observed_comparison"
               status == IF Agrees(s, o, ind, cons, candidate) THEN "verified" ELSE "failed"
    <3>0. kind \in Kinds /\ status \in Statuses /\ "needs_review" \in Statuses
          /\ "observed_unresolved" \in Kinds /\ "blank_contradiction" \in Kinds
          /\ "arithmetic_dependency" \in Kinds /\ "observed_missing" \in Kinds
      BY DEF Statuses
    <3>1. \/ ValidateSlot(s, o, ind, cons, ready) = Slot("needs_review", "observed_unresolved", NoValue)
          \/ ValidateSlot(s, o, ind, cons, ready) = Slot("needs_review", "blank_contradiction", NoValue)
          \/ ValidateSlot(s, o, ind, cons, ready) = Slot("needs_review", "arithmetic_dependency", candidate)
          \/ ValidateSlot(s, o, ind, cons, ready) = Slot("needs_review", "observed_unresolved", candidate)
          \/ ValidateSlot(s, o, ind, cons, ready) = Slot("needs_review", "observed_missing", candidate)
          \/ ValidateSlot(s, o, ind, cons, ready) = Slot(status, kind, candidate)
      BY DEF ValidateSlot
    <3> HIDE DEF Kinds, candidate, kind, status
    <3> QED
      BY <3>0, <3>1
  <2> QED
    BY <2>1 DEF Slot
<1>2. Judged(id).status \in Statuses /\ Judged(id).kind # "not_applicable"
  BY <1>1 DEF Judged
<1>3. ASSUME NEW f \in CheckFindings(id)
      PROVE  \E c : \E k \in {"arithmetic_dependency", "arithmetic_definition", "arithmetic"}, st \in Statuses :
               f = Finding(<<"check", c>>, k, st)
  BY <1>3 DEF CheckFindings, Need, Statuses
<1>4. ASSUME NEW f \in CheckFindings(id)
      PROVE  /\ f.status \in Statuses /\ f.kind # "not_applicable"
             /\ f.id \notin {<<"sources">>, <<"trust">>} /\ \A x : f.id # <<"slot", x>>
  BY <1>3, DistinctIds DEF Finding
<1> QED
  BY <1>2, <1>4

\* What becomes of a slot that passes.
LEMMA TrustedSlot ==
  ASSUME CaseInv, NEW id, Judged(id).status = "verified"
  PROVE  /\ InputsOf(id) \subseteq DOMAIN trusted
         /\ id \in DOMAIN expected \/ ChecksOn(id) # {}
         /\ LET o == ObservationOf(id)
            IN  /\ o.state \in {"present", "blank"}
                /\ o.state = "present" => Judged(id).candidate = ReadAs(o)
                /\ o.state = "blank" => /\ SlotOf(id).derivable
                                        /\ id \in DOMAIN expected => Judged(id).candidate = expected[id]
                /\ o.state = "present" /\ SlotOf(id).factor # NoValue /\ id \in DOMAIN expected =>
                     ReadAs(o) = expected[id]
         /\ \A c \in ChecksOn(id) :
              Abs(Calculate(c.kind, [i \in 1..Len(c.inputs) |-> trusted[c.inputs[i]]], c.quantum)
                    - Judged(id).candidate) <= c.tolerance
<1> DEFINE s == SlotOf(id)
           o == ObservationOf(id)
           ind == Independent(id)
           candidate == Judged(id).candidate
           want == FillOf(ind, ChecksOn(id))
<1>1. /\ \A c \in ChecksOn(id) : Comparable(c)
      /\ o.state \in {"present", "blank"}
      /\ o.state = "present" => candidate = ObservedCandidate(s, o)
      /\ o.state = "blank" => s.derivable /\ candidate = want
      /\ candidate # NoValue
      /\ want # NoValue \/ ChecksOn(id) # {}
      /\ Agrees(s, o, ind, ChecksOn(id), candidate)
  BY PassedSlot
<1>2. \A c \in ChecksOn(id) : Range(c.inputs) \subseteq DOMAIN trusted
  BY <1>1 DEF Comparable
<1>3. InputsOf(id) \subseteq DOMAIN trusted
  BY <1>2 DEF InputsOf
<1>4. id \in DOMAIN expected => ind = expected[id] /\ ind # NoValue
  BY DEF Independent, CaseInv, ReviewInv, ExpectedIsComputed
<1>5. id \notin DOMAIN expected => ind = NoValue
  BY DEF Independent
<1>6. id \in DOMAIN expected \/ ChecksOn(id) # {}
  <2> SUFFICES ASSUME id \notin DOMAIN expected, ChecksOn(id) = {} PROVE FALSE
    OBVIOUS
  <2>1. {CheckedValue(c) : c \in ChecksOn(id)} = {}
    OBVIOUS
  <2>2. want = NoValue
    BY <1>5, <2>1, FS_EmptySet DEF FillOf
  <2> QED
    BY <1>1, <2>2
<1>7. o.state = "present" => candidate = ReadAs(o)
  BY <1>1 DEF ObservedCandidate, ReadAs
<1>8. o.state = "blank" => s.derivable /\ (id \in DOMAIN expected => candidate = expected[id])
  BY <1>1, <1>4 DEF FillOf
<1>9. o.state = "present" /\ s.factor # NoValue /\ id \in DOMAIN expected => ReadAs(o) = expected[id]
  BY <1>1, <1>4, <1>7 DEF Agrees
<1>10. ASSUME NEW c \in ChecksOn(id)
       PROVE  Abs(Calculate(c.kind, [i \in 1..Len(c.inputs) |-> trusted[c.inputs[i]]], c.quantum)
                    - candidate) <= c.tolerance
  <2>1. c \in Range(policy.checks) /\ input \in Inputs
    BY DEF ChecksOn, CaseInv, CaseTypeOK
  <2>2. \A i \in 1..Len(c.inputs) : c.inputs[i] \in DOMAIN trusted
    BY <1>2, <2>1, CaseLists
  <2>3. [i \in 1..Len(c.inputs) |->
           IF c.inputs[i] \in DOMAIN trusted THEN trusted[c.inputs[i]] ELSE expected[c.inputs[i]]]
        = [i \in 1..Len(c.inputs) |-> trusted[c.inputs[i]]]
    BY <2>2
  <2>4. CheckedValue(c) = Calculate(c.kind, [i \in 1..Len(c.inputs) |-> trusted[c.inputs[i]]], c.quantum)
    BY <2>3, Zenon DEF CheckedValue
  <2>5. Matches(CheckedValue(c), c, candidate)
    BY <1>1 DEF Agrees
  <2>6. Abs(CheckedValue(c) - candidate) <= c.tolerance
    BY <2>5, Zenon DEF Matches
  <2> QED
    BY <2>4, <2>6, Zenon
<1> QED
  BY <1>1, <1>3, <1>6, <1>7, <1>8, <1>9, <1>10

\* The trust in the sources depends on the first findings only.
LEMMA SourceTrustKept ==
  ASSUME input' = input, findings \subseteq findings',
         \A f \in findings' \ findings : f.id \notin {<<"sources">>, <<"trust">>}
  PROVE  SourceTrust' = SourceTrust
<1>1. Violations' = Violations
  BY CaseKept
<1> QED
  BY <1>1 DEF SourceTrust

\* One slot is reviewed: what was reviewed before is judged as it was, and so is this one.
LEMMA ReviewSlotFacts ==
  ASSUME CaseInv, NEW id \in Targets, ReviewSlot(id)
  PROVE  /\ input \in Inputs /\ input' = input /\ phase = "slots" /\ phase' = phase
         /\ expected' = expected /\ ctxDone' = ctxDone
         /\ id \notin slotDone /\ id \notin DOMAIN trusted /\ slotDone' = slotDone \cup {id}
         /\ findings \subseteq findings'
         /\ \A f \in findings' \ findings :
              /\ f.status \in Statuses /\ f.kind # "not_applicable"
              /\ \A x \in BoundSlots :
                   f.id = <<"slot", x>> /\ f.status = "verified" => x = id /\ Judged(id).status = "verified"
         /\ DOMAIN trusted' = IF Trusts(id) THEN DOMAIN trusted \cup {id} ELSE DOMAIN trusted
         /\ \A x \in DOMAIN trusted : trusted'[x] = trusted[x]
         /\ Trusts(id) => trusted'[id] = Judged(id).candidate
         /\ \A x \in slotDone' : (Cyclic \/ InputsOf(x) \subseteq slotDone) /\ Trusts(x)' = Trusts(x)
<1>1. /\ input \in Inputs /\ input' = input /\ phase = "slots" /\ phase' = phase
      /\ expected' = expected /\ ctxDone' = ctxDone
      /\ id \notin slotDone /\ slotDone' = slotDone \cup {id} /\ InOrder(id)
  BY DEF ReviewSlot, CaseInv, CaseTypeOK
<1>2. id \notin DOMAIN trusted /\ DOMAIN trusted \subseteq slotDone
  BY <1>1 DEF CaseInv, ReviewInv, SlotsInOrder
<1> DEFINE new == IF id \in BoundSlots THEN {Finding(<<"slot", id>>, Judged(id).kind, Judged(id).status)} ELSE {}
<1>3. findings' = findings \cup CheckFindings(id) \cup new
  BY DEF ReviewSlot
<1>4. \A f \in new : f.id = <<"slot", id>> /\ f.kind = Judged(id).kind /\ f.status = Judged(id).status
  BY DEF Finding
<1> HIDE DEF new
<1>5. \A f \in findings' \ findings :
        /\ f.status \in Statuses /\ f.kind # "not_applicable" /\ f.id \notin {<<"sources">>, <<"trust">>}
        /\ \A x \in BoundSlots :
             f.id = <<"slot", x>> /\ f.status = "verified" => x = id /\ Judged(id).status = "verified"
  <2> TAKE f \in findings' \ findings
  <2>1. CASE f \in CheckFindings(id)
    BY <2>1, SlotKinds
  <2>2. CASE f \in new
    <3>1. f.status \in Statuses /\ f.kind # "not_applicable"
      BY <1>4, <2>2, SlotKinds
    <3> QED
      BY <1>4, <2>2, <3>1, DistinctIds
  <2> QED
    BY <1>3, <2>1, <2>2
<1>6. /\ DOMAIN trusted' = IF Trusts(id) THEN DOMAIN trusted \cup {id} ELSE DOMAIN trusted
      /\ \A x \in DOMAIN trusted : trusted'[x] = trusted[x]
      /\ Trusts(id) => trusted'[id] = Judged(id).candidate
  <2>1. CASE Trusts(id)
    <3>1. trusted' = [x \in DOMAIN trusted \cup {id} |->
                        IF x = id THEN Judged(id).candidate ELSE trusted[x]]
      BY <2>1, Zenon DEF ReviewSlot
    <3> QED
      BY <1>2, <2>1, <3>1
  <2>2. CASE ~Trusts(id)
    <3>1. trusted' = trusted
      BY <2>2, Zenon DEF ReviewSlot
    <3> QED
      BY <2>2, <3>1
  <2> QED
    BY <2>1, <2>2
<1>7. SourceTrust' = SourceTrust
  BY <1>1, <1>3, <1>5, SourceTrustKept
<1>8. ASSUME NEW x \in slotDone'
      PROVE  (Cyclic \/ InputsOf(x) \subseteq slotDone) /\ Trusts(x)' = Trusts(x)
  <2>1. Cyclic \/ InputsOf(x) \subseteq slotDone
    BY <1>1, <1>8 DEF CaseInv, ReviewInv, SlotsInOrder, InOrder
  <2>2. Cyclic \/ \A y \in InputsOf(x) :
                     /\ y \in DOMAIN trusted' <=> y \in DOMAIN trusted
                     /\ y \in DOMAIN trusted => trusted'[y] = trusted[y]
    BY <1>1, <1>6, <2>1
  <2> QED
    BY <1>1, <1>7, <2>1, <2>2, JudgedFromInputs
<1> QED
  BY <1>1, <1>2, <1>3, <1>5, <1>6, <1>8

LEMMA ReviewSlotKeeps ==
  ASSUME CaseInv, NEW id \in Targets, ReviewSlot(id)
  PROVE  CaseInv'
<1>1. /\ input \in Inputs /\ input' = input /\ phase = "slots" /\ phase' = phase
      /\ expected' = expected /\ ctxDone' = ctxDone
      /\ id \notin slotDone /\ id \notin DOMAIN trusted /\ slotDone' = slotDone \cup {id}
      /\ findings \subseteq findings'
  BY ReviewSlotFacts
<1>2. \A f \in findings' \ findings :
        /\ f.status \in Statuses /\ f.kind # "not_applicable"
        /\ \A x \in BoundSlots :
             f.id = <<"slot", x>> /\ f.status = "verified" => x = id /\ Judged(id).status = "verified"
  BY ReviewSlotFacts
<1>3. /\ DOMAIN trusted' = IF Trusts(id) THEN DOMAIN trusted \cup {id} ELSE DOMAIN trusted
      /\ \A x \in DOMAIN trusted : trusted'[x] = trusted[x]
      /\ Trusts(id) => trusted'[id] = Judged(id).candidate
  BY ReviewSlotFacts
<1>4. \A x \in slotDone' : (Cyclic \/ InputsOf(x) \subseteq slotDone) /\ Trusts(x)' = Trusts(x)
  BY ReviewSlotFacts
<1>5. /\ policy' = policy /\ ValidSlots' = ValidSlots /\ BoundSlots' = BoundSlots
      /\ Targets' = Targets /\ Cyclic' = Cyclic
      /\ (\A x : ChecksOn(x)' = ChecksOn(x) /\ InputsOf(x)' = InputsOf(x))
      /\ (\A x : SlotOf(x)' = SlotOf(x) /\ ObservationOf(x)' = ObservationOf(x))
      /\ (\A e : Matching(e)' = Matching(e) /\ RuleOf(e)' = RuleOf(e))
      /\ (\A e, r, s : FactorValue(e, r, s)' = FactorValue(e, r, s))
  BY <1>1, CaseKept, ContextsKept
<1>6. CaseTypeOK /\ ReviewInv
  BY DEF CaseInv
<1>7. Trusts(id) => /\ id \in BoundSlots /\ Judged(id).status = "verified" /\ Judged(id).candidate \in Int
  BY DEF Trusts
<1>8. SlotsInOrder'
  <2>1. slotDone' \subseteq Targets'
    BY <1>1, <1>5, <1>6 DEF CaseTypeOK
  <2>2. DOMAIN trusted' \subseteq BoundSlots' \cap slotDone'
    BY <1>1, <1>3, <1>5, <1>6, <1>7 DEF CaseTypeOK
  <2>3. \A x \in slotDone' : InOrder(x)'
    BY <1>1, <1>4, <1>5 DEF InOrder
  <2>4. ASSUME NEW x \in BoundSlots' \cap slotDone' PROVE Trusts(x)' <=> x \in DOMAIN trusted'
    <3>1. CASE x = id
      BY <1>1, <1>3, <1>4, <3>1
    <3>2. CASE x # id
      <4>1. x \in BoundSlots \cap slotDone
        BY <1>1, <1>5, <2>4, <3>2
      <4>2. Trusts(x) <=> x \in DOMAIN trusted
        BY <1>6, <4>1 DEF ReviewInv, SlotsInOrder
      <4> QED
        BY <1>1, <1>3, <1>4, <3>2, <4>1, <4>2
    <3> QED
      BY <3>1, <3>2
  <2> QED
    BY <2>1, <2>2, <2>3, <2>4 DEF SlotsInOrder
<1>9. TrustIsGrounded'
  <2>1. \A x \in DOMAIN trusted :
          (x \in DOMAIN expected \/ ChecksOn(x) # {}) /\ InputsOf(x) \subseteq DOMAIN trusted
    BY <1>6 DEF ReviewInv, TrustIsGrounded
  <2>2. Trusts(id) => (id \in DOMAIN expected \/ ChecksOn(id) # {}) /\ InputsOf(id) \subseteq DOMAIN trusted
    BY <1>7, TrustedSlot
  <2>3. \A x \in DOMAIN trusted' :
          (x \in DOMAIN expected \/ ChecksOn(x) # {}) /\ InputsOf(x) \subseteq DOMAIN trusted
    BY <1>3, <2>1, <2>2
  <2>4. ASSUME NEW S \in SUBSET DOMAIN trusted', S # {}
        PROVE  \E x \in S : InputsOf(x) \cap S = {}
    <3>1. CASE S \ {id} = {}
      <4>1. id \in S
        BY <2>4, <3>1
      <4>2. InputsOf(id) \subseteq DOMAIN trusted
        BY <2>3, <2>4, <4>1
      <4> QED
        BY <1>1, <3>1, <4>1, <4>2
    <3>2. CASE S \ {id} # {}
      <4>1. S \ {id} \in SUBSET DOMAIN trusted
        BY <1>3, <2>4
      <4>2. PICK x \in S \ {id} : InputsOf(x) \cap (S \ {id}) = {}
        BY <1>6, <3>2, <4>1 DEF ReviewInv, TrustIsGrounded
      <4>3. id \notin InputsOf(x)
        BY <1>1, <2>3, <2>4, <4>2
      <4> QED
        BY <4>2, <4>3
    <3> QED
      BY <3>1, <3>2
  <2>5. DOMAIN trusted \subseteq DOMAIN trusted'
    BY <1>3
  <2> QED
    BY <1>1, <1>5, <2>3, <2>4, <2>5 DEF TrustIsGrounded
<1>10. ObservationsAreKept'
  <2> SUFFICES ASSUME NEW x \in DOMAIN trusted'
               PROVE  LET o == ObservationOf(x) IN
                      IF o.state = "present" THEN trusted'[x] = ReadAs(o)
                      ELSE /\ o.state = "blank" /\ SlotOf(x).derivable
                           /\ x \in DOMAIN expected => trusted'[x] = expected[x]
                           /\ x \notin DOMAIN expected => ChecksOn(x) # {}
    BY <1>1, <1>5 DEF ObservationsAreKept
  <2>1. CASE x \in DOMAIN trusted
    BY <1>3, <1>6, <2>1 DEF ReviewInv, ObservationsAreKept
  <2>2. CASE x = id /\ Trusts(id)
    BY <1>3, <1>7, <2>2, TrustedSlot
  <2> QED
    BY <1>3, <2>1, <2>2
<1>11. ConstraintsHold'
  <2> SUFFICES ASSUME NEW x \in DOMAIN trusted', NEW c \in ChecksOn(x)
               PROVE  /\ Range(c.inputs) \subseteq DOMAIN trusted'
                      /\ Abs(Calculate(c.kind, [i \in 1..Len(c.inputs) |-> trusted'[c.inputs[i]]], c.quantum)
                               - trusted'[x]) <= c.tolerance
    BY <1>5 DEF ConstraintsHold
  <2>1. /\ Range(c.inputs) \subseteq DOMAIN trusted
        /\ Abs(Calculate(c.kind, [i \in 1..Len(c.inputs) |-> trusted[c.inputs[i]]], c.quantum)
                 - trusted'[x]) <= c.tolerance
    <3>1. CASE x \in DOMAIN trusted
      <4>1. trusted'[x] = trusted[x]
        BY <1>3, <3>1
      <4> QED
        BY <1>6, <3>1, <4>1 DEF ReviewInv, ConstraintsHold
    <3>2. CASE x = id /\ Trusts(id)
      <4>1. InputsOf(id) \subseteq DOMAIN trusted /\ trusted'[x] = Judged(id).candidate
        BY <1>3, <1>7, <3>2, TrustedSlot
      <4>2. Range(c.inputs) \subseteq InputsOf(id)
        BY <3>2 DEF InputsOf
      <4>3. Abs(Calculate(c.kind, [i \in 1..Len(c.inputs) |-> trusted[c.inputs[i]]], c.quantum)
                  - Judged(id).candidate) <= c.tolerance
        BY <1>7, <3>2, TrustedSlot
      <4> QED
        BY <4>1, <4>2, <4>3
    <3> QED
      BY <1>3, <3>1, <3>2
  <2>2. \A i \in 1..Len(c.inputs) : c.inputs[i] \in Range(c.inputs)
    BY <1>1, CaseLists DEF ChecksOn
  <2>3. [i \in 1..Len(c.inputs) |-> trusted'[c.inputs[i]]] = [i \in 1..Len(c.inputs) |-> trusted[c.inputs[i]]]
    BY <1>3, <2>1, <2>2
  <2>4. Range(c.inputs) \subseteq DOMAIN trusted'
    BY <1>3, <2>1
  <2> QED
    BY <2>1, <2>3, <2>4
<1>12. FindingsAreEarned'
  <2> SUFFICES ASSUME NEW f \in findings'
               PROVE  /\ f.status \in Statuses
                      /\ f.kind = "not_applicable" =>
                           \E g \in Range(policy.contexts) : f.id = <<"ctx", g.ctx>> /\ Matching(g) = {}
                      /\ \A x \in BoundSlots : f.id = <<"slot", x>> /\ f.status = "verified" =>
                           /\ x \in slotDone'
                           /\ ObservationOf(x).state = "present" /\ SlotOf(x).factor # NoValue
                                /\ x \in DOMAIN expected => ReadAs(ObservationOf(x)) = expected[x]
    BY <1>1, <1>5 DEF FindingsAreEarned
  <2>1. CASE f \in findings
    BY <1>1, <1>6, <2>1 DEF ReviewInv, FindingsAreEarned
  <2>2. CASE f \notin findings
    <3>1. Judged(id).status = "verified" =>
            (ObservationOf(id).state = "present" /\ SlotOf(id).factor # NoValue /\ id \in DOMAIN expected =>
              ReadAs(ObservationOf(id)) = expected[id])
      BY TrustedSlot
    <3> QED
      BY <1>1, <1>2, <2>2, <3>1
  <2> QED
    BY <2>1, <2>2
<1>13. ExpectedIsComputed'
  BY <1>1, <1>5, <1>6 DEF ReviewInv, ExpectedIsComputed
<1>14. ~Refused /\ Admitted /\ \A e \in Range(policy.contexts) : Evaluated(e)
  BY <1>1, <1>6 DEF ReviewInv, PhasesInTurn, ContextsInTurn, Refused
<1>15. ContextsInTurn'
  <2>1. \A e : Evaluated(e) => Evaluated(e)'
    BY <1>1, EvaluatedKept
  <2> QED
    BY <1>1, <1>5, <1>14, <2>1 DEF ContextsInTurn, Evaluated
<1>16. PhasesInTurn'
  <2>1. Admitted'
    BY <1>1, <1>14, AdmittedKept
  <2> QED
    BY <1>1, <2>1 DEF PhasesInTurn
<1>17. CaseTypeOK'
  <2>1. ContextIds' = ContextIds
    BY <1>5 DEF ContextIds
  <2>2. \A x \in DOMAIN trusted' : trusted'[x] \in Int
    BY <1>3, <1>6, <1>7 DEF CaseTypeOK
  <2>3. \A f \in findings' : f.status \in Statuses
    BY <1>12 DEF FindingsAreEarned
  <2>4. slotDone' \subseteq Targets' /\ DOMAIN trusted' \subseteq BoundSlots' \cap slotDone'
    BY <1>8 DEF SlotsInOrder
  <2> QED
    BY <1>1, <1>5, <1>6, <2>1, <2>2, <2>3, <2>4 DEF CaseTypeOK
<1> QED
  BY <1>8, <1>9, <1>10, <1>11, <1>12, <1>13, <1>15, <1>16, <1>17 DEF CaseInv, ReviewInv

\* Ending the review, or leaving it alone, changes nothing that was found.
LEMMA CaseRests ==
  ASSUME CaseInv, UNCHANGED <<input, findings, ctxDone, expected, slotDone, trusted>>,
         phase' = phase \/ (phase = "slots" /\ slotDone = Targets /\ phase' = "done")
  PROVE  CaseInv'
<1>1. CaseTypeOK /\ ReviewInv /\ input \in Inputs
  BY DEF CaseInv, CaseTypeOK
<1>2. /\ policy' = policy /\ ValidSlots' = ValidSlots /\ BoundSlots' = BoundSlots
      /\ Targets' = Targets /\ Cyclic' = Cyclic
      /\ (\A x : ChecksOn(x)' = ChecksOn(x) /\ InputsOf(x)' = InputsOf(x))
      /\ (\A x : SlotOf(x)' = SlotOf(x) /\ ObservationOf(x)' = ObservationOf(x))
      /\ (\A e : Matching(e)' = Matching(e) /\ RuleOf(e)' = RuleOf(e))
      /\ (\A e, r, s : FactorValue(e, r, s)' = FactorValue(e, r, s))
  BY CaseKept, ContextsKept
<1>3. SourceTrust' = SourceTrust
  BY SourceTrustKept
<1>4. \A x : Trusts(x)' = Trusts(x)
  BY <1>1, <1>3, JudgedFromInputs
<1>5. SlotsInOrder'
  BY <1>1, <1>2, <1>4 DEF ReviewInv, SlotsInOrder, InOrder
<1>6. TrustIsGrounded'
  BY <1>1, <1>2 DEF ReviewInv, TrustIsGrounded
<1>7. ObservationsAreKept'
  BY <1>1, <1>2 DEF ReviewInv, ObservationsAreKept
<1>8. ConstraintsHold'
  BY <1>1, <1>2 DEF ReviewInv, ConstraintsHold
<1>9. FindingsAreEarned'
  BY <1>1, <1>2 DEF ReviewInv, FindingsAreEarned
<1>10. ExpectedIsComputed'
  BY <1>1, <1>2 DEF ReviewInv, ExpectedIsComputed
<1>11. \A e : Evaluated(e) => Evaluated(e)'
  BY EvaluatedKept
<1>12. Admitted => Admitted'
  BY AdmittedKept
<1>13. CaseTypeOK'
  <2>1. ContextIds' = ContextIds
    BY <1>2 DEF ContextIds
  <2> QED
    BY <1>1, <1>2, <2>1 DEF CaseTypeOK
<1>14. CASE phase' = phase
  <2>1. Refused' = Refused
    BY <1>14 DEF Refused
  <2>2. ContextsInTurn'
    BY <1>1, <1>2, <1>11, <1>14, <2>1 DEF ReviewInv, ContextsInTurn, Evaluated
  <2>3. PhasesInTurn'
    BY <1>1, <1>2, <1>12, <1>14, <2>1 DEF ReviewInv, PhasesInTurn
  <2> QED
    BY <1>1, <1>2, <1>5, <1>6, <1>7, <1>8, <1>9, <1>10, <1>13, <2>2, <2>3
       DEF CaseInv, ReviewInv
<1>15. CASE phase = "slots" /\ slotDone = Targets /\ phase' = "done"
  <2>1. Admitted /\ \A e \in Range(policy.contexts) : Evaluated(e)
    BY <1>1, <1>15 DEF ReviewInv, PhasesInTurn, ContextsInTurn, Refused
  <2>2. ContextsInTurn'
    BY <1>2, <1>11, <1>15, <2>1 DEF ContextsInTurn, Evaluated
  <2>3. PhasesInTurn'
    BY <1>2, <1>12, <1>15, <2>1 DEF PhasesInTurn
  <2> QED
    BY <1>1, <1>2, <1>5, <1>6, <1>7, <1>8, <1>9, <1>10, <1>13, <2>2, <2>3
       DEF CaseInv, ReviewInv
<1> QED
  BY <1>14, <1>15

LEMMA CaseStep == CaseInv /\ [CaseNext]_caseVars => CaseInv'
<1> SUFFICES ASSUME CaseInv, [CaseNext]_caseVars PROVE CaseInv'
  OBVIOUS
<1>1. CASE CheckInventory
  BY <1>1, CheckInventoryKeeps
<1>2. CASE \E i \in 1..Len(policy.contexts) : EvaluateContext(i)
  BY <1>2, EvaluateContextKeeps
<1>3. CASE \E id \in Targets : ReviewSlot(id)
  BY <1>3, ReviewSlotKeeps
<1>4. CASE Finish
  BY <1>4, CaseRests DEF Finish
<1>5. CASE Done \/ UNCHANGED caseVars
  BY <1>5, CaseRests DEF Done, caseVars
<1> QED
  BY <1>1, <1>2, <1>3, <1>4, <1>5 DEF CaseNext

\* A verified review has no finding that is not, and everything required is among them.
LEMMA VerifiedReview ==
  ASSUME CaseInv, phase = "done", Status = "verified"
  PROVE  /\ input \in Inputs /\ Admitted /\ ~Duplicates /\ ~Blocked
         /\ \A f \in findings : f.status = "verified"
         /\ \A e \in Range(policy.contexts) : Evaluated(e)
         /\ \A id \in Required : \E f \in findings : f.id = id /\ f.status = "verified"
<1>1. /\ ~\E f \in findings : f.status = "failed"
      /\ BlockedIds = {} /\ Required \subseteq VerifiedIds
  BY DEF Status
<1>2. \A f \in findings : f.status = "verified"
  BY <1>1 DEF BlockedIds
<1>3. ~Refused
  BY <1>1 DEF Refused
<1>4. Admitted /\ \A e \in Range(policy.contexts) : Evaluated(e)
  BY <1>3 DEF CaseInv, ReviewInv, PhasesInTurn, ContextsInTurn
<1> QED
  BY <1>1, <1>2, <1>4 DEF Blocked, VerifiedIds, Admitted, CaseInv, CaseTypeOK

\* A rule set that is in force is one that applies.
LEMMA InForceApplies ==
  ASSUME input \in Inputs
  PROVE  \A e : \A r \in Range(policy.ruleSets) : InForce(r, e) <=> Applies(r, e)
<1>1. policy.identity.date \in Int /\ NoValue \notin Int
  BY InputsAssumption DEF policy
<1>2. \A r \in Range(policy.ruleSets) : {r.from, r.to} \subseteq Int \cup {NoValue}
  BY InputsAssumption DEF policy
<1>3. \A r \in Range(policy.ruleSets) :
        (r.from = NoValue \/ r.from \in Int) /\ (r.to = NoValue \/ r.to \in Int)
  BY <1>2
<1> QED
  BY <1>1, <1>3 DEF InForce, Applies

\* Of a verified review: every factor of every context was computed from reliable sides.
LEMMA ContextIsComplete ==
  ASSUME CaseInv, phase = "done", Status = "verified", NEW e \in Range(policy.contexts)
  PROVE  /\ Cardinality({i \in 1..Len(policy.ruleSets) : InForce(policy.ruleSets[i], e)}) = 1
         /\ \A f \in Range(e.factors) :
              /\ f \in ReliableFactors(e, RuleOf(e)) /\ ItemOf(e, f).status = "verified"
              /\ PairOf(e, f) \in PairsOf(e) /\ PairOf(e, f).factor = f
              /\ PairReliable(PairOf(e, f))
         /\ \A s \in Range(policy.slots) :
              ValidSlot(s) /\ s.ctx = e.ctx /\ s.factor # NoValue /\ FactorValue(e, RuleOf(e), s) # NoValue =>
                s.id \in DOMAIN expected
<1> DEFINE r == RuleOf(e)
<1>1. /\ input \in Inputs /\ ~Blocked /\ Evaluated(e)
      /\ \A f \in findings : f.status = "verified"
  BY VerifiedReview
<1>2. /\ Cardinality(Matching(e)) = 1 /\ ContextFindings(e, r) \subseteq findings
      /\ \A s \in Range(policy.slots) :
           ValidSlot(s) /\ s.ctx = e.ctx /\ s.factor # NoValue /\ FactorValue(e, r, s) # NoValue =>
             s.id \in DOMAIN expected
  BY <1>1 DEF Evaluated
<1>3. {i \in 1..Len(policy.ruleSets) : InForce(policy.ruleSets[i], e)} = Matching(e)
  <2>1. \A i \in 1..Len(policy.ruleSets) : InForce(policy.ruleSets[i], e) <=> Applies(policy.ruleSets[i], e)
    BY <1>1, InForceApplies, CaseLists
  <2> QED
    BY <2>1 DEF Matching
<1>4. ASSUME NEW f \in Range(e.factors)
      PROVE  f \in ReliableFactors(e, r) /\ ItemOf(e, f).status = "verified"
  <2>1. f \in Available(e, r)
    <3> SUFFICES ASSUME f \notin Available(e, r) PROVE FALSE
      OBVIOUS
    <3>1. Need(<<"factor", e.ctx, f>>, "missing_factor") \in ContextFindings(e, r)
      BY <1>4 DEF ContextFindings
    <3> QED
      BY <1>1, <1>2, <3>1 DEF Need, Finding
  <2>2. f \in ReliableFactors(e, r)
    <3> SUFFICES ASSUME f \notin ReliableFactors(e, r) PROVE FALSE
      OBVIOUS
    <3>1. Need(<<"factor", e.ctx, f>>, "evidence_reliability") \in ContextFindings(e, r)
      BY <2>1 DEF ContextFindings
    <3> QED
      BY <1>1, <1>2, <3>1 DEF Need, Finding
  <2>3. Finding(<<"factor", e.ctx, f>>, "factor", ItemOf(e, f).status) \in ContextFindings(e, r)
    BY <2>2 DEF ContextFindings
  <2>4. Finding(<<"factor", e.ctx, f>>, "factor", ItemOf(e, f).status).status = "verified"
    BY <1>1, <1>2, <2>3
  <2> QED
    BY <2>2, <2>4 DEF Finding
<1>5. \A f \in ReliableFactors(e, r) :
        PairReliable(PairOf(e, f)) /\ PairOf(e, f) \in PairsOf(e) /\ PairOf(e, f).factor = f
  BY <1>1, PairFacts DEF ReliableFactors
<1> QED
  BY <1>2, <1>3, <1>4, <1>5

LEMMA ReliableSides ==
  ASSUME NEW p, PairReliable(p)
  PROVE  \A s \in {"target", "comparable"} : CitationsValid(p[s].cites) /\
            (p[s].method = "reviewer_confirmed" => p[s].confirmed = Digest(p, s))
BY DEF PairReliable, SideReliable

\* Of a verified review: every slot was read in its own cell and holds what was computed.
LEMMA SlotIsComplete ==
  ASSUME CaseInv, phase = "done", Status = "verified", NEW s \in Range(policy.slots)
  PROVE  /\ Observed(s.id) /\ ObservationOf(s.id).cites = s.cites
         /\ s.factor # NoValue /\ ObservationOf(s.id).state = "present" =>
              \E p \in Range(facts.pairs) : p.ctx = s.ctx /\ p.factor = s.factor /\
                 ReadAs(ObservationOf(s.id)) \in {p.outcome.percent, p.outcome.grade}
<1>1. /\ input \in Inputs /\ Admitted /\ ~Duplicates
      /\ \A f \in findings : f.status = "verified"
      /\ \A id \in Required : \E f \in findings : f.id = id /\ f.status = "verified"
  BY VerifiedReview
<1>2. InventoryFindings \subseteq findings
  BY <1>1 DEF Admitted
<1>3. ValidSlot(s)
  <2> SUFFICES ASSUME ~ValidSlot(s) PROVE FALSE
    OBVIOUS
  <2>1. Fail(<<"slot", s.id>>, "slot_binding") \in InventoryFindings
    BY DEF InventoryFindings
  <2> QED
    BY <1>1, <1>2, <2>1 DEF Fail, Finding
<1>4. s.id \in ValidSlots /\ SlotOf(s.id) = s
  BY <1>1, <1>3, NoDuplicates DEF ValidSlots
<1>5. s.id \in BoundSlots
  <2> SUFFICES ASSUME s.id \notin BoundSlots PROVE FALSE
    OBVIOUS
  <2>1. Need(<<"slot", s.id>>, "observed_source_binding") \in InventoryFindings
    BY <1>4 DEF InventoryFindings
  <2> QED
    BY <1>1, <1>2, <2>1 DEF Need, Finding
<1>6. Observed(s.id) /\ ObservationOf(s.id).cites = s.cites
  BY <1>4, <1>5 DEF BoundSlots, Binds
<1>7. ASSUME s.factor # NoValue, ObservationOf(s.id).state = "present"
      PROVE  \E p \in Range(facts.pairs) : p.ctx = s.ctx /\ p.factor = s.factor /\
                 ReadAs(ObservationOf(s.id)) \in {p.outcome.percent, p.outcome.grade}
  <2>1. PICK e \in Range(policy.contexts) : e.ctx = s.ctx /\ s.factor \in Range(e.factors)
    BY <1>3, <1>7 DEF ValidSlot
  <2>2. /\ s.factor \in ReliableFactors(e, RuleOf(e)) /\ ItemOf(e, s.factor).status = "verified"
        /\ FactorValue(e, RuleOf(e), s) # NoValue => s.id \in DOMAIN expected
    BY <1>3, <2>1, <1>7, ContextIsComplete
  <2> DEFINE p == PairOf(e, s.factor)
  <2>3. /\ p \in Range(facts.pairs) /\ p.ctx = e.ctx /\ p.factor = s.factor
        /\ p.outcome.grade # NoValue /\ p.outcome.percent # NoValue
    BY <1>1, <2>2, PairFacts DEF ReliableFactors, ItemOf
  <2>4. FactorValue(e, RuleOf(e), s) \in {p.outcome.percent, p.outcome.grade}
    BY <2>2 DEF FactorValue, ItemOf
  <2>5. s.id \in DOMAIN expected
    BY <2>2, <2>3, <2>4
  <2>6. expected[s.id] = FactorValue(e, RuleOf(e), s)
    <3>1. PICK g \in Range(policy.contexts) : g.ctx = s.ctx /\ expected[s.id] = FactorValue(g, RuleOf(g), s)
      BY <1>4, <1>7, <2>5 DEF CaseInv, ReviewInv, ExpectedIsComputed
    <3>2. g = e
      BY <1>1, <2>1, <3>1, NoDuplicates
    <3> QED
      BY <3>1, <3>2
  <2>7. <<"slot", s.id>> \in Required
    BY DEF Required
  <2>8. PICK f \in findings : f.id = <<"slot", s.id>> /\ f.status = "verified"
    BY <1>1, <2>7
  <2>9. ReadAs(ObservationOf(s.id)) = expected[s.id]
    BY <1>4, <1>5, <1>7, <2>5, <2>8 DEF CaseInv, ReviewInv, FindingsAreEarned
  <2> QED
    BY <2>1, <2>3, <2>4, <2>6, <2>9
<1> QED
  BY <1>6, <1>7

LEMMA CaseInvGrounds == CaseInv => ReviewIsGrounded
<1> SUFFICES ASSUME CaseInv PROVE ReviewIsGrounded
  OBVIOUS
<1>1. TrustIsGrounded /\ ObservationsAreKept /\ ConstraintsHold /\ input \in Inputs
  BY DEF CaseInv, ReviewInv, CaseTypeOK
<1>2. OrderDoesNotMatter
  <2> SUFFICES ASSUME phase = "done", slotDone # {}, NEW id \in BoundSlots
               PROVE  Trusts(id) <=> id \in DOMAIN trusted
    BY DEF OrderDoesNotMatter
  <2>1. slotDone = Targets
    BY DEF CaseInv, ReviewInv, PhasesInTurn, Refused
  <2>2. id \in Targets
    BY DEF BoundSlots, Targets
  <2> QED
    BY <2>1, <2>2 DEF CaseInv, ReviewInv, SlotsInOrder
<1>3. VerifiedIsComplete
  <2> SUFFICES ASSUME phase = "done", Status = "verified"
      PROVE /\ input.authorized /\ currentSources = policy.registry /\ facts.identity = policy.identity
            /\ \A e \in Range(policy.contexts) :
                  /\ Cardinality({i \in 1..Len(policy.ruleSets) : InForce(policy.ruleSets[i], e)}) = 1
                  /\ \A f \in Range(e.factors) : \E p \in PairsOf(e) : p.factor = f
                        /\ p.outcome.status = "verified"
                        /\ \A s \in {"target", "comparable"} : CitationsValid(p[s].cites) /\
                              (p[s].method = "reviewer_confirmed" => p[s].confirmed = Digest(p, s))
            /\ \A s \in Range(policy.slots) :
                  /\ Observed(s.id) /\ ObservationOf(s.id).cites = s.cites
                  /\ s.factor # NoValue /\ ObservationOf(s.id).state = "present" =>
                        \E p \in Range(facts.pairs) : p.ctx = s.ctx /\ p.factor = s.factor /\
                           ReadAs(ObservationOf(s.id)) \in {p.outcome.percent, p.outcome.grade}
    BY DEF VerifiedIsComplete
  <2>1. /\ Admitted /\ \A f \in findings : f.status = "verified"
    BY VerifiedReview
  <2>2. input.authorized /\ currentSources = policy.registry /\ facts.identity = policy.identity
    <3>1. Approval.status = "verified" /\ SourcesKept.status = "verified"
      BY <2>1 DEF Admitted
    <3> QED
      BY <2>1, <3>1 DEF Admitted, Approval, SourcesKept, SameSources, Need, Fail, Finding
  <2>3. ASSUME NEW e \in Range(policy.contexts), NEW f \in Range(e.factors)
        PROVE  \E p \in PairsOf(e) : p.factor = f
                 /\ p.outcome.status = "verified"
                 /\ \A s \in {"target", "comparable"} : CitationsValid(p[s].cites) /\
                       (p[s].method = "reviewer_confirmed" => p[s].confirmed = Digest(p, s))
    <3> DEFINE p == PairOf(e, f)
    <3>1. p \in PairsOf(e) /\ p.factor = f /\ PairReliable(p) /\ p.outcome.status = "verified"
      BY <2>3, ContextIsComplete DEF ItemOf
    <3> HIDE DEF p
    <3> QED
      BY <3>1, ReliableSides
  <2> QED
    BY <2>2, <2>3, ContextIsComplete, SlotIsComplete
<1>4. InForceOnItsDays
  <2> SUFFICES ASSUME phase = "done", NEW e \in Range(policy.contexts), NEW r \in Range(policy.ruleSets),
                      r.ctx = e.ctx, r.zone = policy.identity.zone, policy.identity.date \in {r.from, r.to},
                      Need(<<"ctx", e.ctx>>, "not_applicable") \in findings
               PROVE  FALSE
    BY DEF InForceOnItsDays
  <2>1. PICK g \in Range(policy.contexts) : <<"ctx", e.ctx>> = <<"ctx", g.ctx>> /\ Matching(g) = {}
    <3>1. Need(<<"ctx", e.ctx>>, "not_applicable").kind = "not_applicable"
          /\ Need(<<"ctx", e.ctx>>, "not_applicable").id = <<"ctx", e.ctx>>
      BY DEF Need, Finding
    <3>2. \E g \in Range(policy.contexts) :
            Need(<<"ctx", e.ctx>>, "not_applicable").id = <<"ctx", g.ctx>> /\ Matching(g) = {}
      BY <3>1 DEF CaseInv, ReviewInv, FindingsAreEarned
    <3> QED
      BY <3>1, <3>2
  <2>2. g.ctx = e.ctx
    BY <2>1, DistinctIds
  <2>3. Applies(r, g)
    <3>1. policy.identity.date \in Int /\ NoValue \notin Int
      BY <1>1, InputsAssumption DEF policy
    <3>2. /\ {r.from, r.to} \subseteq Int \cup {NoValue}
          /\ NoValue \notin {r.from, r.to} => r.from <= r.to
      BY <1>1, InputsAssumption DEF policy
    <3>3. (r.from = NoValue \/ r.from \in Int) /\ (r.to = NoValue \/ r.to \in Int)
      BY <3>2
    <3>4. (r.from = NoValue \/ r.from <= policy.identity.date) /\ (r.to = NoValue \/ policy.identity.date <= r.to)
      BY <3>1, <3>2, <3>3
    <3> QED
      BY <2>2, <3>4 DEF Applies
  <2>4. PICK i \in 1..Len(policy.ruleSets) : r = policy.ruleSets[i]
    BY <1>1, CaseLists
  <2> QED
    BY <2>1, <2>3, <2>4 DEF Matching
<1> QED
  BY <1>1, <1>2, <1>3, <1>4 DEF ReviewIsGrounded

\* The invariant of the whole-case review: what each phase has established about findings,
\* independent values and trusted numbers.
THEOREM CaseInvHolds == CaseSpec => []CaseInv
<1>1. CaseInit => CaseInv
  BY CaseStarts
<1>2. CaseInv /\ [CaseNext]_caseVars => CaseInv'
  BY CaseStep
<1> QED
  BY <1>1, <1>2, PTL DEF CaseSpec

\* A number is trusted, and a case verified, only for the reasons ADR 0007 gives: no number
\* supports itself through the checks, readings are kept, every check on a trusted number
\* holds, the order in which slots are taken does not matter, and a verified case is
\* approved, complete and judged by the rule sets in force (CaseReviewer.review).
THEOREM ReviewGrounded == CaseSpec => []ReviewIsGrounded
<1>1. CaseSpec => []CaseInv
  BY CaseInvHolds
<1>2. CaseInv => ReviewIsGrounded
  BY CaseInvGrounds
<1> QED
  BY <1>1, <1>2, PTL

\* The variables of the review keep their types, and only bound slots are trusted.
THEOREM CaseTypeCorrect == CaseSpec => []CaseTypeOK
<1>1. CaseSpec => []CaseInv
  BY CaseInvHolds
<1>2. CaseInv => CaseTypeOK
  BY DEF CaseInv
<1> QED
  BY <1>1, <1>2, PTL

-----------------------------------------------------------------------------
(***************************************************************************)
(* The factor engine and its verifier (FactorRules).                       *)
(***************************************************************************)

LEMMA Below == \A x, y : <<x, y>> \in OpToRel(<, Nat) <=> x \in Nat /\ y \in Nat /\ x < y
BY DEF OpToRel

\* Numbers are well ordered: whatever holds of some position holds of a first one.
LEMMA FirstOne ==
  ASSUME NEW S, S \subseteq Nat, S # {}
  PROVE  Min(S) \in S /\ \A y \in S : Min(S) <= y
<1>1. PICK x \in S : \A y \in S : ~(<<y, x>> \in OpToRel(<, Nat))
  BY NatLessThanWellFounded, WFMin
<1>2. \A y \in S : ~(y < x)
  BY <1>1, Below
<1>3. \A y \in S : x <= y
  BY <1>2
<1> QED
  BY <1>3 DEF Min

\* Ordered bands that are contiguous, open at both ends and share no end cover every
\* number: the first band whose upper end the number respects contains it.
LEMMA BandsCover ==
  ASSUME NEW bands, bands \in Seq(Range(bands)), bands # <<>>, ValidIntervals(bands),
         \A i \in 1..Len(bands) : IsBand(bands[i]), NEW n \in Int, NEW k \in Int
  PROVE  \E i \in 1..Len(bands) : BandContains(bands[i], n, k)
<1> DEFINE under(b) == b.max = Absent \/ n < b.max * k \/ (b.maxInc /\ n = b.max * k)
           over(b) == b.min = Absent \/ n > b.min * k \/ (b.minInc /\ n = b.min * k)
           U == {i \in 1..Len(bands) : under(bands[i])}
<1>1. Len(bands) \in Nat /\ Len(bands) > 0
  OBVIOUS
<1>2. Len(bands) \in U
  BY <1>1 DEF ValidIntervals
<1>3. PICK m \in U : \A y \in U : m <= y
  <2>1. U \subseteq Nat /\ U # {}
    BY <1>1, <1>2
  <2> HIDE DEF U
  <2> QED
    BY <2>1, FirstOne
<1>4. over(bands[m])
  <2>1. CASE m = 1
    BY <2>1 DEF ValidIntervals
  <2>2. CASE m # 1
    <3> DEFINE c == bands[m - 1].max * k
    <3>1. m - 1 \in 1..Len(bands) - 1 /\ m - 1 \in 1..Len(bands) /\ m - 1 + 1 = m
      BY <1>1, <1>3, <2>2
    <3>2. ~under(bands[m - 1])
      BY <1>3, <3>1
    <3>3. bands[m - 1].max = bands[m].min /\ bands[m - 1].maxInc # bands[m].minInc
      BY <3>1 DEF ValidIntervals
    <3>4. bands[m - 1].max \in Int /\ bands[m - 1].maxInc \in BOOLEAN /\ bands[m].minInc \in BOOLEAN
      BY <3>1, <3>2, <1>3 DEF IsBand
    <3>5. c \in Int /\ c = bands[m].min * k
      BY <3>3, <3>4
    <3>6. ~(n < c) /\ ~(bands[m - 1].maxInc /\ n = c)
      BY <3>2
    <3>7. n > c \/ n = c
      BY <3>5, <3>6
    <3> QED
      BY <3>3, <3>4, <3>5, <3>6, <3>7
  <2> QED
    BY <2>1, <2>2
<1> QED
  BY <1>3, <1>4 DEF BandContains

\* Lengths in another unit are compared as they are in this one.
LEMMA Times ==
  ASSUME NEW x \in Int, NEW y \in Int, NEW k \in Int, k > 0
  PROVE  /\ x * k \in Int /\ y * k \in Int
         /\ x > y => x * k > y * k
         /\ x < y => x * k < y * k
<1>1. x * k \in Int /\ y * k \in Int
  BY SMT
<1>2. (x - y) * k = x * k - y * k
  BY SMT
<1>3. x - y > 0 => (x - y) * k > 0
  BY SMT
<1>4. y - x > 0 => (y - x) * k > 0
  BY SMT
<1>5. (y - x) * k = y * k - x * k
  BY SMT
<1> QED
  BY <1>1, <1>2, <1>3, <1>4, <1>5, SMT

LEMMA Scale == \A u \in DOMAIN Millimetres : Millimetres[u] \in Int /\ Millimetres[u] > 0
BY SMT DEF Millimetres

\* The value in the unit of the rule is compared as the lengths are.
LEMMA NumberReads ==
  ASSUME NEW r, NEW v, v.number \in Int, HasUnit(v, r.unit), Absent \notin DOMAIN Millimetres
  PROVE  /\ Normalized(v, r.unit)[1] \in Int /\ Normalized(v, r.unit)[2] \in Int
         /\ Normalized(v, r.unit)[1] < 0 <=> v.number < 0
         /\ \A b : IsBand(b) /\ BandContains(b, Normalized(v, r.unit)[1], Normalized(v, r.unit)[2])
              => Within(v, b, r)
<1>1. CASE v.unit = r.unit
  <2> DEFINE kk == IF v.unit \in DOMAIN Millimetres THEN Millimetres[v.unit] ELSE 1
  <2>1. Normalized(v, r.unit)[1] = v.number /\ Normalized(v, r.unit)[2] = 1
    BY <1>1 DEF Normalized
  <2>2. kk \in Int /\ kk > 0
    BY Scale
  <2>3. Length(v) = v.number * kk /\ \A b : Bound(b, r) = b * kk
    BY <1>1 DEF Length, Bound
  <2> HIDE DEF kk
  <2>4. \A x \in Int : /\ v.number > x * 1 => v.number * kk > x * kk
                       /\ v.number < x * 1 => v.number * kk < x * kk
                       /\ v.number = x * 1 => v.number * kk = x * kk
                       /\ x * kk \in Int
    BY <2>2, Times
  <2>5. v.number * kk \in Int
    BY <2>2, Times
  <2>6. ASSUME NEW b, IsBand(b), BandContains(b, v.number, 1)
        PROVE  Within(v, b, r)
    <3>0. /\ b.min \in Int \cup {Absent} /\ b.max \in Int \cup {Absent}
          /\ b.min = Absent \/ v.number > b.min * 1 \/ (b.minInc /\ v.number = b.min * 1)
          /\ b.max = Absent \/ v.number < b.max * 1 \/ (b.maxInc /\ v.number = b.max * 1)
      BY <2>6 DEF BandContains, IsBand
    <3>1. b.min \in Int /\ b.min # Absent => \/ v.number * kk > b.min * kk
                           \/ (b.minInc /\ v.number * kk = b.min * kk)
      BY <2>4, <3>0
    <3>2. b.max \in Int /\ b.max # Absent => \/ v.number * kk < b.max * kk
                           \/ (b.maxInc /\ v.number * kk = b.max * kk)
      BY <2>4, <3>0
    <3>3. b.min = Absent \/ (b.min \in Int /\ b.min * kk \in Int)
      BY <2>4, <3>0
    <3>4. b.max = Absent \/ (b.max \in Int /\ b.max * kk \in Int)
      BY <2>4, <3>0
    <3>5. Bound(b.min, r) = b.min * kk /\ Bound(b.max, r) = b.max * kk
      BY <2>3
    <3>6. b.min # Absent => /\ Length(v) >= Bound(b.min, r)
                            /\ Length(v) = Bound(b.min, r) => b.minInc
      BY <3>1, <3>3, <3>5, <2>3, <2>5
    <3>7. b.max # Absent => /\ Length(v) <= Bound(b.max, r)
                            /\ Length(v) = Bound(b.max, r) => b.maxInc
      BY <3>2, <3>4, <3>5, <2>3, <2>5
    <3> QED
      BY <3>6, <3>7 DEF Within
  <2> QED
    BY <2>1, <2>6
<1>2. CASE v.unit # r.unit
  <2> DEFINE ku == Millimetres[v.unit]
             kr == Millimetres[r.unit]
  <2>1. v.unit \in DOMAIN Millimetres /\ r.unit \in DOMAIN Millimetres
    BY <1>2 DEF HasUnit
  <2>2. ku \in Int /\ ku > 0 /\ kr \in Int
    BY <2>1, Scale
  <2>3. Normalized(v, r.unit)[1] = v.number * ku /\ Normalized(v, r.unit)[2] = kr
    BY <1>2 DEF Normalized
  <2>4. Length(v) = v.number * ku /\ \A b : Bound(b, r) = b * kr
    BY <2>1 DEF Length, Bound
  <2> HIDE DEF ku, kr
  <2>5. v.number * ku \in Int /\ (v.number * ku < 0 <=> v.number < 0)
    <3>1. v.number * ku \in Int /\ (v.number < 0 => v.number * ku < 0 * ku)
                              /\ (v.number > 0 => v.number * ku > 0 * ku)
      BY <2>2, Times
    <3>2. 0 * ku = 0 /\ (v.number = 0 => v.number * ku = 0)
      BY <2>2
    <3> QED
      BY <3>1, <3>2
  <2>6. ASSUME NEW b, IsBand(b), BandContains(b, v.number * ku, kr)
        PROVE  Within(v, b, r)
    <3>1. Bound(b.min, r) = b.min * kr /\ Bound(b.max, r) = b.max * kr
      BY <2>4
    <3>2. /\ b.min = Absent \/ (b.min \in Int /\ b.min * kr \in Int)
          /\ b.max = Absent \/ (b.max \in Int /\ b.max * kr \in Int)
      BY <2>2, <2>6 DEF IsBand
    <3>3. b.min # Absent => /\ Length(v) >= Bound(b.min, r)
                            /\ Length(v) = Bound(b.min, r) => b.minInc
      BY <2>4, <2>5, <2>6, <3>1, <3>2 DEF BandContains
    <3>4. b.max # Absent => /\ Length(v) <= Bound(b.max, r)
                            /\ Length(v) = Bound(b.max, r) => b.maxInc
      BY <2>4, <2>5, <2>6, <3>1, <3>2 DEF BandContains
    <3> QED
      BY <3>3, <3>4 DEF Within
  <2> QED
    BY <2>2, <2>3, <2>5, <2>6
<1> QED
  BY <1>1, <1>2

\* What can be read in the unit or the categories of an admitted rule has a grade: one of
\* a band or category that holds it.
LEMMA Numbers ==
  ASSUME NEW r, IsDefinition(r), ValidDefinition(r), r.kind \in IntervalKinds,
         NEW v, v.number \in Int
  PROVE  LET g == NumberGrade(r, v) IN
         IF HasUnit(v, r.unit) /\ (r.kind \in DistanceKinds => v.number >= 0)
         THEN \E i \in 1..Len(r.bands) : g = r.bands[i].grade /\ Within(v, r.bands[i], r)
         ELSE g = Absent
<1> DEFINE n == Normalized(v, r.unit)
           hits == {i \in 1..Len(r.bands) : BandContains(r.bands[i], n[1], n[2])}
<1>1. NumberGrade(r, v) =
        IF ~HasUnit(v, r.unit) \/ (r.kind \in DistanceKinds /\ n[1] < 0) \/ hits = {}
        THEN Absent ELSE r.bands[Min(hits)].grade
  BY DEF NumberGrade
<1>2. CASE ~HasUnit(v, r.unit)
  BY <1>1, <1>2
<1>3. CASE HasUnit(v, r.unit)
  <2>1. /\ n[1] \in Int /\ n[2] \in Int /\ (n[1] < 0 <=> v.number < 0)
        /\ \A b : IsBand(b) /\ BandContains(b, n[1], n[2]) => Within(v, b, r)
    BY <1>3, NumberReads, FactorAssumption
  <2>2. /\ r.bands \in Seq(Range(r.bands)) /\ r.bands # <<>> /\ ValidIntervals(r.bands)
        /\ \A i \in 1..Len(r.bands) : IsBand(r.bands[i])
    BY DEF IsDefinition, ValidDefinition
  <2>3. hits # {}
    <3> HIDE DEF n
    <3> QED
      BY <2>1, <2>2, BandsCover
  <2>4. Min(hits) \in hits
    <3>1. hits \subseteq Nat
      BY <2>2
    <3> HIDE DEF hits
    <3> QED
      BY <2>3, <3>1, FirstOne
  <2>5. Min(hits) \in 1..Len(r.bands) /\ Within(v, r.bands[Min(hits)], r)
    <3> HIDE DEF n
    <3> QED
      BY <2>1, <2>2, <2>4
  <2>6. n[1] < 0 <=> ~(v.number >= 0)
    BY <2>1
  <2> HIDE DEF hits, n
  <2> QED
    BY <1>1, <1>3, <2>3, <2>5, <2>6
<1> QED
  BY <1>2, <1>3

LEMMA Texts ==
  ASSUME NEW r, IsDefinition(r), NEW v
  PROVE  LET g == CategoryGrade(r, v) IN
         IF \E i \in 1..Len(r.cats) : v.text \in r.cats[i].values
         THEN \E i \in 1..Len(r.cats) : g = r.cats[i].grade /\ v.text \in r.cats[i].values
         ELSE g = Absent
<1> DEFINE hits == {i \in 1..Len(r.cats) : v.text \in r.cats[i].values}
<1>1. CategoryGrade(r, v) = IF hits = {} THEN Absent ELSE r.cats[Min(hits)].grade
  BY DEF CategoryGrade
<1>2. r.cats \in Seq(Range(r.cats))
  BY DEF IsDefinition
<1>3. hits # {} => Min(hits) \in hits
  <2>1. hits \subseteq Nat
    BY <1>2
  <2> HIDE DEF hits
  <2> QED
    BY <2>1, FirstOne
<1> QED
  BY <1>1, <1>3

\* What stops a classification is the observation alone.
LEMMA Graded ==
  ASSUME NEW r, IsDefinition(r), ValidDefinition(r), NEW o, IsObservation(o),
         NEW f, NEW s, NEW sides
  PROVE  LET g == Classify(f, r, o, s, sides, Threshold) IN
         IF o.evidence /\ Readable(r, o) /\ Confident(f, s, o, sides, Threshold)
         THEN g # Absent /\ g \in RefGrades(r, o) /\ g \in Grades(r.bands) \cup Grades(r.cats)
         ELSE g = Absent
<1> DEFINE g == Classify(f, r, o, s, sides, Threshold)
           fine == o.evidence /\ Readable(r, o) /\ Confident(f, s, o, sides, Threshold)
<1>1. r.kind \in RuleKinds
  BY DEF IsDefinition
<1>2. CASE o.value = Absent \/ ~o.evidence \/ ~Confident(f, s, o, sides, Threshold)
  <2>1. g = Absent
    BY <1>2 DEF Classify
  <2>2. ~fine
    BY <1>2 DEF Readable, Measured
  <2> QED
    BY <2>1, <2>2
<1> DEFINE number == r.kind \in {"numeric_interval", "distance_interval"}
                     \/ (r.kind = "presence_distance" /\ o.value.type = "number")
<1>3. CASE /\ ~(o.value = Absent \/ ~o.evidence \/ ~Confident(f, s, o, sides, Threshold))
           /\ o.value.type = "number" /\ r.kind \in IntervalKinds
  <2>1. o.value.number \in Int
    BY <1>3 DEF IsObservation
  <2>2. g = NumberGrade(r, o.value)
    BY <1>3 DEF Classify, IntervalKinds
  <2>3. fine <=> HasUnit(o.value, r.unit) /\ (r.kind \in DistanceKinds => o.value.number >= 0)
    <3>1. HasUnit(o.value, r.unit) <=>
            (o.value.unit = r.unit \/ {o.value.unit, r.unit} \subseteq DOMAIN Millimetres)
      BY FactorAssumption DEF HasUnit
    <3> QED
      BY <1>3, <3>1 DEF Readable, Measured
  <2>4. ASSUME fine
        PROVE  g # Absent /\ g \in RefGrades(r, o) /\ g \in Grades(r.bands) \cup Grades(r.cats)
    <3>1. PICK i \in 1..Len(r.bands) : g = r.bands[i].grade /\ Within(o.value, r.bands[i], r)
      BY <1>3, <2>1, <2>2, <2>3, <2>4, Numbers
    <3>2. r.bands[i] \in Range(r.bands) /\ r.bands[i].grade # Absent
      BY <3>1 DEF IsDefinition, IsBand, Range
    <3>3. Measured(r, o)
      BY <1>3, <2>4 DEF Readable
    <3>4. g \in {b.grade : b \in {b \in Range(r.bands) : Measured(r, o) /\ Within(o.value, b, r)}}
      BY <3>1, <3>2, <3>3
    <3>5. g \in Grades(r.bands)
      BY <3>1 DEF Grades
    <3> QED
      BY <3>1, <3>2, <3>4, <3>5 DEF RefGrades
  <2>5. ~fine => g = Absent
    BY <1>3, <2>1, <2>2, <2>3, Numbers
  <2> QED
    BY <2>4, <2>5
<1>4. CASE /\ ~(o.value = Absent \/ ~o.evidence \/ ~Confident(f, s, o, sides, Threshold))
           /\ o.value.type = "number" /\ r.kind \notin IntervalKinds
  <2>1. g = Absent
    BY <1>4 DEF Classify, IntervalKinds
  <2>2. ~fine
    BY <1>4 DEF Readable, Measured
  <2> QED
    BY <2>1, <2>2
<1>5. CASE /\ ~(o.value = Absent \/ ~o.evidence \/ ~Confident(f, s, o, sides, Threshold))
           /\ o.value.type = "text" /\ r.kind \in {"numeric_interval", "distance_interval"}
  <2>1. g = Absent
    BY <1>5 DEF Classify
  <2>2. r.cats = <<>>
    BY <1>5 DEF ValidDefinition, IntervalKinds
  <2>3. ~fine
    BY <1>5, <2>2 DEF Readable, Measured
  <2> QED
    BY <2>1, <2>3
<1>6. CASE /\ ~(o.value = Absent \/ ~o.evidence \/ ~Confident(f, s, o, sides, Threshold))
           /\ o.value.type = "text" /\ r.kind \notin {"numeric_interval", "distance_interval"}
  <2>1. g = CategoryGrade(r, o.value)
    BY <1>6 DEF Classify
  <2>2. fine <=> \E i \in 1..Len(r.cats) : o.value.text \in r.cats[i].values
    BY <1>6 DEF Readable, Measured
  <2>3. ASSUME fine
        PROVE  g # Absent /\ g \in RefGrades(r, o) /\ g \in Grades(r.bands) \cup Grades(r.cats)
    <3>1. PICK i \in 1..Len(r.cats) : g = r.cats[i].grade /\ o.value.text \in r.cats[i].values
      BY <2>1, <2>2, <2>3, Texts
    <3>2. r.cats[i] \in Range(r.cats) /\ r.cats[i].grade # Absent
      BY <3>1 DEF IsDefinition, Range
    <3>4. g \in {k.grade : k \in {k \in Range(r.cats) : o.value.type = "text" /\ o.value.text \in k.values}}
      BY <1>6, <3>1, <3>2
    <3>5. g \in Grades(r.cats)
      BY <3>1 DEF Grades
    <3> QED
      BY <3>1, <3>2, <3>4, <3>5 DEF RefGrades
  <2>4. ~fine => g = Absent
    BY <2>1, <2>2, Texts
  <2> QED
    BY <2>3, <2>4
<1> QED
  BY <1>1, <1>2, <1>3, <1>4, <1>5, <1>6 DEF IsObservation, RuleKinds

PairSet == [factor : Factors, target : Observations, comparable : Observations]

\* Why a pair of an admitted rule set has the status it has.
LEMMA PairJudged ==
  ASSUME NEW rs \in RuleSets, \A f \in DOMAIN rs : ValidDefinition(rs[f]), NEW p \in PairSet, NEW sides
  PROVE  LET it == EvaluatePair(p, rs, sides) IN
         /\ it.factor = p.factor /\ it.status \in ItemStatuses
         /\ it.status = "failed" <=> p.factor \notin DOMAIN rs
         /\ it.status = "needs_review" =>
              \E s \in Sides : \/ ~p[s].evidence \/ ~Readable(rs[p.factor], p[s])
                               \/ (p[s].confidence < Threshold /\ <<p.factor, s>> \notin sides)
         /\ it.status = "verified" =>
              /\ \A s \in Sides : p[s].evidence /\ (p[s].confidence >= Threshold \/ <<p.factor, s>> \in sides)
              /\ \E t \in RefGrades(rs[p.factor], p.target), c \in RefGrades(rs[p.factor], p.comparable) :
                    it.adjustment = rs[p.factor].matrix[t][c]
              /\ it.adjustment # Absent
<1> DEFINE it == EvaluatePair(p, rs, sides)
           r == rs[p.factor]
           t == Classify(p.factor, r, p.target, "target", sides, Threshold)
           c == Classify(p.factor, r, p.comparable, "comparable", sides, Threshold)
           fine(s) == p[s].evidence /\ Readable(r, p[s]) /\ Confident(p.factor, s, p[s], sides, Threshold)
<1>1. it = IF p.factor \notin DOMAIN rs THEN Item(p.factor, "failed", Absent)
           ELSE IF t = Absent \/ c = Absent THEN Item(p.factor, "needs_review", Absent)
           ELSE IF t \notin DOMAIN r.matrix \/ c \notin DOMAIN r.matrix[t]
           THEN Item(p.factor, "failed", Absent)
           ELSE Item(p.factor, "verified", r.matrix[t][c])
  BY DEF EvaluatePair
<1>2. \A f, s, a : /\ Item(f, s, a).factor = f /\ Item(f, s, a).status = s
                   /\ Item(f, s, a).adjustment = a
  BY DEF Item
<1>3. CASE p.factor \notin DOMAIN rs
  BY <1>1, <1>2, <1>3 DEF ItemStatuses
<1>4. CASE p.factor \in DOMAIN rs
  <2>1. IsDefinition(r) /\ ValidDefinition(r)
    BY <1>4, FactorAssumption DEF RuleSets
  <2>2. \A s \in Sides : p[s] \in Observations /\ IsObservation(p[s])
    BY FactorAssumption DEF PairSet, Sides
  <2>3. /\ IF fine("target") THEN t # Absent /\ t \in RefGrades(r, p.target)
                                    /\ t \in Grades(r.bands) \cup Grades(r.cats)
                             ELSE t = Absent
        /\ IF fine("comparable") THEN c # Absent /\ c \in RefGrades(r, p.comparable)
                                        /\ c \in Grades(r.bands) \cup Grades(r.cats)
                                 ELSE c = Absent
    <3>1. IsObservation(p.target) /\ p.target = p["target"]
      BY <2>2 DEF Sides
    <3>2. IsObservation(p.comparable) /\ p.comparable = p["comparable"]
      BY <2>2 DEF Sides
    <3> QED
      BY <2>1, <3>1, <3>2, Graded
  <2>4. \A g, h \in Grades(r.bands) \cup Grades(r.cats) : g \in DOMAIN r.matrix /\ h \in DOMAIN r.matrix[g]
    BY <2>1 DEF ValidDefinition, ValidMatrix
  <2>5. CASE t = Absent \/ c = Absent
    <3>1. it = Item(p.factor, "needs_review", Absent)
      BY <1>1, <1>4, <2>5
    <3>2. PICK s \in Sides : ~fine(s)
      BY <2>3, <2>5 DEF Sides
    <3>3. ~p[s].evidence \/ ~Readable(r, p[s])
            \/ (p[s].confidence < Threshold /\ <<p.factor, s>> \notin sides)
      BY <2>2, <3>2 DEF Confident, Threshold, IsObservation
    <3> QED
      BY <1>2, <1>4, <3>1, <3>3 DEF ItemStatuses
  <2>6. CASE t # Absent /\ c # Absent
    <3>1. fine("target") /\ fine("comparable")
      BY <2>3, <2>6
    <3>2. t \in DOMAIN r.matrix /\ c \in DOMAIN r.matrix[t]
      BY <2>3, <2>4, <3>1
    <3>3. it = Item(p.factor, "verified", r.matrix[t][c])
      BY <1>1, <1>4, <2>6, <3>2
    <3>4. \A s \in Sides : p[s].evidence /\ (p[s].confidence >= Threshold \/ <<p.factor, s>> \in sides)
      BY <3>1 DEF Sides, Confident
    <3>5. r.matrix[t][c] \in Int
      BY <2>1, <3>2 DEF IsDefinition
    <3>7. t \in RefGrades(r, p.target) /\ c \in RefGrades(r, p.comparable)
      BY <2>3, <3>1
    <3> HIDE DEF it, t, c, r
    <3>6. it.factor = p.factor /\ it.status = "verified" /\ it.adjustment = r.matrix[t][c]
      BY <1>2, <3>3
    <3>8. it.adjustment # Absent
      BY <3>5, <3>6, FactorAssumption
    <3>9. \E x \in RefGrades(r, p.target), y \in RefGrades(r, p.comparable) : it.adjustment = r.matrix[x][y]
      BY <3>6, <3>7
    <3>10. /\ it.factor = p.factor /\ it.status \in ItemStatuses
           /\ it.status # "failed" /\ it.status # "needs_review"
      BY <3>6 DEF ItemStatuses
    <3> QED
      BY <1>4, <3>4, <3>8, <3>9, <3>10 DEF r, it
  <2> QED
    BY <2>5, <2>6
<1> QED
  BY <1>3, <1>4

\* What an evaluation consists of.
WellJudged(e, ps, rs, sides) ==
  /\ e = [items |-> e.items, status |-> e.status, total |-> e.total]
  /\ e.items \in Seq({EvaluatePair(ps[i], rs, sides) : i \in 1..Len(ps)})
  /\ Len(e.items) = Len(ps)
  /\ \A i \in 1..Len(ps) : e.items[i] = EvaluatePair(ps[i], rs, sides)
  /\ e.status = WorstStatus({e.items[i].status : i \in 1..Len(ps)}) /\ e.status \in ItemStatuses
  /\ e.total = IF e.status = "verified" THEN TotalAdjustment(e.items) ELSE Absent

LEMMA RequestJudged ==
  ASSUME NEW rs, NEW ps \in Seq(PairSet), NEW sides
  PROVE  WellJudged(EvaluatePairs(ps, rs, sides), ps, rs, sides)
<1> DEFINE its == [i \in 1..Len(ps) |-> EvaluatePair(ps[i], rs, sides)]
           st == WorstStatus({its[i].status : i \in 1..Len(ps)})
           e == EvaluatePairs(ps, rs, sides)
<1>1. e = [items |-> its, status |-> st, total |-> IF st = "verified" THEN TotalAdjustment(its) ELSE Absent]
  BY DEF EvaluatePairs
<1>2. e.items = its /\ e.status = st
      /\ e.total = IF st = "verified" THEN TotalAdjustment(its) ELSE Absent
  BY <1>1
<1>3. its \in Seq({EvaluatePair(ps[i], rs, sides) : i \in 1..Len(ps)}) /\ Len(its) = Len(ps)
  <2>1. Len(ps) \in Nat
    OBVIOUS
  <2> QED
    BY <2>1
<1>4. \A i \in 1..Len(ps) : its[i] = EvaluatePair(ps[i], rs, sides)
  OBVIOUS
<1>5. st \in ItemStatuses
  BY DEF WorstStatus, ItemStatuses
<1> HIDE DEF its, st, e
<1>6. e = [items |-> e.items, status |-> e.status, total |-> e.total]
  BY <1>1, <1>2
<1> QED
  BY <1>2, <1>3, <1>4, <1>5, <1>6 DEF st, e, WellJudged

-----------------------------------------------------------------------------
\* What every stage has established: an admitted rule set is valid, an evaluated result is
\* the engine's, an altered one still has the engine's or claimed items of its pairs, and
\* a passed one was verified as it is.
FactorInv ==
  /\ FactorTypeOK
  /\ stage \in {"admitted", "evaluated", "claimed", "verified"} => \A f \in DOMAIN rules : ValidDefinition(rules[f])
  /\ stage = "evaluated" => result = EvaluatePairs(pairs, rules, confirmed)
  /\ stage = "claimed" =>
       /\ DOMAIN result.items \subseteq 1..Len(pairs)
       /\ \A i \in DOMAIN result.items :
            result.items[i].status = "verified" \/ result.items[i] = EvaluatePair(pairs[i], rules, confirmed)
  /\ report = "verified" => stage = "verified" /\ Verify(result, rules, pairs, confirmed) = "verified"

LEMMA FactorStarts == FactorInit => FactorInv
<1> SUFFICES ASSUME FactorInit PROVE FactorInv
  OBVIOUS
<1>1. report # "verified"
  BY FactorAssumption DEF FactorInit, ItemStatuses
<1>2. FactorTypeOK
  BY FactorAssumption DEF FactorInit, FactorTypeOK, NotEvaluated
<1> QED
  BY <1>1, <1>2 DEF FactorInit, FactorInv

LEMMA FactorStep == FactorInv /\ [FactorNext]_factorVars => FactorInv'
<1> SUFFICES ASSUME FactorInv, [FactorNext]_factorVars PROVE FactorInv'
  OBVIOUS
<1> USE DEF FactorInv
<1>t. pairs \in Seq(PairSet) /\ Len(pairs) \in Nat /\ \A i \in 1..Len(pairs) : pairs[i] \in PairSet
  <2>1. pairs \in Seq(PairSet)
    BY DEF FactorTypeOK, PairSet
  <2> QED
    BY <2>1
<1>j. WellJudged(EvaluatePairs(pairs, rules, confirmed), pairs, rules, confirmed)
  BY <1>t, RequestJudged
<1>1. CASE AdmitRules
  BY <1>1 DEF AdmitRules, FactorTypeOK
<1>2. ASSUME NEW f \in Factors, NEW t \in Observations, NEW c \in Observations, Report(f, t, c)
      PROVE  FactorInv'
  <2>1. [factor |-> f, target |-> t, comparable |-> c] \in PairSet
    BY DEF PairSet
  <2>2. pairs' \in Seq(PairSet) /\ Len(pairs') = Len(pairs) + 1
    BY <1>2, <1>t, <2>1 DEF Report
  <2>3. Len(pairs') <= MaxPairs
    BY <1>2, <1>t, <2>2, FactorAssumption DEF Report
  <2> QED
    BY <1>2, <2>2, <2>3 DEF Report, FactorTypeOK, PairSet
<1>3. ASSUME NEW i \in 1..MaxPairs, NEW side \in Sides, ConfirmSide(i, side)
      PROVE  FactorInv'
  <2>1. pairs[i].factor \in Factors
    BY <1>3, <1>t DEF ConfirmSide, PairSet
  <2>2. confirmed' \subseteq Factors \X Sides
    BY <1>3, <2>1 DEF ConfirmSide, FactorTypeOK
  <2> QED
    BY <1>3, <2>2 DEF ConfirmSide, FactorTypeOK
<1>4. CASE RunEngine
  <2>1. result'.status \in ItemStatuses
    BY <1>4, <1>j DEF RunEngine, WellJudged
  <2> QED
    BY <1>4, <2>1 DEF RunEngine, FactorTypeOK
<1>5. ASSUME NEW i \in 1..MaxPairs, NEW a \in Adjustments, Alter(i, a)
      PROVE  FactorInv'
  <2> DEFINE e == EvaluatePairs(pairs, rules, confirmed)
  <2>1. /\ result = e /\ e = [items |-> e.items, status |-> e.status, total |-> e.total]
        /\ DOMAIN e.items = 1..Len(pairs) /\ e.status \in ItemStatuses
        /\ \A j \in 1..Len(pairs) : e.items[j] = EvaluatePair(pairs[j], rules, confirmed)
    BY <1>5, <1>t, <1>j DEF Alter, WellJudged
  <2> HIDE DEF e
  <2>2. /\ result'.status = e.status /\ DOMAIN result'.items = 1..Len(pairs)
        /\ \A j \in 1..Len(pairs) : j # i => result'.items[j] = e.items[j]
    BY <1>5, <2>1 DEF Alter
  <2>3. i \in 1..Len(pairs) /\ result'.items[i].status = "verified"
    <3>1. i \in DOMAIN result.items
      BY <1>5, <1>t, <1>j DEF Alter, WellJudged, e
    <3>2. \E f, st, ad : EvaluatePair(pairs[i], rules, confirmed) = Item(f, st, ad)
      BY DEF EvaluatePair
    <3>3. e.items[i] = Item(e.items[i].factor, e.items[i].status, e.items[i].adjustment)
      BY <2>1, <3>1, <3>2 DEF Item
    <3> QED
      BY <1>5, <2>1, <3>1, <3>3 DEF Alter, Item
  <2>4. /\ DOMAIN result'.items \subseteq 1..Len(pairs)
        /\ \A j \in DOMAIN result'.items :
             result'.items[j].status = "verified" \/ result'.items[j] = EvaluatePair(pairs[j], rules, confirmed)
    BY <2>1, <2>2, <2>3
  <2>5. stage = "evaluated" /\ stage' = "claimed" /\ UNCHANGED <<rules, pairs, confirmed, report>>
    BY <1>5 DEF Alter
  <2> QED
    BY <2>1, <2>2, <2>4, <2>5 DEF FactorTypeOK
<1>6. CASE Omit
  <2> DEFINE e == EvaluatePairs(pairs, rules, confirmed)
             S == {EvaluatePair(pairs[i], rules, confirmed) : i \in 1..Len(pairs)}
  <2>1. /\ result = e /\ e = [items |-> e.items, status |-> e.status, total |-> e.total]
        /\ e.items \in Seq(S) /\ Len(e.items) = Len(pairs) /\ e.status \in ItemStatuses
        /\ \A j \in 1..Len(pairs) : e.items[j] = EvaluatePair(pairs[j], rules, confirmed)
    BY <1>6, <1>t, <1>j DEF Omit, WellJudged
  <2> HIDE DEF e, S
  <2>2. result'.status = e.status /\ result'.items = SubSeq(e.items, 1, Len(e.items) - 1)
    BY <1>6, <2>1 DEF Omit, Front
  <2>3. /\ DOMAIN result'.items \subseteq 1..Len(pairs)
        /\ \A j \in DOMAIN result'.items : result'.items[j] = e.items[j]
    BY <1>t, <2>1, <2>2
  <2>5. stage = "evaluated" /\ stage' = "claimed" /\ UNCHANGED <<rules, pairs, confirmed, report>>
    BY <1>6 DEF Omit
  <2> QED
    BY <2>1, <2>2, <2>3, <2>5 DEF FactorTypeOK
<1>7. CASE RunVerifier
  <2>1. Verify(result, rules, pairs, confirmed) \in ItemStatuses
    BY DEF Verify, ItemStatuses
  <2>2. /\ report' = Verify(result, rules, pairs, confirmed) /\ stage' = "verified"
        /\ stage \in {"evaluated", "claimed"} /\ UNCHANGED <<rules, pairs, confirmed, result>>
    BY <1>7 DEF RunVerifier
  <2>3. Verify(result, rules, pairs, confirmed)' = Verify(result, rules, pairs, confirmed)
    BY <2>2
  <2> QED
    BY <2>1, <2>2, <2>3 DEF FactorTypeOK
<1>8. CASE UNCHANGED factorVars
  BY <1>8 DEF factorVars, FactorTypeOK
<1> QED
  BY <1>1, <1>2, <1>3, <1>4, <1>5, <1>6, <1>7, <1>8 DEF FactorNext

LEMMA EngineLeavesNoGap == FactorInv => AdmittedRulesHaveNoGap
<1> SUFFICES ASSUME FactorInv, stage \in {"evaluated", "claimed"},
                    NEW i \in DOMAIN result.items, pairs[i].factor \in DOMAIN rules
             PROVE  /\ result.items[i].status # "failed"
                    /\ result.items[i].status = "needs_review" =>
                          \E s \in Sides :
                              LET o == pairs[i][s] IN
                              \/ ~o.evidence \/ ~Readable(rules[pairs[i].factor], o)
                              \/ o.confidence < Threshold /\ <<pairs[i].factor, s>> \notin confirmed
  BY DEF AdmittedRulesHaveNoGap
<1>1. pairs \in Seq(PairSet) /\ rules \in RuleSets /\ \A f \in DOMAIN rules : ValidDefinition(rules[f])
  BY DEF FactorInv, FactorTypeOK, PairSet
<1>2. WellJudged(EvaluatePairs(pairs, rules, confirmed), pairs, rules, confirmed)
  BY <1>1, RequestJudged
<1>3. i \in 1..Len(pairs) /\ (result.items[i].status = "verified"
                               \/ result.items[i] = EvaluatePair(pairs[i], rules, confirmed))
  <2>1. CASE stage = "evaluated"
    BY <1>1, <1>2, <2>1 DEF FactorInv, WellJudged
  <2>2. CASE stage = "claimed"
    BY <2>2 DEF FactorInv
  <2> QED
    BY <2>1, <2>2
<1>4. pairs[i] \in PairSet
  BY <1>1, <1>3
<1>5. CASE result.items[i].status = "verified"
  BY <1>5
<1>6. CASE result.items[i] = EvaluatePair(pairs[i], rules, confirmed)
  <2> DEFINE it == EvaluatePair(pairs[i], rules, confirmed)
             p == pairs[i]
  <2>1. /\ it.status = "failed" <=> p.factor \notin DOMAIN rules
        /\ it.status = "needs_review" =>
              \E s \in Sides : \/ ~p[s].evidence \/ ~Readable(rules[p.factor], p[s])
                               \/ (p[s].confidence < Threshold /\ <<p.factor, s>> \notin confirmed)
    BY <1>1, <1>4, PairJudged
  <2>2. result.items[i].status = it.status
    BY <1>6
  <2> HIDE DEF it
  <2> QED
    BY <2>1, <2>2
<1> QED
  BY <1>3, <1>5, <1>6

\* A result that passes the verifier is the engine's for these facts, and whole.
LEMMA PassedWhole ==
  ASSUME FactorInv, report = "verified"
  PROVE  /\ WellJudged(result, pairs, rules, confirmed) /\ result.status = "verified"
         /\ IsInjective(Ids(result.items)) /\ ~MissingCritical(result.items, rules)
         /\ \A i \in 1..Len(pairs) : result.items[i].status = "verified"
<1> DEFINE e == EvaluatePairs(pairs, rules, confirmed)
<1>1. pairs \in Seq(PairSet)
  BY DEF FactorInv, FactorTypeOK, PairSet
<1>2. WellJudged(e, pairs, rules, confirmed)
  BY <1>1, RequestJudged
<1>3. Verify(result, rules, pairs, confirmed) = "verified"
  BY DEF FactorInv
<1>4. /\ result = e /\ e.status = "verified"
      /\ IsInjective(Ids(result.items)) /\ ~MissingCritical(result.items, rules)
  <2> HIDE DEF e
  <2>1. Verify(result, rules, pairs, confirmed) =
          IF ~IsInjective(Ids(result.items)) \/ result # e \/ e.status = "failed" THEN "failed"
          ELSE IF MissingCritical(result.items, rules) \/ e.status # "verified"
          THEN "needs_review" ELSE "verified"
    BY DEF Verify, e
  <2> QED
    BY <1>3, <2>1
<1> HIDE DEF e
<1>5. \A i \in 1..Len(pairs) : e.items[i].status \in ItemStatuses
  <2> SUFFICES ASSUME NEW i \in 1..Len(pairs) PROVE e.items[i].status \in ItemStatuses
    OBVIOUS
  <2>1. e.items[i] = EvaluatePair(pairs[i], rules, confirmed) /\ pairs[i] \in PairSet
    BY <1>1, <1>2 DEF WellJudged
  <2>2. rules \in RuleSets /\ \A f \in DOMAIN rules : ValidDefinition(rules[f])
    BY DEF FactorInv, FactorTypeOK
  <2> QED
    BY <2>1, <2>2, PairJudged
<1>6. WorstStatus({e.items[i].status : i \in 1..Len(pairs)}) = "verified"
  BY <1>2, <1>4 DEF WellJudged
<1>7. \A i \in 1..Len(pairs) : e.items[i].status # "failed" /\ e.items[i].status # "needs_review"
  BY <1>6 DEF WorstStatus
<1> QED
  BY <1>2, <1>4, <1>5, <1>7 DEF ItemStatuses

LEMMA PassedIsGrounded == FactorInv => VerifiedIsGrounded
<1> SUFFICES ASSUME FactorInv, report = "verified" PROVE VerifiedIsGrounded
  BY DEF VerifiedIsGrounded
<1>1. pairs \in Seq(PairSet) /\ rules \in RuleSets
  BY DEF FactorInv, FactorTypeOK, PairSet
<1>2. \A f \in DOMAIN rules : ValidDefinition(rules[f])
  BY DEF FactorInv
<1>3. /\ WellJudged(result, pairs, rules, confirmed) /\ result.status = "verified"
      /\ IsInjective(Ids(result.items)) /\ ~MissingCritical(result.items, rules)
      /\ \A i \in 1..Len(pairs) : result.items[i].status = "verified"
  BY PassedWhole
<1>4. DOMAIN result.items = 1..Len(pairs) /\ Len(result.items) = Len(pairs) /\ Len(pairs) \in Nat
  BY <1>1, <1>3 DEF WellJudged
<1>5. ASSUME NEW f \in DOMAIN rules, rules[f].critical
      PROVE  Cardinality({i \in DOMAIN result.items : result.items[i].factor = f}) = 1
  <2> DEFINE ids == Ids(result.items)
  <2>1. DOMAIN ids = 1..Len(pairs) /\ \A i \in 1..Len(pairs) : ids[i] = result.items[i].factor
    BY <1>4 DEF Ids
  <2>2. \A i, j \in DOMAIN ids : ids[i] = ids[j] => i = j
    BY <1>3 DEF IsInjective
  <2>3. f \in Range(ids)
    BY <1>3, <1>5 DEF MissingCritical
  <2>4. PICK i \in 1..Len(pairs) : ids[i] = f
    BY <2>1, <2>3 DEF Range
  <2>5. {j \in DOMAIN result.items : result.items[j].factor = f} = {i}
    BY <1>4, <2>1, <2>2, <2>4
  <2> QED
    BY <2>5, FS_Singleton
<1>6. ASSUME NEW i \in DOMAIN result.items
      PROVE  LET p == pairs[i]  r == rules[p.factor] IN
             /\ p.factor = result.items[i].factor /\ p.factor \in DOMAIN rules
             /\ \A s \in Sides : p[s].evidence /\
                   (p[s].confidence >= Threshold \/ <<p.factor, s>> \in confirmed)
             /\ \E t \in RefGrades(r, p.target), c \in RefGrades(r, p.comparable) :
                   result.items[i].adjustment = r.matrix[t][c]
  <2>1. /\ result.items[i] = EvaluatePair(pairs[i], rules, confirmed)
        /\ result.items[i].status = "verified" /\ pairs[i] \in PairSet
    BY <1>1, <1>3, <1>4, <1>6 DEF WellJudged
  <2>2. "verified" # "failed"
    OBVIOUS
  <2> QED
    BY <1>1, <1>2, <2>1, <2>2, PairJudged
<1>7. result.total = TotalAdjustment(result.items)
  BY <1>3 DEF WellJudged
<1> QED
  BY <1>5, <1>6, <1>7 DEF VerifiedIsGrounded

LEMMA TotalIsWhole == FactorInv => NoPartialTotal
<1> SUFFICES ASSUME FactorInv, result.total # Absent, stage = "evaluated", NEW i \in DOMAIN result.items
             PROVE  result.items[i].adjustment # Absent
  BY DEF NoPartialTotal
<1>1. pairs \in Seq(PairSet) /\ rules \in RuleSets /\ \A f \in DOMAIN rules : ValidDefinition(rules[f])
  BY DEF FactorInv, FactorTypeOK, PairSet
<1>2. WellJudged(result, pairs, rules, confirmed)
  BY <1>1, RequestJudged DEF FactorInv
<1>3. i \in 1..Len(pairs) /\ pairs[i] \in PairSet /\ result.items[i] = EvaluatePair(pairs[i], rules, confirmed)
  BY <1>1, <1>2 DEF WellJudged
<1>4. WorstStatus({result.items[j].status : j \in 1..Len(pairs)}) = "verified"
  BY <1>2 DEF WellJudged
<1>5. result.items[i].status # "failed" /\ result.items[i].status # "needs_review"
  BY <1>3, <1>4 DEF WorstStatus
<1>6. result.items[i].status \in ItemStatuses
  BY <1>1, <1>3, PairJudged
<1>7. result.items[i].status = "verified"
  BY <1>5, <1>6 DEF ItemStatuses
<1> QED
  BY <1>1, <1>3, <1>7, PairJudged

\* The invariant of an evaluation: what each stage has established.
THEOREM FactorInvHolds == FactorSpec => []FactorInv
<1>1. FactorInit => FactorInv
  BY FactorStarts
<1>2. FactorInv /\ [FactorNext]_factorVars => FactorInv'
  BY FactorStep
<1> QED
  BY <1>1, <1>2, PTL DEF FactorSpec

\* Of the factor engine and its verifier, for any rules, observations and claims: an
\* admitted rule set leaves no gap, so only an observation can stop an evaluation; no partial
\* sum is shown; and what the verifier passes can be derived from the facts by hand
\* (FactorRuleEngine.evaluate, ReviewVerifier.verify).
THEOREM GradesGrounded == FactorSpec => []GradesAreGrounded
<1>1. FactorSpec => []FactorInv
  BY FactorInvHolds
<1>2. FactorInv => GradesAreGrounded
  BY EngineLeavesNoGap, PassedIsGrounded, TotalIsWhole DEF GradesAreGrounded
<1> QED
  BY <1>1, <1>2, PTL

-----------------------------------------------------------------------------
(***************************************************************************)
(* The extraction of pages: the inductive invariant                        *)
(***************************************************************************)

LivePcs == {"queued", "counting", "ready", "admitted", "sent"}
BeforeCalls == {"idle", "rendering", "locking", "checking", "raised"}
ActivePcs == {"rendering", "locking", "checking", "attempt", "waiting", "pausing"}
Codes == Known \cup {"none"}
Notes == [completion : {"returned", "failed", "unknown"}, failure : Codes, out : Int]

PageShape(p) ==
  /\ p = [pc |-> p.pc, attempt |-> p.attempt, code |-> p.code, proposal |-> p.proposal, records |-> p.records,
          outcome |-> p.outcome]
  /\ p.pc \in {"idle"} \cup ActivePcs \cup Over /\ p.attempt \in 0 .. LastAttempt
  /\ p.records \in Seq(Notes) /\ p.outcome.failure \in Codes

\* What a call answers when it answers something.
Proper(reply) ==
  /\ reply.out \in Nat \cup {NoUsage}
  /\ reply.failure = "none" => reply.returned /\ reply.body \in Bodies

WorkerShape(x) ==
  /\ x = [pc |-> x.pc, made |-> x.made, cancelled |-> x.cancelled, reply |-> x.reply]
  /\ x.pc \in LivePcs \cup {"none", "done"} /\ x.made \in Nat
  /\ x.pc = "done" => Proper(x.reply)

\* The records of a page are of its calls, and say of each what became of it.
ToldOf(r, s, w) ==
  \A i \in 1 .. Len(s) :
    /\ i \in 1 .. LastAttempt /\ w[<<r, i>>].pc # "none"
    /\ s[i].completion = "returned" => /\ w[<<r, i>>].pc = "done" /\ w[<<r, i>>].reply.returned
                                       /\ s[i].out = w[<<r, i>>].reply.out
    /\ s[i].completion = "failed" => w[<<r, i>>].pc = "done" /\ ~w[<<r, i>>].reply.returned

\* The sides of a proposal that was accepted rest on citations and on no claim of the model.
Checked(p) ==
  /\ \A s \in ProposedSides(p) : s.cites # {} /\ s.method = "model_proposed"
  /\ \A o \in p.observed : o.state \in {"present", "blank", "missing", "not_present", "not_applicable"}
Grounded(r, o) ==
  ValidateOutcome(r, o.proposal) /\ o.handoffs = Handoffs(r, o.proposal) /\ Checked(o.proposal)

\* What the place of a page says about its attempts.
PlaceSound(p) ==
  /\ p.pc \in BeforeCalls => p.attempt = 0 /\ p.records = <<>>
  /\ p.pc \in {"attempt", "waiting"} => p.attempt = Len(p.records) + 1
  /\ p.pc = "pausing" => p.attempt = Len(p.records) /\ p.code \in Retryable

\* The calls a page has begun; a cancelled page may have begun one more than it has recorded.
Begun(p) == IF p.pc = "waiting" THEN Len(p.records) + 1 ELSE Len(p.records)
CallsSound(r, p, w) ==
  /\ p.pc # "cancelled" => \A i \in 1 .. LastAttempt : w[<<r, i>>].pc # "none" <=> i <= Begun(p)
  /\ \A i \in 1 .. LastAttempt :
       w[<<r, i>>].pc \in LivePcs => i = p.attempt /\ p.pc \in {"waiting", "done", "cancelled"}

DoubtStops(p, stopped) ==
  /\ \A i \in 1 .. Len(p.records) :
       p.records[i].completion = "unknown" => i = Len(p.records) /\ p.pc = "done" /\ stopped
  /\ p.pc = "cancelled" => stopped

Earned(r, p) ==
  p.outcome.status = "candidate" =>
    /\ p.pc = "done" /\ p.records # <<>> /\ Grounded(r, p.outcome)
    /\ p.records[Len(p.records)].failure = "none" /\ p.records[Len(p.records)].completion = "returned"

PageSound(r, p, w, stopped) ==
  /\ PageShape(p) /\ ToldOf(r, p.records, w) /\ PlaceSound(p) /\ CallsSound(r, p, w)
  /\ DoubtStops(p, stopped) /\ Earned(r, p)

Counted == {r \in PageRequests : \/ page[r].pc \in ActivePcs
                                 \/ \E i \in 1 .. LastAttempt : worker[<<r, i>>].pc # "none"}
Waiting == {r \in PageRequests : page[r].pc = "waiting"}

LedgerShape ==
  /\ ledger = [run |-> ledger.run, pages |-> ledger.pages, calls |-> ledger.calls, inFlight |-> ledger.inFlight,
               reserved |-> ledger.reserved, stopped |-> ledger.stopped]
  /\ ledger.run \in {Nobody} \cup {r.run : r \in PageRequests}
  /\ ledger.pages \in Nat /\ ledger.calls \in Nat /\ ledger.inFlight \in Nat /\ ledger.reserved \in Nat
  /\ ledger.stopped \in BOOLEAN
CountsHold ==
  /\ ledger.inFlight = Cardinality(Live) /\ ledger.inFlight <= MaxConcurrency
  /\ ledger.calls = Cardinality(Reserved) /\ ledger.calls <= MaxCalls
  /\ \A r \in Counted : r.run = ledger.run
  /\ Cardinality(Counted) <= ledger.pages /\ ledger.pages <= MaxPages
  /\ Cardinality(Waiting) * Tokens <= ledger.reserved

PageTables == page = [r \in PageRequests |-> page[r]] /\ worker = [c \in PageCalls |-> worker[c]]
PagesInv ==
  /\ PageTables
  /\ \A r \in PageRequests : PageSound(r, page[r], worker, ledger.stopped)
  /\ \A c \in PageCalls : WorkerShape(worker[c])
  /\ LedgerShape /\ CountsHold
  /\ expired \in BOOLEAN /\ lock \subseteq PageRequests /\ fetched \subseteq Policy.regions

-----------------------------------------------------------------------------
(***************************************************************************)
(* Constants and codes                                                     *)
(***************************************************************************)

LEMMA LastAttemptBound ==
  LastAttempt \in Nat /\ LastAttempt > 0 /\ LastAttempt <= Attempts /\ LastAttempt <= MaxAttempts
<1>1. Attempts \in Nat \ {0} /\ MaxAttempts \in Nat \ {0}
  BY ExtractionAssumption
<1>2. \E x \in {Attempts, MaxAttempts} : \A y \in {Attempts, MaxAttempts} : x <= y
  BY <1>1
<1>3. LastAttempt \in {Attempts, MaxAttempts} /\ \A y \in {Attempts, MaxAttempts} : LastAttempt <= y
  BY <1>2 DEF LastAttempt, Min
<1> QED
  BY <1>1, <1>3

LEMMA PageCallsFinite == IsFiniteSet(PageCalls)
<1>1. IsFiniteSet(1 .. LastAttempt)
  BY LastAttemptBound, FS_Interval
<1>2. IsFiniteSet(PageRequests)
  BY ExtractionAssumption
<1> QED
  BY <1>1, <1>2, FS_Product DEF PageCalls

LEMMA SafeCodeKnown ==
  ASSUME NEW code
  PROVE  SafeCode(code) \in Codes /\ (SafeCode(code) = "none" <=> code = "none")
BY DEF SafeCode, Codes, Known

LEMMA ProviderFailureFails ==
  ASSUME NEW error
  PROVE  ProviderFailure(error) # "none"
BY DEF ProviderFailure

\* What passes validation has sides that rest on citations.
LEMMA AcceptedIsChecked ==
  ASSUME NEW r, NEW body \in Bodies, ValidateResponse(r, body) = "none"
  PROVE  Checked(Validated(body.proposal))
<1> DEFINE p == body.proposal
<1>1. Validate(r, body) = "none"
  BY DEF ValidateResponse
<1>2. ~\E s \in ProposedSides(p) : CanonicalEvidence(s) # "none"
  BY <1>1 DEF Validate
<1>3. \A s \in ProposedSides(p) : s.cites # {}
  BY <1>2 DEF CanonicalEvidence
<1>4. IsProposal(p)
  BY ExtractionAssumption
<1>5. /\ Validated(p).pairs = {[q EXCEPT !.target = Localized(@), !.comparable = Localized(@)] : q \in p.pairs}
      /\ Validated(p).observed = p.observed
  BY <1>4 DEF Validated, IsProposal
<1>6. ASSUME NEW s \in ProposedSides(Validated(p))
      PROVE  s.cites # {} /\ s.method = "model_proposed"
  <2>1. PICK q \in p.pairs :
          LET x == [q EXCEPT !.target = Localized(@), !.comparable = Localized(@)] IN s \in {x.target, x.comparable}
    BY <1>5, <1>6 DEF ProposedSides
  <2>2. IsPair(q) /\ q.target \in ProposedSides(p) /\ q.comparable \in ProposedSides(p)
    BY <1>4 DEF IsProposal, ProposedSides
  <2>3. s \in {Localized(q.target), Localized(q.comparable)}
    BY <2>1, <2>2 DEF IsPair
  <2>4. PICK t \in ProposedSides(p) : IsSide(t) /\ s = Localized(t)
    BY <2>2, <2>3 DEF IsPair
  <2>5. s.cites = t.cites /\ s.method = "model_proposed"
    BY <2>4 DEF Localized, IsSide
  <2> QED
    BY <2>4, <2>5, <1>3
<1> QED
  BY <1>4, <1>5, <1>6 DEF Checked, IsProposal

-----------------------------------------------------------------------------
(***************************************************************************)
(* Pages that do not move, and pages that end                              *)
(***************************************************************************)

\* What a page has recorded stays true while its calls go on and the ledger stays stopped.
LEMMA PageFrame ==
  ASSUME NEW r, NEW p, NEW w, NEW v, NEW stopped, NEW still, PageSound(r, p, w, stopped), stopped => still,
         \A i \in 1 .. LastAttempt :
           /\ v[<<r, i>>].pc = "none" <=> w[<<r, i>>].pc = "none"
           /\ v[<<r, i>>].pc \in LivePcs => w[<<r, i>>].pc \in LivePcs
           /\ w[<<r, i>>].pc = "done" => v[<<r, i>>].pc = "done" /\ v[<<r, i>>].reply = w[<<r, i>>].reply
  PROVE  PageSound(r, p, v, still)
<1>1. ToldOf(r, p.records, v)
  BY DEF PageSound, ToldOf
<1>2. CallsSound(r, p, v)
  BY DEF PageSound, CallsSound
<1>3. DoubtStops(p, still)
  BY DEF PageSound, DoubtStops
<1> QED
  BY <1>1, <1>2, <1>3 DEF PageSound

Acceptable(code, q, s) ==
  code = "none" => s # <<>> /\ Checked(q) /\ s[Len(s)].failure = "none" /\ s[Len(s)].completion = "returned"

LEMMA MarkedRecords ==
  ASSUME NEW s \in Seq(Notes)
  PROVE  /\ Marked(s) \in Seq(Notes) /\ Len(Marked(s)) = Len(s)
         /\ \A i \in 1 .. Len(s) : Marked(s)[i].completion = s[i].completion /\ Marked(s)[i].out = s[i].out
<1>1. CASE s = <<>>
  BY <1>1 DEF Marked
<1>2. CASE s # <<>>
  <2> DEFINE n == Len(s)
             x == [s[n] EXCEPT !.failure = "invalid_source_reference"]
  <2>1. n \in 1 .. Len(s) /\ s[n] \in Notes
    BY <1>2
  <2>2. x \in Notes /\ x.completion = s[n].completion /\ x.out = s[n].out
    BY <2>1 DEF Notes, Codes, Known
  <2>3. Marked(s) = [s EXCEPT ![n] = x]
    BY <1>2 DEF Marked
  <2> HIDE DEF x
  <2> QED
    BY <2>1, <2>2, <2>3
<1> QED
  BY <1>1, <1>2

\* A page that ends with a code reports the attempts it made, and only what passed every check
\* as a candidate.
LEMMA EndIsSound ==
  ASSUME NEW r \in PageRequests, NEW w, NEW stopped, NEW code, NEW q, NEW s \in Seq(Notes), PageShape(page[r]),
         ToldOf(r, s, w),
         \A i \in 1 .. LastAttempt : w[<<r, i>>].pc # "none" <=> i <= Len(s),
         \A i \in 1 .. LastAttempt : w[<<r, i>>].pc \in LivePcs => i = page[r].attempt,
         \A i \in 1 .. Len(s) : s[i].completion = "unknown" => i = Len(s) /\ stopped,
         Acceptable(code, q, s)
  PROVE  PageSound(r, End(r, code, q, s), w, stopped) /\ End(r, code, q, s).pc = "done"
<1> DEFINE e == End(r, code, q, s)
           bad == code = "none" /\ ~ValidateOutcome(r, q)
           final == IF bad THEN "invalid_source_reference" ELSE code
           kept == IF bad THEN Marked(s) ELSE s
           o == IF final = "none" THEN Candidate(r, q) ELSE Failed(r, final)
<1>1. e = [pc |-> "done", attempt |-> page[r].attempt, code |-> final, proposal |-> NoProposal, records |-> kept,
           outcome |-> o]
  <2>1. e = [page[r] EXCEPT !.pc = "done", !.code = final, !.proposal = NoProposal, !.records = kept, !.outcome = o]
    BY DEF End
  <2> HIDE DEF e, o, kept, final
  <2> QED
    BY <2>1 DEF PageShape
<1>2. /\ kept \in Seq(Notes) /\ Len(kept) = Len(s)
      /\ \A i \in 1 .. Len(s) : kept[i].completion = s[i].completion /\ kept[i].out = s[i].out
  BY MarkedRecords
<1>3. o.failure \in Codes
  BY SafeCodeKnown DEF Candidate, Failed, Codes
<1>4. o.status = "candidate" => code = "none" /\ ~bad /\ o = Candidate(r, q)
  BY DEF Candidate, Failed
<1> HIDE DEF o, kept, final
<1>5. PageShape(e)
  BY <1>1, <1>2, <1>3 DEF PageShape, Over
<1>6. ToldOf(r, e.records, w)
  BY <1>1, <1>2 DEF ToldOf
<1>7. PlaceSound(e)
  BY <1>1 DEF PlaceSound, BeforeCalls
<1>8. CallsSound(r, e, w)
  BY <1>1, <1>2 DEF CallsSound, Begun
<1>9. DoubtStops(e, stopped)
  BY <1>1, <1>2 DEF DoubtStops
<1>10. Earned(r, e)
  <2> SUFFICES ASSUME o.status = "candidate"
               PROVE  /\ e.records # <<>> /\ Grounded(r, o)
                      /\ e.records[Len(e.records)].failure = "none"
                      /\ e.records[Len(e.records)].completion = "returned"
    BY <1>1 DEF Earned
  <2>1. kept = s
    BY <1>4 DEF kept
  <2>2. o.proposal = q /\ o.handoffs = Handoffs(r, q)
    BY <1>4 DEF Candidate
  <2>3. ValidateOutcome(r, q) /\ Checked(q)
        /\ s # <<>> /\ s[Len(s)].failure = "none" /\ s[Len(s)].completion = "returned"
    BY <1>4 DEF Acceptable
  <2> QED
    BY <1>1, <1>4, <2>1, <2>2, <2>3 DEF Grounded
<1> QED
  BY <1>1, <1>5, <1>6, <1>7, <1>8, <1>9, <1>10 DEF PageSound

-----------------------------------------------------------------------------
(***************************************************************************)
(* An attempt that is settled                                              *)
(***************************************************************************)

LEMMA NoteTyped ==
  ASSUME NEW reply, Proper(reply), NEW code
  PROVE  /\ Note(Completion(reply), code, reply.out) \in Notes
         /\ Note(Completion(reply), code, reply.out).completion = Completion(reply)
         /\ Note(Completion(reply), code, reply.out).failure = SafeCode(code)
         /\ Note(Completion(reply), code, reply.out).out = reply.out
         /\ Completion(reply) = "returned" => reply.returned
         /\ Completion(reply) = "failed" => ~reply.returned
         /\ Completion(reply) = "unknown" => reply.failure = "timeout"
         /\ Completion(reply) \in {"returned", "failed", "unknown"}
<1>1. reply.out \in Int
  BY DEF Proper, NoUsage
<1>2. Completion(reply) \in {"returned", "failed", "unknown"}
  BY DEF Completion
<1>3. SafeCode(code) \in Codes
  BY SafeCodeKnown
<1> QED
  BY <1>1, <1>2, <1>3 DEF Note, Notes, Completion, Proper

LEMMA StoppedLedger ==
  ASSUME NEW l, NEW m, NEW a, NEW b, NEW c, NEW d, NEW e, NEW f, m = Stop(l),
         l = [run |-> a, pages |-> b, calls |-> c, inFlight |-> d, reserved |-> e, stopped |-> f]
  PROVE  m = [run |-> a, pages |-> b, calls |-> c, inFlight |-> d, reserved |-> e, stopped |-> TRUE]
BY DEF Stop

\* The ledger after an attempt is settled.
LEMMA SettledLedger ==
  ASSUME LedgerShape, NEW out \in Nat \cup {NoUsage}, Tokens \in Nat, Tokens <= ledger.reserved
  PROVE  LET l == SettleTokens(ledger, out) IN
         /\ l = [run |-> ledger.run, pages |-> ledger.pages, calls |-> ledger.calls, inFlight |-> ledger.inFlight,
                 reserved |-> l.reserved, stopped |-> l.stopped]
         /\ l.reserved \in Nat /\ l.reserved >= ledger.reserved - Tokens
         /\ l.stopped \in BOOLEAN /\ (ledger.stopped => l.stopped)
<1>1. CASE out = NoUsage
  BY <1>1 DEF SettleTokens, LedgerShape
<1>2. CASE out # NoUsage
  <2> DEFINE n == ledger.reserved + out - Tokens
             b == ledger.stopped \/ out > Tokens \/ n > MaxTokens
  <2>1. SettleTokens(ledger, out) = [ledger EXCEPT !.reserved = n, !.stopped = b]
    BY <1>2 DEF SettleTokens
  <2>2. out \in Nat /\ n \in Nat /\ n >= ledger.reserved - Tokens
    BY <1>2 DEF LedgerShape
  <2>3. b \in BOOLEAN /\ (ledger.stopped => b)
    OBVIOUS
  <2> HIDE DEF n, b
  <2> QED
    BY <2>1, <2>2, <2>3 DEF LedgerShape
<1> QED
  BY <1>1, <1>2

\* An attempt that is tried again was answered; its page goes on or ends.
LEMMA Settling ==
  ASSUME NEW r \in PageRequests, NEW w, NEW reply, Proper(reply), page[r].pc = "waiting",
         PageTables, LedgerShape, Tokens <= ledger.reserved,
         PageSound(r, page[r], worker, ledger.stopped),
         \A i \in 1 .. LastAttempt :
           /\ w[<<r, i>>].pc = worker[<<r, i>>].pc
           /\ w[<<r, i>>].reply = worker[<<r, i>>].reply,
         reply.failure # "timeout" =>
           w[<<r, page[r].attempt>>].pc = "done" /\ w[<<r, page[r].attempt>>].reply = reply,
         Settle(r, reply)
  PROVE  /\ page' = [page EXCEPT ![r] = page'[r]] /\ page'[r].pc \in {"pausing", "done"}
         /\ PageSound(r, page'[r], w, ledger'.stopped)
         /\ LedgerShape' /\ ledger'.reserved >= ledger.reserved - Tokens
         /\ ledger'.run = ledger.run /\ ledger'.pages = ledger.pages /\ ledger'.calls = ledger.calls
         /\ ledger'.inFlight = ledger.inFlight /\ (ledger.stopped => ledger'.stopped)
<1> DEFINE p == page[r]
           n == p.attempt
<1>1. Tokens \in Nat /\ Observing \subseteq BOOLEAN
  BY ExtractionAssumption
<1>2. PICK told \in Observing :
        LET code == AttemptCode(r, reply)
            note == Note(Completion(reply), code, reply.out)
            settled == SettleTokens(ledger, reply.out)
            final == IF told THEN code ELSE "provider_error"
            records == Append(p.records, note)
            retry == final \in Retryable /\ p.attempt < Attempts
        IN /\ ledger' = IF Completion(reply) = "unknown" \/ ~told THEN Stop(settled) ELSE settled
           /\ \/ /\ retry /\ ~expired
                 /\ page' = [page EXCEPT ![r] = [@ EXCEPT !.pc = "pausing", !.code = final, !.records = records]]
              \/ /\ retry
                 /\ page' = [page EXCEPT ![r] = End(r, "budget_exhausted", NoProposal, records)]
              \/ /\ ~retry
                 /\ page' = [page EXCEPT ![r] = End(r, final, Validated(reply.body.proposal), records)]
  BY DEF Settle
<1> DEFINE code == AttemptCode(r, reply)
           note == Note(Completion(reply), code, reply.out)
           settled == SettleTokens(ledger, reply.out)
           final == IF told THEN code ELSE "provider_error"
           s == Append(p.records, note)
           retry == final \in Retryable /\ p.attempt < Attempts
<1>3. ledger' = IF Completion(reply) = "unknown" \/ ~told THEN Stop(settled) ELSE settled
  BY <1>2
<1>4. \/ retry /\ ~expired /\ page' = [page EXCEPT ![r] = [p EXCEPT !.pc = "pausing", !.code = final, !.records = s]]
      \/ page' = [page EXCEPT ![r] = End(r, "budget_exhausted", NoProposal, s)]
      \/ page' = [page EXCEPT ![r] = End(r, final, Validated(reply.body.proposal), s)]
  BY <1>2
<1>5. /\ LedgerShape' /\ ledger'.reserved >= ledger.reserved - Tokens
      /\ ledger'.run = ledger.run /\ ledger'.pages = ledger.pages /\ ledger'.calls = ledger.calls
      /\ ledger'.inFlight = ledger.inFlight /\ (ledger.stopped => ledger'.stopped)
      /\ Completion(reply) = "unknown" => ledger'.stopped
  <2>1. reply.out \in Nat \cup {NoUsage}
    BY DEF Proper
  <2>2. /\ settled = [run |-> ledger.run, pages |-> ledger.pages, calls |-> ledger.calls, inFlight |-> ledger.inFlight,
                      reserved |-> settled.reserved, stopped |-> settled.stopped]
        /\ settled.reserved \in Nat /\ settled.reserved >= ledger.reserved - Tokens
        /\ settled.stopped \in BOOLEAN /\ (ledger.stopped => settled.stopped)
    BY <1>1, <2>1, SettledLedger
  <2> HIDE DEF settled
  <2>3. \/ ledger' = settled /\ Completion(reply) # "unknown"
        \/ ledger' = Stop(settled)
    BY <1>3
  <2>4. CASE ledger' = settled /\ Completion(reply) # "unknown"
    BY <2>2, <2>4 DEF LedgerShape
  <2>5. CASE ledger' = Stop(settled)
    <3>1. settled = [run |-> ledger.run, pages |-> ledger.pages, calls |-> ledger.calls, inFlight |-> ledger.inFlight,
                     reserved |-> settled.reserved, stopped |-> settled.stopped]
      BY <2>2
    <3>2. ledger' = [run |-> ledger.run, pages |-> ledger.pages, calls |-> ledger.calls, inFlight |-> ledger.inFlight,
                     reserved |-> settled.reserved, stopped |-> TRUE]
      BY <2>5, <3>1, StoppedLedger
    <3> QED
      BY <2>2, <3>2 DEF LedgerShape
  <2> QED
    BY <2>3, <2>4, <2>5
<1>6. PageShape(p) /\ ToldOf(r, p.records, worker) /\ PlaceSound(p) /\ CallsSound(r, p, worker)
      /\ DoubtStops(p, ledger.stopped) /\ Earned(r, p)
  BY DEF PageSound
<1>7. /\ p.records \in Seq(Notes) /\ Len(p.records) \in Nat /\ n = Len(p.records) + 1
      /\ n \in 1 .. LastAttempt /\ Begun(p) = n
  BY <1>6 DEF PageShape, PlaceSound, Begun
<1>8. /\ note \in Notes /\ note.completion = Completion(reply) /\ note.out = reply.out
      /\ note.failure = SafeCode(code)
  BY NoteTyped
<1>9. /\ s \in Seq(Notes) /\ Len(s) = n /\ s[n] = note /\ s # <<>>
      /\ \A i \in 1 .. Len(p.records) : s[i] = p.records[i]
  BY <1>7, <1>8
<1> HIDE DEF s, note, code
<1>10. Completion(reply) # "unknown" => reply.failure # "timeout"
  BY DEF Completion
<1>11. ToldOf(r, s, w)
  <2> SUFFICES ASSUME NEW i \in 1 .. n
               PROVE  /\ i \in 1 .. LastAttempt /\ w[<<r, i>>].pc # "none"
                      /\ s[i].completion = "returned" => /\ w[<<r, i>>].pc = "done" /\ w[<<r, i>>].reply.returned
                                                         /\ s[i].out = w[<<r, i>>].reply.out
                      /\ s[i].completion = "failed" => w[<<r, i>>].pc = "done" /\ ~w[<<r, i>>].reply.returned
    BY <1>9 DEF ToldOf
  <2>1. CASE i = n
    <3>1. w[<<r, i>>].pc # "none"
      BY <1>6, <1>7, <2>1 DEF CallsSound
    <3> QED
      BY <1>7, <1>8, <1>9, <1>10, <2>1, <3>1, NoteTyped
  <2>2. CASE i # n
    <3>1. i \in 1 .. Len(p.records)
      BY <1>7, <2>2
    <3> QED
      BY <1>6, <1>7, <1>9, <3>1 DEF ToldOf
  <2> QED
    BY <2>1, <2>2
<1>12. \A i \in 1 .. LastAttempt : w[<<r, i>>].pc # "none" <=> i <= Len(s)
  BY <1>6, <1>7, <1>9 DEF CallsSound
<1>13. \A i \in 1 .. LastAttempt : w[<<r, i>>].pc \in LivePcs => i = p.attempt
  BY <1>6 DEF CallsSound
<1>14. \A i \in 1 .. Len(s) : s[i].completion = "unknown" => i = Len(s) /\ Completion(reply) = "unknown"
  <2> SUFFICES ASSUME NEW i \in 1 .. n, s[i].completion = "unknown"
               PROVE  i = n /\ Completion(reply) = "unknown"
    BY <1>9
  <2>1. CASE i = n
    BY <1>8, <1>9, <2>1
  <2>2. CASE i # n
    <3>1. i \in 1 .. Len(p.records) /\ p.records[i].completion = "unknown"
      BY <1>7, <1>9, <2>2
    <3> QED
      BY <1>6, <3>1 DEF DoubtStops
  <2> QED
    BY <2>1, <2>2
<1>15. final = "none" => /\ s # <<>> /\ Checked(Validated(reply.body.proposal))
                         /\ s[Len(s)].failure = "none" /\ s[Len(s)].completion = "returned"
  <2> SUFFICES ASSUME final = "none"
               PROVE  /\ s # <<>> /\ Checked(Validated(reply.body.proposal))
                      /\ s[Len(s)].failure = "none" /\ s[Len(s)].completion = "returned"
    OBVIOUS
  <2>1. code = "none" /\ reply.failure = "none" /\ ValidateResponse(r, reply.body) = "none"
    BY DEF code, AttemptCode
  <2>2. reply.returned /\ reply.body \in Bodies /\ Completion(reply) = "returned"
    BY <2>1 DEF Proper, Completion
  <2> QED
    BY <2>1, <2>2, <1>8, <1>9, AcceptedIsChecked, SafeCodeKnown
<1>16. retry => reply.failure # "timeout"
  <2> SUFFICES ASSUME reply.failure = "timeout"
               PROVE  final \notin Retryable
    OBVIOUS
  <2>1. code \in {"timeout", "budget_exhausted"}
    BY DEF code, AttemptCode
  <2> QED
    BY <2>1 DEF Retryable
<1> HIDE DEF final, retry
<1>17. CASE retry /\ ~expired /\ page' = [page EXCEPT ![r] = [p EXCEPT !.pc = "pausing", !.code = final, !.records = s]]
  <2> DEFINE e == [p EXCEPT !.pc = "pausing", !.code = final, !.records = s]
  <2>1. page' = [page EXCEPT ![r] = e] /\ page'[r] = e
    BY <1>17 DEF PageTables
  <2>2. e = [pc |-> "pausing", attempt |-> n, code |-> final, proposal |-> p.proposal, records |-> s,
             outcome |-> p.outcome]
    <3>1. p = [pc |-> p.pc, attempt |-> p.attempt, code |-> p.code, proposal |-> p.proposal, records |-> p.records,
               outcome |-> p.outcome]
      BY <1>6 DEF PageShape
    <3>2. e = [p EXCEPT !.pc = "pausing", !.code = final, !.records = s]
      OBVIOUS
    <3> HIDE DEF e, p
    <3> QED
      BY <3>1, <3>2
  <2> HIDE DEF e
  <2>3. w[<<r, n>>].pc = "done" /\ Completion(reply) # "unknown"
    BY <1>16, <1>17 , NoteTyped DEF Completion
  <2>4. PageShape(e)
    BY <1>6, <1>9, <2>2 DEF PageShape, ActivePcs
  <2>5. PlaceSound(e)
    BY <1>9, <1>17, <2>2 DEF PlaceSound, BeforeCalls, retry
  <2>6. CallsSound(r, e, w)
    BY <1>12, <1>13, <2>2, <2>3 DEF CallsSound, Begun, LivePcs
  <2>7. DoubtStops(e, ledger'.stopped)
    BY <1>14, <2>2, <2>3 DEF DoubtStops
  <2>8. Earned(r, e)
    BY <1>6, <2>2 DEF Earned
  <2>9. PageSound(r, e, w, ledger'.stopped)
    BY <1>11, <2>2, <2>4, <2>5, <2>6, <2>7, <2>8 DEF PageSound
  <2>10. page' = [page EXCEPT ![r] = page'[r]]
    BY <2>1
  <2>11. page'[r].pc = "pausing"
    BY <2>1, <2>2
  <2> QED
    BY <1>5, <2>1, <2>9, <2>10, <2>11
<1>18. \A i \in 1 .. Len(s) : s[i].completion = "unknown" => i = Len(s) /\ ledger'.stopped
  BY <1>5, <1>14
<1>19. CASE page' = [page EXCEPT ![r] = End(r, "budget_exhausted", NoProposal, s)]
  <2>1. PageSound(r, End(r, "budget_exhausted", NoProposal, s), w, ledger'.stopped)
        /\ End(r, "budget_exhausted", NoProposal, s).pc = "done"
    BY <1>6, <1>9, <1>11, <1>12, <1>13, <1>18, EndIsSound DEF Acceptable
  <2> QED
    BY <1>5, <1>19, <2>1 DEF PageTables
<1>20. CASE page' = [page EXCEPT ![r] = End(r, final, Validated(reply.body.proposal), s)]
  <2>1. PageSound(r, End(r, final, Validated(reply.body.proposal), s), w, ledger'.stopped)
        /\ End(r, final, Validated(reply.body.proposal), s).pc = "done"
    <3> DEFINE q == Validated(reply.body.proposal)
    <3>1. Acceptable(final, q, s)
      BY <1>15 DEF Acceptable
    <3> HIDE DEF q
    <3>2. PageSound(r, End(r, final, q, s), w, ledger'.stopped) /\ End(r, final, q, s).pc = "done"
      BY <1>6, <1>9, <1>11, <1>12, <1>13, <1>18, <3>1, EndIsSound
    <3> QED
      BY <3>2 DEF q
  <2> QED
    BY <1>5, <1>20, <2>1 DEF PageTables
<1> QED
  BY <1>4, <1>17, <1>19, <1>20

-----------------------------------------------------------------------------
(***************************************************************************)
(* Steps of the extraction in general                                      *)
(***************************************************************************)

LEMMA OneTimesMore ==
  ASSUME NEW n \in Nat, NEW t \in Nat
  PROVE  (n + 1) * t = n * t + t /\ (n > 0 => (n - 1) * t = n * t - t)
OBVIOUS

LEMMA PagesFinite ==
  ASSUME PageTables
  PROVE  /\ Live \subseteq PageCalls /\ Reserved \subseteq PageCalls
         /\ IsFiniteSet(Live) /\ IsFiniteSet(Reserved) /\ IsFiniteSet(Counted) /\ IsFiniteSet(Waiting)
         /\ Cardinality(Live) \in Nat /\ Cardinality(Reserved) \in Nat
         /\ Cardinality(Counted) \in Nat /\ Cardinality(Waiting) \in Nat
<1>1. DOMAIN worker = PageCalls
  BY DEF PageTables
<1>2. Live \in SUBSET PageCalls /\ Reserved \in SUBSET PageCalls
  BY <1>1 DEF Live, Reserved
<1>3. Counted \in SUBSET PageRequests /\ Waiting \in SUBSET PageRequests
  BY DEF Counted, Waiting
<1>4. IsFiniteSet(PageRequests)
  BY ExtractionAssumption
<1>5. IsFiniteSet(Live) /\ IsFiniteSet(Reserved) /\ IsFiniteSet(Counted) /\ IsFiniteSet(Waiting)
  BY <1>2, <1>3, <1>4, PageCallsFinite, FS_Subset
<1> QED
  BY <1>2, <1>5, FS_CardinalityType

WorkerGoes(c, x) ==
  /\ worker' = [worker EXCEPT ![c] = x]
  /\ ledger' = IF x.pc = "done" THEN FinishedCall(ledger) ELSE ledger
  /\ UNCHANGED <<expired, lock, page, fetched>>

\* A worker goes on, or answers and gives its slot back.
LEMMA WorkerMoves ==
  ASSUME PagesInv, NEW c \in PageCalls, NEW x, WorkerGoes(c, x), WorkerShape(x),
         worker[c].pc \in LivePcs, x.pc \in LivePcs \cup {"done"}
  PROVE  PagesInv'
<1>1. PageTables /\ LedgerShape /\ CountsHold
  BY DEF PagesInv
<1>0. page' = page /\ expired' = expired /\ lock' = lock /\ fetched' = fetched
  BY DEF WorkerGoes
<1>2. PageTables' /\ worker'[c] = x /\ \A d \in PageCalls : d # c => worker'[d] = worker[d]
  BY <1>0, <1>1 DEF PageTables, WorkerGoes
<1>3. \A d \in PageCalls : WorkerShape(worker'[d])
  BY <1>2 DEF PagesInv
<1>4. /\ \A d \in PageCalls : worker'[d].pc = "none" <=> worker[d].pc = "none"
      /\ \A d \in PageCalls : worker'[d].pc \in LivePcs => worker[d].pc \in LivePcs
      /\ \A d \in PageCalls : worker[d].pc = "done" => worker'[d] = worker[d]
  BY <1>2 DEF LivePcs
<1>5. /\ LedgerShape' /\ ledger'.stopped = ledger.stopped /\ ledger'.run = ledger.run /\ ledger'.calls = ledger.calls
      /\ ledger'.pages = ledger.pages /\ ledger'.reserved = ledger.reserved
      /\ ledger'.inFlight = IF x.pc = "done" THEN ledger.inFlight - 1 ELSE ledger.inFlight
  <2>1. CASE x.pc # "done"
    BY <1>1, <2>1 DEF LedgerShape, WorkerGoes
  <2>2. CASE x.pc = "done"
    <3>1. c \in Live
      BY <1>1 DEF Live, PageTables, LivePcs
    <3>2. Cardinality(Live) > 0
      BY <1>1, <3>1, PagesFinite, FS_EmptySet
    <3>3. ledger' = [ledger EXCEPT !.inFlight = ledger.inFlight - 1]
      BY <2>2 DEF FinishedCall, WorkerGoes
    <3>4. ledger.inFlight - 1 \in Nat
      BY <1>1, <3>2, PagesFinite DEF CountsHold
    <3> QED
      BY <1>1, <2>2, <3>3, <3>4 DEF LedgerShape
  <2> QED
    BY <2>1, <2>2
<1>6. ASSUME NEW r \in PageRequests
      PROVE  PageSound(r, page'[r], worker', ledger'.stopped)
  <2>1. PageSound(r, page[r], worker, ledger.stopped)
    BY DEF PagesInv
  <2>2. \A i \in 1 .. LastAttempt : <<r, i>> \in PageCalls
    BY DEF PageCalls
  <2>3. \A i \in 1 .. LastAttempt :
           /\ worker'[<<r, i>>].pc = "none" <=> worker[<<r, i>>].pc = "none"
           /\ worker'[<<r, i>>].pc \in LivePcs => worker[<<r, i>>].pc \in LivePcs
           /\ worker[<<r, i>>].pc = "done" =>
                worker'[<<r, i>>].pc = "done" /\ worker'[<<r, i>>].reply = worker[<<r, i>>].reply
    BY <1>4, <2>2
  <2>4. ledger.stopped => ledger'.stopped
    BY <1>5
  <2>5. PageSound(r, page[r], worker', ledger'.stopped)
    BY <2>1, <2>3, <2>4, PageFrame
  <2> QED
    BY <1>0, <2>5
<1>7. Reserved' = Reserved /\ Counted' = Counted /\ Waiting' = Waiting
  <2>1. DOMAIN worker = PageCalls /\ DOMAIN worker' = PageCalls
    BY <1>1, <1>2 DEF PageTables
  <2>2. Reserved' = Reserved
    BY <1>4, <2>1 DEF Reserved
  <2>3. \A r \in PageRequests : \A i \in 1 .. LastAttempt : worker'[<<r, i>>].pc = "none" <=> worker[<<r, i>>].pc = "none"
    BY <1>4 DEF PageCalls
  <2>4. Counted' = Counted
    BY <1>0, <2>3 DEF Counted
  <2> QED
    BY <1>0, <2>2, <2>4 DEF Waiting
<1>8. Live' = IF x.pc = "done" THEN Live \ {c} ELSE Live
  <2>1. DOMAIN worker = PageCalls /\ DOMAIN worker' = PageCalls
    BY <1>1, <1>2 DEF PageTables
  <2> QED
    BY <1>2, <2>1 DEF Live, LivePcs
<1>9. CountsHold'
  <2>1. c \in Live
    BY <1>1 DEF Live, PageTables, LivePcs
  <2>2. Cardinality(Live') = IF x.pc = "done" THEN Cardinality(Live) - 1 ELSE Cardinality(Live)
    BY <1>1, <1>8, <2>1, PagesFinite, FS_RemoveElement
  <2>3. ledger'.inFlight = Cardinality(Live') /\ ledger'.inFlight <= MaxConcurrency
    <3>1. MaxConcurrency \in Nat
      BY ExtractionAssumption
    <3> QED
      BY <1>1, <1>5, <2>2, <3>1, PagesFinite DEF CountsHold
  <2> QED
    BY <1>1, <1>5, <1>7, <2>3 DEF CountsHold
<1> QED
  BY <1>0, <1>2, <1>3, <1>5, <1>6, <1>9 DEF PagesInv

\* A page goes on, settles its attempt or ends, while its calls keep their places.
LEMMA PageMoves ==
  ASSUME PagesInv, NEW r \in PageRequests, NEW p, page' = [page EXCEPT ![r] = p],
         PageSound(r, p, worker', ledger'.stopped),
         p.pc \in ActivePcs => page[r].pc \in ActivePcs, p.pc # "waiting",
         PageTables', \A c \in PageCalls : WorkerShape(worker'[c]),
         \A c \in PageCalls : worker'[c].pc = worker[c].pc /\ worker'[c].reply = worker[c].reply,
         LedgerShape', ledger.stopped => ledger'.stopped, ledger'.run = ledger.run, ledger'.pages = ledger.pages,
         ledger'.calls = ledger.calls, ledger'.inFlight = ledger.inFlight,
         ledger'.reserved >= IF page[r].pc = "waiting" THEN ledger.reserved - Tokens ELSE ledger.reserved,
         expired' \in BOOLEAN, lock' \subseteq PageRequests, fetched' \subseteq Policy.regions
  PROVE  PagesInv'
<1>1. PageTables /\ LedgerShape /\ CountsHold
  BY DEF PagesInv
<1>2. page'[r] = p /\ \A q \in PageRequests : q # r => page'[q] = page[q]
  BY <1>1 DEF PageTables
<1>3. ASSUME NEW q \in PageRequests
      PROVE  PageSound(q, page'[q], worker', ledger'.stopped)
  <2>1. CASE q = r
    BY <1>2, <2>1
  <2>2. CASE q # r
    <3>1. PageSound(q, page[q], worker, ledger.stopped)
      BY DEF PagesInv
    <3>2. \A i \in 1 .. LastAttempt : <<q, i>> \in PageCalls
      BY DEF PageCalls
    <3>3. \A i \in 1 .. LastAttempt :
             /\ worker'[<<q, i>>].pc = "none" <=> worker[<<q, i>>].pc = "none"
             /\ worker'[<<q, i>>].pc \in LivePcs => worker[<<q, i>>].pc \in LivePcs
             /\ worker[<<q, i>>].pc = "done" =>
                  worker'[<<q, i>>].pc = "done" /\ worker'[<<q, i>>].reply = worker[<<q, i>>].reply
      BY <3>2
    <3> QED
      BY <1>2, <2>2, <3>1, <3>3, PageFrame
  <2> QED
    BY <2>1, <2>2
<1>4. DOMAIN worker = PageCalls /\ DOMAIN worker' = PageCalls
  BY <1>1 DEF PageTables
<1>5. Live' = Live /\ Reserved' = Reserved
  BY <1>4 DEF Live, Reserved
<1>6. Counted' \subseteq Counted
  <2>1. \A q \in PageRequests : \A i \in 1 .. LastAttempt : worker'[<<q, i>>].pc = worker[<<q, i>>].pc
    BY DEF PageCalls
  <2> QED
    BY <1>2, <2>1 DEF Counted
<1>7. Cardinality(Counted') <= Cardinality(Counted) /\ Cardinality(Counted') \in Nat
  BY <1>1, <1>6, PagesFinite, FS_Subset, FS_CardinalityType
<1>8. Waiting' = Waiting \ {r}
  BY <1>2 DEF Waiting
<1>9. Cardinality(Waiting') * Tokens <= ledger'.reserved
  <2>1. Tokens \in Nat
    BY ExtractionAssumption
  <2>2. Cardinality(Waiting') = IF page[r].pc = "waiting" THEN Cardinality(Waiting) - 1 ELSE Cardinality(Waiting)
    <3>1. r \in Waiting <=> page[r].pc = "waiting"
      BY DEF Waiting
    <3> QED
      BY <1>1, <1>8, <3>1, PagesFinite, FS_RemoveElement
  <2>3. CASE page[r].pc = "waiting"
    <3>1. Cardinality(Waiting) > 0
      BY <1>1, <2>3, PagesFinite, FS_EmptySet DEF Waiting
    <3>2. Cardinality(Waiting') * Tokens = Cardinality(Waiting) * Tokens - Tokens
          /\ Cardinality(Waiting) * Tokens \in Nat
      BY <1>1, <2>1, <2>2, <2>3, <3>1, PagesFinite, OneTimesMore
    <3> QED
      BY <1>1, <2>1, <2>3, <3>2 DEF CountsHold, LedgerShape
  <2>4. CASE page[r].pc # "waiting"
    <3>1. Cardinality(Waiting) * Tokens \in Nat
      BY <1>1, <2>1, PagesFinite
    <3> QED
      BY <1>1, <2>2, <2>4, <3>1 DEF CountsHold, LedgerShape
  <2> QED
    BY <2>3, <2>4
<1>10. CountsHold'
  BY <1>1, <1>5, <1>6, <1>7, <1>9, PagesFinite DEF CountsHold, LedgerShape
<1> QED
  BY <1>3, <1>10 DEF PagesInv

\* A page whose attempts are all settled ends with a failure.
LEMMA EndsWithFailure ==
  ASSUME NEW r \in PageRequests, NEW w, NEW stopped, NEW code, code # "none", PageSound(r, page[r], w, stopped),
         page[r].pc \in {"idle", "rendering", "locking", "checking", "attempt", "pausing"}
  PROVE  /\ PageSound(r, End(r, code, NoProposal, page[r].records), w, stopped)
         /\ End(r, code, NoProposal, page[r].records).pc = "done"
         /\ page[r].pc \notin {"attempt", "pausing"} => EndBefore(r, code) = End(r, code, NoProposal, page[r].records)
<1> DEFINE s == page[r].records
<1>1. PageShape(page[r]) /\ ToldOf(r, s, w) /\ PlaceSound(page[r]) /\ CallsSound(r, page[r], w)
      /\ DoubtStops(page[r], stopped) /\ s \in Seq(Notes)
  BY DEF PageSound, PageShape
<1>2. \A i \in 1 .. LastAttempt : w[<<r, i>>].pc # "none" <=> i <= Len(s)
  BY <1>1 DEF CallsSound, Begun
<1>3. \A i \in 1 .. LastAttempt : w[<<r, i>>].pc \in LivePcs => i = page[r].attempt
  BY <1>1 DEF CallsSound
<1>4. \A i \in 1 .. Len(s) : s[i].completion = "unknown" => i = Len(s) /\ stopped
  BY <1>1 DEF DoubtStops
<1>5. Acceptable(code, NoProposal, s)
  BY DEF Acceptable
<1>6. page[r].pc \notin {"attempt", "pausing"} => s = <<>>
  BY <1>1 DEF PlaceSound, BeforeCalls
<1> HIDE DEF s
<1>7. PageSound(r, End(r, code, NoProposal, s), w, stopped) /\ End(r, code, NoProposal, s).pc = "done"
  BY <1>1, <1>2, <1>3, <1>4, <1>5, EndIsSound
<1> QED
  BY <1>6, <1>7 DEF EndBefore, s

\* A page goes on before its first attempt.
LEMMA SetupGoesOn ==
  ASSUME NEW r, NEW w, NEW stopped, NEW p, NEW e, PageSound(r, p, w, stopped), p.pc \in BeforeCalls,
         e.pc \in BeforeCalls, e.attempt = p.attempt, e.records = p.records, e.outcome = p.outcome,
         e = [pc |-> e.pc, attempt |-> e.attempt, code |-> e.code, proposal |-> e.proposal, records |-> e.records,
              outcome |-> e.outcome]
  PROVE  PageSound(r, e, w, stopped)
<1>1. PageShape(p) /\ ToldOf(r, p.records, w) /\ PlaceSound(p) /\ CallsSound(r, p, w) /\ DoubtStops(p, stopped)
      /\ Earned(r, p)
  BY DEF PageSound
<1>2. PageShape(e)
  BY <1>1 DEF PageShape, BeforeCalls, ActivePcs, Over
<1>3. PlaceSound(e)
  BY <1>1 DEF PlaceSound, BeforeCalls
<1>4. CallsSound(r, e, w)
  BY <1>1 DEF CallsSound, Begun, BeforeCalls
<1>5. DoubtStops(e, stopped)
  BY <1>1 DEF DoubtStops, BeforeCalls, PlaceSound
<1>6. Earned(r, e)
  BY <1>1 DEF Earned, BeforeCalls
<1> QED
  BY <1>1, <1>2, <1>3, <1>4, <1>5, <1>6 DEF PageSound

\* What PageMoves asks of the parts a step leaves alone.
LEMMA LeftAlone ==
  ASSUME PagesInv
  PROVE  /\ PageTables /\ LedgerShape /\ (worker' = worker /\ page' = page => PageTables')
         /\ expired \in BOOLEAN /\ lock \subseteq PageRequests /\ fetched \subseteq Policy.regions
         /\ worker' = worker => /\ \A c \in PageCalls : WorkerShape(worker'[c])
                               /\ \A c \in PageCalls : worker'[c].pc = worker[c].pc /\ worker'[c].reply = worker[c].reply
         /\ ledger' = ledger => /\ LedgerShape' /\ (ledger.stopped => ledger'.stopped)
                               /\ ledger'.run = ledger.run /\ ledger'.pages = ledger.pages
                               /\ ledger'.calls = ledger.calls /\ ledger'.inFlight = ledger.inFlight
                               /\ ledger'.reserved = ledger.reserved
         /\ ledger' = Stop(ledger) =>
                               /\ LedgerShape' /\ ledger'.stopped
                               /\ ledger'.run = ledger.run /\ ledger'.pages = ledger.pages
                               /\ ledger'.calls = ledger.calls /\ ledger'.inFlight = ledger.inFlight
                               /\ ledger'.reserved = ledger.reserved
         /\ Tokens \in Nat /\ ledger.reserved >= ledger.reserved - Tokens /\ ledger.reserved >= ledger.reserved
<1>1. PageTables /\ LedgerShape /\ Tokens \in Nat
  BY ExtractionAssumption DEF PagesInv
<1>2. ASSUME ledger' = Stop(ledger)
      PROVE  /\ LedgerShape' /\ ledger'.stopped
             /\ ledger'.run = ledger.run /\ ledger'.pages = ledger.pages
             /\ ledger'.calls = ledger.calls /\ ledger'.inFlight = ledger.inFlight
             /\ ledger'.reserved = ledger.reserved
  <2>1. ledger' = [run |-> ledger.run, pages |-> ledger.pages, calls |-> ledger.calls,
                   inFlight |-> ledger.inFlight, reserved |-> ledger.reserved, stopped |-> TRUE]
    BY <1>1, <1>2, StoppedLedger DEF LedgerShape
  <2> QED
    BY <1>1, <2>1 DEF LedgerShape
<1>3. ASSUME worker' = worker
      PROVE  \A c \in PageCalls : WorkerShape(worker'[c])
  BY <1>3 DEF PagesInv
<1>4. worker' = worker /\ page' = page => PageTables'
  BY <1>1 DEF PageTables
<1>5. ledger' = ledger => LedgerShape'
  BY <1>1 DEF LedgerShape
<1> QED
  BY <1>1, <1>2, <1>3, <1>4, <1>5 DEF PagesInv, LedgerShape

\* A step of a page that touches no call, and the ledger only to stop it.
PageGoes(r, p) ==
  /\ page' = [page EXCEPT ![r] = p] /\ worker' = worker /\ ledger' \in {ledger, Stop(ledger)}
  /\ expired' = expired /\ lock' \subseteq PageRequests /\ fetched' \subseteq Policy.regions
LEMMA PageStep ==
  ASSUME PagesInv, NEW r \in PageRequests, NEW p, PageGoes(r, p), PageSound(r, p, worker, ledger'.stopped),
         p.pc \in ActivePcs => page[r].pc \in ActivePcs, p.pc # "waiting"
  PROVE  PagesInv'
<1>1. /\ page' = [page EXCEPT ![r] = p] /\ worker' = worker /\ expired' = expired /\ lock' \subseteq PageRequests
      /\ fetched' \subseteq Policy.regions
  BY DEF PageGoes
<1>2. PageTables'
  <2>1. PageTables
    BY DEF PagesInv
  <2> QED
    BY <1>1, <2>1 DEF PageTables
<1>3. /\ \A c \in PageCalls : WorkerShape(worker'[c])
      /\ \A c \in PageCalls : worker'[c].pc = worker[c].pc /\ worker'[c].reply = worker[c].reply
  BY <1>1, LeftAlone
<1>4. /\ LedgerShape' /\ (ledger.stopped => ledger'.stopped)
      /\ ledger'.run = ledger.run /\ ledger'.pages = ledger.pages
      /\ ledger'.calls = ledger.calls /\ ledger'.inFlight = ledger.inFlight
      /\ ledger'.reserved = ledger.reserved
  <2>1. CASE ledger' = ledger
    BY <2>1, LeftAlone
  <2>2. CASE ledger' = Stop(ledger)
    BY <2>2, LeftAlone
  <2> QED
    BY <2>1, <2>2 DEF PageGoes
<1>5. ledger'.reserved >= IF page[r].pc = "waiting" THEN ledger.reserved - Tokens ELSE ledger.reserved
  BY <1>4, LeftAlone
<1>6. PageSound(r, p, worker', ledger'.stopped)
  BY <1>1
<1>7. expired' \in BOOLEAN
  BY <1>1, LeftAlone
<1> QED
  BY <1>1, <1>2, <1>3, <1>4, <1>5, <1>6, <1>7, PageMoves

-----------------------------------------------------------------------------
(***************************************************************************)
(* The steps of a page                                                     *)
(***************************************************************************)

\* A page before its first call ends with a failure.
LEMMA EndsEarly ==
  ASSUME PagesInv, NEW r \in PageRequests, NEW code, code # "none",
         page[r].pc \in {"idle", "rendering", "locking", "checking"}, PageGoes(r, EndBefore(r, code))
  PROVE  PagesInv'
<1>1. PageSound(r, page[r], worker, ledger.stopped)
  BY DEF PagesInv
<1>2. ledger.stopped => ledger'.stopped
  <2>1. CASE ledger' = ledger
    BY <2>1
  <2>2. CASE ledger' = Stop(ledger)
    BY <2>2, LeftAlone
  <2> QED
    BY <2>1, <2>2 DEF PageGoes
<1>3. PageSound(r, page[r], worker, ledger'.stopped)
  BY <1>1, <1>2, PageFrame
<1>4. PageSound(r, EndBefore(r, code), worker, ledger'.stopped) /\ EndBefore(r, code).pc = "done"
  BY <1>3, EndsWithFailure
<1> QED
  BY <1>4, PageStep DEF ActivePcs

LEMMA RefuseStep ==
  ASSUME PagesInv, NEW r \in PageRequests, Refuse(r)
  PROVE  PagesInv'
<1>1. PICK found \in Grants :
        /\ page[r].pc = "idle"
        /\ page' = [page EXCEPT ![r].pc = "raised", ![r].code = Refusal(found)]
        /\ UNCHANGED <<ledger, expired, lock, worker, fetched>>
  BY DEF Refuse
<1> DEFINE p == [page[r] EXCEPT !.pc = "raised", !.code = Refusal(found)]
           x == Refusal(found)
<1>2. PageSound(r, page[r], worker, ledger.stopped) /\ PageShape(page[r])
  BY DEF PagesInv, PageSound
<1>3. page' = [page EXCEPT ![r] = p]
  BY <1>1
<1> HIDE DEF x
<1>4. p = [pc |-> "raised", attempt |-> page[r].attempt, code |-> x, proposal |-> page[r].proposal,
           records |-> page[r].records, outcome |-> page[r].outcome]
  <2>1. p = [page[r] EXCEPT !.pc = "raised", !.code = x]
    BY DEF x
  <2> HIDE DEF p
  <2> QED
    BY <1>2, <2>1 DEF PageShape
<1> HIDE DEF p
<1>5. PageSound(r, p, worker, ledger.stopped)
  BY <1>1, <1>2, <1>4, SetupGoesOn DEF BeforeCalls
<1>6. PageGoes(r, p)
  BY <1>1, <1>3, LeftAlone DEF PageGoes
<1> QED
  BY <1>1, <1>4, <1>5, <1>6, PageStep DEF ActivePcs

\* A page changes its place before its first attempt.
LEMMA SetupStep ==
  ASSUME PagesInv, NEW r \in PageRequests, NEW x \in {"locking", "checking"},
         page[r].pc \in {"rendering", "locking"},
         page' = [page EXCEPT ![r] = [page[r] EXCEPT !.pc = x]],
         UNCHANGED <<ledger, expired, worker, fetched>>, lock' \subseteq PageRequests
  PROVE  PagesInv'
<1> DEFINE p == [page[r] EXCEPT !.pc = x]
<1>1. PageSound(r, page[r], worker, ledger.stopped) /\ PageShape(page[r])
  BY DEF PagesInv, PageSound
<1>2. page' = [page EXCEPT ![r] = p] /\ ledger' = ledger /\ worker' = worker /\ expired' = expired /\ fetched' = fetched
  OBVIOUS
<1>3. p = [pc |-> x, attempt |-> page[r].attempt, code |-> page[r].code, proposal |-> page[r].proposal,
           records |-> page[r].records, outcome |-> page[r].outcome]
  <2>1. p = [page[r] EXCEPT !.pc = x]
    OBVIOUS
  <2> HIDE DEF p
  <2> QED
    BY <1>1, <2>1 DEF PageShape
<1> HIDE DEF p
<1>4. PageSound(r, p, worker, ledger.stopped)
  BY <1>1, <1>3, SetupGoesOn DEF BeforeCalls
<1>5. PageGoes(r, p)
  BY <1>2, LeftAlone DEF PageGoes
<1> QED
  BY <1>2, <1>3, <1>4, <1>5, PageStep DEF ActivePcs

LEMMA RenderStep ==
  ASSUME PagesInv, NEW r \in PageRequests, Render(r)
  PROVE  PagesInv'
<1>1. PICK drawn \in Rendered :
        /\ page[r].pc = "rendering"
        /\ page' = [page EXCEPT ![r] =
             IF drawn # "image" THEN EndBefore(r, drawn)
             ELSE IF expired THEN EndBefore(r, "budget_exhausted")
             ELSE [@ EXCEPT !.pc = "locking"]]
        /\ UNCHANGED <<ledger, expired, lock, worker, fetched>>
  BY DEF Render
<1>2. drawn # "none"
  BY ExtractionAssumption DEF Known
<1>3. lock' \subseteq PageRequests /\ fetched' \subseteq Policy.regions
  BY <1>1, LeftAlone
<1>4. CASE drawn # "image"
  <2>1. PageGoes(r, EndBefore(r, drawn))
    BY <1>1, <1>3, <1>4 DEF PageGoes
  <2> QED
    BY <1>1, <1>2, <2>1, EndsEarly
<1>5. CASE drawn = "image" /\ expired
  <2>1. PageGoes(r, EndBefore(r, "budget_exhausted"))
    BY <1>1, <1>3, <1>5 DEF PageGoes
  <2> QED
    BY <1>1, <2>1, EndsEarly
<1>6. CASE drawn = "image" /\ ~expired
  <2>1. page' = [page EXCEPT ![r] = [page[r] EXCEPT !.pc = "locking"]]
    BY <1>1, <1>6
  <2> QED
    BY <1>1, <1>3, <2>1, SetupStep
<1> QED
  BY <1>4, <1>5, <1>6

LEMMA TakeLockStep ==
  ASSUME PagesInv, NEW r \in PageRequests, TakeLock(r)
  PROVE  PagesInv'
<1>1. page[r].pc = "locking" /\ UNCHANGED <<ledger, expired, worker, fetched>> /\ lock' \subseteq PageRequests
      /\ fetched' \subseteq Policy.regions
  BY LeftAlone DEF TakeLock
<1>2. CASE Spent
  <2>1. PageGoes(r, EndBefore(r, "budget_exhausted"))
    BY <1>1, <1>2 DEF TakeLock, PageGoes
  <2> QED
    BY <1>1, <2>1, EndsEarly
<1>3. CASE ~Spent
  <2>1. page' = [page EXCEPT ![r] = [page[r] EXCEPT !.pc = "checking"]]
    BY <1>3 DEF TakeLock
  <2> QED
    BY <1>1, <2>1, SetupStep
<1> QED
  BY <1>2, <1>3

\* Only the policy's regions are asked for metadata.
LEMMA FetchedInPolicy ==
  ASSUME NEW w
  PROVE  Fetched(w) \subseteq Policy.regions
BY DEF Fetched, AllowedDestinations

LEMMA CheckAccessStep ==
  ASSUME PagesInv, NEW r \in PageRequests, CheckAccess(r)
  PROVE  PagesInv'
<1>1. PICK w \in Worlds :
        /\ page[r].pc = "checking" /\ lock' = {} /\ fetched' = fetched \cup Fetched(w)
        /\ page' = [page EXCEPT ![r] = IF Preflight(w) = "none" THEN [@ EXCEPT !.pc = "attempt", !.attempt = 1]
                                       ELSE EndBefore(r, Preflight(w))]
        /\ UNCHANGED <<ledger, expired, worker>>
  BY DEF CheckAccess
<1>2. fetched' \subseteq Policy.regions /\ lock' \subseteq PageRequests
  BY <1>1, FetchedInPolicy, LeftAlone
<1>3. CASE Preflight(w) # "none"
  <2>1. PageGoes(r, EndBefore(r, Preflight(w)))
    BY <1>1, <1>2, <1>3 DEF PageGoes
  <2> QED
    BY <1>1, <1>3, <2>1, EndsEarly
<1>4. CASE Preflight(w) = "none"
  <2> DEFINE p == [page[r] EXCEPT !.pc = "attempt", !.attempt = 1]
  <2>1. page' = [page EXCEPT ![r] = p]
    BY <1>1, <1>4
  <2>2. /\ PageShape(page[r]) /\ ToldOf(r, page[r].records, worker) /\ PlaceSound(page[r]) /\ CallsSound(r, page[r], worker)
        /\ DoubtStops(page[r], ledger.stopped) /\ Earned(r, page[r])
    BY DEF PagesInv, PageSound
  <2>3. page[r].records = <<>> /\ Len(page[r].records) = 0
    BY <1>1, <2>2 DEF PlaceSound, BeforeCalls
  <2>4. p = [pc |-> "attempt", attempt |-> 1, code |-> page[r].code, proposal |-> page[r].proposal,
             records |-> page[r].records, outcome |-> page[r].outcome]
    <3>1. p = [page[r] EXCEPT !.pc = "attempt", !.attempt = 1]
      OBVIOUS
    <3> HIDE DEF p
    <3> QED
      BY <2>2, <3>1 DEF PageShape
  <2> HIDE DEF p
  <2>5. PageShape(p)
    BY <2>2, <2>4, LastAttemptBound DEF PageShape, ActivePcs
  <2>6. PlaceSound(p)
    BY <2>3, <2>4 DEF PlaceSound, BeforeCalls
  <2>7. CallsSound(r, p, worker)
    BY <1>1, <2>2, <2>3, <2>4 DEF CallsSound, Begun
  <2>8. DoubtStops(p, ledger.stopped) /\ Earned(r, p) /\ ToldOf(r, p.records, worker)
    BY <1>1, <2>2, <2>3, <2>4 DEF DoubtStops, Earned
  <2>9. PageSound(r, p, worker, ledger.stopped)
    BY <2>5, <2>6, <2>7, <2>8 DEF PageSound
  <2>10. PageGoes(r, p)
    BY <1>1, <1>2, <2>1 DEF PageGoes
  <2> QED
    BY <1>1, <2>4, <2>9, <2>10, PageStep DEF ActivePcs
<1> QED
  BY <1>3, <1>4

LEMMA SetupTimesOutStep ==
  ASSUME PagesInv, NEW r \in PageRequests, SetupTimesOut(r)
  PROVE  PagesInv'
<1>1. page[r].pc \in {"rendering", "locking", "checking"}
  BY DEF SetupTimesOut
<1>2. PageGoes(r, EndBefore(r, "timeout"))
  BY LeftAlone DEF SetupTimesOut, PageGoes
<1> QED
  BY <1>1, <1>2, EndsEarly

\* A page that begins is counted, and its run is the ledger's.
LEMMA BeginStep ==
  ASSUME PagesInv, NEW r \in PageRequests, Begin(r)
  PROVE  PagesInv'
<1> DEFINE code == BeginPage(r)
           p == IF code # "none" THEN EndBefore(r, code)
                ELSE IF r.bytes > MaxBytes THEN EndBefore(r, "budget_exhausted")
                ELSE [page[r] EXCEPT !.pc = "rendering"]
           pages == IF code = "none" THEN ledger.pages + 1 ELSE ledger.pages
           name == IF ledger.run = Nobody THEN r.run ELSE ledger.run
<1>1. /\ page[r].pc = "idle" /\ page' = [page EXCEPT ![r] = p]
      /\ ledger' = [ledger EXCEPT !.run = name, !.pages = pages]
      /\ UNCHANGED <<expired, lock, worker, fetched>>
  BY DEF Begin
<1>2. PageTables /\ LedgerShape /\ CountsHold /\ PageSound(r, page[r], worker, ledger.stopped)
  BY DEF PagesInv
<1>3. r.run # Nobody /\ MaxPages \in Nat
  BY ExtractionAssumption
<1>4. /\ code = "none" => ledger.run \in {Nobody, r.run} /\ ledger.pages + 1 <= MaxPages
      /\ pages \in Nat /\ pages <= MaxPages /\ ledger.pages <= pages
  BY <1>2, <1>3 DEF BeginPage, LedgerShape, CountsHold
<1>5. ledger.run = Nobody => Counted = {}
  BY <1>2, ExtractionAssumption DEF CountsHold, Counted
<1>6. name \in {Nobody} \cup {q.run : q \in PageRequests} /\ \A q \in Counted : q.run = name
  BY <1>2, <1>5 DEF CountsHold, LedgerShape
<1>7. code = "none" => r.run = name
  BY <1>4
<1> HIDE DEF pages, name
<1>8. /\ LedgerShape' /\ ledger'.run = name /\ ledger'.pages = pages /\ ledger'.calls = ledger.calls
      /\ ledger'.inFlight = ledger.inFlight /\ ledger'.reserved = ledger.reserved /\ ledger'.stopped = ledger.stopped
  BY <1>1, <1>2, <1>4, <1>6 DEF LedgerShape
<1>9. /\ PageSound(r, p, worker, ledger.stopped) /\ p.pc # "waiting"
      /\ p.pc \in ActivePcs => code = "none"
  <2>1. CASE code # "none"
    <3>1. p = EndBefore(r, code)
      BY <2>1
    <3> HIDE DEF p, code
    <3> QED
      BY <1>1, <1>2, <2>1, <3>1, EndsWithFailure DEF ActivePcs
  <2>2. CASE code = "none" /\ r.bytes > MaxBytes
    <3>1. p = EndBefore(r, "budget_exhausted")
      BY <2>2
    <3> HIDE DEF p, code
    <3> QED
      BY <1>1, <1>2, <2>2, <3>1, EndsWithFailure DEF ActivePcs
  <2>3. CASE code = "none" /\ ~(r.bytes > MaxBytes)
    <3>1. p = [page[r] EXCEPT !.pc = "rendering"]
      BY <2>3
    <3>2. PageShape(page[r])
      BY <1>2 DEF PageSound
    <3> HIDE DEF p, code
    <3>3. p = [pc |-> "rendering", attempt |-> page[r].attempt, code |-> page[r].code, proposal |-> page[r].proposal,
               records |-> page[r].records, outcome |-> page[r].outcome]
      BY <3>1, <3>2 DEF PageShape
    <3> QED
      BY <1>1, <1>2, <2>3, <3>3, SetupGoesOn DEF BeforeCalls
  <2> QED
    BY <2>1, <2>2, <2>3
<1> HIDE DEF p, code
<1>10. PageTables' /\ page'[r] = p /\ \A q \in PageRequests : q # r => page'[q] = page[q]
  BY <1>1, <1>2 DEF PageTables
<1>11. \A q \in PageRequests : PageSound(q, page'[q], worker', ledger'.stopped)
  BY <1>1, <1>8, <1>9, <1>10 DEF PagesInv
<1>12. Live' = Live /\ Reserved' = Reserved
  BY <1>1 DEF Live, Reserved
<1>13. Waiting' = Waiting
  BY <1>1, <1>9, <1>10 DEF Waiting
<1>14. Counted' \subseteq IF code = "none" THEN Counted \cup {r} ELSE Counted
  BY <1>1, <1>9, <1>10 DEF Counted
<1>15. Cardinality(Counted') <= pages
  <2>1. CASE code = "none"
    <3>1. pages = ledger.pages + 1
      BY <2>1 DEF pages
    <3>2. IsFiniteSet(Counted \cup {r}) /\ Cardinality(Counted \cup {r}) <= Cardinality(Counted) + 1
          /\ Cardinality(Counted \cup {r}) \in Nat
      <4>1. IsFiniteSet(Counted) /\ Cardinality(Counted) \in Nat
        BY <1>2, PagesFinite
      <4>2. IsFiniteSet(Counted \cup {r})
        BY <4>1, FS_AddElement
      <4>3. Cardinality(Counted \cup {r}) = IF r \in Counted THEN Cardinality(Counted) ELSE Cardinality(Counted) + 1
        BY <4>1, FS_AddElement
      <4> QED
        BY <4>1, <4>2, <4>3
    <3>3. Cardinality(Counted') <= Cardinality(Counted \cup {r}) /\ Cardinality(Counted') \in Nat
      BY <1>14, <2>1, <3>2, FS_Subset, FS_CardinalityType
    <3> QED
      BY <1>2, <3>1, <3>2, <3>3, PagesFinite DEF CountsHold, LedgerShape
  <2>2. CASE code # "none"
    <3>1. Cardinality(Counted') <= Cardinality(Counted) /\ Cardinality(Counted') \in Nat
      BY <1>2, <1>14, <2>2, PagesFinite, FS_Subset, FS_CardinalityType
    <3> QED
      BY <1>2, <1>4, <3>1, PagesFinite DEF CountsHold, LedgerShape
  <2> QED
    BY <2>1, <2>2
<1>16. \A q \in Counted' : q.run = name
  BY <1>6, <1>7, <1>14
<1>17. CountsHold'
  BY <1>2, <1>4, <1>8, <1>12, <1>13, <1>15, <1>16 DEF CountsHold
<1>18. (\A c \in PageCalls : WorkerShape(worker'[c])) /\ expired' \in BOOLEAN /\ lock' \subseteq PageRequests
       /\ fetched' \subseteq Policy.regions
  BY <1>1, LeftAlone
<1> QED
  BY <1>8, <1>10, <1>11, <1>17, <1>18 DEF PagesInv

\* A call that starts takes a slot and a reservation of the ledger.
LEMMA AttemptStep ==
  ASSUME PagesInv, NEW r \in PageRequests, Attempt(r)
  PROVE  PagesInv'
<1> DEFINE c == <<r, page[r].attempt>>
<1>1. page[r].pc = "attempt" /\ expired' = expired /\ lock' = lock /\ fetched' = fetched
  BY DEF Attempt
<1>2. PageTables /\ LedgerShape /\ CountsHold /\ PageSound(r, page[r], worker, ledger.stopped)
  BY DEF PagesInv
<1>3. CASE ~MayReserve
  <2> DEFINE p == End(r, "budget_exhausted", NoProposal, page[r].records)
  <2>1. page' = [page EXCEPT ![r] = p] /\ ledger' = ledger /\ worker' = worker
    BY <1>3 DEF Attempt
  <2>2. PageSound(r, p, worker, ledger.stopped) /\ p.pc = "done"
    BY <1>1, <1>2, EndsWithFailure
  <2> HIDE DEF p
  <2>3. PageGoes(r, p)
    BY <1>1, <2>1, LeftAlone DEF PageGoes
  <2> QED
    BY <2>1, <2>2, <2>3, PageStep DEF ActivePcs
<1>4. CASE MayReserve
  <2> DEFINE p == [page[r] EXCEPT !.pc = "waiting"]
             x == [worker[c] EXCEPT !.pc = "queued"]
  <2>1. page' = [page EXCEPT ![r] = p] /\ worker' = [worker EXCEPT ![c] = x] /\ ledger' = ReserveCall(ledger)
    BY <1>4 DEF Attempt
  <2>2. /\ PageShape(page[r]) /\ ToldOf(r, page[r].records, worker) /\ PlaceSound(page[r]) /\ CallsSound(r, page[r], worker)
        /\ DoubtStops(page[r], ledger.stopped) /\ Earned(r, page[r])
    BY <1>2 DEF PageSound
  <2>3. /\ page[r].attempt = Len(page[r].records) + 1 /\ page[r].attempt \in 1 .. LastAttempt
        /\ page[r].records \in Seq(Notes) /\ Len(page[r].records) \in Nat
    BY <1>1, <2>2, LastAttemptBound DEF PlaceSound, PageShape
  <2>4. c \in PageCalls /\ worker[c].pc = "none" /\ WorkerShape(worker[c])
    BY <1>1, <2>2, <2>3 DEF CallsSound, Begun, PageCalls, PagesInv
  <2>5. p = [pc |-> "waiting", attempt |-> page[r].attempt, code |-> page[r].code, proposal |-> page[r].proposal,
             records |-> page[r].records, outcome |-> page[r].outcome]
    <3>1. p = [page[r] EXCEPT !.pc = "waiting"]
      OBVIOUS
    <3> HIDE DEF p
    <3> QED
      BY <2>2, <3>1 DEF PageShape
  <2>6. WorkerShape(x) /\ x.pc = "queued"
    <3>1. x = [worker[c] EXCEPT !.pc = "queued"]
      OBVIOUS
    <3> HIDE DEF x
    <3>2. x = [pc |-> "queued", made |-> worker[c].made, cancelled |-> worker[c].cancelled, reply |-> worker[c].reply]
      BY <2>4, <3>1 DEF WorkerShape
    <3> QED
      BY <2>4, <3>2 DEF WorkerShape, LivePcs
  <2> HIDE DEF p, x
  <2>7. /\ PageTables' /\ page'[r] = p /\ worker'[c] = x
        /\ \A q \in PageRequests : q # r => page'[q] = page[q]
        /\ \A d \in PageCalls : d # c => worker'[d] = worker[d]
    BY <1>2, <2>1, <2>4 DEF PageTables
  <2>8. /\ Tokens \in Nat /\ MaxCalls \in Nat /\ MaxConcurrency \in Nat
        /\ ledger.calls < MaxCalls /\ ledger.inFlight < MaxConcurrency
    BY <1>4, ExtractionAssumption DEF MayReserve
  <2>9. /\ LedgerShape' /\ ledger'.run = ledger.run /\ ledger'.pages = ledger.pages /\ ledger'.stopped = ledger.stopped
        /\ ledger'.calls = ledger.calls + 1 /\ ledger'.inFlight = ledger.inFlight + 1
        /\ ledger'.reserved = ledger.reserved + Tokens
    <3>1. ledger' = [run |-> ledger.run, pages |-> ledger.pages, calls |-> ledger.calls + 1,
                     inFlight |-> ledger.inFlight + 1, reserved |-> ledger.reserved + Tokens, stopped |-> ledger.stopped]
      BY <1>2, <2>1 DEF LedgerShape, ReserveCall
    <3> QED
      BY <1>2, <2>8, <3>1 DEF LedgerShape
  <2>10. PageSound(r, p, worker', ledger'.stopped)
    <3>1. PageShape(p)
      BY <2>2, <2>5 DEF PageShape, ActivePcs
    <3>2. PlaceSound(p)
      BY <2>3, <2>5 DEF PlaceSound, BeforeCalls
    <3>3. \A i \in 1 .. LastAttempt : i # page[r].attempt => worker'[<<r, i>>] = worker[<<r, i>>]
      BY <2>7 DEF PageCalls
    <3>4. CallsSound(r, p, worker')
      <4>1. \A i \in 1 .. LastAttempt : worker[<<r, i>>].pc # "none" <=> i <= Len(page[r].records)
        BY <1>1, <2>2 DEF CallsSound, Begun
      <4>2. \A i \in 1 .. LastAttempt : worker[<<r, i>>].pc \notin LivePcs
        BY <1>1, <2>2 DEF CallsSound
      <4>3. Begun(p) = page[r].attempt
        BY <2>3, <2>5 DEF Begun
      <4>4. worker'[<<r, page[r].attempt>>].pc = "queued"
        BY <2>6, <2>7
      <4>5. \A i \in 1 .. LastAttempt : worker'[<<r, i>>].pc # "none" <=> i <= Begun(p)
        BY <2>3, <3>3, <4>1, <4>3, <4>4
      <4>6. \A i \in 1 .. LastAttempt : worker'[<<r, i>>].pc \in LivePcs => i = p.attempt
        BY <2>5, <3>3, <4>2
      <4> QED
        BY <2>5, <4>5, <4>6 DEF CallsSound
    <3>5. ToldOf(r, p.records, worker')
      BY <2>2, <2>3, <2>5, <3>3 DEF ToldOf
    <3>6. DoubtStops(p, ledger'.stopped) /\ Earned(r, p)
      BY <1>1, <2>2, <2>5 DEF DoubtStops, Earned
    <3> QED
      BY <3>1, <3>2, <3>4, <3>5, <3>6 DEF PageSound
  <2>11. ASSUME NEW q \in PageRequests, q # r
         PROVE  PageSound(q, page'[q], worker', ledger'.stopped)
    <3>1. PageSound(q, page[q], worker, ledger.stopped) /\ page'[q] = page[q]
      BY <2>7, <2>11 DEF PagesInv
    <3>2. \A i \in 1 .. LastAttempt : worker'[<<q, i>>] = worker[<<q, i>>]
      BY <2>7, <2>11 DEF PageCalls
    <3> QED
      BY <2>9, <3>1, <3>2, PageFrame
  <2>12. DOMAIN worker = PageCalls /\ DOMAIN worker' = PageCalls
    BY <1>2, <2>7 DEF PageTables
  <2>13. Live' = Live \cup {c} /\ Reserved' = Reserved \cup {c} /\ c \notin Live /\ c \notin Reserved
    BY <2>4, <2>6, <2>7, <2>12 DEF Live, Reserved
  <2>14. Waiting' = Waiting \cup {r} /\ r \notin Waiting
    BY <1>1, <2>5, <2>7 DEF Waiting
  <2>15. Counted' = Counted
    <3>1. \A q \in PageRequests : q # r => \A i \in 1 .. LastAttempt : worker'[<<q, i>>] = worker[<<q, i>>]
      BY <2>7 DEF PageCalls
    <3> QED
      BY <1>1, <2>5, <2>7, <3>1 DEF Counted, ActivePcs
  <2>16. /\ Cardinality(Live') = Cardinality(Live) + 1 /\ Cardinality(Reserved') = Cardinality(Reserved) + 1
         /\ Cardinality(Waiting') = Cardinality(Waiting) + 1
    BY <1>2, <2>13, <2>14, PagesFinite, FS_AddElement
  <2>17. Cardinality(Waiting') * Tokens <= ledger'.reserved
    <3>1. Cardinality(Waiting') * Tokens = Cardinality(Waiting) * Tokens + Tokens
      BY <1>2, <2>8, <2>16, PagesFinite, OneTimesMore
    <3>2. Cardinality(Waiting) * Tokens \in Nat
      BY <1>2, <2>8, PagesFinite
    <3> QED
      BY <1>2, <2>8, <2>9, <3>1, <3>2 DEF CountsHold, LedgerShape
  <2>18. CountsHold'
    BY <1>2, <2>8, <2>9, <2>15, <2>16, <2>17, PagesFinite DEF CountsHold, LedgerShape
  <2>19. \A d \in PageCalls : WorkerShape(worker'[d])
    BY <2>6, <2>7 DEF PagesInv
  <2>20. expired' \in BOOLEAN /\ lock' \subseteq PageRequests /\ fetched' \subseteq Policy.regions
    BY <1>1, LeftAlone
  <2> QED
    BY <2>7, <2>9, <2>10, <2>11, <2>18, <2>19, <2>20 DEF PagesInv
<1> QED
  BY <1>3, <1>4

\* Whatever a waiting page settles for, it was reserved.
LEMMA WaitingIsReserved ==
  ASSUME PageTables, LedgerShape, CountsHold, NEW r \in PageRequests, page[r].pc = "waiting"
  PROVE  Tokens \in Nat /\ Tokens <= ledger.reserved
<1>1. Tokens \in Nat
  BY ExtractionAssumption
<1>2. r \in Waiting
  BY DEF Waiting
<1>3. Cardinality(Waiting) \in Nat /\ Cardinality(Waiting) > 0
  BY <1>2, PagesFinite, FS_EmptySet
<1>4. /\ (Cardinality(Waiting) - 1) * Tokens = Cardinality(Waiting) * Tokens - Tokens
      /\ (Cardinality(Waiting) - 1) * Tokens \in Nat /\ Cardinality(Waiting) * Tokens \in Nat
  <2>1. Cardinality(Waiting) - 1 \in Nat
    BY <1>3
  <2> QED
    BY <1>1, <1>3, <2>1, OneTimesMore
<1> QED
  BY <1>1, <1>4 DEF CountsHold, LedgerShape

\* An attempt is settled with the answer of its call, or given up.
LEMMA SettleStep ==
  ASSUME PagesInv, NEW r \in PageRequests, page[r].pc = "waiting", NEW reply, Proper(reply),
         PageTables', \A c \in PageCalls : WorkerShape(worker'[c]),
         \A c \in PageCalls : worker'[c].pc = worker[c].pc /\ worker'[c].reply = worker[c].reply,
         reply.failure # "timeout" =>
           worker[<<r, page[r].attempt>>].pc = "done" /\ worker[<<r, page[r].attempt>>].reply = reply,
         Settle(r, reply), UNCHANGED <<expired, lock, fetched>>
  PROVE  PagesInv'
<1>1. PageTables /\ LedgerShape /\ CountsHold /\ PageSound(r, page[r], worker, ledger.stopped)
  BY DEF PagesInv
<1>2. Tokens \in Nat /\ Tokens <= ledger.reserved
  BY <1>1, WaitingIsReserved
<1>3. \A i \in 1 .. LastAttempt :
        worker'[<<r, i>>].pc = worker[<<r, i>>].pc /\ worker'[<<r, i>>].reply = worker[<<r, i>>].reply
  BY DEF PageCalls
<1>4. page[r].attempt \in 1 .. LastAttempt
  BY <1>1, LastAttemptBound DEF PageSound, PageShape, PlaceSound
<1>5. reply.failure # "timeout" =>
        worker'[<<r, page[r].attempt>>].pc = "done" /\ worker'[<<r, page[r].attempt>>].reply = reply
  BY <1>3, <1>4
<1>6. /\ page' = [page EXCEPT ![r] = page'[r]] /\ page'[r].pc \in {"pausing", "done"}
      /\ PageSound(r, page'[r], worker', ledger'.stopped)
      /\ LedgerShape' /\ ledger'.reserved >= ledger.reserved - Tokens
      /\ ledger'.run = ledger.run /\ ledger'.pages = ledger.pages /\ ledger'.calls = ledger.calls
      /\ ledger'.inFlight = ledger.inFlight /\ (ledger.stopped => ledger'.stopped)
  BY <1>1, <1>2, <1>3, <1>5, Settling
<1>7. expired' \in BOOLEAN /\ lock' \subseteq PageRequests /\ fetched' \subseteq Policy.regions
  BY LeftAlone
<1>8. page[r].pc \in ActivePcs /\ page'[r].pc # "waiting"
  BY <1>6 DEF ActivePcs
<1> DEFINE p == page'[r]
<1>9. page' = [page EXCEPT ![r] = p] /\ PageSound(r, p, worker', ledger'.stopped) /\ p.pc # "waiting"
  BY <1>6, <1>8
<1>10. ledger'.reserved >= IF page[r].pc = "waiting" THEN ledger.reserved - Tokens ELSE ledger.reserved
  BY <1>6
<1> HIDE DEF p
<1> QED
  BY <1>6, <1>7, <1>8, <1>9, <1>10, PageMoves

LEMMA ReceiveStep ==
  ASSUME PagesInv, NEW r \in PageRequests, Receive(r)
  PROVE  PagesInv'
<1> DEFINE c == <<r, page[r].attempt>>
<1>1. /\ page[r].pc = "waiting" /\ worker[c].pc = "done" /\ Settle(r, worker[c].reply)
      /\ UNCHANGED <<expired, lock, worker, fetched>>
  BY DEF Receive
<1>2. PageShape(page[r]) /\ PlaceSound(page[r])
  BY DEF PagesInv, PageSound
<1>3. page[r].attempt \in 1 .. LastAttempt
  BY <1>1, <1>2, LastAttemptBound DEF PageShape, PlaceSound
<1>4. Proper(worker[c].reply)
  <2>1. c \in PageCalls
    BY <1>3 DEF PageCalls
  <2> QED
    BY <1>1, <2>1 DEF PagesInv, WorkerShape
<1>5. PageTables'
  <2>1. PageTables
    BY DEF PagesInv
  <2>2. \E x : page' = [page EXCEPT ![r] = x]
    BY <1>1 DEF Settle
  <2> QED
    BY <1>1, <2>1, <2>2 DEF PageTables
<1>6. /\ \A d \in PageCalls : WorkerShape(worker'[d])
      /\ \A d \in PageCalls : worker'[d].pc = worker[d].pc /\ worker'[d].reply = worker[d].reply
  BY <1>1, LeftAlone
<1> QED
  BY <1>1, <1>4, <1>5, <1>6, SettleStep

\* A worker whose caller leaves is told so, and keeps its place.
LEMMA CancelledWorker ==
  ASSUME PagesInv, NEW c \in PageCalls, worker' = [worker EXCEPT ![c].cancelled = TRUE]
  PROVE  /\ worker' = [d \in PageCalls |-> worker'[d]]
         /\ \A d \in PageCalls : WorkerShape(worker'[d])
         /\ \A d \in PageCalls : worker'[d].pc = worker[d].pc /\ worker'[d].reply = worker[d].reply
<1> DEFINE x == [worker[c] EXCEPT !.cancelled = TRUE]
<1>1. worker = [d \in PageCalls |-> worker[d]] /\ WorkerShape(worker[c])
  BY DEF PagesInv, PageTables
<1>2. worker' = [worker EXCEPT ![c] = x]
  OBVIOUS
<1>3. x = [pc |-> worker[c].pc, made |-> worker[c].made, cancelled |-> TRUE, reply |-> worker[c].reply]
  <2>1. x = [worker[c] EXCEPT !.cancelled = TRUE]
    OBVIOUS
  <2> HIDE DEF x
  <2> QED
    BY <1>1, <2>1 DEF WorkerShape
<1> HIDE DEF x
<1>4. WorkerShape(x)
  BY <1>1, <1>3 DEF WorkerShape
<1>5. worker'[c] = x /\ \A d \in PageCalls : d # c => worker'[d] = worker[d]
  BY <1>1, <1>2
<1>6. worker' = [d \in PageCalls |-> worker'[d]]
  BY <1>1, <1>2
<1> QED
  BY <1>3, <1>4, <1>5, <1>6 DEF PagesInv

LEMMA TimeOutStep ==
  ASSUME PagesInv, NEW r \in PageRequests, TimeOut(r)
  PROVE  PagesInv'
<1> DEFINE c == <<r, page[r].attempt>>
           reply == [NoReply EXCEPT !.failure = "timeout"]
<1>1. /\ page[r].pc = "waiting" /\ worker' = [worker EXCEPT ![c].cancelled = TRUE] /\ Settle(r, reply)
      /\ UNCHANGED <<expired, lock, fetched>>
  BY DEF TimeOut
<1>2. PageShape(page[r]) /\ PlaceSound(page[r])
  BY DEF PagesInv, PageSound
<1>3. c \in PageCalls
  BY <1>1, <1>2, LastAttemptBound DEF PageShape, PlaceSound, PageCalls
<1>4. Proper(reply) /\ reply.failure = "timeout"
  BY DEF NoReply, Proper
<1>5. /\ worker' = [d \in PageCalls |-> worker'[d]]
      /\ \A d \in PageCalls : WorkerShape(worker'[d])
      /\ \A d \in PageCalls : worker'[d].pc = worker[d].pc /\ worker'[d].reply = worker[d].reply
  BY <1>1, <1>3, CancelledWorker
<1> HIDE DEF reply
<1>6. PageTables'
  <2>1. PageTables
    BY DEF PagesInv
  <2>2. \E x : page' = [page EXCEPT ![r] = x]
    BY <1>1 DEF Settle
  <2> QED
    BY <1>5, <2>1, <2>2 DEF PageTables
<1>7. UNCHANGED <<expired, lock, fetched>> /\ Settle(r, reply) /\ page[r].pc = "waiting"
  BY <1>1
<1> QED
  BY <1>4, <1>5, <1>6, <1>7, SettleStep

LEMMA WakeStep ==
  ASSUME PagesInv, NEW r \in PageRequests, Wake(r)
  PROVE  PagesInv'
<1> DEFINE over == End(r, "budget_exhausted", NoProposal, page[r].records)
           last == End(r, page[r].code, NoProposal, page[r].records)
           again == [page[r] EXCEPT !.pc = "attempt", !.attempt = page[r].attempt + 1]
<1>1. /\ page[r].pc = "pausing"
      /\ \/ page' = [page EXCEPT ![r] = over]
         \/ page' = [page EXCEPT ![r] = last]
         \/ page[r].attempt < LastAttempt /\ page' = [page EXCEPT ![r] = again]
      /\ UNCHANGED <<ledger, expired, lock, worker, fetched>>
  <2>1. page[r].pc = "pausing" /\ UNCHANGED <<ledger, expired, lock, worker, fetched>>
    BY DEF Wake
  <2>2. expired => page' = [page EXCEPT ![r] = over]
    BY DEF Wake
  <2>3. ~expired /\ page[r].attempt < LastAttempt => page' = [page EXCEPT ![r] = again]
    BY DEF Wake
  <2>4. ~expired /\ ~(page[r].attempt < LastAttempt) => page' = [page EXCEPT ![r] = last]
    BY DEF Wake
  <2> HIDE DEF over, last, again
  <2> QED
    BY <2>1, <2>2, <2>3, <2>4
<1>2. /\ PageShape(page[r]) /\ ToldOf(r, page[r].records, worker) /\ PlaceSound(page[r]) /\ CallsSound(r, page[r], worker)
      /\ DoubtStops(page[r], ledger.stopped) /\ Earned(r, page[r])
      /\ PageSound(r, page[r], worker, ledger.stopped)
  BY DEF PagesInv, PageSound
<1>3. ledger' = ledger /\ worker' = worker /\ expired' = expired /\ lock' \subseteq PageRequests
      /\ fetched' \subseteq Policy.regions
  BY <1>1, LeftAlone
<1>4. page[r].code # "none"
  BY <1>1, <1>2 DEF PlaceSound, Retryable
<1>5. PageSound(r, over, worker, ledger.stopped) /\ over.pc = "done"
  <2>1. PageSound(r, page[r], worker, ledger.stopped) /\ page[r].pc = "pausing"
    BY <1>1, <1>2
  <2> QED
    BY <2>1, EndsWithFailure
<1>6. PageSound(r, last, worker, ledger.stopped) /\ last.pc = "done"
  <2>1. PageSound(r, page[r], worker, ledger.stopped) /\ page[r].pc = "pausing"
    BY <1>1, <1>2
  <2> QED
    BY <1>4, <2>1, EndsWithFailure
<1>7. page[r].attempt < LastAttempt => PageSound(r, again, worker, ledger.stopped) /\ again.pc = "attempt"
  <2> SUFFICES ASSUME page[r].attempt < LastAttempt
               PROVE  PageSound(r, again, worker, ledger.stopped) /\ again.pc = "attempt"
    OBVIOUS
  <2>1. again = [pc |-> "attempt", attempt |-> page[r].attempt + 1, code |-> page[r].code, proposal |-> page[r].proposal,
                 records |-> page[r].records, outcome |-> page[r].outcome]
    <3>1. again = [page[r] EXCEPT !.pc = "attempt", !.attempt = page[r].attempt + 1]
      OBVIOUS
    <3> HIDE DEF again
    <3> QED
      BY <1>2, <3>1 DEF PageShape
  <2> HIDE DEF again
  <2>2. PageShape(again)
    BY <1>2, <2>1, LastAttemptBound DEF PageShape, ActivePcs
  <2>3. PlaceSound(again)
    BY <1>1, <1>2, <2>1 DEF PlaceSound, BeforeCalls
  <2>4. CallsSound(r, again, worker)
    BY <1>1, <1>2, <2>1 DEF CallsSound, Begun
  <2>5. ToldOf(r, again.records, worker) /\ DoubtStops(again, ledger.stopped) /\ Earned(r, again)
    BY <1>1, <1>2, <2>1 DEF DoubtStops, Earned
  <2> QED
    BY <2>1, <2>2, <2>3, <2>4, <2>5 DEF PageSound
<1> HIDE DEF over, last, again
<1>8. ASSUME NEW p, page' = [page EXCEPT ![r] = p], PageSound(r, p, worker, ledger.stopped), p.pc \in {"done", "attempt"}
      PROVE  PagesInv'
  <2>1. PageGoes(r, p)
    BY <1>3, <1>8 DEF PageGoes
  <2> QED
    BY <1>1, <1>3, <1>8, <2>1, PageStep DEF ActivePcs
<1> QED
  BY <1>1, <1>5, <1>6, <1>7, <1>8

LEMMA CancelStep ==
  ASSUME PagesInv, NEW r \in PageRequests, Cancel(r)
  PROVE  PagesInv'
<1> DEFINE p == [page[r] EXCEPT !.pc = "cancelled"]
           c == <<r, page[r].attempt>>
<1>1. /\ page[r].pc \in {"rendering", "locking", "checking", "waiting", "pausing"}
      /\ ledger' = Stop(ledger) /\ lock' \subseteq lock /\ page' = [page EXCEPT ![r] = p]
      /\ worker' = IF page[r].pc = "waiting" THEN [worker EXCEPT ![c].cancelled = TRUE] ELSE worker
      /\ expired' = expired /\ fetched' = fetched
  BY DEF Cancel
<1>2. /\ PageShape(page[r]) /\ ToldOf(r, page[r].records, worker) /\ PlaceSound(page[r]) /\ CallsSound(r, page[r], worker)
      /\ DoubtStops(page[r], ledger.stopped) /\ Earned(r, page[r]) /\ PageTables
  BY DEF PagesInv, PageSound
<1>3. /\ worker' = [d \in PageCalls |-> worker'[d]]
      /\ \A d \in PageCalls : WorkerShape(worker'[d])
      /\ \A d \in PageCalls : worker'[d].pc = worker[d].pc /\ worker'[d].reply = worker[d].reply
  <2>1. CASE page[r].pc = "waiting"
    <3>1. c \in PageCalls
      BY <1>2, <2>1, LastAttemptBound DEF PageShape, PlaceSound, PageCalls
    <3>2. worker' = [worker EXCEPT ![c].cancelled = TRUE]
      BY <1>1, <2>1
    <3> QED
      BY <3>1, <3>2, CancelledWorker
  <2>2. CASE page[r].pc # "waiting"
    BY <1>1, <1>2, <2>2, LeftAlone DEF PageTables
  <2> QED
    BY <2>1, <2>2
<1>4. p = [pc |-> "cancelled", attempt |-> page[r].attempt, code |-> page[r].code, proposal |-> page[r].proposal,
           records |-> page[r].records, outcome |-> page[r].outcome]
  <2>1. p = [page[r] EXCEPT !.pc = "cancelled"]
    OBVIOUS
  <2> HIDE DEF p
  <2> QED
    BY <1>2, <2>1 DEF PageShape
<1> HIDE DEF p
<1>5. /\ LedgerShape' /\ ledger'.stopped
      /\ ledger'.run = ledger.run /\ ledger'.pages = ledger.pages
      /\ ledger'.calls = ledger.calls /\ ledger'.inFlight = ledger.inFlight
      /\ ledger'.reserved = ledger.reserved
  BY <1>1, LeftAlone
<1>6. PageSound(r, p, worker', ledger'.stopped)
  <2>1. PageShape(p)
    BY <1>2, <1>4 DEF PageShape, Over
  <2>2. PlaceSound(p)
    BY <1>4 DEF PlaceSound, BeforeCalls
  <2>3. \A i \in 1 .. LastAttempt :
          worker'[<<r, i>>].pc = worker[<<r, i>>].pc /\ worker'[<<r, i>>].reply = worker[<<r, i>>].reply
    BY <1>3 DEF PageCalls
  <2>4. CallsSound(r, p, worker')
    BY <1>2, <1>4, <2>3 DEF CallsSound
  <2>5. ToldOf(r, p.records, worker')
    BY <1>2, <1>4, <2>3 DEF ToldOf
  <2>6. DoubtStops(p, ledger'.stopped) /\ Earned(r, p)
    BY <1>1, <1>2, <1>4, <1>5 DEF DoubtStops, Earned
  <2> QED
    BY <2>1, <2>2, <2>4, <2>5, <2>6 DEF PageSound
<1>7. PageTables'
  BY <1>1, <1>2, <1>3 DEF PageTables
<1>8. ledger'.reserved >= IF page[r].pc = "waiting" THEN ledger.reserved - Tokens ELSE ledger.reserved
  BY <1>5, LeftAlone
<1>9. expired' \in BOOLEAN /\ lock' \subseteq PageRequests /\ fetched' \subseteq Policy.regions
  BY <1>1, LeftAlone
<1>10. page[r].pc \in ActivePcs /\ p.pc # "waiting" /\ page' = [page EXCEPT ![r] = p]
  BY <1>1, <1>4 DEF ActivePcs
<1> QED
  BY <1>3, <1>5, <1>6, <1>7, <1>8, <1>9, <1>10, PageMoves

-----------------------------------------------------------------------------
(***************************************************************************)
(* The steps of a worker                                                   *)
(***************************************************************************)

\* A worker answers.
LEMMA RepliedStep ==
  ASSUME PagesInv, NEW c \in PageCalls, worker[c].pc \in LivePcs, NEW reply, Proper(reply), Replied(c, reply),
         UNCHANGED <<expired, lock, page, fetched>>
  PROVE  PagesInv'
<1> DEFINE x == [worker[c] EXCEPT !.pc = "done", !.reply = reply]
<1>1. worker' = [worker EXCEPT ![c] = x] /\ ledger' = FinishedCall(ledger)
  BY DEF Replied
<1>2. WorkerShape(worker[c])
  BY DEF PagesInv
<1>3. x = [pc |-> "done", made |-> worker[c].made, cancelled |-> worker[c].cancelled, reply |-> reply]
  <2>1. x = [worker[c] EXCEPT !.pc = "done", !.reply = reply]
    OBVIOUS
  <2> HIDE DEF x
  <2> QED
    BY <1>2, <2>1 DEF WorkerShape
<1> HIDE DEF x
<1>4. WorkerShape(x) /\ x.pc = "done"
  BY <1>2, <1>3 DEF WorkerShape
<1>5. WorkerGoes(c, x)
  BY <1>1, <1>4 DEF WorkerGoes
<1> QED
  BY <1>4, <1>5, WorkerMoves

\* A worker comes to another place.
LEMMA WorkerPlace ==
  ASSUME PagesInv, NEW c \in PageCalls, worker[c].pc \in LivePcs, NEW x, WorkerShape(x), x.pc \in LivePcs,
         worker' = [worker EXCEPT ![c] = x], UNCHANGED <<ledger, expired, lock, page, fetched>>
  PROVE  PagesInv'
<1>1. WorkerGoes(c, x)
  BY DEF WorkerGoes, LivePcs
<1> QED
  BY <1>1, WorkerMoves

LEMMA PlaceShape ==
  ASSUME NEW y, WorkerShape(y), NEW x, NEW pc \in LivePcs, x = [y EXCEPT !.pc = pc]
  PROVE  WorkerShape(x) /\ x.pc = pc
<1>1. x = [pc |-> pc, made |-> y.made, cancelled |-> y.cancelled, reply |-> y.reply]
  BY DEF WorkerShape
<1> QED
  BY <1>1 DEF WorkerShape, LivePcs

LEMMA DeniedProper == Proper(Denied)
BY DEF Denied, NoReply, Proper

LEMMA InvokeStep ==
  ASSUME PagesInv, NEW c \in PageCalls, Invoke(c)
  PROVE  PagesInv'
<1>1. worker[c].pc = "queued" /\ UNCHANGED <<expired, lock, page, fetched>> /\ WorkerShape(worker[c])
  BY DEF Invoke, PagesInv
<1>2. CASE Spent
  <2>1. Replied(c, Denied)
    BY <1>2 DEF Invoke
  <2> QED
    BY <1>1, <2>1, DeniedProper, RepliedStep DEF LivePcs
<1>3. CASE ~Spent
  <2>1. PICK pc \in LivePcs : worker' = [worker EXCEPT ![c] = [worker[c] EXCEPT !.pc = pc]] /\ ledger' = ledger
    BY <1>3 DEF Invoke, LivePcs
  <2> DEFINE x == [worker[c] EXCEPT !.pc = pc]
  <2>2. WorkerShape(x) /\ x.pc = pc
    <3>1. x = [worker[c] EXCEPT !.pc = pc]
      OBVIOUS
    <3> HIDE DEF x
    <3> QED
      BY <1>1, <3>1, PlaceShape
  <2>3. worker' = [worker EXCEPT ![c] = x]
    BY <2>1
  <2> HIDE DEF x
  <2> QED
    BY <1>1, <2>1, <2>2, <2>3, WorkerPlace DEF LivePcs
<1> QED
  BY <1>2, <1>3

LEMMA CountStep ==
  ASSUME PagesInv, NEW c \in PageCalls, Count(c)
  PROVE  PagesInv'
<1>1. worker[c].pc = "counting" /\ UNCHANGED <<expired, lock, page, fetched>> /\ WorkerShape(worker[c])
  BY DEF Count, PagesInv
<1> DEFINE x == [worker[c] EXCEPT !.pc = "ready"]
<1>2. \/ Replied(c, Denied)
      \/ worker' = [worker EXCEPT ![c] = x] /\ ledger' = ledger
  BY DEF Count
<1>3. WorkerShape(x) /\ x.pc = "ready"
  <2>1. x = [worker[c] EXCEPT !.pc = "ready"]
    OBVIOUS
  <2> HIDE DEF x
  <2> QED
    BY <1>1, <2>1, PlaceShape DEF LivePcs
<1> HIDE DEF x
<1>4. CASE Replied(c, Denied)
  BY <1>1, <1>4, DeniedProper, RepliedStep DEF LivePcs
<1>5. CASE worker' = [worker EXCEPT ![c] = x] /\ ledger' = ledger
  BY <1>1, <1>3, <1>5, WorkerPlace DEF LivePcs
<1> QED
  BY <1>2, <1>4, <1>5

LEMMA PassGuardStep ==
  ASSUME PagesInv, NEW c \in PageCalls, PassGuard(c)
  PROVE  PagesInv'
<1>1. worker[c].pc = "ready" /\ UNCHANGED <<expired, lock, page, fetched>> /\ WorkerShape(worker[c])
  BY DEF PassGuard, PagesInv
<1> DEFINE x == [worker[c] EXCEPT !.pc = "admitted"]
<1>2. \/ Replied(c, Denied)
      \/ worker' = [worker EXCEPT ![c] = x] /\ ledger' = ledger
  BY DEF PassGuard
<1>3. WorkerShape(x) /\ x.pc = "admitted"
  <2>1. x = [worker[c] EXCEPT !.pc = "admitted"]
    OBVIOUS
  <2> HIDE DEF x
  <2> QED
    BY <1>1, <2>1, PlaceShape DEF LivePcs
<1> HIDE DEF x
<1>4. CASE Replied(c, Denied)
  BY <1>1, <1>4, DeniedProper, RepliedStep DEF LivePcs
<1>5. CASE worker' = [worker EXCEPT ![c] = x] /\ ledger' = ledger
  BY <1>1, <1>3, <1>5, WorkerPlace DEF LivePcs
<1> QED
  BY <1>2, <1>4, <1>5

LEMMA SendStep ==
  ASSUME PagesInv, NEW c \in PageCalls, Send(c)
  PROVE  PagesInv'
<1>1. /\ worker[c].pc = "admitted" /\ UNCHANGED <<ledger, expired, lock, page, fetched>>
      /\ WorkerShape(worker[c])
  BY DEF Send, PagesInv
<1>2. PICK made \in Amounts : worker' = [worker EXCEPT ![c] = [worker[c] EXCEPT !.pc = "sent", !.made = made]]
  BY DEF Send
<1> DEFINE x == [worker[c] EXCEPT !.pc = "sent", !.made = made]
<1>3. made \in Nat
  BY ExtractionAssumption
<1>4. WorkerShape(x) /\ x.pc = "sent"
  <2>1. x = [worker[c] EXCEPT !.pc = "sent", !.made = made]
    OBVIOUS
  <2> HIDE DEF x
  <2>2. x = [pc |-> "sent", made |-> made, cancelled |-> worker[c].cancelled, reply |-> worker[c].reply]
    BY <1>1, <2>1 DEF WorkerShape
  <2> QED
    BY <1>1, <1>3, <2>2 DEF WorkerShape, LivePcs
<1>5. worker' = [worker EXCEPT ![c] = x]
  BY <1>2
<1> HIDE DEF x
<1> QED
  BY <1>1, <1>4, <1>5, WorkerPlace DEF LivePcs

LEMMA ProviderRespondsStep ==
  ASSUME PagesInv, NEW c \in PageCalls, ProviderResponds(c)
  PROVE  PagesInv'
<1>1. worker[c].pc = "sent" /\ UNCHANGED <<expired, lock, page, fetched>> /\ WorkerShape(worker[c])
  BY DEF ProviderResponds, PagesInv
<1>2. PICK reply : Replied(c, reply) /\ Proper(reply)
  <2>1. CASE \E error \in Errors : Replied(c, [NoReply EXCEPT !.failure = ProviderFailure(error)])
    <3>1. PICK error \in Errors : Replied(c, [NoReply EXCEPT !.failure = ProviderFailure(error)])
      BY <2>1
    <3>2. Proper([NoReply EXCEPT !.failure = ProviderFailure(error)])
      BY ProviderFailureFails DEF NoReply, Proper
    <3> QED
      BY <3>1, <3>2
  <2>2. CASE Replied(c, [NoReply EXCEPT !.failure = "malformed_output", !.returned = TRUE])
    <3>1. Proper([NoReply EXCEPT !.failure = "malformed_output", !.returned = TRUE])
      BY DEF NoReply, Proper
    <3> QED
      BY <2>2, <3>1
  <2>3. CASE \E body \in Bodies, told \in BOOLEAN :
               Replied(c, [failure |-> "none", returned |-> TRUE, body |-> body,
                           out |-> IF told THEN worker[c].made ELSE NoUsage])
    <3>1. PICK body \in Bodies, told \in BOOLEAN :
            Replied(c, [failure |-> "none", returned |-> TRUE, body |-> body,
                        out |-> IF told THEN worker[c].made ELSE NoUsage])
      BY <2>3
    <3>2. Proper([failure |-> "none", returned |-> TRUE, body |-> body,
                  out |-> IF told THEN worker[c].made ELSE NoUsage])
      BY <1>1 DEF Proper, WorkerShape
    <3> QED
      BY <3>1, <3>2
  <2>4. CASE Replied(c, Denied)
    BY <2>4, DeniedProper
  <2> QED
    BY <2>1, <2>2, <2>3, <2>4 DEF ProviderResponds
<1> QED
  BY <1>1, <1>2, RepliedStep DEF LivePcs

-----------------------------------------------------------------------------
(***************************************************************************)
(* The invariant and what it implies                                       *)
(***************************************************************************)

LEMMA PagesInitInv == PagesInit => PagesInv
<1> SUFFICES ASSUME PagesInit PROVE PagesInv
  OBVIOUS
<1> DEFINE p == [pc |-> "idle", attempt |-> 0, code |-> "none", proposal |-> NoProposal, records |-> <<>>,
                 outcome |-> NoOutcome]
           x == [pc |-> "none", made |-> 0, cancelled |-> FALSE, reply |-> NoReply]
<1>1. /\ page = [r \in PageRequests |-> p] /\ worker = [c \in PageCalls |-> x]
      /\ ledger = [run |-> Nobody, pages |-> 0, calls |-> 0, inFlight |-> 0, reserved |-> 0, stopped |-> FALSE]
      /\ expired = FALSE /\ lock = {} /\ fetched = {}
  BY DEF PagesInit
<1>2. PageTables
  BY <1>1 DEF PageTables
<1>3. WorkerShape(x) /\ x.pc = "none"
  BY DEF WorkerShape
<1>4. PageShape(p)
  BY LastAttemptBound, EmptySeq DEF PageShape, NoOutcome, Codes
<1>5. p.pc = "idle" /\ p.records = <<>> /\ p.attempt = 0 /\ p.outcome.status = "none" /\ Len(p.records) = 0
  BY DEF NoOutcome
<1> HIDE DEF p, x
<1>6. ASSUME NEW r \in PageRequests
      PROVE  PageSound(r, page[r], worker, ledger.stopped)
  <2>1. page[r] = p /\ \A i \in 1 .. LastAttempt : worker[<<r, i>>] = x
    BY <1>1 DEF PageCalls
  <2>2. ToldOf(r, p.records, worker) /\ PlaceSound(p) /\ DoubtStops(p, ledger.stopped) /\ Earned(r, p)
    BY <1>5 DEF ToldOf, PlaceSound, DoubtStops, Earned
  <2>3. CallsSound(r, p, worker)
    BY <1>3, <1>5, <2>1 DEF CallsSound, Begun, LivePcs
  <2> QED
    BY <1>4, <2>1, <2>2, <2>3 DEF PageSound
<1>7. LedgerShape
  BY <1>1 DEF LedgerShape
<1>8. DOMAIN worker = PageCalls /\ \A c \in PageCalls : worker[c] = x
  BY <1>1
<1>9. Live = {} /\ Reserved = {}
  BY <1>3, <1>8 DEF Live, Reserved
<1>10. Counted = {} /\ Waiting = {}
  <2>1. \A r \in PageRequests : page[r] = p
    BY <1>1
  <2>2. \A r \in PageRequests : \A i \in 1 .. LastAttempt : worker[<<r, i>>].pc = "none"
    BY <1>3, <1>8 DEF PageCalls
  <2> QED
    BY <1>5, <2>1, <2>2 DEF Counted, Waiting, ActivePcs
<1>11. CountsHold
  <2>1. Cardinality({}) = 0
    BY FS_EmptySet
  <2>2. {Tokens, MaxCalls, MaxConcurrency, MaxPages} \subseteq Nat
    BY ExtractionAssumption
  <2> QED
    BY <1>1, <1>9, <1>10, <2>1, <2>2 DEF CountsHold
<1> QED
  BY <1>1, <1>2, <1>3, <1>6, <1>7, <1>8, <1>11 DEF PagesInv

LEMMA PagesNextInv == PagesInv /\ [PagesNext]_pageVars => PagesInv'
<1> SUFFICES ASSUME PagesInv, [PagesNext]_pageVars PROVE PagesInv'
  OBVIOUS
<1>1. ASSUME NEW r \in PageRequests, Setup(r)
      PROVE  PagesInv'
  BY <1>1, RefuseStep, BeginStep, RenderStep, TakeLockStep, CheckAccessStep, SetupTimesOutStep DEF Setup
<1>2. ASSUME NEW r \in PageRequests, Run(r)
      PROVE  PagesInv'
  BY <1>2, AttemptStep, ReceiveStep, TimeOutStep, WakeStep DEF Run
<1>3. ASSUME NEW r \in PageRequests, Cancel(r)
      PROVE  PagesInv'
  BY <1>3, CancelStep
<1>4. ASSUME NEW c \in PageCalls, Work(c)
      PROVE  PagesInv'
  BY <1>4, InvokeStep, CountStep, PassGuardStep, SendStep, ProviderRespondsStep DEF Work
<1>5. ASSUME UNCHANGED <<ledger, lock, page, worker, fetched>>, expired' \in BOOLEAN
      PROVE  PagesInv'
  <2>1. PageTables' /\ LedgerShape' /\ \A c \in PageCalls : WorkerShape(worker'[c])
    BY <1>5, LeftAlone
  <2>2. CountsHold'
    BY <1>5 DEF PagesInv, CountsHold, Live, Reserved, Counted, Waiting
  <2> QED
    BY <1>5, <2>1, <2>2 DEF PagesInv
<1>6. CASE Expire
  BY <1>5, <1>6 DEF Expire
<1>7. CASE RunEnded \/ UNCHANGED pageVars
  BY <1>5, <1>7, LeftAlone DEF RunEnded, pageVars
<1> QED
  BY <1>1, <1>2, <1>3, <1>4, <1>6, <1>7 DEF PagesNext

\* The invariant of the extraction: pages, calls and the ledger agree at every step.
THEOREM PagesInvHolds == PagesSpec => []PagesInv
BY PagesInitInv, PagesNextInv, PTL DEF PagesSpec

LEMMA PagesLimits == PagesInv => LimitsHold
<1> SUFFICES ASSUME PagesInv PROVE LimitsHold
  OBVIOUS
<1>1. PageTables /\ LedgerShape /\ CountsHold /\ DOMAIN worker = PageCalls
  BY DEF PagesInv, PageTables
<1>2. ASSUME NEW c \in Live, NEW d \in Live, c[1] = d[1]
      PROVE  c = d
  <2>1. PICK r \in PageRequests, i \in 1 .. LastAttempt : c = <<r, i>>
    BY <1>1 DEF Live, PageCalls
  <2>2. PICK j \in 1 .. LastAttempt : d = <<r, j>>
    BY <1>1, <1>2, <2>1 DEF Live, PageCalls
  <2>3. worker[<<r, i>>].pc \in LivePcs /\ worker[<<r, j>>].pc \in LivePcs
    BY <1>1, <2>1, <2>2 DEF PagesInv, WorkerShape, Live
  <2>4. CallsSound(r, page[r], worker)
    BY DEF PagesInv, PageSound
  <2> QED
    BY <2>1, <2>2, <2>3, <2>4 DEF CallsSound
<1>3. \A c \in Reserved : c[1] \in Counted
  <2> SUFFICES ASSUME NEW c \in Reserved PROVE c[1] \in Counted
    OBVIOUS
  <2>1. PICK r \in PageRequests, i \in 1 .. LastAttempt : c = <<r, i>>
    BY <1>1 DEF Reserved, PageCalls
  <2> QED
    BY <2>1 DEF Reserved, Counted
<1>4. Cardinality({c[1] : c \in Reserved}) <= Cardinality(Counted) /\ Cardinality({c[1] : c \in Reserved}) \in Nat
  <2>1. {c[1] : c \in Reserved} \in SUBSET Counted
    BY <1>3
  <2> QED
    BY <1>1, <2>1, PagesFinite, FS_Subset, FS_CardinalityType
<1>5. Cardinality({c[1] : c \in Reserved}) <= ledger.pages
  BY <1>1, <1>4, PagesFinite DEF CountsHold, LedgerShape
<1> QED
  BY <1>1, <1>2, <1>3, <1>5 DEF LimitsHold, CountsHold

\* The first n calls of a page are n.
LEMMA CallsOfPage ==
  ASSUME NEW r, NEW n \in Nat
  PROVE  Cardinality({<<r, i>> : i \in 1 .. n}) = n
<1> DEFINE S == 1 .. n
           T == {<<r, i>> : i \in 1 .. n}
           f == [i \in S |-> <<r, i>>]
<1>1. f \in Bijection(S, T)
  BY DEF Bijection, Injection, Surjection, IsInjective
<1>2. ExistsBijection(S, T)
  BY <1>1 DEF ExistsBijection
<1>3. IsFiniteSet(S) /\ Cardinality(S) = n
  BY FS_Interval
<1> HIDE DEF S, T
<1> QED
  BY <1>2, <1>3, FS_Bijection DEF T

LEMMA PagesRecords == PagesInv => RecordsTellTheTruth
<1> SUFFICES ASSUME PagesInv, NEW r \in DOMAIN page, page[r].pc = "done"
             PROVE
    LET kept == page[r].records
        reply(i) == worker[<<r, i>>].reply
    IN /\ Len(kept) = Cardinality({c \in Reserved : c[1] = r})
       /\ \A i \in DOMAIN kept :
            /\ kept[i].completion = "returned" => reply(i).returned /\ kept[i].out = reply(i).out
            /\ kept[i].completion = "failed" => worker[<<r, i>>].pc = "done" /\ ~reply(i).returned
            /\ kept[i].completion = "unknown" => i = Len(kept)
       /\ page[r].outcome.status = "candidate" =>
            kept # <<>> /\ kept[Len(kept)].failure = "none" /\ kept[Len(kept)].completion = "returned"
  BY DEF RecordsTellTheTruth
<1> DEFINE s == page[r].records
<1>1. r \in PageRequests /\ DOMAIN worker = PageCalls
  BY DEF PagesInv, PageTables
<1>2. /\ PageShape(page[r]) /\ ToldOf(r, s, worker) /\ CallsSound(r, page[r], worker)
      /\ DoubtStops(page[r], ledger.stopped) /\ Earned(r, page[r])
  BY <1>1 DEF PagesInv, PageSound
<1>3. s \in Seq(Notes) /\ Len(s) \in Nat /\ DOMAIN s = 1 .. Len(s)
  BY <1>2 DEF PageShape
<1>4. \A i \in 1 .. LastAttempt : worker[<<r, i>>].pc # "none" <=> i <= Len(s)
  BY <1>2 DEF CallsSound, Begun
<1>5. \A i \in 1 .. Len(s) : i \in 1 .. LastAttempt
  BY <1>2 DEF ToldOf
<1>6. {c \in Reserved : c[1] = r} = {<<r, i>> : i \in 1 .. Len(s)}
  <2>1. ASSUME NEW c \in Reserved, c[1] = r
        PROVE  c \in {<<r, i>> : i \in 1 .. Len(s)}
    <3>1. PICK i \in 1 .. LastAttempt : c = <<r, i>>
      BY <1>1, <2>1 DEF Reserved, PageCalls
    <3>2. i <= Len(s)
      BY <1>4, <2>1, <3>1 DEF Reserved
    <3> QED
      BY <1>3, <3>1, <3>2
  <2>2. ASSUME NEW i \in 1 .. Len(s)
        PROVE  <<r, i>> \in Reserved
    BY <1>1, <1>3, <1>4, <1>5 DEF Reserved, PageCalls
  <2> QED
    BY <2>1, <2>2
<1>7. Len(s) = Cardinality({c \in Reserved : c[1] = r})
  BY <1>3, <1>6, CallsOfPage
<1>8. ASSUME NEW i \in DOMAIN s
      PROVE  /\ s[i].completion = "returned" => worker[<<r, i>>].reply.returned /\ s[i].out = worker[<<r, i>>].reply.out
             /\ s[i].completion = "failed" => worker[<<r, i>>].pc = "done" /\ ~worker[<<r, i>>].reply.returned
             /\ s[i].completion = "unknown" => i = Len(s)
  BY <1>2, <1>3 DEF ToldOf, DoubtStops
<1>9. page[r].outcome.status = "candidate" =>
        s # <<>> /\ s[Len(s)].failure = "none" /\ s[Len(s)].completion = "returned"
  BY <1>2 DEF Earned
<1> QED
  BY <1>7, <1>8, <1>9

\* What a candidate is: its citations are of its page and its questions are those it raises.
LEMMA CandidateIs ==
  ASSUME PagesInv, NEW r \in DOMAIN page, page[r].outcome.status = "candidate"
  PROVE  /\ SuitsPurpose(r, page[r].outcome.proposal) /\ Checked(page[r].outcome.proposal)
         /\ page[r].outcome.handoffs = Handoffs(r, page[r].outcome.proposal)
         /\ \A c \in Citations(page[r].outcome.proposal) :
              c.doc = r.doc /\ c.page = r.page /\ c.region \in Regions[r.doc][r.page]
<1>1. r \in PageRequests
  BY DEF PagesInv, PageTables
<1>2. Grounded(r, page[r].outcome)
  BY <1>1 DEF PagesInv, PageSound, Earned
<1> QED
  BY <1>2 DEF Grounded, ValidateOutcome, HonestOutcome, CiteResolves

LEMMA PagesGrounded == PagesInv => CandidatesAreGrounded
<1> SUFFICES ASSUME PagesInv, NEW r \in DOMAIN page, page[r].outcome.status = "candidate"
             PROVE
    LET p == page[r].outcome.proposal IN
    /\ \A c \in Citations(p) : c.doc = r.doc /\ c.page = r.page /\ c.region \in Regions[r.doc][r.page]
    /\ (p.rules # {} => r.purpose = "criteria") /\ (p.pairs # {} => r.purpose = "forms")
  BY DEF CandidatesAreGrounded
<1> QED
  BY CandidateIs DEF SuitsPurpose

LEMMA PagesQuestioned == PagesInv => EveryProposalIsQuestioned
<1> SUFFICES ASSUME PagesInv, NEW r \in DOMAIN page, page[r].outcome.status = "candidate"
             PROVE
    LET p == page[r].outcome.proposal
        points(q) == {l.region : l \in q.locations}
        cited(x) == {c.region : c \in x.cites}
    IN /\ \A s \in ProposedSides(p) : \E q \in page[r].outcome.handoffs :
            q.reason = "low_confidence" /\ points(q) = cited(s) /\ points(q) \subseteq Regions[r.doc][r.page]
       /\ \A s \in p.slots :
            \/ /\ \E o \in p.observed : o.slot = s.id
               /\ \A o \in p.observed : o.slot = s.id =>
                    o.state \in {"present", "not_present", "not_applicable"} \/ (o.state = "blank" /\ s.derivable)
            \/ \E q \in page[r].outcome.handoffs : q.reason = "missing" /\ points(q) \subseteq Regions[r.doc][r.page] \cup {"page"}
  BY DEF EveryProposalIsQuestioned
<1> DEFINE p == page[r].outcome.proposal
           points(q) == {l.region : l \in q.locations}
           cited(x) == {c.region : c \in x.cites}
<1>1. /\ Checked(p) /\ page[r].outcome.handoffs = Handoffs(r, p)
      /\ \A c \in Citations(p) : c.region \in Regions[r.doc][r.page]
  BY CandidateIs
<1> HIDE DEF p
<1>2. ASSUME NEW s \in ProposedSides(p)
      PROVE  \E q \in Handoffs(r, p) :
               q.reason = "low_confidence" /\ points(q) = cited(s) /\ points(q) \subseteq Regions[r.doc][r.page]
  <2> DEFINE q == Ask(r, "low_confidence", s.cites)
  <2>1. s.cites # {} /\ s.method = "model_proposed"
    BY <1>1 DEF Checked
  <2>2. q \in OfSide(r, s)
    BY <2>1 DEF OfSide
  <2>3. q \in Handoffs(r, p)
    BY <2>2 DEF Handoffs
  <2>4. q.reason = "low_confidence" /\ q.locations = {[page |-> c.page, region |-> c.region] : c \in s.cites}
    BY <2>1 DEF Ask, Located
  <2> HIDE DEF q
  <2>5. points(q) = cited(s)
    <3>1. ASSUME NEW l \in q.locations
          PROVE  l.region \in cited(s)
      BY <2>4
    <3>2. ASSUME NEW c \in s.cites
          PROVE  c.region \in points(q)
      <4>1. [page |-> c.page, region |-> c.region] \in q.locations
        BY <2>4
      <4>2. [page |-> c.page, region |-> c.region].region = c.region
        OBVIOUS
      <4> QED
        BY <4>1, <4>2
    <3> QED
      BY <3>1, <3>2
  <2>6. cited(s) \subseteq Regions[r.doc][r.page]
    BY <1>1 DEF Citations
  <2> QED
    BY <2>3, <2>4, <2>5, <2>6
<1>3. ASSUME NEW s \in p.slots, s \in Unanswered(p)
      PROVE  \E q \in Handoffs(r, p) : q.reason = "missing" /\ points(q) \subseteq Regions[r.doc][r.page] \cup {"page"}
  <2> DEFINE q == Ask(r, "missing", s.cites)
  <2>1. q \in Handoffs(r, p)
    <3>1. q \in {Ask(r, "missing", x.cites) : x \in Unanswered(p)}
      BY <1>3
    <3> HIDE DEF q
    <3> QED
      BY <3>1 DEF Handoffs
  <2>2. q.reason = "missing" /\ q.locations = Located(r, s.cites)
    BY DEF Ask
  <2>3. cited(s) \subseteq Regions[r.doc][r.page]
    BY <1>1 DEF Citations
  <2>4. points(q) \subseteq cited(s) \cup {"page"}
    BY <2>2 DEF Located
  <2> HIDE DEF q
  <2> QED
    BY <2>1, <2>2, <2>3, <2>4
<1>4. ASSUME NEW s \in p.slots, s \notin Unanswered(p)
      PROVE  /\ \E o \in p.observed : o.slot = s.id
             /\ \A o \in p.observed : o.slot = s.id =>
                  o.state \in {"present", "not_present", "not_applicable"} \/ (o.state = "blank" /\ s.derivable)
  BY <1>1, <1>4 DEF Unanswered, Checked
<1> QED
  BY <1>1, <1>2, <1>3, <1>4 DEF p

\* However many pages of however many runs share a ledger, and however late their calls answer:
\* the ledger bounds what its calls do, what a page reports are its calls, candidates rest on
\* the page and are put to a person, and metadata is asked for in reviewed regions only.
THEOREM PagesAccounted == PagesSpec => []PagesAreAccounted
<1>1. PagesInv => PagesAreAccounted
  BY PagesLimits, PagesRecords, PagesGrounded, PagesQuestioned DEF PagesAreAccounted, OnlyPolicyRegionsAreAsked, PagesInv
<1> QED
  BY <1>1, PagesInvHolds, PTL

LEMMA CallAtHand ==
  ASSUME PagesInv, NEW r \in PageRequests, page[r].pc \in {"attempt", "waiting"}
  PROVE  <<r, page[r].attempt>> \in PageCalls
<1>1. PageShape(page[r]) /\ PlaceSound(page[r])
  BY DEF PagesInv, PageSound
<1>2. page[r].attempt \in 1 .. LastAttempt
  BY <1>1, LastAttemptBound DEF PageShape, PlaceSound
<1> QED
  BY <1>2 DEF PageCalls

\* Once an attempt's fate is unknown, or a page was cancelled, DispatchGuard admits no further
\* request, and only a request it had admitted before can still leave the machine
\* (ExtractionLedger.stop, DispatchGuard.check, BedrockDispatchClient's send).
THEOREM NothingAdmittedAfterDoubt == PagesSpec => NothingIsAdmittedAfterDoubt
<1> DEFINE doubt == \E r \in DOMAIN page : \/ page[r].pc = "cancelled"
                                          \/ \E i \in DOMAIN page[r].records : page[r].records[i].completion = "unknown"
           kept == \A c \in DOMAIN worker :
                     /\ worker'[c].pc = "admitted" => worker[c].pc = "admitted"
                     /\ worker'[c].pc = "sent" => worker[c].pc \in {"admitted", "sent"}
<1>1. ASSUME PagesInv, [PagesNext]_pageVars, doubt
      PROVE  kept
  <2>1. ledger.stopped /\ DOMAIN worker = PageCalls
    <3>1. PICK r \in DOMAIN page : \/ page[r].pc = "cancelled"
                                  \/ \E i \in DOMAIN page[r].records : page[r].records[i].completion = "unknown"
      BY <1>1
    <3>2. PageShape(page[r]) /\ DoubtStops(page[r], ledger.stopped)
      BY <1>1 DEF PagesInv, PageTables, PageSound
    <3>3. DOMAIN page[r].records = 1 .. Len(page[r].records)
      BY <3>2 DEF PageShape
    <3> QED
      BY <1>1, <3>1, <3>2, <3>3 DEF DoubtStops, PagesInv, PageTables
  <2>2. \A r \in PageRequests : Setup(r) => worker' = worker
    BY DEF Setup, Refuse, Begin, Render, TakeLock, CheckAccess, SetupTimesOut
  <2>3. CASE worker' = worker
    BY <2>3
  <2>4. ASSUME NEW c \in PageCalls, NEW x, worker' = [worker EXCEPT ![c] = x],
               x.pc \notin {"admitted", "sent"} \/ (x.pc = "sent" /\ worker[c].pc = "admitted")
        PROVE  kept
    BY <2>1, <2>4
  <2>5. ASSUME NEW c \in PageCalls, NEW reply, Replied(c, reply)
        PROVE  kept
    <3> DEFINE x == [worker[c] EXCEPT !.pc = "done", !.reply = reply]
    <3>1. worker' = [worker EXCEPT ![c] = x]
      BY <2>5 DEF Replied
    <3>2. x.pc = "done"
      BY <1>1 DEF PagesInv, WorkerShape
    <3> HIDE DEF x
    <3> QED
      BY <2>4, <3>1, <3>2
  <2>6. ASSUME NEW r \in PageRequests, Run(r)
        PROVE  kept
    <3> DEFINE c == <<r, page[r].attempt>>
    <3>1. CASE Attempt(r)
      <4>1. CASE worker' = worker
        BY <2>3, <4>1
      <4>2. CASE worker' # worker
        <5> DEFINE x == [worker[c] EXCEPT !.pc = "queued"]
        <5>1. worker' = [worker EXCEPT ![c] = x] /\ page[r].pc = "attempt"
          BY <3>1, <4>2 DEF Attempt
        <5>2. c \in PageCalls
          BY <1>1, <5>1, CallAtHand
        <5>3. x.pc = "queued"
          BY <1>1, <5>2 DEF PagesInv, WorkerShape
        <5> HIDE DEF x
        <5> QED
          BY <2>4, <5>1, <5>2, <5>3
      <4> QED
        BY <4>1, <4>2
    <3>2. CASE TimeOut(r)
      <4>1. worker' = [worker EXCEPT ![c].cancelled = TRUE] /\ page[r].pc = "waiting"
        BY <3>2 DEF TimeOut
      <4>2. c \in PageCalls
        BY <1>1, <4>1, CallAtHand
      <4> QED
        BY <1>1, <2>1, <4>1, <4>2, CancelledWorker
    <3>3. CASE Receive(r) \/ Wake(r)
      BY <2>3, <3>3 DEF Receive, Wake
    <3> QED
      BY <2>6, <3>1, <3>2, <3>3 DEF Run
  <2>7. ASSUME NEW r \in PageRequests, Cancel(r)
        PROVE  kept
    <3> DEFINE c == <<r, page[r].attempt>>
    <3>1. CASE page[r].pc # "waiting"
      BY <2>3, <2>7, <3>1 DEF Cancel
    <3>2. CASE page[r].pc = "waiting"
      <4>1. worker' = [worker EXCEPT ![c].cancelled = TRUE]
        BY <2>7, <3>2 DEF Cancel
      <4>2. c \in PageCalls
        BY <1>1, <3>2, CallAtHand
      <4> QED
        BY <1>1, <2>1, <4>1, <4>2, CancelledWorker
    <3> QED
      BY <3>1, <3>2
  <2>8. ASSUME NEW c \in PageCalls, Work(c)
        PROVE  kept
    <3>1. CASE Invoke(c)
      <4>1. CASE Spent
        BY <2>5, <3>1, <4>1 DEF Invoke
      <4>2. CASE ~Spent
        BY <2>1, <4>2 DEF Spent
      <4> QED
        BY <4>1, <4>2
    <3>2. CASE Count(c)
      BY <2>1, <2>5, <3>2 DEF Count, Permitted, Spent
    <3>3. CASE PassGuard(c)
      BY <2>1, <2>5, <3>3 DEF PassGuard, Permitted, Spent
    <3>4. CASE Send(c)
      <4>1. PICK made \in Amounts : worker' = [worker EXCEPT ![c] = [worker[c] EXCEPT !.pc = "sent", !.made = made]]
        BY <3>4 DEF Send
      <4> DEFINE x == [worker[c] EXCEPT !.pc = "sent", !.made = made]
      <4>2. worker' = [worker EXCEPT ![c] = x] /\ worker[c].pc = "admitted"
        BY <3>4, <4>1 DEF Send
      <4>3. x.pc = "sent"
        BY <1>1 DEF PagesInv, WorkerShape
      <4> HIDE DEF x
      <4> QED
        BY <2>4, <4>2, <4>3
    <3>5. CASE ProviderResponds(c)
      BY <2>5, <3>5 DEF ProviderResponds
    <3> QED
      BY <2>8, <3>1, <3>2, <3>3, <3>4, <3>5 DEF Work
  <2>9. CASE Expire \/ RunEnded \/ UNCHANGED pageVars
    BY <2>3, <2>9 DEF Expire, RunEnded, pageVars
  <2> QED
    BY <1>1, <2>2, <2>3, <2>6, <2>7, <2>8, <2>9 DEF PagesNext
<1>2. PagesInv /\ [PagesNext]_pageVars => [doubt => kept]_pageVars
  BY <1>1
<1> QED
  BY <1>2, PagesInvHolds, PTL DEF PagesSpec, NothingIsAdmittedAfterDoubt
=============================================================================
