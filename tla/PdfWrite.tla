------------------------------ MODULE PdfWrite ------------------------------
(***************************************************************************)
(* LocalPDFWriter.write_pdf: a private copy of a trusted template is       *)
(* opened, planned, rendered, verified and exposed at the destination.     *)
(* Writers share one file system with the people and programs around them, *)
(* who may save, replace, remove or link the same files between any two    *)
(* steps.  A page is a set of runs over a row of cells; a box is a set of  *)
(* cells.  What the PDF library renders is not trusted: a render may lose  *)
(* a text, leave or double one, or touch a page it should not.             *)
(***************************************************************************)
EXTENDS Integers, Sequences, FiniteSets, SequencesExt

CONSTANTS
  Writers,     \* concurrent calls of write_pdf
  Requests,    \* what they may be asked to write
  Policies,    \* template policies and font digests the deployment may have approved
  Documents,   \* what people may save as the template
  Fonts,       \* what may be in the configured font file
  Targets,     \* the names the destination URI may resolve to
  Overwrite,   \* render_config.overwrite_existing
  Faults,      \* what may go wrong while rendering
  MaxEdits,    \* bound: changes from outside
  Empty, Other \* contents: a fresh temporary file; a file that is no template

Sources == {"template", "source"}
Names == Sources \cup {"dest"} \cup Writers

WriteAssumption ==
  /\ Overwrite \in BOOLEAN /\ MaxEdits \in Nat
  /\ Targets \subseteq Sources \cup {"dest"}
  /\ Faults \subseteq {"none", "lost", "stale", "twice", "reference", "note"}

VARIABLES
  link,    \* link[n]: the file named n, 0 for none
  data,    \* data[i]: the contents of file i
  font,    \* what the font file holds
  policy,  \* the approved policy
  target,  \* the name the destination resolves to
  wr,      \* wr[w]: the session of writer w
  edits    \* how many changes came from outside

disk == <<link, data>>
setup == <<policy, target>>
vars == <<disk, font, setup, wr, edits>>

NoRef == [ctx |-> 0, key |-> ""]
NoValue == [kind |-> "none", n |-> 0]
NoPlan == [sum |-> Empty, font |-> "", fields |-> <<>>]
Idle == [pc |-> "idle", req |-> 0, ino |-> 0, src |-> 0, sum |-> Empty, prot |-> 0,
         plan |-> NoPlan]

Init ==
  /\ \E d \in Documents : data = <<d, Other>>
  /\ link = [n \in Names |-> CASE n = "template" -> 1 [] n = "source" -> 2 [] OTHER -> 0]
  /\ font \in Fonts /\ policy \in Policies /\ target \in Targets
  /\ wr = [w \in Writers |-> Idle]
  /\ edits = 0

(***************************************************************************)
(* The request and the text of its fields.                                 *)
(***************************************************************************)
\* Context 0 is a comparison of the older, contextless form.
Legacy(req) == Len(req.results) = 1 /\ req.results[1].ctx = 0
OfContext(req, ref) == {i \in DOMAIN req.results : req.results[i].ctx = ref.ctx}
BoundComparison(req, ref) ==
  req.results[IF Legacy(req) THEN 1 ELSE CHOOSE i \in OfContext(req, ref) : TRUE]
IsBound(req, ref) == Legacy(req) \/ Cardinality(OfContext(req, ref)) = 1

MappedContexts(req) == {f.ref.ctx : f \in {g \in Range(req.fields) : g.ref # NoRef}}

ContextsAreDistinct(req) ==
  LET ctx(i) == req.results[i].ctx
  IN /\ \A i \in DOMAIN req.results : ctx(i) # 0
     /\ \A i, j \in DOMAIN req.results : i # j => ctx(i) # ctx(j)
     /\ Cardinality({req.results[i].caseId : i \in DOMAIN req.results}) = 1

EveryContextIsMapped(req) == \A i \in DOMAIN req.results : req.results[i].ctx \in MappedContexts(req)

RefResolves(req, ref) ==
  /\ IsBound(req, ref)
  /\ BoundComparison(req, ref).vals[ref.key] # NoValue

\* PDFWriteRequest.validate_request
ValidRequest(req) ==
  /\ ~req.conflict                       \* equal URIs, before any file is looked at
  /\ req.fields # <<>>
  /\ Len(req.results) > 1 => ContextsAreDistinct(req) /\ EveryContextIsMapped(req)
  /\ \A f \in Range(req.fields) :
       IF f.ref = NoRef THEN f.token # "" ELSE RefResolves(req, f.ref)
  /\ Len(req.results) = 1 => Cardinality(MappedContexts(req)) <= 1

Abs(n) == IF n < 0 THEN -n ELSE n

\* Percentages are in tenths of the last place that is shown; half of it is
\* rounded away from zero, and a negative that rounds to zero loses its sign.
FormatPercent(v) ==
  LET q == (Abs(v) + 5) \div 10
  IN [sign |-> IF q = 0 THEN "" ELSE IF v < 0 THEN "-" ELSE "+", mag |-> q]

\* A grade has a configured label; a percentage is formatted.
Resolve(comparison, ref) ==
  LET v == comparison.vals[ref.key]
  IN IF v.kind = "grade" THEN [sign |-> "grade", mag |-> v.n] ELSE FormatPercent(v.n)

\* Cloud writers show the token itself; a local writer knows the values.
HasPlaceholder(p, token) == p.reveals = "" \/ p.reveals = token
PlaceholderText(p, token) ==
  [sign |-> IF p.reveals = "" THEN "token" ELSE "value", mag |-> 1]

FieldText(p, req, f) ==
  [label |-> f.op = "annotate",
   shown |-> IF f.ref = NoRef THEN PlaceholderText(p, f.token)
             ELSE Resolve(BoundComparison(req, f.ref), f.ref)]

Measure(text) == (IF text.label THEN 1 ELSE 0) + (IF text.shown.sign \in {"+", "-"} THEN 2 ELSE 1)

(***************************************************************************)
(* Preflight: the immutable plan.                                          *)
(***************************************************************************)
RunsIn(page, box) == {r \in page : r.cells \cap box # {}}
TextRunsIn(page, box) == {r \in RunsIn(page, box) : ~r.ink}
StaleText(page, box) == {r.text : r \in TextRunsIn(page, box)}

\* correction_runs_in_box: some text, none of it only partly in the box
Correctable(page, box) ==
  /\ TextRunsIn(page, box) # {}
  /\ \A r \in TextRunsIn(page, box) : r.cells \subseteq box

OperationAllowed(page, f) ==
  CASE f.op = "fill_blank" -> RunsIn(page, f.box) = {}
    [] f.op = "correct" -> Correctable(page, f.box)
    [] OTHER -> TRUE

NoOverlap(fields, i) ==
  \A j \in 1..(i - 1) : fields[j].page = fields[i].page => fields[j].box \cap fields[i].box = {}

ValidCharacters(f, text) ==
  /\ f.max # 0 => Measure(text) <= f.max

ValidFit(f, text) == Measure(text) <= Cardinality(f.box)

ReadableTemplate(d) == d \notin {Empty, Other} /\ d.pages # <<>>

MapOnly(p, req, d) ==
  /\ req.fields = p.fields
  /\ p.editable \cup p.reference = DOMAIN d.pages

\* _validate_template: the approved bytes, the approved map, every page classified
TrustedTemplate(p, req, d) ==
  /\ d = p.template /\ req.fields = p.fields
  /\ p.editable \cup p.reference = DOMAIN d.pages

FontNeedsDigest(req) == Len(req.results) > 1 \/ \E f \in Range(req.fields) : f.token # ""
FontAccepted(p, req, held) ==
  /\ p.font = "" => ~FontNeedsDigest(req)
  /\ held # "broken" /\ (p.font # "" => held = p.font)

FieldAccepted(p, req, d, i) ==
  LET f == req.fields[i]
      text == FieldText(p, req, f)
  IN /\ f.page \in DOMAIN d.pages /\ f.page \in p.editable
     /\ NoOverlap(req.fields, i)
     /\ f.token # "" => HasPlaceholder(p, f.token)
     /\ ValidCharacters(f, text) /\ ValidFit(f, text)
     /\ OperationAllowed(d.pages[f.page], f)
     /\ f.op = "correct" => text \notin StaleText(d.pages[f.page], f.box)

PlanAccepted(p, req, d, held) ==
  /\ ReadableTemplate(d) /\ TrustedTemplate(p, req, d) /\ FontAccepted(p, req, held)
  /\ \A i \in DOMAIN req.fields : FieldAccepted(p, req, d, i)

Prepared(p, req, d, f) ==
  [id |-> f.id, page |-> f.page, box |-> f.box, op |-> f.op, text |-> FieldText(p, req, f),
   stale |-> IF f.op = "correct" THEN StaleText(d.pages[f.page], f.box) ELSE {}]

Plan(p, req, d, held) ==
  [sum |-> d, font |-> held, fields |-> [i \in DOMAIN req.fields |-> Prepared(p, req, d, req.fields[i])]]

(***************************************************************************)
(* Rendering.                                                              *)
(***************************************************************************)
\* remove_text_in_box for every correction of the page, before anything is drawn
Corrected(plan, n) ==
  LET boxes == UNION {f.box : f \in {g \in Range(plan.fields) : g.page = n /\ g.op = "correct"}}
  IN {r \in plan.sum.pages[n] : r.ink \/ r.cells \cap boxes = {}}

DrawnRun(f) == [text |-> f.text, cells |-> f.box, ink |-> FALSE, twice |-> FALSE]
Overlay(plan, n) == {DrawnRun(f) : f \in {g \in Range(plan.fields) : g.page = n /\ g.op # "annotate"}}

Note(f) == [page |-> f.page, id |-> f.id, box |-> f.box, text |-> f.text]
Notes(plan) == {Note(f) : f \in {g \in Range(plan.fields) : g.op = "annotate"}}

\* write_temporary when the library does what it is asked
Written(plan) ==
  [pages |-> [n \in DOMAIN plan.sum.pages |-> Corrected(plan, n) \cup Overlay(plan, n)],
   notes |-> plan.sum.notes \cup Notes(plan),
   meta |-> [i \in DOMAIN plan.fields |-> plan.fields[i].id]]

\* and when it does not: every way to damage the page of a field or another page
Rendered(plan, fault) ==
  LET d == Written(plan)
      on(n, page) == [d EXCEPT !.pages[n] = page]
      fields == Range(plan.fields)
  IN CASE fault = "none" -> {d}
       [] fault = "lost" -> {on(f.page, d.pages[f.page] \ {DrawnRun(f)}) : f \in fields}
       [] fault = "stale" -> {on(f.page, d.pages[f.page] \cup plan.sum.pages[f.page]) : f \in fields}
       [] fault = "twice" -> {on(f.page, (d.pages[f.page] \ {DrawnRun(f)})
                                          \cup {[DrawnRun(f) EXCEPT !.twice = TRUE]}) : f \in fields}
       [] fault = "reference" -> {on(n, {}) : n \in DOMAIN d.pages}
       [] fault = "note" -> {[d EXCEPT !.notes = plan.sum.notes]}
       [] OTHER -> {}

(***************************************************************************)
(* Verification of the temporary file.                                     *)
(***************************************************************************)
\* The runs of the page that show the text of f and start in its box
Replacements(page, f) == {r \in page : r.text = f.text /\ r.cells \cap f.box # {}}

\* One annotation of that name, with the text, the box and an embedded font
VerifyAnnotation(d, f) == {n \in d.notes : n.page = f.page /\ n.id = f.id} = {Note(f)}

VerifyField(d, f) ==
  IF f.op = "annotate"
    THEN VerifyAnnotation(d, f)
    ELSE /\ \E r \in d.pages[f.page] : Replacements(d.pages[f.page], f) = {r} /\ ~r.twice
         /\ f.op = "correct" =>
              \A r \in d.pages[f.page] : r.text \in f.stale => r.cells \cap f.box = {}

NotesOf(d, n) == {note \in d.notes : note.page = n}
PageSnapshot(d, n) == [content |-> d.pages[n], notes |-> NotesOf(d, n)]
VerifyReferencePages(p, s, d) == \A n \in p.reference : PageSnapshot(s, n) = PageSnapshot(d, n)

VerifyMetadata(plan, d) == d.meta = [i \in DOMAIN plan.fields |-> plan.fields[i].id]

Verified(p, plan, s, d) ==
  /\ s = plan.sum
  /\ DOMAIN d.pages = DOMAIN plan.sum.pages
  /\ VerifyMetadata(plan, d)
  /\ \A f \in Range(plan.fields) : VerifyField(d, f)
  /\ VerifyReferencePages(p, s, d)

(***************************************************************************)
(* The steps of one writer.                                                *)
(***************************************************************************)
Content(n) == IF link[n] = 0 THEN Empty ELSE data[link[n]]
To(w, s) == wr' = [wr EXCEPT ![w] = s]

\* session.cleanup; an error of the removal is swallowed, and the file stays.
Cleanup(w) == link' \in {[link EXCEPT ![w] = 0], link}

\* Every failure leaves through it.
Fail(w) == To(w, [wr[w] EXCEPT !.pc = "failed"]) /\ Cleanup(w) /\ UNCHANGED data

\* _validate_source, _validate_protected_sources
SourcesPresent == \A n \in Sources : link[n] # 0

\* _validate_destination
DestinationFree ==
  /\ target \notin Sources
  /\ link[target] # 0 => /\ \A n \in Sources : link[n] # link[target]
                         /\ Overwrite

Refuse(w) ==
  /\ wr[w].pc = "idle"
  /\ \E req \in Requests :
       /\ ~(ValidRequest(req) /\ SourcesPresent /\ DestinationFree)
       /\ To(w, [Idle EXCEPT !.pc = "failed"])
  /\ UNCHANGED <<disk, font, setup, edits>>

\* staged_write: the session remembers which files it saw and what the source held
Open(w) ==
  /\ wr[w].pc = "idle"
  /\ SourcesPresent /\ DestinationFree
  /\ \E req \in Requests :
       /\ ValidRequest(req)
       /\ To(w, [Idle EXCEPT !.pc = "open", !.req = req, !.ino = Len(data) + 1,
                             !.src = link["template"], !.sum = Content("template"),
                             !.prot = link["source"]])
  /\ data' = Append(data, Empty)
  /\ link' = [link EXCEPT ![w] = Len(data) + 1]
  /\ UNCHANGED <<font, setup, edits>>

Preflight(w) ==
  /\ wr[w].pc = "open"
  /\ LET d == Content("template")
     IN IF PlanAccepted(policy, wr[w].req, d, font)
          THEN /\ To(w, [wr[w] EXCEPT !.pc = "planned", !.plan = Plan(policy, wr[w].req, d, font)])
               /\ UNCHANGED disk
          ELSE Fail(w)
  /\ UNCHANGED <<font, setup, edits>>

\* _clone_source reads the template again
Mutate(w) ==
  /\ wr[w].pc = "planned"
  /\ \/ /\ Content("template") = wr[w].plan.sum
        /\ \E fault \in Faults : \E d \in Rendered(wr[w].plan, fault) :
             data' = [data EXCEPT ![wr[w].ino] = d]
        /\ To(w, [wr[w] EXCEPT !.pc = "written"])
        /\ UNCHANGED link
     \/ Content("template") # wr[w].plan.sum /\ Fail(w)
  /\ UNCHANGED <<font, setup, edits>>

Verify(w) ==
  /\ wr[w].pc = "written"
  /\ IF Verified(policy, wr[w].plan, Content("template"), Content(w))
       THEN To(w, [wr[w] EXCEPT !.pc = "verified"]) /\ UNCHANGED disk
       ELSE Fail(w)
  /\ UNCHANGED <<font, setup, edits>>

SourceUnchanged(s) == link["template"] = s.src /\ Content("template") = s.sum
ProtectedUnchanged(s) == link["source"] = s.prot
DestinationIsNoSource == link[target] = 0 \/ \A n \in Sources : link[n] # link[target]
OwnedTemporary(w) == link[w] = wr[w].ino /\ Content(w) # Empty

\* publish looks first ...
PublishChecks(w) ==
  /\ wr[w].pc = "verified"
  /\ IF OwnedTemporary(w) /\ SourceUnchanged(wr[w]) /\ ProtectedUnchanged(wr[w]) /\ DestinationIsNoSource
       THEN To(w, [wr[w] EXCEPT !.pc = "checked"]) /\ UNCHANGED disk
       ELSE Fail(w)
  /\ UNCHANGED <<font, setup, edits>>

\* ... and then takes the name: os.replace, which moves the file, or os.link, which
\* gives it a second name and fails when somebody else was there first
TakesName(w) ==
  /\ link' = [link EXCEPT ![target] = wr[w].ino, ![w] = IF Overwrite THEN 0 ELSE @]
  /\ UNCHANGED data

Expose(w) ==
  /\ wr[w].pc = "checked"
  /\ IF Overwrite \/ link[target] = 0
       THEN TakesName(w) /\ To(w, [wr[w] EXCEPT !.pc = "exposed"])
       ELSE Fail(w)
  /\ UNCHANGED <<font, setup, edits>>

\* The temporary name is removed and the result returned.
Return(w) ==
  /\ wr[w].pc = "exposed"
  /\ Cleanup(w)
  /\ To(w, [wr[w] EXCEPT !.pc = "done"])
  /\ UNCHANGED <<data, font, setup, edits>>

\* The process dies: whatever names its file has stay behind.  Once the destination
\* was taken the document is there, and nobody was told.
Crash(w) ==
  /\ wr[w].pc \notin {"idle", "done", "failed", "crashed", "untold"}
  /\ To(w, [wr[w] EXCEPT !.pc = IF @ = "exposed" THEN "untold" ELSE "crashed"])
  /\ UNCHANGED <<disk, font, setup, edits>>

(***************************************************************************)
(* Everybody else.                                                         *)
(***************************************************************************)
Outside == edits < MaxEdits /\ edits' = edits + 1 /\ UNCHANGED <<setup, wr>>
Contents(n) == IF n = "template" THEN Documents ELSE {Other}

SaveInPlace(n) ==
  /\ Outside /\ link[n] # 0
  /\ \E c \in Contents(n) : data' = [data EXCEPT ![link[n]] = c]
  /\ UNCHANGED <<link, font>>
ReplaceFile(n) ==
  /\ Outside
  /\ \E c \in Contents(n) : data' = Append(data, c)
  /\ link' = [link EXCEPT ![n] = Len(data) + 1]
  /\ UNCHANGED font
RemoveFile(n) ==
  /\ Outside /\ link[n] # 0
  /\ link' = [link EXCEPT ![n] = 0] /\ UNCHANGED <<data, font>>
HardLink(n) ==
  /\ Outside /\ link[n] # 0
  /\ link' = [link EXCEPT !["dest"] = link[n]] /\ UNCHANGED <<data, font>>
SwapFont ==
  /\ Outside /\ font' \in Fonts \ {font} /\ UNCHANGED disk

Write(w) ==
  \/ Refuse(w) \/ Open(w) \/ Preflight(w) \/ Mutate(w) \/ Verify(w)
  \/ PublishChecks(w) \/ Expose(w) \/ Return(w) \/ Crash(w)
Change ==
  \/ \E n \in Sources \cup {"dest"} : SaveInPlace(n) \/ ReplaceFile(n) \/ RemoveFile(n)
  \/ \E n \in Sources : HardLink(n)
  \/ SwapFont

Next == Change \/ \E w \in Writers : Write(w)
Spec == Init /\ [][Next]_vars

(***************************************************************************)
(* Properties.                                                             *)
(***************************************************************************)
\* The names refer to files that exist and the sessions are at a known step.
TypeOK ==
  /\ link \in [Names -> 0..Len(data)] /\ edits \in 0..MaxEdits
  /\ font \in Fonts /\ policy \in Policies /\ target \in Targets
  /\ \A w \in Writers :
       /\ wr[w].pc \in {"idle", "open", "planned", "written", "verified", "checked",
                        "exposed", "done", "failed", "crashed", "untold"}
       /\ wr[w].pc \in {"open", "planned", "written", "verified", "checked"} => link[w] = wr[w].ino

\* What field f of a request must show, computed from the numbers alone: the
\* nearest unit, and never a signed zero.
Shows(req, f, shown) ==
  \E i \in DOMAIN req.results :
    LET v == req.results[i].vals[f.ref.key]
        n == IF shown.sign = "-" THEN -shown.mag ELSE shown.mag
    IN /\ req.results[i].ctx \in {0, f.ref.ctx}
       /\ v # NoValue
       /\ IF v.kind = "grade" THEN shown = [sign |-> "grade", mag |-> v.n]
          ELSE Abs(10 * n - v.n) <= 5 /\ (shown.sign = "" <=> n = 0)

\* Every mapped field shows the value of its own comparison, and nothing else,
\* in its box; the reference pages are those of the approved template.
Faithful(d, req) ==
  /\ \A n \in policy.reference : PageSnapshot(d, n) = PageSnapshot(policy.template, n)
  /\ \A f \in Range(req.fields) :
       IF f.op = "annotate"
         THEN \E note \in d.notes :
                note.id = f.id /\ note.page = f.page /\ Shows(req, f, note.text.shown)
         ELSE LET here == {r \in RunsIn(d.pages[f.page], f.box) : f.op = "fill_blank" \/ ~r.ink}
              IN /\ Cardinality(here) = 1
                 /\ \A r \in here : /\ r.cells \subseteq f.box /\ ~r.twice
                                    /\ f.ref # NoRef => Shows(req, f, r.text.shown)

\* What write_pdf exposes is faithful at that moment, whether or not it lives to
\* report it, whatever the renderer did and whoever touched the template meanwhile
\* (pdf_preflight, pdf_verify, publish).
PublishedIsFaithful ==
  [][\A w \in DOMAIN wr : wr[w].pc = "checked" /\ wr'[w].pc = "exposed" =>
       Faithful(data[wr[w].ino], wr[w].req)]_vars

\* No writer changes what the template or a reviewed source names or holds,
\* whatever the destination is or becomes an alias of.
SourcesAreNeverWritten ==
  [][edits' = edits => \A n \in Sources : link'[n] = link[n] /\ Content(n)' = Content(n)]_vars

\* Without overwrite_existing no writer takes a name that is in use, not even
\* one that appeared after its last look.
TakesOnlyFreeNames ==
  edits' = edits /\ link'["dest"] # link["dest"] => link["dest"] = 0

\* A write that failed, that died before it took the destination, or that is still
\* under way to it has left nothing at any name but its own temporary one.
FailedWritesLeaveNothing ==
  \A w \in Writers : wr[w].pc \notin {"exposed", "done", "untold"} /\ wr[w].ino # 0 =>
    \A n \in Names \ {w} : link[n] # wr[w].ino
=============================================================================
