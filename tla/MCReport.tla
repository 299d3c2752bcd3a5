------------------------------- MODULE MCReport -------------------------------
(***************************************************************************)
(* The review run and what approves it (ReviewController), the writing of  *)
(* the PDF (PdfWrite) and the reading of a page that the writing rests on  *)
(* (PdfOverlay).  `part' says which instance a behaviour is about:         *)
(*   sources   sources edited and material approved around one run         *)
(*   outcomes  every request, adapter set, verdict and writer outcome      *)
(*   requests  every field map, result set and policy, a faulty renderer   *)
(*   race      two writers of one destination, files changed meanwhile     *)
(*   replace   one writer that may overwrite, the destination an alias     *)
(*   paint     pages of up to five operators that build and paint paths    *)
(*   style     pages of line styles, turns, images and annotations         *)
(*   text      pages of text, for a fill and for a correction              *)
(***************************************************************************)
EXTENDS ReviewController, Integers, TLC

CONSTANTS c1, c2, ann, bob, w1, w2, Empty, Other,
          MaxPaint, MaxStyle, MaxText  \* bounds: operators on a page

VARIABLES part, link, data, font, policy, target, wr, changes,
          gs, stack, path, kind, visual, text, notes, count, view

writing == <<link, data, font, policy, target, wr, changes>>
canvas == <<gs, stack, path, kind, visual, text, notes, count, view>>

FormPages == [d \in Docs |-> {1}]
OneContext == {c1}
TwoContexts == {c1, c2}
TwoReviewers == {ann, bob}
OneReviewer == {ann}
Proposal(cs, rules) == [contexts |-> cs, rules |-> rules]
PlainProposals == [d \in Docs |-> {CASE d = "criteria" -> Proposal({}, TRUE)
                               [] d = "forms" -> Proposal({c1}, FALSE) [] OTHER -> Proposal({}, FALSE)}]
CaseProposals == [d \in Docs |->
    CASE d = "criteria" -> {Proposal({}, TRUE), Proposal({}, FALSE)}
      [] d = "forms" -> {Proposal({c1}, FALSE), Proposal({c1, c2}, FALSE)}
      [] OTHER -> {Proposal({}, FALSE), Proposal({}, TRUE), Proposal({c1}, FALSE)}]

Request(out, template, hasMap, mapped, conflict) ==
    [out |-> out, template |-> template, hasMap |-> hasMap, mapped |-> mapped, conflict |-> conflict]
Plain == Request(TRUE, TRUE, TRUE, {c1}, FALSE)
PlainRequest == {Plain}
AnyRequest ==
    {Request(TRUE, TRUE, TRUE, m, FALSE) : m \in SUBSET {c1, c2}} \cup
    {Request(FALSE, FALSE, FALSE, {}, FALSE), Request(TRUE, FALSE, TRUE, {c1}, FALSE),
     Request(TRUE, TRUE, FALSE, {}, FALSE), Request(TRUE, TRUE, TRUE, {c1}, TRUE)}

Adapter(known, typed, approved, writer, audit) ==
    [configured |-> TRUE, policy |-> known, typed |-> typed, approved |-> approved,
     writer |-> writer, audit |-> audit]
Local == Adapter(TRUE, TRUE, TRUE, "single", FALSE)
LocalOnly == {Local}
AnyAdapters ==
    {Adapter(TRUE, TRUE, TRUE, w, TRUE) : w \in {"none", "single", "multi"}} \cup
    {Adapter(TRUE, FALSE, TRUE, "multi", TRUE), Adapter(FALSE, TRUE, TRUE, "single", TRUE),
     Adapter(FALSE, FALSE, FALSE, "single", FALSE), [Local EXCEPT !.configured = FALSE]}

AnyVerdict == {"verified", "needs_review", "failed"}
VerifiedOnly == {"verified"}
AnyOutcome == {"written", "simulated", "partial", "invalid", "error"}
WrittenOnly == {"written"}
OneStray == {"forms"}
NoStrays == {}

Many == INSTANCE ReviewController WITH Contexts <- TwoContexts, Proposals <- CaseProposals,
    Reviewers <- OneReviewer, Requests <- AnyRequest, Adapters <- AnyAdapters,
    Verdicts <- AnyVerdict, Outcomes <- AnyOutcome, Strays <- OneStray,
    MaxEdits <- 0, MaxRevision <- 1
ASSUME Many!ControllerAssumption

------------------------------------------------------------------------------
NoRef == [ctx |-> 0, key |-> ""]
NoValue == [kind |-> "none", n |-> 0]
OneWriter == {w1}
TwoWriters == {w1, w2}

\* Page 1 has an old text at cells 1-2, a border at cell 5 and a text at 7-8; page 2 is reference.
Old(n) == [label |-> FALSE, shown |-> [sign |-> "grade", mag |-> n]]
Run(word, cells, ink) == [text |-> word, cells |-> cells, ink |-> ink, twice |-> FALSE]
Page1 == {Run(Old(8), {1, 2}, FALSE), Run(Old(0), {5}, TRUE), Run(Old(9), {7, 8}, FALSE)}
Page2 == {Run(Old(7), {1, 2, 3}, FALSE)}
Form == [pages |-> <<Page1, Page2>>, notes |-> {}, meta |-> <<>>]
Altered == [Form EXCEPT !.pages[2] = {Run(Old(6), {1, 2, 3}, FALSE)}]
Annotated == [Form EXCEPT !.notes = {[page |-> 1, id |-> "b", box |-> {3}, text |-> Old(8)]}]

Slot(id, n, box, op, max, ref) ==
    [id |-> id, page |-> n, box |-> box, op |-> op, max |-> max, ref |-> ref, token |-> ""]
Ref(c, k) == [ctx |-> c, key |-> k]
Token(id, n, box) == [Slot(id, n, box, "fill_blank", 0, NoRef) EXCEPT !.token = "t"]

Percent(n) == [kind |-> "percent", n |-> n]
Grade(n) == [kind |-> "grade", n |-> n]
Result(c, k, v, total) ==
    [ctx |-> c, caseId |-> k, vals |-> [x \in {"f", "g", "total"} |->
        CASE x = "f" -> v [] x = "g" -> Grade(8) [] OTHER -> total]]

Blank == Slot("a", 1, {3, 4}, "fill_blank", 0, Ref(1, "f"))
Fix == Slot("b", 1, {1, 2}, "correct", 0, Ref(1, "f"))
Comment == Slot("b", 1, {1, 2, 3}, "annotate", 3, Ref(1, "total"))
Second == Slot("c", 1, {6, 7}, "annotate", 0, Ref(2, "f"))

Maps == {<<Blank>>, <<Blank, Fix>>, <<Blank, Comment>>, <<Fix, Second>>, <<Blank, Second>>,
         <<>>, <<Blank, [Comment EXCEPT !.max = 2]>>,
         <<[Fix EXCEPT !.ref = Ref(1, "g")]>>,
         <<[Blank EXCEPT !.box = {4, 5}]>>, <<[Blank EXCEPT !.box = {3}]>>,
         <<[Fix EXCEPT !.box = {2, 3}]>>, <<[Fix EXCEPT !.box = {3, 4}]>>,
         <<[Fix EXCEPT !.box = {1, 2, 3}], Blank>>,
         <<[Blank EXCEPT !.page = 2]>>, <<[Blank EXCEPT !.page = 3]>>,
         <<Token("d", 1, {3, 4})>>, <<[Token("d", 1, {3, 4}) EXCEPT !.token = ""]>>}
Results == {<<Result(0, 1, Percent(-4), Percent(25))>>, <<Result(1, 1, Percent(-5), NoValue)>>,
            <<Result(1, 1, NoValue, Percent(14))>>,
            <<Result(1, 1, Percent(15), Percent(-4)), Result(2, 1, Percent(4), Percent(0))>>,
            <<Result(1, 1, Percent(15), Percent(0)), Result(1, 1, Percent(-15), Percent(0))>>,
            <<Result(1, 1, Percent(15), Percent(0)), Result(2, 2, Percent(-15), Percent(0))>>}
Ask(fields, results, conflict) == [fields |-> fields, results |-> results, conflict |-> conflict]

Policy(fields, template, fnt, reveals, reference) ==
    [fields |-> fields, template |-> template, font |-> fnt, reveals |-> reveals,
     editable |-> {1, 2} \ reference, reference |-> reference]

\* every map and every set of results, under policies that approve one of the maps
AnyAsk == {Ask(m, r, FALSE) : m \in Maps, r \in Results} \cup {Ask(<<Blank>>, CHOOSE r \in Results : TRUE, TRUE)}
AnyPolicy ==
    {Policy(m, Form, "good", "", {2}) : m \in Maps} \cup
    {Policy(<<Blank>>, Form, "", "", {2}), Policy(<<Blank, Second>>, Form, "", "", {2}),
     Policy(<<Blank>>, Form, "good", "", {}), Policy(<<Blank, Comment>>, Annotated, "good", "", {2}),
     Policy(<<Token("d", 1, {3, 4})>>, Form, "good", "t", {2}),
     Policy(<<Token("d", 1, {3, 4})>>, Form, "good", "u", {2}),
     [Policy(<<Blank>>, Form, "good", "", {2}) EXCEPT !.editable = {1, 3}]}
TwoForms == {Form, Annotated}
AnyFont == {"good", "other", "broken"}
AnyFault == {"none", "lost", "stale", "twice", "reference", "note"}

\* one request, and everything that others can do to the files meanwhile
OneAsk == {Ask(<<Blank, Fix>>, <<Result(1, 1, Percent(15), Percent(0))>>, FALSE)}
OnePolicy == {Policy(<<Blank, Fix>>, Form, "good", "", {2})}
ChangingForm == {Form, Altered}
GoodFont == {"good"}
NoFault == {"none"}
AnyTarget == {"dest", "source", "template"}
Dest == {"dest"}

Asked == INSTANCE PdfWrite WITH edits <- changes, Writers <- OneWriter, Requests <- AnyAsk,
    Policies <- AnyPolicy, Documents <- TwoForms, Fonts <- AnyFont, Targets <- Dest,
    Overwrite <- FALSE, Faults <- AnyFault, MaxEdits <- 0
Race == INSTANCE PdfWrite WITH edits <- changes, Writers <- TwoWriters, Requests <- OneAsk,
    Policies <- OnePolicy, Documents <- ChangingForm, Fonts <- GoodFont, Targets <- Dest,
    Overwrite <- FALSE, Faults <- NoFault, MaxEdits <- 2
Replace == INSTANCE PdfWrite WITH edits <- changes, Writers <- OneWriter, Requests <- OneAsk,
    Policies <- OnePolicy, Documents <- ChangingForm, Fonts <- AnyFont, Targets <- AnyTarget,
    Overwrite <- TRUE, Faults <- NoFault, MaxEdits <- 3
ASSUME Asked!WriteAssumption /\ Race!WriteAssumption /\ Replace!WriteAssumption

------------------------------------------------------------------------------
(* One page with UserUnit 2 and a shifted CropBox; the field is the box    *)
(* from (10, 10) to (30, 20) of page space.                                *)
FormCrop == <<2, 2, 40, 40>>
FormField == <<16, 16, 56, 36>>
Probes == {12, 16, 20, 24, 28} \X {11, 15, 19} \cup {<<5, 15>>, <<35, 15>>, <<15, 5>>, <<15, 25>>}

Plainly(name) == [op |-> name, bad |-> FALSE]
Number(name, n) == [op |-> name, n |-> n, bad |-> FALSE]
Matrix(m) == [op |-> "cm", m |-> m, bad |-> FALSE]
Points(name, pts) == [op |-> name, pts |-> pts, bad |-> FALSE]
Rect(x, y, w, h) == [op |-> "re", x |-> x, y |-> y, w |-> w, h |-> h, bad |-> FALSE]
Named(n) == [op |-> "gs", name |-> n, bad |-> FALSE]
Show(x, y, len, std) == [op |-> "Tj", x |-> x, y |-> y, len |-> len, size |-> 4, standardFont |-> std, bad |-> FALSE]

States == [wide |-> Number("w", 8), negative |-> Number("w", -1), adjusted |-> Number("SA", 1)]

\* Twice the size; a quarter turn; mirrored; far away
Double == Matrix(<<2, 0, 0, 2, 0, 0>>)
Turn == Matrix(<<0, 1, -1, 0, 42, 0>>)
Mirror == Matrix(<<-1, 0, 0, 1, 40, 0>>)
Away == Matrix(<<1, 0, 0, 1, 0, 40>>)

\* Lines above the field, along its border, across it; boxes of and around it
PaintOps ==
  {Plainly(n) : n \in {"q", "Q", "S", "f", "B", "n"}}
    \cup {Double, Away, Named("wide")}
    \cup {Points("m", <<<<8, 10>>>>), Points("l", <<<<32, 10>>>>),
          Rect(10, 10, 20, 10), Rect(8, 8, 24, 14), Rect(6, 6, 4, 4)}
StyleOps ==
  {Plainly(n) : n \in {"S", "image", "sh", "ET"}}
    \cup {Turn, Mirror, Matrix(<<6, 0, 0, 6, 8, 8>>), [Mirror EXCEPT !.bad = TRUE]}
    \cup {Number("w", 0), Number("w", 2), Number("w", 4), Number("J", 2), Number("J", 3), Number("j", 1),
          Number("M", 1), Number("M", 0), Number("d", 1)}
    \cup {Named("negative"), Named("adjusted"), Named("missing")}
    \cup {Points("m", <<<<8, 22>>>>), Points("l", <<<<32, 22>>>>),
          Points("c", <<<<12, 0>>, <<16, 0>>, <<32, 22>>>>), Rect(10, 10, 20, 10)}
\* A wide oblique line that ends below the field in a projecting square
CapOps == {Number("w", 20), Number("J", 2), Points("m", <<<<12, -9>>>>), Points("l", <<<<18, -1>>>>), Plainly("S")}
TextOps ==
  {Plainly(n) : n \in {"q", "Q", "ET", "Do", "Tc"}}
    \cup {Mirror, Away}
    \cup {Show(12, 12, 6, TRUE), Show(20, 14, 6, TRUE), Show(12, 9, 6, TRUE), Show(26, 14, 8, TRUE),
          Show(12, 21, 6, TRUE), Show(12, 12, 6, FALSE)}

NoNotes == {}
Fills == {"scanning"}
Both == {"scanning", "unasked"}
UprightNotes == {<<0, 0, 8, 8>>, <<28, 15, 40, 18>>}
TurnedNotes == UprightNotes \cup {<<35, 18, 5, 12>>}

Paint == INSTANCE PdfOverlay WITH Ops <- PaintOps, Purposes <- Fills, Annotations <- NoNotes,
    Resources <- States, Crop <- FormCrop, UserUnit <- 2, Field <- FormField, Samples <- Probes,
    MaxBorderWidth <- 2, MaxOps <- MaxPaint
Style == INSTANCE PdfOverlay WITH Ops <- StyleOps, Purposes <- Fills, Annotations <- UprightNotes,
    Resources <- States, Crop <- FormCrop, UserUnit <- 2, Field <- FormField, Samples <- Probes,
    MaxBorderWidth <- 2, MaxOps <- MaxStyle
Text == INSTANCE PdfOverlay WITH Ops <- TextOps, Purposes <- Both, Annotations <- NoNotes,
    Resources <- States, Crop <- FormCrop, UserUnit <- 2, Field <- FormField, Samples <- Probes,
    MaxBorderWidth <- 2, MaxOps <- MaxText
ASSUME Paint!OverlayAssumption /\ Paint!GeometryAssumption /\ Style!OverlayAssumption /\ Text!OverlayAssumption

------------------------------------------------------------------------------
Controller == {"sources", "outcomes"}
Writes == {"requests", "race", "replace"}
Overlays == {"paint", "style", "text"}
MCInit ==
    /\ part \in Controller \cup Writes \cup Overlays
    /\ IF part = "outcomes" THEN Many!Init ELSE Init
    /\ CASE part = "requests" -> Asked!Init
         [] part = "race" -> Race!Init
         [] part = "replace" -> Replace!Init
         [] OTHER -> Race!Init /\ data = <<Form, Other>>
    /\ CASE part = "style" -> Style!Init
         [] part = "text" -> Text!Init
         [] OTHER -> Paint!Init
MCNext ==
    \/ /\ \/ part = "sources" /\ Next
          \/ part = "outcomes" /\ Many!Next
       /\ UNCHANGED <<part, writing, canvas>>
    \/ /\ \/ part = "requests" /\ Asked!Next
          \/ part = "race" /\ Race!Next
          \/ part = "replace" /\ Replace!Next
       /\ UNCHANGED <<part, vars, canvas>>
    \/ /\ \/ part = "paint" /\ Paint!Next
          \/ part = "style" /\ Style!Next
          \/ part = "text" /\ Text!Next
       /\ UNCHANGED <<part, vars, writing>>
MCSpec == MCInit /\ [][MCNext]_<<part, vars, writing, canvas>>

\* A field that a fill is allowed in shows no ink, a correction removes exactly the letters
\* of its field, and a write that failed, or died before it took the destination, leaves
\* nothing but its temporary file (PdfOverlay!BlankMeansBlank and CorrectionIsExact;
\* PdfWrite!FailedWritesLeaveNothing).
PagesAndFilesAreKept ==
    CASE part = "paint" -> Paint!BlankMeansBlank
      [] part = "style" -> Style!BlankMeansBlank
      [] part = "text" -> Text!BlankMeansBlank /\ Text!CorrectionIsExact
      [] part = "race" -> Race!FailedWritesLeaveNothing
      [] part \in {"requests", "replace"} -> Asked!FailedWritesLeaveNothing
      [] OTHER -> TRUE

\* What a writer exposes is faithful at that moment, no writer changes a source or takes a
\* name in use, and what a reviewer approves is what the reviewer looked at
\* (PdfWrite!PublishedIsFaithful, SourcesAreNeverWritten and TakesOnlyFreeNames;
\* ReviewController!ApprovalsWereSeen).
WritesAreFaithful ==
    /\ Race!PublishedIsFaithful /\ Race!SourcesAreNeverWritten
    /\ [][part # "replace" => Race!TakesOnlyFreeNames]_writing
    /\ ApprovalsWereSeen
=============================================================================
