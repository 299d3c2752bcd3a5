----------------------------- MODULE PdfOverlay -----------------------------
(***************************************************************************)
(* Is a field of a PDF page blank, and can the text in it be replaced?     *)
(* pdf_overlay interprets the operators of the page's content stream once  *)
(* and answers from bounds; it may refuse a page but must not call a field *)
(* blank that a reader sees ink in.  One step of the model interprets one  *)
(* operator, any operator of Ops next, and beside it a viewer paints the   *)
(* same operator on sample points of the field as the PDF standard defines *)
(* it.  Coordinates are integers; matrices are axis-aligned.               *)
(***************************************************************************)
EXTENDS Integers, Sequences, FiniteSets, FiniteSetsExt, SequencesExt

CONSTANTS
  Ops,          \* operators with their operands
  Purposes,     \* "scanning" for a fill, "unasked" for a correction
  Annotations,  \* the annotation rectangles a page may carry
  Resources,    \* ExtGState name -> the parameters it sets
  Crop, UserUnit, Field,  \* CropBox, unit and the field box in CropBox coordinates
  Samples,      \* points of page space at which the viewer looks
  MaxBorderWidth, \* _MAX_TABLE_BORDER_WIDTH
  MaxOps        \* bound: operators of a page

OverlayAssumption ==
  /\ UserUnit \in Nat \ {0} /\ MaxOps \in Nat /\ MaxBorderWidth \in Nat

VARIABLES
  gs, stack,   \* the graphics state and what q saved
  path, kind,  \* the points of the current path and what it is
  visual,      \* "unasked" of a correction; of a fill "scanning", then "occupied", "refused" or "blank"
  text,        \* [runs, pending, failed]: the text operations mapped so far
  notes,       \* the page's annotation rectangles
  count,       \* operators read
  view         \* the viewer: [gs, stack, path, ink, letters]

vars == <<gs, stack, path, kind, visual, text, notes, count, view>>

(***************************************************************************)
(* Geometry.                                                               *)
(***************************************************************************)
\* A matrix is <<a, b, c, d, e, f>>, a box <<left, bottom, right, top>>.
Multiply(l, r) ==
  <<l[1] * r[1] + l[2] * r[3], l[1] * r[2] + l[2] * r[4],
    l[3] * r[1] + l[4] * r[3], l[3] * r[2] + l[4] * r[4],
    l[5] * r[1] + l[6] * r[3] + r[5], l[5] * r[2] + l[6] * r[4] + r[6]>>
Transform(m, p) == <<p[1] * m[1] + p[2] * m[3] + m[5], p[1] * m[2] + p[2] * m[4] + m[6]>>
Identity == <<1, 0, 0, 1, 0, 0>>

Bounds(points) ==
  LET xs == {p[1] : p \in Range(points)}
      ys == {p[2] : p \in Range(points)}
  IN <<Min(xs), Min(ys), Max(xs), Max(ys)>>

Intersect(l, r) == ~(l[3] <= r[1] \/ l[1] >= r[3] \/ l[4] <= r[2] \/ l[2] >= r[4])
BoxContains(o, i) == o[1] <= i[1] /\ o[2] <= i[2] /\ o[3] >= i[3] /\ o[4] >= i[4]

\* box_to_page_user_space: page space is the CropBox's, in default units
InsideCrop(p) ==
  /\ 0 <= p[1] /\ p[1] <= (Crop[3] - Crop[1]) * UserUnit
  /\ 0 <= p[2] /\ p[2] <= (Crop[4] - Crop[2]) * UserUnit
ToPage(p) == <<Crop[1] + p[1] \div UserUnit, Crop[2] + p[2] \div UserUnit>>
PageBox == ToPage(<<Field[1], Field[2]>>) \o ToPage(<<Field[3], Field[4]>>)

GeometryAssumption ==
  /\ InsideCrop(<<Field[1], Field[2]>>) /\ InsideCrop(<<Field[3], Field[4]>>)
  /\ Field[1] < Field[3] /\ Field[2] < Field[4]
  /\ \A i \in 1..4 : Field[i] % UserUnit = 0

UnitSquare(m) == Bounds(<<Transform(m, <<0, 0>>), Transform(m, <<1, 0>>),
                          Transform(m, <<0, 1>>), Transform(m, <<1, 1>>)>>)
RectanglePoints(o, m) ==
  <<Transform(m, <<o.x, o.y>>), Transform(m, <<o.x + o.w, o.y>>),
    Transform(m, <<o.x, o.y + o.h>>), Transform(m, <<o.x + o.w, o.y + o.h>>)>>
PathPoints(o, m) == [i \in DOMAIN o.pts |-> Transform(m, o.pts[i])]

(***************************************************************************)
(* Strokes.                                                                *)
(***************************************************************************)
Abs(n) == IF n < 0 THEN -n ELSE n
Plain == [m |-> Identity, width |-> 1, cap |-> 0, join |-> 0, miter |-> 10, dash |-> FALSE]

\* _maximum_linear_scale of an axis-aligned matrix
MaximumScale(m) == Max({Abs(m[i]) : i \in 1..4})
EffectiveWidth(s) == s.width * MaximumScale(s.m)
Measurable(s) == s.width > 0 /\ MaximumScale(s.m) > 0

\* Half of the width all around; mitred joins reach further.  The box is doubled
\* so that the half is exact.
Radius(s, joins) == EffectiveWidth(s) * (IF joins /\ s.join = 0 THEN s.miter ELSE 1)
Doubled(box) == [i \in 1..4 |-> 2 * box[i]]
StrokeBounds(points, s, joins) ==
  LET b == Doubled(Bounds(points))
      r == Radius(s, joins)
  IN <<b[1] - r, b[2] - r, b[3] + r, b[4] + r>>

\* The interior of a stroked rectangle stays blank: its edges are tested one by one.
RectangleEdges(p) == {<<p[1], p[2]>>, <<p[2], p[4]>>, <<p[4], p[3]>>, <<p[3], p[1]>>}
StrokeIntersects(points, s, k) ==
  IF k = "rectangle" /\ Len(points) = 4
    THEN \E edge \in RectangleEdges(points) : Intersect(Doubled(PageBox), StrokeBounds(edge, s, TRUE))
    ELSE Intersect(Doubled(PageBox), StrokeBounds(points, s, Len(points) > 2))

LineCoversBoundary(p) ==
  LET b == Bounds(p)
  IN \/ b[2] = b[4] /\ b[2] \in {PageBox[2], PageBox[4]} /\ b[1] <= PageBox[1] /\ b[3] >= PageBox[3]
     \/ b[1] = b[3] /\ b[1] \in {PageBox[1], PageBox[3]} /\ b[2] <= PageBox[2] /\ b[4] >= PageBox[4]
SameCorners(p) ==
  Range(p) = {<<x, y>> : x \in {PageBox[1], PageBox[3]}, y \in {PageBox[2], PageBox[4]}}

\* A narrow solid line on the border of the field belongs to the table around it.
AnyNarrowLine(points, s, k) ==
  /\ s.cap = 0 /\ s.join = 0 /\ ~s.dash /\ EffectiveWidth(s) <= MaxBorderWidth
  /\ k \in {"line", "rectangle"}
AllowedBorder(points, s, k) ==
  /\ s.cap = 0 /\ s.join = 0 /\ ~s.dash /\ EffectiveWidth(s) <= MaxBorderWidth
  /\ \/ k = "line" /\ Len(points) = 2 /\ LineCoversBoundary(points)
     \/ k = "rectangle" /\ Len(points) = 4 /\ SameCorners(points)

(***************************************************************************)
(* The viewer.  A path is a sequence of shapes, a shape the sequence of    *)
(* its corners in page space; joins and the inside of curves are not seen. *)
(***************************************************************************)
Dot(u, v) == u[1] * v[1] + u[2] * v[2]
Cross(u, v) == u[1] * v[2] - u[2] * v[1]
Minus(u, v) == <<u[1] - v[1], u[2] - v[2]>>

\* Vectors of page space as user space has them, times Stretch
CommonFactor(m) == Max({i \in 1..MaximumScale(m) : \A j \in 1..4 : m[j] % i = 0})
UserVector(m, v) ==
  LET g == CommonFactor(m)
  IN <<v[1] * (m[4] \div g) - v[2] * (m[3] \div g), v[2] * (m[1] \div g) - v[1] * (m[2] \div g)>>
Stretch(m) == (m[1] * m[4] - m[2] * m[3]) \div CommonFactor(m)

\* Is p under the pen, as wide as the line, that draws a-b?  Near compares a product
\* with d to half the width, squared and doubled, once the coarser bound allows it
\* (products stay small); a projecting square cap draws that far past the ends.
Penned(s, a, b, p) ==
  LET d == UserVector(s.m, Minus(b, a))
      u == UserVector(s.m, Minus(p, a))
      wide == s.width * Abs(Stretch(s.m))
      Near(t) == 2 * Abs(t) < wide * (Abs(d[1]) + Abs(d[2])) /\ 4 * t * t < wide * wide * Dot(d, d)
      past == {t \in {Dot(u, d), Dot(d, d) - Dot(u, d)} : t < 0}
  IN /\ Near(Cross(u, d))
     /\ \A t \in past : s.cap = 2 /\ Near(t)

Edges(shape) == {<<shape[i], shape[i + 1]>> : i \in 1..(Len(shape) - 1)}
Stroked(s, shapes) ==
  {p \in Samples : \E shape \in shapes : \E e \in Edges(shape) : e[1] # e[2] /\ Penned(s, e[1], e[2], p)}

\* Convex shapes: a point inside lies on one side of every edge.
Filled(shapes) ==
  LET side(e, p) == Cross(Minus(e[2], e[1]), Minus(p, e[1]))
      edges(shape) == {e \in Edges(Append(shape, shape[1])) : e[1] # e[2]}
  IN {p \in Samples : \E shape \in shapes :
        /\ edges(shape) # {}
        /\ \/ \A e \in edges(shape) : side(e, p) > 0
           \/ \A e \in edges(shape) : side(e, p) < 0}

BoxShape(x, y, w, h, m) ==
  LET c(i, j) == Transform(m, <<x + i * w, y + j * h>>)
  IN <<c(0, 0), c(1, 0), c(1, 1), c(0, 1), c(0, 0)>>
\* Letters stand on the baseline and descend below it.
Glyphs(o, m) == BoxShape(o.x, o.y - o.size \div 4, o.len, o.size, m)

\* Lines continue the last shape, from its first corner when that is closed.
Extended(shapes, pts) ==
  IF shapes = <<>> THEN <<pts>>
  ELSE LET last == shapes[Len(shapes)]
       IN IF Len(last) > 1 /\ last[Len(last)] = last[1] THEN Append(shapes, <<last[1]>> \o pts)
          ELSE [shapes EXCEPT ![Len(shapes)] = @ \o pts]

Painted(v, ink) == [v EXCEPT !.ink = @ \cup ink, !.path = <<>>]
Set(s, o) ==
  CASE o.op = "w" -> [s EXCEPT !.width = o.n] [] o.op = "J" -> [s EXCEPT !.cap = o.n]
    [] o.op = "j" -> [s EXCEPT !.join = o.n] [] o.op = "M" -> [s EXCEPT !.miter = o.n]
    [] o.op = "d" -> [s EXCEPT !.dash = o.n # 0] [] OTHER -> s

See(v, o) ==
  CASE o.op = "q" -> [v EXCEPT !.stack = Append(@, v.gs)]
    [] o.op = "Q" /\ v.stack # <<>> -> [v EXCEPT !.gs = v.stack[Len(v.stack)], !.stack = Front(@)]
    [] o.op = "cm" -> [v EXCEPT !.gs.m = Multiply(o.m, @)]
    [] o.op = "gs" /\ o.name \in DOMAIN Resources -> [v EXCEPT !.gs = Set(@, Resources[o.name])]
    [] o.op \in {"w", "J", "j", "M", "d"} -> [v EXCEPT !.gs = Set(@, o)]
    [] o.op = "m" -> [v EXCEPT !.path = Append(@, PathPoints(o, v.gs.m))]
    [] o.op = "l" -> [v EXCEPT !.path = Extended(@, PathPoints(o, v.gs.m))]
    [] o.op = "c" -> [v EXCEPT !.path = Append(@, <<Transform(v.gs.m, o.pts[Len(o.pts)])>>)]
    [] o.op = "re" -> [v EXCEPT !.path = Append(@, BoxShape(o.x, o.y, o.w, o.h, v.gs.m))]
    [] o.op = "S" -> Painted(v, Stroked(v.gs, Range(v.path)))
    [] o.op = "f" -> Painted(v, Filled(Range(v.path)))
    [] o.op = "B" -> Painted(v, Stroked(v.gs, Range(v.path)) \cup Filled(Range(v.path)))
    [] o.op = "n" -> Painted(v, {})
    [] o.op \in {"Do", "image"} -> [v EXCEPT !.ink = @ \cup Filled({BoxShape(0, 0, 1, 1, v.gs.m)})]
    [] o.op = "sh" -> [v EXCEPT !.ink = Samples]
    [] o.op = "Tj" -> [v EXCEPT !.letters = Append(@, Filled({Glyphs(o, v.gs.m)}))]
    [] OTHER -> v

(***************************************************************************)
(* visual_content_in_box, one operator at a time.                          *)
(***************************************************************************)
Init ==
  /\ gs = Plain /\ stack = <<>> /\ path = <<>> /\ kind = "none"
  /\ visual \in Purposes
  /\ text = [runs |-> <<>>, pending |-> <<>>, failed |-> FALSE]
  /\ notes \in SUBSET Annotations
  /\ count = 0
  /\ view = [gs |-> Plain, stack |-> <<>>, path |-> <<>>, ink |-> {}, letters |-> <<>>]

KeepPath == UNCHANGED <<path, kind>>
KeepState == UNCHANGED <<gs, stack>>
Says(v) == visual' = v /\ KeepPath /\ KeepState
EndPath == path' = <<>> /\ kind' = "none" /\ KeepState /\ UNCHANGED visual

SaveState == stack' = Append(stack, gs) /\ KeepPath /\ UNCHANGED <<gs, visual>>
RestoreState ==
  IF stack = <<>> THEN Says("refused")
  ELSE gs' = stack[Len(stack)] /\ stack' = Front(stack) /\ KeepPath /\ UNCHANGED visual

Compose(m) == gs' = [gs EXCEPT !.m = Multiply(m, @)] /\ KeepPath /\ UNCHANGED <<stack, visual>>

Acceptable(o) ==
  CASE o.op = "w" -> o.n >= 0 [] o.op \in {"J", "j"} -> o.n \in {0, 1, 2}
    [] o.op = "M" -> o.n >= 1 [] OTHER -> o.n >= 0
SetParameter(o) ==
  IF Acceptable(o) THEN gs' = Set(gs, o) /\ KeepPath /\ UNCHANGED <<stack, visual>>
  ELSE Says("refused")

\* gs: a named resource; an unknown name or stroke adjustment is refused
ExtendedState(o) ==
  IF o.name \in DOMAIN Resources /\ Resources[o.name].op # "SA"
    THEN SetParameter(Resources[o.name]) ELSE Says("refused")

Image == IF Intersect(PageBox, UnitSquare(gs.m)) THEN Says("occupied") ELSE Says("scanning")

AddPoints(o) ==
  /\ path' = path \o PathPoints(o, gs.m)
  /\ kind' = CASE o.op = "m" /\ path = <<>> -> "move"
               [] o.op = "l" /\ kind = "move" /\ Len(path) = 1 -> "line"
               [] OTHER -> "other"
  /\ KeepState /\ UNCHANGED visual
AddRectangle(o) ==
  /\ path' = path \o RectanglePoints(o, gs.m)
  /\ kind' = IF path = <<>> THEN "rectangle" ELSE "other"
  /\ KeepState /\ UNCHANGED visual

Fill(o) ==
  IF path = <<>> THEN Says("refused")
  ELSE IF Intersect(PageBox, Bounds(path)) THEN Says("occupied")
  ELSE IF o.op # "B" THEN EndPath
  ELSE IF ~Measurable(gs) THEN Says("refused")
  ELSE IF StrokeIntersects(path, gs, kind) THEN Says("occupied")
  ELSE EndPath

Stroke ==
  IF path = <<>> THEN Says("refused")
  ELSE IF ~Measurable(gs) THEN Says("refused")
  ELSE IF ~AllowedBorder(path, gs, kind) /\ StrokeIntersects(path, gs, kind) THEN Says("occupied")
  ELSE EndPath

Interpret(o) ==
  IF o.bad THEN Says("refused")   \* operands that are no numbers, or too few
  ELSE CASE o.op = "q" -> SaveState
         [] o.op = "Q" -> RestoreState
         [] o.op = "cm" -> Compose(o.m)
         [] o.op \in {"w", "J", "j", "M", "d"} -> SetParameter(o)
         [] o.op = "gs" -> ExtendedState(o)
         [] o.op \in {"Do", "image"} -> Image
         [] o.op \in {"m", "l", "c"} -> AddPoints(o)
         [] o.op = "re" -> AddRectangle(o)
         [] o.op \in {"f", "B"} -> Fill(o)
         [] o.op = "S" -> Stroke
         [] o.op = "n" -> EndPath
         [] o.op = "sh" -> Says("refused")
         [] OTHER -> Says("scanning")

(***************************************************************************)
(* inspect_text_show_operations: each show operation must be reported by   *)
(* the library as one text before the next one is read.                    *)
(***************************************************************************)
\* The run reaches a quarter of the font size below the baseline.
TextBounds(o, m) ==
  Bounds(<<Transform(m, <<o.x, o.y - (o.size \div 4)>>), Transform(m, <<o.x + o.len, o.y - (o.size \div 4)>>),
           Transform(m, <<o.x, o.y + o.size>>), Transform(m, <<o.x + o.len, o.y + o.size>>)>>)

\* Tz, Tc, Tw, Ts, Tr away from their defaults, TJ adjustments, unknown fonts, XObjects
UnsupportedText(o) == o.bad \/ o.op \in {"Do", "Tc"} \/ (o.op = "Tj" /\ ~o.standardFont)

\* visit_text: with anything but one pending operation the mapping is ambiguous
Reported(t) ==
  IF Len(t.pending) = 1 THEN [t EXCEPT !.runs = Append(@, t.pending[1]), !.pending = <<>>]
  ELSE [t EXCEPT !.failed = TRUE]

InspectText(o) ==
  LET t == IF o.op # "Tj" THEN text
           ELSE [text EXCEPT !.pending = Append(@, [at |-> Len(view.letters) + 1, box |-> TextBounds(o, view.gs.m)])]
  IN IF UnsupportedText(o) THEN text' = [text EXCEPT !.failed = TRUE]
     ELSE text' = t \/ (t.pending # <<>> /\ text' = Reported(t))

Read(o) ==
  /\ count < MaxOps /\ count' = count + 1
  /\ IF visual = "unasked" THEN UNCHANGED <<gs, stack, path, kind, visual>>
     ELSE visual = "scanning" /\ Interpret(o)
  /\ InspectText(o)
  /\ view' = See(view, o)
  /\ UNCHANGED notes

\* The corners of /Rect are taken as lower left and upper right.
NoteInBox(r) == Intersect(PageBox, r)

\* End of the stream: the library reports what is left; saved states left over are refused; then the annotations
Finish ==
  /\ visual = "scanning"
  /\ visual' = IF stack # <<>> THEN "refused"
               ELSE IF \E r \in notes : NoteInBox(r) THEN "occupied" ELSE "blank"
  /\ text' \in {text} \cup (IF text.pending = <<>> THEN {} ELSE {Reported(text)})
  /\ UNCHANGED <<gs, stack, path, kind, notes, count, view>>

Next == Finish \/ \E o \in Ops : Read(o)
Spec == Init /\ [][Next]_vars

(***************************************************************************)
(* Answers.                                                                *)
(***************************************************************************)
TextMapped == ~text.failed /\ text.pending = <<>>
RunsInBox == {r \in Range(text.runs) : Intersect(PageBox, r.box)}
FillAllowed == visual = "blank" /\ TextMapped /\ RunsInBox = {}
CorrectAllowed ==
  /\ TextMapped /\ RunsInBox # {}
  /\ \A r \in RunsInBox : BoxContains(PageBox, r.box)
Removed == {r.at : r \in RunsInBox}

(***************************************************************************)
(* Properties.                                                             *)
(***************************************************************************)
\* The part of the field that no border line may reach
Interior == {p \in Samples : /\ 2 * (p[1] - PageBox[1]) >= MaxBorderWidth
                             /\ 2 * (PageBox[3] - p[1]) >= MaxBorderWidth
                             /\ 2 * (p[2] - PageBox[2]) >= MaxBorderWidth
                             /\ 2 * (PageBox[4] - p[2]) >= MaxBorderWidth}
Outside == {p \in Samples : \/ p[1] < PageBox[1] \/ p[1] > PageBox[3]
                            \/ p[2] < PageBox[2] \/ p[2] > PageBox[4]}

\* The interpreter's state has its shape, and while it scans it agrees with the
\* viewer on the graphics state and on what is saved.
TypeOK ==
  /\ visual \in {"scanning", "occupied", "refused", "blank", "unasked"}
  /\ kind \in {"none", "move", "line", "rectangle", "other"}
  /\ kind = "none" <=> path = <<>>
  /\ visual = "scanning" => gs = view.gs /\ stack = view.stack

\* A field that a fill is allowed in shows no ink: no stroke, fill, image or
\* letter reaches its interior (visual_content_in_box, text_runs_in_box).
BlankMeansBlank ==
  FillAllowed =>
    /\ view.ink \cap Interior = {}
    /\ \A i \in DOMAIN view.letters : view.letters[i] \cap Interior = {}

\* A correction removes all the letters in the field and none outside it
\* (correction_runs_in_box, remove_text_in_box).
CorrectionIsExact ==
  CorrectAllowed =>
    \A i \in DOMAIN view.letters :
      /\ view.letters[i] \cap Interior # {} => i \in Removed
      /\ view.letters[i] \cap Outside # {} => i \notin Removed

\* The claim of visual_content_in_box about annotations: one that covers a point
\* of the field makes it occupied, whichever corners its rectangle names.
NoteCovers(r, p) ==
  /\ Min({r[1], r[3]}) < p[1] /\ p[1] < Max({r[1], r[3]})
  /\ Min({r[2], r[4]}) < p[2] /\ p[2] < Max({r[2], r[4]})
AnnotationsAreSeen == FillAllowed => \A r \in notes, p \in Interior : ~NoteCovers(r, p)

\* The claim of _GraphicsState about its stroke bounds: they are conservative, so a
\* field called blank has no stroke in its interior.
StrokesAreBounded == visual = "blank" => view.ink \cap Interior = {}
=============================================================================
