------------------------------ MODULE NinePatch ------------------------------
(***************************************************************************)
(* cropImageToLines() (quick_controls2_testbench/assetfixer.cpp): finds    *)
(* the black or red lines along the edges of a 9-patch image and crops the *)
(* image so that they are one pixel thick and lie at the edge.             *)
(*                                                                         *)
(* An image is its size and its ink, the set of pixels that are black or   *)
(* red. The four loops of the function are one, seen from the edge they    *)
(* start at: a pixel has a distance from the edge and a position along it. *)
(***************************************************************************)
EXTENDS Integers, FiniteSetsExt

Edges == {"top", "bottom", "left", "right"}

Across(image, edge) == IF edge \in {"top", "bottom"} THEN image.height ELSE image.width
Along(image, edge) == IF edge \in {"top", "bottom"} THEN image.width ELSE image.height

\* pixelColor == black || pixelColor == red
Ink(image, edge, distance, position) ==
  (CASE edge = "top"    -> <<position, distance>>
     [] edge = "bottom" -> <<position, image.height - 1 - distance>>
     [] edge = "left"   -> <<distance, position>>
     [] edge = "right"  -> <<image.width - 1 - distance, position>>) \in image.ink

\* the loops end in the middle of the image
Distances(image, edge) == 0 .. (Across(image, edge) \div 2) - 1

\* the line pixels of a row that the inner loop looks at: at the bottom and at
\* the right it breaks after the first one
Seen(image, edge, distance, start) ==
  LET line == {s \in start .. Along(image, edge) - 3 : Ink(image, edge, distance, s)}
  IN  IF edge \in {"bottom", "right"} /\ line # {} THEN {Min(line)} ELSE line

\* ... and those that end the search: at the edge itself, only a pixel of a line
\* that is one pixel thick
Found(image, edge, distance, start) ==
  {s \in Seen(image, edge, distance, start) : distance = 0 => ~ Ink(image, edge, 1, s)}

NoLine == [crop |-> FALSE, onePixel |-> FALSE, first |-> 0, last |-> 0]

\* one of the four loops: where the line begins and, if it is not at the edge and
\* one pixel thick, where it ends
Scan(image, edge, start) ==
  LET rows == {d \in Distances(image, edge) : Found(image, edge, d, start) # {}} IN
  IF rows = {} THEN NoLine
  ELSE LET d == Min(rows)
           s == Min(Found(image, edge, d, start))
           run == {e \in Distances(image, edge) :
                     e >= d /\ \A k \in d .. e : Ink(image, edge, k, s)}
       IN  [crop |-> d > 0, onePixel |-> d = 0, first |-> d, last |-> Max(run)]

\* wrong variant: the row at the edge itself is not counted
ThicknessFromFirst(thickness, edge, line) ==
  IF thickness = 0 /\ line.crop THEN line.last - line.first + 1 ELSE thickness
\* the thickness is that of the first line found; the left and right loops do not
\* set it for a line of one pixel
ThicknessAfter(thickness, edge, line) ==
  IF thickness # 0 THEN thickness
  ELSE IF line.crop THEN line.last - line.first + 2
  ELSE IF line.onePixel /\ edge \in {"top", "bottom"} THEN 1 ELSE 0

\* QImage::copy(): outside the image there is no ink
Copy(image, x, y, width, height) ==
  [width |-> width, height |-> height,
   ink |-> {<<p[1] - x, p[2] - y>> :
              p \in {q \in image.ink : q[1] \in x .. x + width - 1 /\ q[2] \in y .. y + height - 1}}]

\* the four loops, one after the other: each begins beyond the thickness that is
\* known by then
ScanNext(image, found, edge) ==
  LET line == Scan(image, edge, Max({1, found.thickness}))
  IN  [found EXCEPT ![edge] = line, !.thickness = ThicknessAfter(found.thickness, edge, line)]

NothingFound ==
  [thickness |-> 0, top |-> NoLine, bottom |-> NoLine, left |-> NoLine, right |-> NoLine]

ScanAll(image) ==
  LET top    == ScanNext(image, NothingFound, "top")
      bottom == ScanNext(image, top, "bottom")
      left   == ScanNext(image, bottom, "left")
  IN  ScanNext(image, left, "right")

\* copyArea, without a line to crop to: what the thickness says. A side of the QRect
\* that was not set counts as 0.
CropTo(image, found) ==
  LET border == Max({0, found.thickness - 1})
      First(line) == IF line.crop THEN line.last ELSE 0
      Size(total, first, last) == IF last.crop THEN total - last.last - First(first)
                                               ELSE total - 2 * border
  IN
  IF \A edge \in Edges : ~ found[edge].crop THEN image
  ELSE Copy(image,
            IF found.left.crop THEN found.left.last ELSE border,
            IF found.top.crop THEN found.top.last ELSE border,
            Size(image.width, found.left, found.right),
            Size(image.height, found.top, found.bottom))

\* the image after cropImageToLines()
CropImageToLines(image) == CropTo(image, ScanAll(image))

-----------------------------------------------------------------------------
(* What a designer exports: a drawing of size x size without black or red,   *)
(* with lines along its edges, as thick as the scale of the export, possibly *)
(* in the middle of a larger image. A line is the set of positions it spans; *)
(* an empty one is not drawn.                                                *)

Export(shape) ==
  LET near  == shape.margin                                   \* where a line begins
      inner == shape.margin + shape.thickness                 \* where the drawing begins
      far   == inner + shape.size                             \* where the far lines begin
      total == far + shape.thickness + shape.margin
      Thick(from) == from .. from + shape.thickness - 1
      Shift(line) == {inner + s : s \in line}
  IN [width |-> total, height |-> total,
      ink |-> (Shift(shape.top) \X Thick(near)) \cup (Shift(shape.bottom) \X Thick(far))
              \cup (Thick(near) \X Shift(shape.left)) \cup (Thick(far) \X Shift(shape.right))]

IsDrawing(s) ==
  s \in [size : Nat, thickness : Nat \ {0}, margin : Nat,
         top : SUBSET (0 .. s.size - 1), bottom : SUBSET (0 .. s.size - 1),
         left : SUBSET (0 .. s.size - 1), right : SUBSET (0 .. s.size - 1)]

\* The drawings cropImageToLines() is right for: those that need no crop; with lines
\* along all four edges; and, while scale and margin together are at most 2, without
\* a line at the bottom or at the right. Beyond that, the search along an edge without
\* a line runs into the lines of its neighbours.
Croppable(s) ==
  /\ IsDrawing(s)
  /\ \/ s.thickness = 1 /\ s.margin = 0
     \/ \A edge \in Edges : s[edge] # {}
     \/ s.top # {} /\ s.left # {} /\ s.margin + s.thickness <= 2

\* what the same drawing is meant to become
Patch(shape) == Export([shape EXCEPT !.thickness = 1, !.margin = 0])

=============================================================================
