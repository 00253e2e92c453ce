------------------------------ MODULE WidgetView ------------------------------
(***************************************************************************)
(* MandelbrotWidget: what the user sees while dragging, zooming, scrolling *)
(* and resizing, and while images arrive from the render thread.           *)
(*                                                                         *)
(* The pixmap is drawn at pixmapOffset, scaled by pixmapScale / curScale   *)
(* around its middle. Releasing the mouse turns the offset into a new      *)
(* centre and requests an image of it; an image that arrives takes the     *)
(* offset back to zero. The module has one dimension: x and y are alike.   *)
(* Widths are whole pixels, even or odd, and every halving truncates as in *)
(* C++, so the picture may jump by a fraction of a pixel at each of them.  *)
(*                                                                         *)
(* RenderThread (module MandelbrotRender) is the environment: it delivers  *)
(* images in the order of the requests and may pass over any of them.      *)
(***************************************************************************)
EXTENDS Integers, Sequences

CONSTANTS
  Widths,       \* widths of the widget, in pixels
  Scales,       \* plane units per pixel: the values of curScale
  Positions,    \* mouse positions
  ScrollStep,   \* pixels that an arrow key scrolls by
  MaxAsked      \* bound: requests in one behaviour

ASSUME ViewAssumption ==
  /\ Widths \subseteq Nat
  /\ Scales \subseteq Nat \ {0}
  /\ Positions \subseteq Int
  /\ ScrollStep \in Int
  /\ MaxAsked \in Nat

VARIABLES
  center,    \* centerX
  scale,     \* curScale
  width,     \* width()
  asked,     \* the views that render() was called with, in order
  image,     \* pixmap: the number of its request, 0 for none
  offset,    \* pixmapOffset
  lastDrag,  \* lastDragPos
  pressed    \* the left button is down

viewVars == <<center, scale, width, asked, image, offset, lastDrag, pressed>>
mouse == <<offset, lastDrag, pressed>>

ViewSet == [center : Int, scale : Scales, width : Widths]
NoPoint == 0

ViewTypeOK ==
  /\ center \in Int
  /\ scale \in Scales
  /\ width \in Widths
  /\ asked \in Seq(ViewSet)
  /\ image \in Nat
  /\ offset \in Int
  /\ lastDrag \in Int
  /\ pressed \in BOOLEAN

ViewInit ==
  /\ center = 0
  /\ scale \in Scales
  /\ width \in Widths
  /\ asked = <<>>
  /\ image = 0
  /\ offset = NoPoint
  /\ lastDrag = NoPoint
  /\ pressed = FALSE

-----------------------------------------------------------------------------

\* n / 2 of a C++ int, which truncates towards zero
Half(n) == IF n >= 0 THEN n \div 2 ELSE -((- n) \div 2)

\* thread.render() with the widget's state after the handler
Render(c, s, w) ==
  /\ Len(asked) < MaxAsked
  /\ asked' = Append(asked, [center |-> c, scale |-> s, width |-> w])

\* scroll()
Scroll(delta) ==
  /\ center' = center + delta * scale
  /\ Render(center', scale, width)
  /\ UNCHANGED <<scale, width>>

ResizeEvent(w) ==
  /\ width' = w
  /\ Render(center, scale, w)
  /\ UNCHANGED <<center, scale, image, mouse>>

\* the plus and minus keys and the wheel, which may turn by less than a step
Zoom(s) ==
  /\ scale' = s
  /\ Render(center, s, width)
  /\ UNCHANGED <<center, width, image, mouse>>

\* the arrow keys
KeyScroll ==
  /\ Scroll(-ScrollStep) \/ Scroll(ScrollStep)
  /\ UNCHANGED <<image, mouse>>

MousePress(p) ==
  /\ ~ pressed
  /\ pressed' = TRUE
  /\ lastDrag' = p
  /\ UNCHANGED <<center, scale, width, asked, image, offset>>

MouseMove(p) ==
  /\ pressed
  /\ offset' = offset + p - lastDrag
  /\ lastDrag' = p
  /\ UNCHANGED <<center, scale, width, asked, image, pressed>>

ImageWidth == IF image = 0 THEN 0 ELSE asked[image].width

\* deltaX without the correction for a pixmap of another size
UncorrectedDelta(o) == - o
\* deltaX of mouseReleaseEvent(), with pixmapOffset o
DragDelta(o) == Half(width - ImageWidth) - o

MouseRelease(p) ==
  /\ pressed
  /\ pressed' = FALSE
  /\ offset' = offset + p - lastDrag
  /\ lastDrag' = NoPoint
  /\ Scroll(DragDelta(offset'))
  /\ UNCHANGED image

KeptOffset == offset
ClearedOffset == NoPoint

\* updatePixmap(), with the image of request r
ImageArrives(r) ==
  /\ image' = r
  /\ offset' = ClearedOffset
  /\ lastDrag' = NoPoint
  /\ UNCHANGED <<center, scale, width, asked, pressed>>

ViewNext ==
  \/ \E w \in Widths : ResizeEvent(w)
  \/ \E s \in Scales : Zoom(s)
  \/ KeyScroll
  \/ \E p \in Positions : MousePress(p) \/ MouseMove(p) \/ MouseRelease(p)
  \/ \E r \in image + 1 .. Len(asked) : ImageArrives(r)

ViewSpec == ViewInit /\ [][ViewNext]_viewVars

-----------------------------------------------------------------------------
(* Properties *)

\* paintEvent(): where the left edge of the pixmap is drawn with pixmapOffset o,
\* and how wide it is drawn
DrawnWidth(v) ==
  IF scale = v.scale THEN v.width ELSE (v.width * v.scale) \div scale
DrawnLeft(v, o) ==
  IF scale = v.scale THEN o ELSE o + Half(v.width - DrawnWidth(v))

\* the pixel at which renderTile() draws the centre of an image of width w
MiddlePixel(w) == w \div 2

\* the point of the plane that the user sees at the middle pixel of the widget: pixel
\* k of the image is drawn at DrawnLeft + k * v.scale / scale
SeenInMiddle(v, o) ==
  v.center + (MiddlePixel(width) - DrawnLeft(v, o)) * scale - MiddlePixel(v.width) * v.scale

\* The larger of a pixel of the widget and a pixel of the image.
CoarsePixel(v) == IF scale >= v.scale THEN scale ELSE v.scale

\* Whether a new centre c is the point seen in the middle of the widget: exactly,
\* when the image is not scaled and its margins are equal, and otherwise up to what the
\* four truncations on the way lose, which is less than two pixels.
CentersSeen(c, v, o) ==
  LET missed == c - SeenInMiddle(v, o)
  IN  /\ - 2 * CoarsePixel(v) < missed /\ missed < 2 * CoarsePixel(v)
      /\ scale = v.scale /\ (width - v.width) % 2 = 0 => missed = 0

\* Whatever was resized, zoomed or delivered during a drag, releasing the mouse
\* asks for the picture the user sees: the new centre is the point shown in the
\* middle of the widget. (The image has to show the present centre: a second drag
\* that begins before the image of the first one arrives counts the first twice.)
ReleaseCentersWhatIsSeen ==
  [][pressed /\ ~ pressed' /\ image > 0 =>
       LET v == asked[image]
       IN  v.center = center => CentersSeen(center', v, offset')]_viewVars

\* When the image of the newest request has arrived and no drag is on, the middle
\* of the widget shows the centre: no offset of an earlier drag is left over.
SettledViewCentered ==
  image = Len(asked) /\ image > 0 /\ ~ pressed =>
    SeenInMiddle(asked[image], offset) = center

-----------------------------------------------------------------------------
(* Why: the inductive invariant of the proofs *)

\* every change of the view asks for its image
NewestIsView ==
  asked # <<>> => asked[Len(asked)] = [center |-> center, scale |-> scale, width |-> width]

\* the image was asked for, and a drag that is over has asked for a newer one
OffsetOfDrag ==
  /\ image <= Len(asked)
  /\ image = Len(asked) /\ ~ pressed => offset = NoPoint

ViewIInv == ViewTypeOK /\ NewestIsView /\ OffsetOfDrag

=============================================================================
