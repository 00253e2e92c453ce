---------------------------- MODULE RasterWindows ----------------------------
(***************************************************************************)
(* gui_multicanvas/main.cpp: a window for every screen (canvas) of the     *)
(* page, added and removed with it, and RasterWindow, which gui_raster     *)
(* shows too: a window that counts its events, and whose checkered pattern *)
(* can be dragged. Where createWindow() takes a HelloWindow instead, the   *)
(* module HelloWindow has what the window does. The window without a       *)
(* screen that main() makes when it starts on a page without canvases      *)
(* (main.cpp:53-56) belongs to no canvas and is left out.                  *)
(*                                                                         *)
(* A press or a release does not move the pointer: Qt sends a move before  *)
(* one at a new position (external). A window that appears under the       *)
(* pointer has seen no move at all.                                        *)
(***************************************************************************)
EXTENDS Integers, Functions

CONSTANTS
  Screens,    \* QScreen, one per canvas
  Positions,  \* pointer positions in a window, pairs of coordinates
  TileSize,   \* tileSize of paintEvent()
  Extent,     \* the width and the height of a window
  MaxEvents   \* bound: events and timeouts counted by the windows there are

VARIABLES
  screens,  \* QGuiApplication::screens()
  windows   \* main()'s hash of windows

rasterVars == <<screens, windows>>

\* lastPos, offset and pressed are members; painted is the event count on the screen, and
\* dirty an update that was asked for. pointer is where the pointer really is, seen that a
\* move has told so, and grip where the drag began.
NewWindow(p) ==
  [count |-> 0, timeouts |-> 0, offset |-> <<0, 0>>, lastPos |-> <<0, 0>>, pressed |-> FALSE,
   painted |-> 0, dirty |-> TRUE, pointer |-> p, seen |-> FALSE,
   grip |-> [offset |-> <<0, 0>>, at |-> p, seen |-> FALSE]]

\* the screens of the page when main() starts
RasterInit ==
  /\ screens \in SUBSET Screens
  /\ \E p \in Positions : windows = [s \in screens |-> NewWindow(p)]

Plus(p, q) == <<p[1] + q[1], p[2] + q[2]>>
Minus(p, q) == <<p[1] - q[1], p[2] - q[2]>>

-----------------------------------------------------------------------------
(* paintEvent() *)

\* C++ truncates a remainder towards zero
Rem(a, b) == IF a >= 0 THEN a % b ELSE -((-a) % b)
Parity(a) == IF a >= 0 THEN a % 2 ELSE (-a) % 2

\* the pattern moves with the pointer and wraps within one tile, so that it jumps by one color
ShiftWithinTile(d) == Rem(d, TileSize)
\* m_offset.x() % tileSize * 2
Shift(d) == Rem(d, TileSize) * 2

TileStarts == {-2 * TileSize + k * TileSize : k \in 0 .. (Extent + 4 * TileSize - 1) \div TileSize}

\* The rectangles filled, each with the color of abs((i / tileSize - j / tileSize) % 2)
Tiles(offset) ==
  {[x |-> i + Shift(offset[1]), y |-> j + Shift(offset[2]),
    color |-> Parity(i \div TileSize - j \div TileSize)] : i, j \in TileStarts}

ColorsAt(x, y, offset) ==
  {t.color : t \in {u \in Tiles(offset) : u.x <= x /\ x < u.x + TileSize /\ u.y <= y /\ y < u.y + TileSize}}

-----------------------------------------------------------------------------
(* main() *)

\* a window is removed from the hash and not from the screen
WindowLeft(s) == windows
\* delete windows.take(screen)
WindowTaken(s) == [t \in DOMAIN windows \ {s} |-> windows[t]]

ScreenAdded(s) ==
  /\ s \notin screens
  /\ screens' = screens \cup {s}
  /\ \E p \in Positions : windows' = [t \in DOMAIN windows \cup {s} |-> IF t = s THEN NewWindow(p) ELSE windows[t]]

ScreenRemoved(s) ==
  /\ s \in screens
  /\ screens' = screens \ {s}
  /\ windows' = WindowTaken(s)

-----------------------------------------------------------------------------
(* RasterWindow *)

\* the event is counted, and shown when something else asks for an update
Uncounted(w) == [w EXCEPT !.count = @ + 1]
\* incrementEventCount()
Counted(w) == [w EXCEPT !.count = @ + 1, !.dirty = TRUE]

\* the drag goes on where the last one ended
LastPosKept(w, p) == IF w.pressed THEN p ELSE w.lastPos
\* m_lastPos follows the pointer, pressed or not
LastPosFollows(w, p) == p

CanCount == FoldFunction(LAMBDA w, n : n + w.count + w.timeouts, 0, windows) < MaxEvents

Handles(s, w) ==
  /\ CanCount
  /\ windows' = [windows EXCEPT ![s] = Counted(w)]
  /\ UNCHANGED screens

\* exposeEvent() and the eleven other handlers that only count
OtherEvent(s) == Handles(s, windows[s])

MouseMove(s, p) ==
  LET w == windows[s]
  IN Handles(s, [w EXCEPT !.offset = IF w.pressed THEN Plus(@, Minus(p, w.lastPos)) ELSE @,
                          !.lastPos = LastPosFollows(w, p),
                          !.pointer = p, !.seen = TRUE])

MousePress(s) ==
  LET w == windows[s]
  IN Handles(s, [w EXCEPT !.pressed = TRUE,
                          !.grip = [offset |-> w.offset, at |-> w.pointer, seen |-> w.seen]])

MouseRelease(s) == Handles(s, [windows[s] EXCEPT !.pressed = FALSE])

\* the timer of the constructor, which ticks every second
Timeout(s) ==
  /\ CanCount
  /\ windows' = [windows EXCEPT ![s] = [windows[s] EXCEPT !.timeouts = @ + 1, !.dirty = TRUE]]
  /\ UNCHANGED screens

PaintEvent(s) ==
  /\ windows[s].dirty
  /\ windows' = [windows EXCEPT ![s] = [windows[s] EXCEPT !.painted = windows[s].count, !.dirty = FALSE]]
  /\ UNCHANGED screens

RasterNext ==
  \E s \in Screens :
    \/ ScreenAdded(s) \/ ScreenRemoved(s)
    \/ /\ s \in screens
       /\ \/ OtherEvent(s) \/ MousePress(s) \/ MouseRelease(s) \/ Timeout(s) \/ PaintEvent(s)
          \/ \E p \in Positions : MouseMove(s, p)

-----------------------------------------------------------------------------
(* Properties *)

\* While a button is held the pattern has moved as far as the pointer, if the pointer was seen
\* in the window before; where it is drawn, every pixel is covered by one tile, of the color
\* of the unbounded checkerboard moved by twice the offset, so that it never jumps when the
\* shift wraps; and what a window says it received is what it received, or is drawn again.
\* Every screen has one window and no window is left of a screen that is gone.
RasterSound ==
  /\ DOMAIN windows = screens
  /\ \A s \in screens :
       LET w == windows[s]
       IN /\ w.pressed /\ w.grip.seen =>
               Minus(w.offset, w.grip.offset) = Minus(w.pointer, w.grip.at)
          /\ w.painted = w.count \/ w.dirty
          /\ ~ w.dirty => \A x, y \in 0 .. Extent - 1 :
               ColorsAt(x, y, w.offset) =
                  {Parity((x - 2 * w.offset[1]) \div TileSize - (y - 2 * w.offset[2]) \div TileSize)}

-----------------------------------------------------------------------------
(* Why: the inductive invariant of the proofs *)

Points == Int \X Int

GripType == [offset : Points, at : Points, seen : BOOLEAN]
WindowType ==
  [count : Nat, timeouts : Nat, offset : Points, lastPos : Points, pressed : BOOLEAN,
   painted : Nat, dirty : BOOLEAN, pointer : Points, seen : BOOLEAN,
   grip : GripType]

\* Qt has told a window that saw the pointer where it is; the drag began where the window
\* knew the pointer if it knows it now.
WindowIInv(w) ==
  /\ w \in WindowType
  /\ w.seen => w.lastPos = w.pointer
  /\ w.pressed /\ w.grip.seen =>
       w.seen /\ Minus(w.offset, w.grip.offset) = Minus(w.pointer, w.grip.at)
  /\ w.painted = w.count \/ w.dirty

RasterIInv ==
  /\ DOMAIN windows = screens
  /\ \A s \in screens : WindowIInv(windows[s])

=============================================================================
