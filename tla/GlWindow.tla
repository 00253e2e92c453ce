------------------------------- MODULE GlWindow -------------------------------
(***************************************************************************)
(* widgets_openglwidget: a window with OpenGL widgets that are painted     *)
(* over and over, by a timer or without one.                               *)
(*                                                                         *)
(* The first widget is in a scroll area and has a button that adds more of *)
(* them, up to three rows of three. All of them are connected to one       *)
(* timer. paintGL() returns after its first statement: nothing is drawn,   *)
(* and what decides about the next update is never reached. The bubbles'   *)
(* movement and the geometry, which only the drawing uses, are left out.   *)
(***************************************************************************)
EXTENDS Integers, Sequences

CONSTANT BubbleNum   \* bubbleNum

VARIABLES
  cells,       \* m_glWidgets: [x, y, rows], where each one is in the layout
  nextX,       \* m_nextX
  nextY,       \* m_nextY
  useTimer,    \* the check box "Use timer"
  timerActive, \* m_timer->isActive()
  updates,     \* widgets with an update() that is not painted
  bubbles,     \* bubbles[w]: m_bubbles.count()
  hasButton    \* m_btn of the first widget exists

layout == <<cells, nextX, nextY>>
vars == <<layout, useTimer, timerActive, updates, bubbles, hasButton>>

Widgets == 1 .. Len(cells)

TypeOK ==
  /\ cells \in Seq([x : Nat, y : Nat, rows : Nat])
  /\ nextX \in 1 .. 3
  /\ nextY \in 1 .. 4
  /\ useTimer \in BOOLEAN
  /\ timerActive \in BOOLEAN
  /\ updates \subseteq Widgets
  /\ bubbles \in [Widgets -> Nat]
  /\ hasButton \in BOOLEAN

\* MainWindow(); a widget that is shown is painted
Init ==
  /\ cells = <<[x |-> 0, y |-> 1, rows |-> 8]>>
  /\ nextX = 1
  /\ nextY = 1
  /\ useTimer = FALSE
  /\ timerActive = FALSE
  /\ updates = {1}
  /\ bubbles = <<0>>
  /\ hasButton = FALSE

-----------------------------------------------------------------------------
(* Updates, each preceded by the wrong variant that mutation testing puts in *)
(* its place.                                                                *)

SameColumn == nextX
\* addNew(): the column after this one
NextColumn == IF nextX = 3 THEN 1 ELSE nextX + 1

FirstOnly == {1}
\* the widgets whose update() is connected to the timer, or called by
\* timerUsageChanged(): those of m_glWidgets
Updated == Widgets

-----------------------------------------------------------------------------

\* resizeEvent() and resizeGL() of the first widget, which makes its button, once; those
\* without a button only are painted again
ResizeGL ==
  /\ hasButton' = TRUE
  /\ updates' = updates \cup {1}
  /\ UNCHANGED <<layout, useTimer, timerActive, bubbles>>

\* the button: handleButtonPress(), addNew()
AddNew ==
  /\ hasButton
  /\ nextY # 4
  /\ cells' = Append(cells, [x |-> nextX, y |-> nextY, rows |-> 1])
  /\ bubbles' = Append(bubbles, 0)
  /\ updates' = updates \cup {Len(cells) + 1}
  /\ nextX' = NextColumn
  /\ nextY' = IF nextX = 3 THEN nextY + 1 ELSE nextY
  /\ UNCHANGED <<useTimer, timerActive, hasButton>>

\* timerUsageChanged()
TimerUsageChanged ==
  /\ useTimer' = ~ useTimer
  /\ timerActive' = useTimer'
  /\ updates' = IF useTimer' THEN updates ELSE updates \cup Updated
  /\ UNCHANGED <<layout, bubbles, hasButton>>

\* updateIntervalChanged(), in a spin box that is enabled with the timer: a timer
\* that is active is started again
UpdateIntervalChanged ==
  /\ useTimer
  /\ UNCHANGED <<layout, useTimer, timerActive, updates, bubbles, hasButton>>

TimerTimeout ==
  /\ timerActive
  /\ updates' = updates \cup Updated
  /\ UNCHANGED <<layout, useTimer, timerActive, bubbles, hasButton>>

\* createBubbles(bubbleNum - m_bubbles.count()): none if the number is negative
CreateBubbles(number) == IF number > 0 THEN number ELSE 0

\* initializeGL(), which returns at once, and paintGL() up to its return, of all widgets
\* that have an update
PaintGL ==
  /\ updates # {}
  /\ updates' = {}
  /\ bubbles' = [w \in Widgets |-> IF w \in updates
       THEN bubbles[w] + CreateBubbles(BubbleNum - bubbles[w]) ELSE bubbles[w]]
  /\ UNCHANGED <<layout, useTimer, timerActive, hasButton>>

Next ==
  \/ ResizeGL
  \/ AddNew
  \/ TimerUsageChanged
  \/ UpdateIntervalChanged
  \/ TimerTimeout
  \/ PaintGL

\* Qt paints what was updated, and a timer that is active comes again and again.
Fairness == WF_vars(TimerTimeout) /\ WF_vars(PaintGL)

Spec == Init /\ [][Next]_vars /\ Fairness

-----------------------------------------------------------------------------
(* Properties *)

\* However often the button is pressed, no widget covers another one, or the label,
\* the check boxes and the slider below the first; and a widget has its bubbles once
\* it is painted, and never more of them.
WidgetsApart ==
  /\ \A v, w \in Widgets : v # w /\ cells[v].x = cells[w].x =>
       cells[v].y + cells[v].rows <= cells[w].y \/ cells[w].y + cells[w].rows <= cells[v].y
  /\ \A w \in Widgets : cells[w].x = 0 => cells[w].y + cells[w].rows <= 9
  /\ \A w \in Widgets : bubbles[w] = BubbleNum \/ (bubbles[w] = 0 /\ w \in updates)

\* While the timer is used, all widgets are updated again and again, the ones added
\* later too.
TimerUpdatesAll == []<>(useTimer => updates = Widgets)

=============================================================================
