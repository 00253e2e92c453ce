------------------------------- MODULE MinimalUi -------------------------------
(***************************************************************************)
(* QMinimalUIWindow (gui_localfiles/qmui.cpp, gui_popup/qmui.cpp), which   *)
(* gui_lifecycle/main.cpp has as QMUIWindow: a window with buttons.        *)
(*                                                                         *)
(* The mouse may have two buttons, and each is pressed and released on its *)
(* own: the window gets a press or a release for every one of them, and it *)
(* does not look which one it was. Before each of them the window has been *)
(* told where the mouse is.                                                *)
(*                                                                         *)
(* Activating a button may end the program (gui_lifecycle does, in several *)
(* ways), from inside the release handler.                                 *)
(***************************************************************************)
EXTENDS Naturals

CONSTANTS
  Buttons,       \* the buttons of the window
  MouseButtons   \* the buttons of the mouse

VARIABLES
  pointer,        \* the button under the mouse, NoButton outside of all
  held,           \* the mouse buttons that are down
  pressedButton,  \* m_pressedButton, NoButton for nullptr
  drawnPressed,   \* the buttons whose member pressed is set
  ended,          \* the program has ended
  activations     \* history: activations since the last press on a button

vars == <<pointer, held, pressedButton, drawnPressed, ended, activations>>

NoButton == "none"
Places == Buttons \cup {NoButton}

TypeOK ==
  /\ pointer \in Places
  /\ held \subseteq MouseButtons
  /\ pressedButton \in Places
  /\ drawnPressed \subseteq Buttons
  /\ ended \in BOOLEAN
  /\ activations \in Nat

\* addButton() was called for every button
Init ==
  /\ pointer = NoButton
  /\ held = {}
  /\ pressedButton = NoButton
  /\ drawnPressed = {}
  /\ ended = FALSE
  /\ activations = 0

-----------------------------------------------------------------------------
(* Updates, each preceded by the wrong variant that mutation testing puts in *)
(* its place.                                                                *)

StillPressed == pressedButton
\* m_pressedButton = nullptr
ForgetPressed == NoButton

-----------------------------------------------------------------------------

MousePress(m) ==
  /\ m \notin held
  /\ held' = held \cup {m}
  /\ IF pointer = NoButton
       THEN UNCHANGED <<pressedButton, drawnPressed, activations>>
       ELSE /\ pressedButton' = pointer
            /\ drawnPressed' = drawnPressed \cup {pointer}
            /\ activations' = 0
  /\ UNCHANGED <<pointer, ended>>

MouseMove(p) ==
  /\ p # pointer
  /\ pointer' = p
  /\ drawnPressed' = IF pressedButton = p
                       THEN drawnPressed \cup ({p} \ {NoButton})
                       ELSE drawnPressed \ {pressedButton}
  /\ UNCHANGED <<held, pressedButton, ended, activations>>

\* onActivate() returned, or there was nothing to activate
ReleaseReturns ==
  /\ drawnPressed' = drawnPressed \ {pressedButton}
  /\ pressedButton' = ForgetPressed
  /\ UNCHANGED ended

\* onActivate() ended the program
ReleaseEnds ==
  /\ ended' = TRUE
  /\ UNCHANGED <<pressedButton, drawnPressed>>

MouseRelease(m) ==
  /\ m \in held
  /\ held' = held \ {m}
  /\ IF pressedButton # NoButton /\ pressedButton = pointer
       THEN /\ activations' = activations + 1
            /\ ReleaseReturns \/ ReleaseEnds
       ELSE /\ ReleaseReturns
            /\ UNCHANGED activations
  /\ UNCHANGED pointer

\* a program that has ended gets no more events
Ended ==
  /\ ended
  /\ UNCHANGED vars

Next ==
  \/ ~ ended /\ \E m \in MouseButtons : MousePress(m) \/ MouseRelease(m)
  \/ ~ ended /\ \E p \in Places : MouseMove(p)
  \/ Ended

Spec == Init /\ [][Next]_vars

-----------------------------------------------------------------------------
(* Properties *)

\* Whatever the buttons of the mouse do, a press activates a button once at most,
\* and only the button that the mouse is on, and that would be activated, is drawn
\* pressed.
OneActivationPerPress ==
  /\ activations <= 1
  /\ drawnPressed \subseteq {pressedButton} \cap {pointer}

-----------------------------------------------------------------------------
(* Why: the inductive invariant of the proofs *)

\* a button that is pressed has not been activated since, unless that ended the program
NotYetActivated == pressedButton # NoButton /\ ~ ended => activations = 0

IInv == TypeOK /\ NotYetActivated /\ OneActivationPerPress

=============================================================================
