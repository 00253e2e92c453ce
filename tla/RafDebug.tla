------------------------------- MODULE RafDebug -------------------------------
(***************************************************************************)
(* gui_multicanvas/qrafdebug.js: a stand-in for requestAnimationFrame()    *)
(* with which a page can pause the frames of a Qt application and step     *)
(* through them.                                                           *)
(*                                                                         *)
(* Requests are collected, and one real frame is requested for all of      *)
(* them; its callback calls the collected callbacks, which request frames  *)
(* again. In each frame the browser calls the callbacks that were really   *)
(* requested before the frame began; between frames the page's tasks run.  *)
(*                                                                         *)
(* A callback is the number of its request.                                *)
(***************************************************************************)
EXTENDS Naturals, Sequences

CONSTANTS
  MaxRequests,  \* bound: requests in one behaviour
  MaxReal       \* bound: real requests pending when the user asks for another

ASSUME RafAssumption == MaxRequests \in Nat /\ MaxReal \in Nat

VARIABLES
  callbacks,      \* g_qrafdebug_callbacks
  running,        \* g_qrafdebug_running
  haveRequested,  \* g_qrafdebug_haveRequestedFrame
  real,           \* real requests for the next frame
  left,           \* real requests of this frame that are still to be called
  batch,          \* callbacks that the for loop has still to call
  requested,      \* history: the number of requests
  called,         \* history: the callbacks that were called, in order
  thisFrame,      \* history: the callbacks requested in the present frame
  hasty           \* history: the callbacks called in the frame that requested them

vars == <<callbacks, running, haveRequested, real, left, batch, requested, called, thisFrame,
          hasty>>
history == <<called, thisFrame, hasty>>

Requests == 1 .. MaxRequests

TypeOK ==
  /\ callbacks \in Seq(Requests)
  /\ running \in BOOLEAN
  /\ haveRequested \in BOOLEAN
  /\ real \in Nat
  /\ left \in Nat
  /\ batch \in Seq(Requests)
  /\ requested \in 0 .. MaxRequests
  /\ called \in Seq(Requests)
  /\ thisFrame \subseteq Requests
  /\ hasty \subseteq Requests

Init ==
  /\ callbacks = <<>>
  /\ running = TRUE
  /\ haveRequested = FALSE
  /\ real = 0
  /\ left = 0
  /\ batch = <<>>
  /\ requested = 0
  /\ called = <<>>
  /\ thisFrame = {}
  /\ hasty = {}

-----------------------------------------------------------------------------
(* Tests and updates, each preceded by the wrong variant that mutation       *)
(* testing puts in its place.                                                *)

NothingOnResume == 0
\* setRunning(true): a real frame for the callbacks that wait
RealOnResume == IF callbacks # <<>> THEN 1 ELSE 0

ListKept == callbacks
\* g_qrafdebug_callbacks = []
ListEmptied == <<>>

-----------------------------------------------------------------------------

InFrame == left > 0 \/ batch # <<>>

\* requestAnimationFrame()
RequestFrame ==
  /\ requested < MaxRequests
  /\ requested' = requested + 1
  /\ callbacks' = Append(callbacks, requested + 1)
  /\ haveRequested' = TRUE
  /\ real' = IF ~ haveRequested /\ running THEN real + 1 ELSE real

\* the application requests a frame between frames
AppRequests ==
  /\ ~ InFrame
  /\ RequestFrame
  /\ UNCHANGED <<running, left, batch, history>>

\* the "run" check box
ToggleRunning ==
  /\ ~ InFrame
  /\ running \/ real < MaxReal
  /\ running' = ~ running
  /\ real' = IF running THEN real ELSE real + RealOnResume
  /\ UNCHANGED <<callbacks, haveRequested, left, batch, requested, history>>

\* the "step" button, which is enabled while paused
Step ==
  /\ ~ InFrame
  /\ ~ running
  /\ real < MaxReal
  /\ real' = real + 1
  /\ UNCHANGED <<callbacks, running, haveRequested, left, batch, requested, history>>

\* the browser starts a frame
BeginFrame ==
  /\ ~ InFrame
  /\ real > 0
  /\ left' = real
  /\ real' = 0
  /\ thisFrame' = {}
  /\ UNCHANGED <<callbacks, running, haveRequested, batch, requested, called, hasty>>

\* requestAnimationFrameCallback() up to its loop
RealCallback ==
  /\ left > 0
  /\ batch = <<>>
  /\ left' = left - 1
  /\ haveRequested' = FALSE
  /\ batch' = callbacks
  /\ callbacks' = ListEmptied
  /\ UNCHANGED <<running, real, requested, history>>

\* callback(), which may request the next frame
CallCallback ==
  /\ batch # <<>>
  /\ called' = Append(called, Head(batch))
  /\ batch' = Tail(batch)
  /\ hasty' = hasty \cup ({Head(batch)} \cap thisFrame)
  /\ \/ RequestFrame /\ thisFrame' = thisFrame \cup {requested + 1}
     \/ UNCHANGED <<callbacks, requested, haveRequested, real, thisFrame>>
  /\ UNCHANGED <<running, left>>

-----------------------------------------------------------------------------

BrowserStep == BeginFrame \/ RealCallback \/ CallCallback

\* no frame is due, and nobody asks for one
Rest ==
  /\ ~ InFrame
  /\ real = 0
  /\ UNCHANGED vars

Next == AppRequests \/ ToggleRunning \/ Step \/ BrowserStep \/ Rest

\* The browser draws frames; the user may leave the page paused.
Spec == Init /\ [][Next]_vars /\ WF_vars(BrowserStep)

-----------------------------------------------------------------------------
(* Properties *)

\* Pausing, stepping and resuming neither drop a request, nor call a callback
\* twice, nor change the order of the callbacks.
RequestsKept ==
  called \o batch \o callbacks = [k \in 1 .. requested |-> k]

\* While the page runs, callbacks that wait have a real frame coming: the flag
\* and the pause never leave them with none. (With WaitingFlagged inductive.)
FrameDue == running /\ callbacks # <<>> => real > 0 \/ left > 0

\* g_qrafdebug_haveRequestedFrame says whether callbacks wait.
WaitingFlagged == haveRequested <=> callbacks # <<>>

\* A request made while the frames run, or waiting when they run again, is served,
\* unless they are paused in the meantime.
ServedWhenRunning ==
  \A c \in Requests :
    running /\ requested >= c ~> Len(called) >= c \/ ~ running

\* "we may get new requests during each callback call, which should be processed
\* on the next requestAnimationFrame update" (qrafdebug.js:27-29): a callback is
\* never called in the frame that requested it.
ProcessedNextFrame == hasty = {}

=============================================================================
