---------------------------- MODULE SuspendResume ----------------------------
(***************************************************************************)
(* emscripten_asyncify_event_handling/suspendresumecontrol.cpp: one wasm   *)
(* instance that suspends itself (Asyncify) until an event arrives, and    *)
(* the JavaScript object Module.suspendResumeControl the two sides share.  *)
(*                                                                         *)
(* Everything runs on one thread. An event listener stores itself as the   *)
(* current handler and then either resolves the promise the suspended      *)
(* instance awaits, which continues in a later microtask, or calls into    *)
(* wasm directly. The browser drains the microtasks after each listener of *)
(* an event it dispatches itself; when JavaScript calls dispatchEvent(),   *)
(* its frame is still on the stack and several listeners can run first.    *)
(* NativeDispatch says which of the two worlds the instance lives in.      *)
(*                                                                         *)
(* Asyncify and the browser are external: one stack can be suspended at a  *)
(* time, and only a stack without JavaScript frames in it.                 *)
(***************************************************************************)
EXTENDS Naturals, Sequences

CONSTANTS
  Listeners,           \* handlers of EventHandler objects
  Timers,              \* handlers of SingleShotTimer and AnimationFrameHandler objects
  NoHandler,           \* the null of currentEventHandlerIndex
  NativeDispatch,      \* every event is dispatched by the browser
  ClearBeforeDestroy,  \* clients clear a timer's timeouts before they destroy it
  MaxEvents            \* bound: events in one behaviour

ASSUME ControlAssumption ==
  /\ Listeners \cap Timers = {}
  /\ NoHandler \notin Listeners \cup Timers
  /\ NativeDispatch \in BOOLEAN
  /\ ClearBeforeDestroy \in BOOLEAN
  /\ MaxEvents \in Nat

Handlers == Listeners \cup Timers

VARIABLES
  resume,      \* control.resume holds a promise's resolve function
  current,     \* control.currentEventHandlerIndex (and its argument)
  microtask,   \* a resolved suspendJs() promise has yet to continue
  frames,      \* wasm activations on the stack: "main", "resumed", "direct"
  parked,      \* the activations of the suspended stack
  fresh,       \* handlers not registered yet (indices are never reused)
  registered,  \* the keys of m_eventHandlers
  armed,       \* listeners attached to an element, timers with a timeout pending
  dispatched,  \* history: the handlers events arrived for
  handled,     \* history: the handlers callCurrentEventHandler() called
  undefined    \* callCurrentEventHandler() dereferenced m_eventHandlers.end()

vars == <<resume, current, microtask, frames, parked, fresh, registered, armed,
          dispatched, handled, undefined>>
control == <<resume, current, microtask>>
history == <<dispatched, handled, undefined>>

FrameKinds == {"main", "resumed", "direct"}

TypeOK ==
  /\ resume \in BOOLEAN
  /\ current \in Handlers \cup {NoHandler}
  /\ microtask \in BOOLEAN
  /\ frames \in Seq(FrameKinds)
  /\ parked \in Seq(FrameKinds)
  /\ fresh \subseteq Handlers
  /\ registered \subseteq Handlers
  /\ armed \subseteq Handlers
  /\ dispatched \in Seq(Handlers)
  /\ handled \in Seq(Handlers)
  /\ undefined \in BOOLEAN

\* main() constructed its SuspendResumeControl
Init ==
  /\ resume = FALSE
  /\ current = NoHandler
  /\ microtask = FALSE
  /\ frames = <<"main">>
  /\ parked = <<>>
  /\ fresh = Handlers
  /\ registered = {}
  /\ armed = {}
  /\ dispatched = <<>>
  /\ handled = <<>>
  /\ undefined = FALSE

-----------------------------------------------------------------------------
(* Tests and updates, each preceded by the wrong variant (named after the  *)
(* mistake) that mutation testing puts in its place.                       *)

\* the resolve function is left in place for the next event
ResumeKept == resume
ResumeTaken == FALSE

\* the promise is made without its resolve function being kept
ResumeDropped == resume
\* suspendJs(): control.resume = resolve
ResumeStored == TRUE

\* the callback runs before the index is taken out of the control object
CurrentKept(h) == h
\* currentEventHandlerIndex and -Arg are set to null before the handler is called
CurrentTaken(h) == NoHandler

\* the element keeps calling a handler that was removed
StillArmed(h) == armed
\* removeEventListener(); a timer's destructor does not cancel its timeouts
ArmedWithout(h) ==
  IF h \in Listeners \/ ClearBeforeDestroy THEN armed \ {h} ELSE armed

-----------------------------------------------------------------------------
(* The wasm side, running: main() or a handler *)

Running == frames # <<>>

\* addEventListener(), or a SingleShotTimer without a timeout
Register(h) ==
  /\ Running
  /\ h \in fresh
  /\ fresh' = fresh \ {h}
  /\ registered' = registered \cup {h}
  /\ armed' = IF h \in Listeners THEN armed \cup {h} ELSE armed
  /\ UNCHANGED <<control, frames, parked, history>>

\* setTimeout() or requestAnimationFrame(), one or more times
SetTimeout(h) ==
  /\ Running
  /\ h \in Timers \cap registered
  /\ armed' = armed \cup {h}
  /\ UNCHANGED <<control, frames, parked, fresh, registered, history>>

\* clearTimeout() or cancelAnimationFrame(), for all that are pending
ClearTimeout(h) ==
  /\ Running
  /\ h \in Timers \cap registered
  /\ armed' = armed \ {h}
  /\ UNCHANGED <<control, frames, parked, fresh, registered, history>>

\* removeEventListener(), ~EventHandler() and ~SingleShotTimer()
Remove(h) ==
  /\ Running
  /\ h \in registered
  /\ registered' = registered \ {h}
  /\ armed' = ArmedWithout(h)
  /\ UNCHANGED <<control, frames, parked, fresh, history>>

\* suspend(): the promise is created and the stack unwound
Suspend ==
  /\ Running
  /\ parked = <<>>
  /\ \A k \in 2 .. Len(frames) : frames[k] # "direct"
  /\ resume' = ResumeStored
  /\ parked' = frames
  /\ frames' = <<>>
  /\ UNCHANGED <<current, microtask, fresh, registered, armed, history>>

\* a handler, or main(), returns
ReturnFromWasm ==
  /\ Running
  /\ frames' = SubSeq(frames, 1, Len(frames) - 1)
  /\ UNCHANGED <<control, parked, fresh, registered, armed, history>>

-----------------------------------------------------------------------------
(* The JavaScript side *)

\* callCurrentEventHandler() for index h, with the given frames below it
CallHandler(h, below, via) ==
  /\ current' = CurrentTaken(h)
  /\ IF h \in registered
       THEN /\ frames' = Append(below, via)
            /\ handled' = Append(handled, h)
            /\ UNCHANGED undefined
       ELSE /\ frames' = below
            /\ undefined' = TRUE
            /\ UNCHANGED handled

\* When a listener can run: the microtasks are drained and wasm is off the
\* stack, unless JavaScript or wasm dispatches the event itself.
CanDispatch == NativeDispatch => ~ microtask /\ ~ Running

\* the handler function of registerEventHandlerJs(); to resolve a promise that
\* nothing awaits any more has no effect
Dispatch(h) ==
  /\ CanDispatch
  /\ h \in armed
  /\ Len(dispatched) < MaxEvents
  /\ dispatched' = Append(dispatched, h)
  /\ \/ armed' = armed
     \/ h \in Timers /\ armed' = armed \ {h}
  /\ IF resume
       THEN /\ current' = h
            /\ resume' = ResumeTaken
            /\ microtask' = (microtask \/ parked # <<>>)
            /\ UNCHANGED <<frames, handled, undefined>>
       ELSE /\ CallHandler(h, frames, "direct")
            /\ UNCHANGED <<resume, microtask>>
  /\ UNCHANGED <<parked, fresh, registered>>

\* the promise continues: suspendJs() returns into suspend(), which calls
\* callCurrentEventHandler(); a null index is left alone
Resume ==
  /\ microtask
  /\ ~ Running
  /\ microtask' = FALSE
  /\ parked' = <<>>
  /\ IF current = NoHandler
       THEN frames' = parked /\ UNCHANGED <<current, handled, undefined>>
       ELSE CallHandler(current, parked, "resumed")
  /\ UNCHANGED <<resume, fresh, registered, armed, dispatched>>

-----------------------------------------------------------------------------

WasmStep ==
  \/ \E h \in Handlers : Register(h) \/ SetTimeout(h) \/ ClearTimeout(h) \/ Remove(h)
  \/ Suspend
  \/ ReturnFromWasm

\* nothing runs, and the user and the clock stay quiet
Quiet ==
  /\ ~ Running
  /\ ~ microtask
  /\ UNCHANGED vars

Next == WasmStep \/ (\E h \in Handlers : Dispatch(h)) \/ Resume \/ Quiet

\* Handlers return or suspend in the end, and the browser runs microtasks.
Fairness == WF_vars(Suspend \/ ReturnFromWasm) /\ WF_vars(Resume)

Spec == Init /\ [][Next]_vars /\ Fairness

-----------------------------------------------------------------------------
(* Properties *)

\* The class "transparently resumes the wasm instance if it is suspended at the
\* time of the event": events are handled once each, in the order they arrive;
\* the only one that can be outstanding is the one about to be resumed for.
NoEventLost ==
  dispatched = IF microtask THEN Append(handled, current) ELSE handled

\* The JavaScript side takes control.resume for "suspended": it is right about
\* it, except between the call of resume() and the microtask.
ResumeTracksSuspension ==
  /\ resume <=> parked # <<>> /\ ~ microtask
  /\ microtask => parked # <<>>

\* callCurrentEventHandler() finds the handler it looks up: none is called
\* after it was removed.
HandlersDefined == ~ undefined

\* What the invariants above follow from when the browser dispatches every event,
\* proved inductive in MCSuspend_proofs: between resume() and the microtask no
\* wasm runs, and the index waits in the control object only for that long.
IndexWaits ==
  /\ microtask => frames = <<>> /\ current \in registered
  /\ ~ microtask => current = NoHandler

\* Every event that reached a listener reaches its C++ handler.
EveryEventHandled ==
  \A k \in 1 .. MaxEvents : Len(dispatched) >= k ~> Len(handled) >= k

\* "not suspended, call the handler directly" (suspendresumecontrol.cpp:84): no
\* handler is called past a suspended stack, however handlers suspend and nest.
DirectCallsWhenNotSuspended ==
  \A k \in 1 .. Len(frames) : frames[k] = "direct" => parked = <<>>

=============================================================================
