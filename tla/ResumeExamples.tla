--------------------------- MODULE ResumeExamples ---------------------------
(***************************************************************************)
(* The programs SuspendResume grew out of: a main() that suspends in an    *)
(* endless loop and is resumed by events, each with its own way to carry   *)
(* the event from JavaScript to the resumed stack.                         *)
(*                                                                         *)
(*  "listener"  eventlistener_resume_js.cpp: pointerdown events            *)
(*  "frames"    requestanimationframe_resume_js.cpp: two requested frames  *)
(*  "wasm"      requestanimationframe_resume_wasm.cpp: the same, with the  *)
(*              frame callbacks in C++                                     *)
(*  "button"    emscripten_asyncify_mkii/main.cpp: clicks                  *)
(*  "wakeUp"    emscripten_asyncify_#10515/main.cpp: clicks whose wake-up  *)
(*              goes through a timeout                                     *)
(*                                                                         *)
(* The browser dispatches every event and runs the microtasks after each   *)
(* listener; Asyncify suspends and continues the stack (both external).    *)
(***************************************************************************)
EXTENDS Naturals, Sequences

CONSTANT MaxEvents  \* bound: events in one behaviour

Programs == {"listener", "frames", "wasm", "button", "wakeUp"}
Nobody == 0

VARIABLES
  variant,    \* the program that is run
  stack,      \* "running", "suspended", or "resuming": the microtask is due
  resolve,    \* Module.resume, control.resume or Module.qtWakeUp is set
  current,    \* the waiting index, event or resumeFunction; Nobody if there is none
  callbacks,  \* the callbacks map, and its counter
  due,        \* frames requested and wake-up timeouts set, oldest first
  occurred,   \* history: the callbacks events arrived for, the clicks accepted
  handled,    \* history: the callbacks that were called
  failed      \* a callback that was gone was looked up, or a click refused for no reason

resumeVars == <<variant, stack, resolve, current, callbacks, due, occurred, handled, failed>>

\* registerCallbackFunction() for the callbacks 1 .. n
Registered(n) == [index |-> n, live |-> 1 .. n]

\* main() registers its listener (two more calls, commented out in the source,
\* would remove it and register it again) or requests its two frames.
ExamplesInit ==
  /\ variant \in Programs
  /\ stack = "running"
  /\ resolve = FALSE
  /\ current = Nobody
  /\ callbacks \in CASE variant = "listener" -> {Registered(1), [index |-> 2, live |-> {2}]}
                     [] variant = "frames" -> {Registered(2)}
                     [] OTHER -> {Registered(0)}
  /\ due = IF variant \in {"frames", "wasm"} THEN <<1, 2>> ELSE <<>>
  /\ occurred = <<>>
  /\ handled = <<>>
  /\ failed = FALSE

-----------------------------------------------------------------------------
(* Wrong variants come first, each named after the mistake. *)

\* the callback is erased when its event arrives
EntryTaken(c) == c.live \ {current}
\* callbacks.find(currentIndex), for an event that is about to be handled
Entry(c) == c.live

\* the event is stored when the stack has been resumed and has read the old one
StoredAfterResume(e) == current
\* registerCallbackFunctionJs() and its like store the event and then resume
Stored(e) == e

-----------------------------------------------------------------------------

\* suspend_js() keeps the resolve function and unwinds
Suspend ==
  /\ stack = "running"
  /\ stack' = "suspended"
  /\ resolve' = TRUE
  /\ UNCHANGED <<variant, current, callbacks, due, occurred, handled, failed>>

\* a listener runs while main() is suspended: it stores its event and resumes;
\* the button's program leaves Module.resume as it is
Arrive(e) ==
  /\ occurred' = Append(occurred, e)
  /\ current' = Stored(e)
  /\ resolve' = (resolve /\ variant = "button")
  /\ stack' = IF resolve THEN "resuming" ELSE stack

PointerDown ==
  /\ variant = "listener"
  /\ stack = "suspended"
  /\ Len(occurred) < MaxEvents
  /\ Arrive(callbacks.index)
  /\ UNCHANGED <<variant, callbacks, due, handled, failed>>

Frame ==
  /\ variant \in {"frames", "wasm"}
  /\ stack = "suspended"
  /\ due # <<>>
  /\ Arrive(Head(due))
  /\ due' = Tail(due)
  /\ UNCHANGED <<variant, callbacks, handled, failed>>

ButtonClicked ==
  /\ variant = "button"
  /\ stack = "suspended"
  /\ Len(occurred) < MaxEvents
  /\ Arrive(Len(occurred) + 1)
  /\ UNCHANGED <<variant, callbacks, due, handled, failed>>

\* qt_resume() of #10515: the wake-up waits for a timeout. "Module.qtWakeUp == undefined"
\* compares, so that the wake-up also stays for the next click; had it been taken, a
\* second click would rightly be refused while the first one's timeout is due.
ResumeClicked ==
  /\ variant = "wakeUp"
  /\ stack = "suspended"
  /\ Len(occurred) < MaxEvents
  /\ IF resolve
       THEN /\ occurred' = Append(occurred, Len(occurred) + 1)
            /\ due' = Append(due, Len(occurred) + 1)
            /\ UNCHANGED failed
       ELSE /\ failed' = (failed \/ due = <<>>)
            /\ UNCHANGED <<occurred, due>>
  /\ UNCHANGED <<variant, stack, resolve, current, callbacks, handled>>

\* setTimeout(wakeUp) fires: an old wake-up resumes what is suspended now
TimeoutFires ==
  /\ variant = "wakeUp"
  /\ stack = "suspended"
  /\ due # <<>>
  /\ current' = Head(due)
  /\ due' = Tail(due)
  /\ stack' = "resuming"
  /\ UNCHANGED <<variant, resolve, callbacks, occurred, handled, failed>>

\* main() goes on after suspend_js(), handles what waits, and comes round to suspend()
Handle(next) ==
  /\ stack = "resuming"
  /\ stack' = "running"
  /\ handled' = Append(handled, current)
  /\ current' = next
  /\ UNCHANGED <<variant, resolve, due, occurred>>

\* "listener": invokeCurrentCallback() takes the index out before it calls
InvokeCurrentCallback ==
  /\ variant = "listener"
  /\ Handle(Nobody)
  /\ failed' = (failed \/ current \notin Entry(callbacks))
  /\ UNCHANGED callbacks

\* "frames": a callback is used once, and the index stays behind
CallFrameCallback ==
  /\ variant = "frames"
  /\ Handle(current)
  /\ failed' = (failed \/ current \notin Entry(callbacks))
  /\ callbacks' = [callbacks EXCEPT !.live = @ \ {current}]

\* "wasm": resumeFunction is emptied, then called
CallResumeFunction ==
  /\ variant = "wasm"
  /\ Handle(Nobody)
  /\ UNCHANGED <<callbacks, failed>>

\* "button": loop() reads current_event, cleans up and calls itself
LoopResumed ==
  /\ variant = "button"
  /\ Handle(Nobody)
  /\ UNCHANGED <<callbacks, failed>>

\* "wakeUp": qt_suspend() returns, which is all there is to do
WokenUp ==
  /\ variant = "wakeUp"
  /\ Handle(Nobody)
  /\ UNCHANGED <<callbacks, failed>>

\* the user is quiet, the frames are over
Idle ==
  /\ stack = "suspended"
  /\ UNCHANGED resumeVars

ExamplesNext ==
  \/ Suspend
  \/ InvokeCurrentCallback \/ CallFrameCallback \/ CallResumeFunction \/ LoopResumed \/ WokenUp
  \/ PointerDown \/ Frame \/ ButtonClicked \/ ResumeClicked \/ TimeoutFires \/ Idle

-----------------------------------------------------------------------------
(* Properties *)

\* eventlistener_resume_js.cpp:76 "resume and invoke callback": whenever main()
\* waits again, the events it was resumed for have been handled, once each and in
\* order, whichever way they were handed over; only wake-ups on their way are out.
\* No event meets a callback that is gone, and no click is told that "resume [was]
\* called when not suspended" while main() is suspended and nothing is about to wake it.
ResumedInOrder ==
  /\ ~ failed
  /\ stack = "suspended" =>
       occurred = handled \o (IF variant = "wakeUp" THEN due ELSE <<>>)

-----------------------------------------------------------------------------
(* Why: the inductive invariant of the proofs *)

ExamplesTypeOK ==
  /\ variant \in Programs
  /\ stack \in {"running", "suspended", "resuming"}
  /\ resolve \in BOOLEAN
  /\ current \in Nat
  /\ callbacks \in [index : Nat, live : SUBSET Nat]
  /\ due \in Seq(Nat)
  /\ occurred \in Seq(Nat)
  /\ handled \in Seq(Nat)
  /\ failed = FALSE

\* an event is handled, is what main() resumes for, or is a wake-up on its way
Answered == IF stack = "resuming" THEN Append(handled, current) ELSE handled

EventsOut ==
  /\ variant # "wakeUp" => occurred = Answered
  /\ variant = "wakeUp" => occurred = Answered \o due

\* callbacks that will be called are in the map, and a frame's is called once
CallbacksLive ==
  /\ variant = "listener" =>
       /\ callbacks.index \in callbacks.live
       /\ stack = "resuming" => current \in callbacks.live
  /\ variant = "frames" =>
       /\ \A k \in 1 .. Len(due) : due[k] \in callbacks.live
       /\ \A j, k \in 1 .. Len(due) : j # k => due[j] # due[k]
       /\ stack = "resuming" =>
            /\ current \in callbacks.live
            /\ \A k \in 1 .. Len(due) : due[k] # current

ExamplesIInv ==
  /\ ExamplesTypeOK
  /\ stack = "suspended" => resolve
  /\ EventsOut
  /\ CallbacksLive

=============================================================================
