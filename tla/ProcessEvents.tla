---------------------------- MODULE ProcessEvents ----------------------------
(***************************************************************************)
(* The two programs of emscripten_asyncify, which sleep with Asyncify      *)
(* while the page stays alive.                                             *)
(*                                                                         *)
(*  "loop"   eventloop.cpp: a main loop callback that cancels the loop,    *)
(*           sleeps, and calls processEvents(false) and then               *)
(*           processEvents(true); the page calls interrupt() at will. The  *)
(*           waiting call polls g_interrupt after every sleep.             *)
(*  "sleep"  main.cpp: main() suspends; the page's Sleep button suspends   *)
(*           again on top, its Wake button wakes the newest sleeper by a   *)
(*           timeout.                                                      *)
(*                                                                         *)
(* A call of the page can only come while the program sleeps or has ended, *)
(* or before the browser has first called the main loop's callback.        *)
(* Which of two nested stacks a wake-up continues is Asyncify's business:  *)
(* the model counts them.                                                  *)
(***************************************************************************)
EXTENDS Naturals

CONSTANT MaxClicks  \* bound: calls of the page

VARIABLES
  test,       \* "loop" or "sleep"
  pc,         \* where main_func() sleeps; "main" and "ended" before and after
  interrupt,  \* g_interrupt
  asked,      \* history: interrupt() was called during the waiting call
  sleepers,   \* calls of qt_suspend() that have not returned
  wakeUps,    \* the length of Module.qtWakeUps
  timeouts,   \* wake-ups whose setTimeout() has yet to fire
  clicks      \* bounded history: calls of the page

loopVars == <<test, pc, interrupt, asked, sleepers, wakeUps, timeouts, clicks>>

LoopInit ==
  /\ test \in {"loop", "sleep"}
  /\ pc = "main"
  /\ interrupt = FALSE
  /\ asked = FALSE
  /\ sleepers = 0
  /\ wakeUps = 0
  /\ timeouts = 0
  /\ clicks = 0

-----------------------------------------------------------------------------
(* Wrong variants come first, each named after the mistake. *)

\* the flag is left as it is when processEvents() returns
InterruptKept == interrupt
\* g_interrupt = false at the end of processEvents(), whoever set it
InterruptReset == FALSE

\* the wake-up is used without being taken off the stack
WakeUpLeft == wakeUps
\* Module.qtWakeUps.pop(), which leaves an empty array empty
WakeUpPopped == IF wakeUps = 0 THEN 0 ELSE wakeUps - 1

Moves(from, to) == test = "loop" /\ pc = from /\ pc' = to

-----------------------------------------------------------------------------
(* eventloop.cpp *)

\* main_func() cancels the main loop and sleeps
MainFunc ==
  /\ Moves("main", "sleep")
  /\ UNCHANGED <<test, interrupt, asked, sleepers, wakeUps, timeouts, clicks>>

\* it wakes up and calls processEvents(false), which sleeps once
WokeUp ==
  /\ Moves("sleep", "poll")
  /\ UNCHANGED <<test, interrupt, asked, sleepers, wakeUps, timeouts, clicks>>

\* that returns, and processEvents(true) begins to wait
PollReturns ==
  /\ Moves("poll", "wait")
  /\ interrupt' = InterruptReset
  /\ UNCHANGED <<test, asked, sleepers, wakeUps, timeouts, clicks>>

\* a sleep of the waiting call ends: it sleeps on, or returns
WaitWakes ==
  /\ Moves("wait", IF interrupt THEN "ended" ELSE "wait")
  /\ interrupt' = IF interrupt THEN InterruptReset ELSE interrupt
  /\ UNCHANGED <<test, asked, sleepers, wakeUps, timeouts, clicks>>

\* interrupt(), which looks at nothing: at any time, before main_func() too
Interrupt ==
  /\ test = "loop"
  /\ clicks < MaxClicks
  /\ clicks' = clicks + 1
  /\ interrupt' = TRUE
  /\ asked' = (asked \/ pc = "wait")
  /\ UNCHANGED <<test, pc, sleepers, wakeUps, timeouts>>

-----------------------------------------------------------------------------
(* main.cpp *)

\* main() runs tst_custom_suspend(), the only test that is not commented out; the
\* Sleep button runs it again through g_sleep_fn, whether or not it has returned
CustomSuspend ==
  /\ test = "sleep"
  /\ clicks < MaxClicks
  /\ clicks' = IF pc = "main" THEN clicks ELSE clicks + 1
  /\ pc' = "ended"
  /\ sleepers' = sleepers + 1
  /\ wakeUps' = wakeUps + 1
  /\ UNCHANGED <<test, interrupt, asked, timeouts>>

\* html_wake() and qt_resume(): a timeout of nothing does nothing
Wake ==
  /\ test = "sleep"
  /\ pc = "ended"
  /\ clicks < MaxClicks
  /\ clicks' = clicks + 1
  /\ wakeUps' = WakeUpPopped
  /\ timeouts' = IF wakeUps = 0 THEN timeouts ELSE timeouts + 1
  /\ UNCHANGED <<test, pc, interrupt, asked, sleepers>>

\* a wake-up is called, and a sleeper returns
SleeperReturns ==
  /\ timeouts > 0
  /\ timeouts' = timeouts - 1
  /\ sleepers' = sleepers - 1
  /\ UNCHANGED <<test, pc, interrupt, asked, wakeUps, clicks>>

\* the page can stay quiet
Quiet ==
  /\ pc = "ended"
  /\ UNCHANGED loopVars

LoopNext ==
  \/ MainFunc \/ WokeUp \/ PollReturns \/ WaitWakes \/ Interrupt
  \/ CustomSuspend \/ Wake \/ SleeperReturns \/ Quiet

\* Sleeps end: the browser runs the main loop's callback and the timeouts.
SleepEnds == MainFunc \/ WokeUp \/ PollReturns \/ WaitWakes

-----------------------------------------------------------------------------
(* Properties *)

\* interrupt() "interrupts a current processEvents() call" (eventloop.cpp:21): the
\* waiting call returns only for an interrupt that came while it waited, not for one
\* that came before main_func(), during its sleep or during the poll. Of nested sleepers, each has one
\* wake-up, on the stack or on its way, so that none is woken twice or never.
WaitsForItsInterrupt ==
  /\ test = "loop" /\ pc = "ended" => asked
  /\ sleepers = wakeUps + timeouts

\* ... and an interrupt that comes while the call waits does make it return.
InterruptEndsWait == asked ~> pc = "ended"

-----------------------------------------------------------------------------
(* Why: the inductive invariant of the proofs *)

\* what the waiting call finds when it wakes up is an interrupt that came while it waited
LoopIInv ==
  /\ test \in {"loop", "sleep"}
  /\ interrupt \in BOOLEAN
  /\ asked \in BOOLEAN
  /\ sleepers \in Nat
  /\ wakeUps \in Nat
  /\ timeouts \in Nat
  /\ test = "loop" /\ pc = "wait" /\ interrupt => asked
  /\ WaitsForItsInterrupt

=============================================================================
