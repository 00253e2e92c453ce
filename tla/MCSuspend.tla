------------------------------- MODULE MCSuspend -------------------------------
(***************************************************************************)
(* One run for the programs that suspend themselves with Asyncify:         *)
(* SuspendResumeControl, the programs it grew out of, and the sleeps and   *)
(* event loops of emscripten_asyncify.                                     *)
(*                                                                         *)
(* The programs have nothing to do with each other. The first state        *)
(* chooses one, and only that one takes steps.                             *)
(***************************************************************************)
EXTENDS SuspendResume

CONSTANT MaxClicks  \* ProcessEvents

VARIABLES
  program,
  variant, stack, resolve, index, callbacks, due, occurred, called, failed,
  test, pc, interrupt, asked, sleepers, wakeUps, timeouts, clicks

resumeVars == <<variant, stack, resolve, index, callbacks, due, occurred, called, failed>>
loopVars == <<test, pc, interrupt, asked, sleepers, wakeUps, timeouts, clicks>>
allVars == <<program, vars, resumeVars, loopVars>>

Examples == INSTANCE ResumeExamples WITH current <- index, handled <- called
Loop == INSTANCE ProcessEvents

-----------------------------------------------------------------------------

\* What the first states of a program leave open is chosen for that program alone.
MCInit ==
  /\ program \in {"control", "examples", "loop"}
  /\ Init
  /\ Examples!ExamplesInit /\ (program # "examples" => variant = "wasm")
  /\ Loop!LoopInit /\ (program # "loop" => test = "loop")

\* A step of the chosen program, which leaves the others alone.
In(name, action, others) ==
  /\ program = name
  /\ action
  /\ UNCHANGED <<program, others>>

InControl(action) == In("control", action, <<resumeVars, loopVars>>)
InExamples(action) == In("examples", action, <<vars, loopVars>>)
InLoop(action) == In("loop", action, <<vars, resumeVars>>)

MCNext ==
  \/ InControl(Next)
  \/ InExamples(Examples!ExamplesNext)
  \/ InLoop(Loop!LoopNext)

\* The fairness of the programs, each while it is the chosen one.
MCSpec ==
  /\ MCInit
  /\ [][MCNext]_allVars
  /\ WF_allVars(InControl(Suspend \/ ReturnFromWasm))
  /\ WF_allVars(InControl(Resume))
  /\ WF_allVars(InLoop(Loop!SleepEnds))

-----------------------------------------------------------------------------
(* Properties *)

\* SuspendResume: control.resume tells whether the instance is suspended, and no handler is
\* called past a suspended stack.
\* ResumeExamples: whenever main() waits again, what it was resumed for has been handled.
\* ProcessEvents: the waiting call returns only for an interrupt of its own, and every
\* sleeper has one wake-up.
SuspensionSound ==
  /\ ResumeTracksSuspension
  /\ DirectCallsWhenNotSuspended
  /\ Examples!ResumedInOrder
  /\ Loop!WaitsForItsInterrupt

\* SuspendResume: every event that reached a listener reaches its handler.
\* ProcessEvents: an interrupt that comes while the call waits makes it return.
EventsAnswered ==
  /\ EveryEventHandled
  /\ Loop!InterruptEndsWait

=============================================================================
