---------------------------- MODULE HarnessLoops ----------------------------
(***************************************************************************)
(* The rest of the event test harness (core_eventloop/main.cpp): the       *)
(* timers its page registers, and the event loops of the main thread that  *)
(* it enters and leaves, nested as deep as the user likes. EventHarness    *)
(* has the events.                                                         *)
(*                                                                         *)
(* Qt is external: a loop handles clicks until it is told to quit;         *)
(* QCoreApplication::exec() refuses to run inside another loop; after      *)
(* quit() all loops of the thread return, and new ones do so at once,      *)
(* until exec() is called again. A timer cannot be started from a thread   *)
(* other than its own.                                                     *)
(***************************************************************************)
EXTENDS Naturals, Sequences, SequencesExt

CONSTANT MaxLoopCalls  \* bound: loops entered and timers registered

App == 0  \* app.exec(), among the loops

VARIABLES
  loops,     \* the loops that are running, the innermost last
  stacked,   \* g_eventLoops
  quitNow,   \* Qt's mark that the thread is to leave its loops
  appQuits,  \* history: appQuit() was called
  timers,    \* g_timers
  ticking,   \* timers that are active
  loopCalls  \* loops made and timers registered, which also names them

loopVars == <<loops, stacked, quitNow, appQuits, timers, ticking, loopCalls>>

LoopsInit ==
  /\ loops = <<>>
  /\ stacked = <<>>
  /\ quitNow = FALSE
  /\ appQuits = FALSE
  /\ timers = {}
  /\ ticking = {}
  /\ loopCalls = 0

-----------------------------------------------------------------------------
(* Wrong variants come first, each named after the mistake. *)

\* the loop that was entered first is the one to quit
OldestQuits == 1
\* g_eventLoops.pop() takes the last
NewestQuits == Len(stacked)

\* the timers are forgotten and go on
ForgottenOnly == ticking
\* clearTimers() stops and deletes them all
AllStopped == ticking \ timers

Counts == loopCalls < MaxLoopCalls /\ loopCalls' = loopCalls + 1

-----------------------------------------------------------------------------

\* registerMainThreadTimer(), and registerSecondaryThreadTimer(), whose timer is moved to the
\* other thread before the main thread starts it
RegisterTimer(onMainThread) ==
  /\ Counts
  /\ timers' = timers \cup {loopCalls'}
  /\ ticking' = IF onMainThread THEN ticking \cup {loopCalls'} ELSE ticking
  /\ UNCHANGED <<loops, stacked, quitNow, appQuits>>

ClearTimers ==
  /\ ticking' = AllStopped
  /\ timers' = {}
  /\ UNCHANGED <<loops, stacked, quitNow, appQuits, loopCalls>>

AppExec ==
  /\ loops = <<>>
  /\ loops' = <<App>>
  /\ quitNow' = FALSE
  /\ UNCHANGED <<stacked, appQuits, timers, ticking, loopCalls>>

AppQuit ==
  /\ loops' = <<>>
  /\ quitNow' = TRUE
  /\ appQuits' = TRUE
  /\ UNCHANGED <<stacked, timers, ticking, loopCalls>>

\* a loop that may not run is on the stack all the same
EventLoopExec ==
  /\ Counts
  /\ stacked' = Append(stacked, loopCalls')
  /\ loops' = IF quitNow THEN loops ELSE Append(loops, loopCalls')
  /\ UNCHANGED <<quitNow, appQuits, timers, ticking>>

\* A loop that is told to quit returns when the loops inside it have; one that has returned
\* long ago is popped and nothing quits.
EventLoopQuit ==
  /\ stacked # <<>>
  /\ stacked' = RemoveAt(stacked, NewestQuits)
  /\ loops' = IF loops # <<>> /\ Last(loops) = stacked[NewestQuits] THEN Front(loops) ELSE loops
  /\ UNCHANGED <<quitNow, appQuits, timers, ticking, loopCalls>>

LoopsNext ==
  \/ \E onMainThread \in BOOLEAN : RegisterTimer(onMainThread)
  \/ ClearTimers \/ AppExec \/ AppQuit \/ EventLoopExec \/ EventLoopQuit

-----------------------------------------------------------------------------
(* Properties *)

\* Until the application is quit, the loops on g_eventLoops are the ones that run, in the
\* order they were entered in, above app.exec() where the user entered it: every quit()
\* ends the innermost loop, and an empty stack means that there was no "correspnding
\* exec()" (core_eventloop/main.cpp:225). After clearTimers() no timer that was registered
\* ticks, and none ticks that it could not clear.
LoopsSound ==
  /\ ~ appQuits => loops \in {stacked, <<App>> \o stacked}
  /\ ticking \subseteq timers

-----------------------------------------------------------------------------
(* Why: the inductive invariant of the proofs *)

LoopsIInv ==
  /\ loops \in Seq(Nat)
  /\ stacked \in Seq(Nat)
  /\ loopCalls \in Nat
  /\ appQuits \in BOOLEAN
  /\ ~ appQuits => quitNow = FALSE
  /\ LoopsSound

=============================================================================
