------------------------------ MODULE TimerDebug ------------------------------
(***************************************************************************)
(* gui_multicanvas/qtimerdebug.js: a stand-in for setTimeout() with which  *)
(* a page can pause the timers of a Qt application and step through them.  *)
(*                                                                         *)
(* Timers wait in a list. A timer that is set while the page runs gets a   *)
(* real timeout too, which fires every timer that has elapsed by then.     *)
(* Pausing takes no real timeout back; resuming sets none.                 *)
(*                                                                         *)
(* The list is sorted with a comparison that returns true or false, which  *)
(* sort() need not understand as an order: the engine decides.             *)
(***************************************************************************)
EXTENDS Naturals, SequencesExt

CONSTANTS
  MaxTimers,   \* bound: timers set in one behaviour
  MaxTime      \* bound: the clock, and the latest target time

VARIABLES
  engineSorts,      \* sort() takes true for "greater" and puts the list in order
  timeOuts,         \* g_qtimerdebug_activeTimeOuts: [id, targetTime]
  timersRunning,    \* g_qtimerdebug_isRunning
  realTimeouts,     \* real timeouts that are pending: [id, due]
  fireList,         \* ids that were taken off the list and are still to be fired
  clock,            \* Date.now()
  timersSet,        \* g_qtimerdebug_currentTimerId + 1
  fired,            \* history: the ids whose func() was called, in order
  armed,            \* history: the ids that were set while the page ran
  cleared           \* history: the ids that were cleared while on the list

vars == <<engineSorts, timeOuts, timersRunning, realTimeouts, fireList, clock, timersSet, fired,
          armed, cleared>>

Ids == 1 .. MaxTimers
Timers == [id : Ids, targetTime : 0 .. MaxTime]

TypeOK ==
  /\ engineSorts \in BOOLEAN
  /\ timeOuts \in Seq(Timers)
  /\ timersRunning \in BOOLEAN
  /\ realTimeouts \subseteq [id : Ids, due : 0 .. MaxTime]
  /\ fireList \in Seq(Ids)
  /\ clock \in 0 .. MaxTime
  /\ timersSet \in 0 .. MaxTimers
  /\ fired \in Seq(Ids)
  /\ armed \subseteq Ids
  /\ cleared \subseteq Ids

Init ==
  /\ engineSorts \in BOOLEAN
  /\ timeOuts = <<>>
  /\ timersRunning = TRUE
  /\ realTimeouts = {}
  /\ fireList = <<>>
  /\ clock = 0
  /\ timersSet = 0
  /\ fired = <<>>
  /\ armed = {}
  /\ cleared = {}

-----------------------------------------------------------------------------

\* sort(): the order that the list may have then; timers with the same time keep their order
Sorted(list) ==
  LET places == DOMAIN list
      NoLater(i, j) ==
        \/ list[i].targetTime < list[j].targetTime
        \/ list[i].targetTime = list[j].targetTime /\ i <= j
      orders == {p \in Bijection(places, places) : \A j, k \in places : j < k => NoLater(p[j], p[k])}
  IN IF engineSorts THEN {[k \in places |-> list[p[k]]] : p \in orders} ELSE {list}

\* filter(): the timers of the list that are in the set
Filtered(list, set) ==
  LET kept[n \in 0 .. Len(list)] ==
        IF n = 0 THEN <<>>
        ELSE IF list[n] \in set THEN Append(kept[n - 1], list[n]) ELSE kept[n - 1]
  IN kept[Len(list)]

IdsOf(list) == [k \in 1 .. Len(list) |-> list[k].id]

(* Tests, each preceded by the wrong variant that mutation testing puts in   *)
(* its place.                                                                *)

ElapsedBefore(timer) == timer.targetTime < clock
\* targetTime <= now
Elapsed(timer) == timer.targetTime <= clock

KeptWhenDue(timer) == timer.targetTime >= clock
\* targetTime > now
Kept(timer) == timer.targetTime > clock

-----------------------------------------------------------------------------

Idle == fireList = <<>>

\* qtimerdebug_fireElapsedTimers() up to its loop
FireElapsed ==
  /\ fireList' = IdsOf(Filtered(timeOuts, {timer \in ToSet(timeOuts) : Elapsed(timer)}))
  /\ timeOuts' = Filtered(timeOuts, {timer \in ToSet(timeOuts) : Kept(timer)})

\* qtimerdebug_setTimeout()
SetTimeout(milliseconds) ==
  LET id == timersSet + 1 IN
  /\ timersSet < MaxTimers
  /\ clock + milliseconds <= MaxTime
  /\ timersSet' = id
  /\ timeOuts' \in Sorted(Append(timeOuts, [id |-> id, targetTime |-> clock + milliseconds]))
  /\ IF timersRunning
       THEN /\ realTimeouts' = realTimeouts \cup {[id |-> id, due |-> clock + milliseconds]}
            /\ armed' = armed \cup {id}
       ELSE UNCHANGED <<realTimeouts, armed>>
  /\ UNCHANGED cleared

\* qtimerdebug_clearTimeout()
ClearTimeout(id) ==
  /\ timeOuts' = Filtered(timeOuts, {timer \in ToSet(timeOuts) : timer.id # id})
  /\ cleared' = cleared \cup ({id} \cap ToSet(IdsOf(timeOuts)))
  /\ UNCHANGED <<timersSet, realTimeouts, armed>>

ApplicationCall ==
  \/ \E milliseconds \in 0 .. MaxTime : SetTimeout(milliseconds)
  \/ \E id \in 1 .. timersSet : ClearTimeout(id)

\* the application sets or clears a timer outside of timer callbacks
Application ==
  /\ Idle
  /\ ApplicationCall
  /\ UNCHANGED <<engineSorts, timersRunning, fireList, clock, fired>>

\* func(), which may set or clear a timer
CallFunc ==
  /\ ~ Idle
  /\ fired' = Append(fired, Head(fireList))
  /\ fireList' = Tail(fireList)
  /\ ApplicationCall \/ UNCHANGED <<timeOuts, timersSet, realTimeouts, armed, cleared>>
  /\ UNCHANGED <<engineSorts, timersRunning, clock>>

\* a real timeout, on time or late, whether the timers run or not
RealTimeout(timeout) ==
  /\ Idle
  /\ timeout.due <= clock
  /\ realTimeouts' = realTimeouts \ {timeout}
  /\ FireElapsed
  /\ UNCHANGED <<engineSorts, timersRunning, clock, timersSet, fired, armed, cleared>>

\* the "run" check box
SetRunning ==
  /\ Idle
  /\ timersRunning' = ~ timersRunning
  /\ IF timersRunning' THEN FireElapsed ELSE UNCHANGED <<timeOuts, fireList>>
  /\ UNCHANGED <<engineSorts, realTimeouts, clock, timersSet, fired, armed, cleared>>

\* the "step" and "step all" buttons, which are enabled while paused
StepTimers(count) ==
  /\ Idle
  /\ ~ timersRunning
  /\ fireList' = IdsOf(SubSeq(timeOuts, 1, count))
  /\ timeOuts' = SubSeq(timeOuts, count + 1, Len(timeOuts))
  /\ UNCHANGED <<engineSorts, timersRunning, realTimeouts, clock, timersSet, fired, armed, cleared>>

FireNextTimer == timeOuts # <<>> /\ StepTimers(1)
FireAllTimers == StepTimers(Len(timeOuts))

Tick ==
  /\ clock < MaxTime
  /\ clock' = clock + 1
  /\ UNCHANGED <<engineSorts, timeOuts, timersRunning, realTimeouts, fireList, timersSet, fired,
                 armed, cleared>>

BrowserStep == CallFunc \/ (\E timeout \in realTimeouts : RealTimeout(timeout)) \/ Tick

Next == Application \/ SetRunning \/ FireNextTimer \/ FireAllTimers \/ BrowserStep

\* Callbacks run to their end, real timeouts come, and time goes on.
Fairness == WF_vars(BrowserStep)

Spec == Init /\ [][Next]_vars /\ Fairness

-----------------------------------------------------------------------------
(* Properties *)

\* However setting, clearing, pausing, stepping and elapsing interleave, every
\* timer is in one place: it waits, is about to be fired, was fired once, or was
\* taken off the list by clearTimeout(), and then it is never fired. (One that
\* was already on the detached list when it was cleared does fire.)
TimersKept ==
  LET all == fired \o fireList \o IdsOf(timeOuts) IN
  /\ IsInjective(all)
  /\ ToSet(all) = 1 .. timersSet \ cleared

\* A timer that was set while the page ran is fired or cleared in the end, also
\* when the page is paused meanwhile. (One that was set while paused may wait for
\* ever after the page runs again: it has no real timeout.)
ArmedTimersFire ==
  \A id \in Ids : id \in armed ~> id \in cleared \/ id \in ToSet(fired)

=============================================================================
