----------------------------- MODULE EventHarness -----------------------------
(***************************************************************************)
(* The event part of the core_eventloop test harness: buttons on a page    *)
(* ask for events to be posted to the event loops of the main and of a     *)
(* secondary thread, either by the main thread itself or by a service      *)
(* thread that waits on a condition variable for something to do.          *)
(*                                                                         *)
(* g_postToMainThread, g_postToSecondaryThread and g_threadTask are shared *)
(* without a lock on the main thread's side: each access is a step. The    *)
(* service thread holds g_mutex from the return of wait() to the end of    *)
(* its loop; g_exit is never set. Qt's event queues are external: an event *)
(* posted to a thread is delivered by its event loop.                      *)
(***************************************************************************)
EXTENDS Naturals

CONSTANT MaxRequests  \* bound: calls of postEventsWithArgs()

ASSUME HarnessAssumption == MaxRequests \in Nat

Targets == {"main", "secondary"}

VARIABLES
  postTo,      \* [Targets -> BOOLEAN]: the two g_postTo... flags
  threadTask,  \* g_threadTask
  ready,       \* g_ready
  call,        \* [pc, fromMain, fromService]: the main thread in postEventsWithArgs()
  service,     \* the position of thread_function()
  queued,      \* queued[t]: events in the event queue of t
  delivered,   \* delivered[t]: events EventTarget::event() saw on thread t
  requests,    \* history: calls of postEventsWithArgs()
  asked,       \* history: asked[t]: the events those calls asked for
  overlapped   \* history: a call began while the service thread had work

vars == <<postTo, threadTask, ready, call, service, queued, delivered, requests, asked,
          overlapped>>
history == <<requests, asked, overlapped>>
queues == <<queued, delivered>>

CallPcs == {"none", "setTask", "notify", "postMain", "postSecondary"}
ServicePcs == {"waiting", "readTask", "postMain", "postSecondary", "reset"}

NoCall == [pc |-> "none", fromMain |-> FALSE, fromService |-> FALSE]

TypeOK ==
  /\ postTo \in [Targets -> BOOLEAN]
  /\ threadTask \in {"NoOp", "PostEvent"}
  /\ ready \in BOOLEAN
  /\ call \in [pc : CallPcs, fromMain : BOOLEAN, fromService : BOOLEAN]
  /\ service \in ServicePcs
  /\ queued \in [Targets -> Nat]
  /\ delivered \in [Targets -> Nat]
  /\ requests \in 0 .. MaxRequests
  /\ asked \in [Targets -> Nat]
  /\ overlapped \in BOOLEAN

\* main() returned; the service thread waits
Init ==
  /\ postTo = [t \in Targets |-> t = "main"]
  /\ threadTask = "NoOp"
  /\ ready = FALSE
  /\ call = NoCall
  /\ service = "waiting"
  /\ queued = [t \in Targets |-> 0]
  /\ delivered = [t \in Targets |-> 0]
  /\ requests = 0
  /\ asked = [t \in Targets |-> 0]
  /\ overlapped = FALSE

-----------------------------------------------------------------------------
(* Tests and updates, each preceded by the wrong variant that mutation       *)
(* testing puts in its place.                                                *)

ReadyKept == ready
\* g_ready = false, once wait() has returned
ReadyTaken == FALSE

NotReady == FALSE
\* g_ready = true
ReadySet == TRUE

PostOnce(t) == IF t = "main" \/ ~ postTo["main"] THEN postTo[t] ELSE FALSE
\* the if statements of postEvents(), one for each target
Selected(t) == postTo[t]

-----------------------------------------------------------------------------

Bool(b) == IF b THEN 1 ELSE 0

\* one of the two postEvent() calls of postEvents()
PostIfSelected(t) == queued' = [queued EXCEPT ![t] = @ + Bool(Selected(t))]

ServiceBusy == ready \/ service # "waiting"

(* The main thread: postEventsWithArgs() and its event loop *)

\* the button is clicked; the flags are written
BeginCall(fromMain, fromService, to) ==
  /\ call.pc = "none"
  /\ requests < MaxRequests
  /\ postTo' = to
  /\ call' = [pc |-> IF fromService THEN "setTask" ELSE IF fromMain THEN "postMain" ELSE "none",
              fromMain |-> fromMain, fromService |-> fromService]
  /\ requests' = requests + 1
  /\ asked' = [t \in Targets |-> asked[t] + Bool(to[t] /\ fromMain) + Bool(to[t] /\ fromService)]
  /\ overlapped' = (overlapped \/ ServiceBusy)
  /\ UNCHANGED <<threadTask, ready, service, queues>>

\* g_threadTask = PostEvent, before the lock is taken
SetTask ==
  /\ call.pc = "setTask"
  /\ threadTask' = "PostEvent"
  /\ call' = [call EXCEPT !.pc = "notify"]
  /\ UNCHANGED <<postTo, ready, service, queues, history>>

\* g_ready = true and notify_one(), under g_mutex
NotifyService ==
  /\ call.pc = "notify"
  /\ service = "waiting"
  /\ ready' = ReadySet
  /\ call' = [call EXCEPT !.pc = IF call.fromMain THEN "postMain" ELSE "none"]
  /\ UNCHANGED <<postTo, threadTask, service, queues, history>>

PostFromMain ==
  /\ \/ /\ call.pc = "postMain"
        /\ PostIfSelected("main")
        /\ call' = [call EXCEPT !.pc = "postSecondary"]
     \/ /\ call.pc = "postSecondary"
        /\ PostIfSelected("secondary")
        /\ call' = [call EXCEPT !.pc = "none"]
  /\ UNCHANGED <<postTo, threadTask, ready, service, delivered, history>>

\* EventTarget::event() on thread t; the main thread's event loop runs between calls
Deliver(t) ==
  /\ t = "main" => call.pc = "none"
  /\ queued[t] > 0
  /\ queued' = [queued EXCEPT ![t] = @ - 1]
  /\ delivered' = [delivered EXCEPT ![t] = @ + 1]
  /\ UNCHANGED <<postTo, threadTask, ready, call, service, history>>

-----------------------------------------------------------------------------
(* The service thread: thread_function() *)

\* wait() returns, with g_mutex held
WaitReturns ==
  /\ service = "waiting"
  /\ ready
  /\ ready' = ReadyTaken
  /\ service' = "readTask"
  /\ UNCHANGED <<postTo, threadTask, call, queues, history>>

ReadTask ==
  /\ service = "readTask"
  /\ service' = IF threadTask = "PostEvent" THEN "postMain" ELSE "reset"
  /\ UNCHANGED <<postTo, threadTask, ready, call, queues, history>>

PostFromService ==
  /\ \/ /\ service = "postMain"
        /\ PostIfSelected("main")
        /\ service' = "postSecondary"
     \/ /\ service = "postSecondary"
        /\ PostIfSelected("secondary")
        /\ service' = "reset"
  /\ UNCHANGED <<postTo, threadTask, ready, call, delivered, history>>

\* g_threadTask = NoOp; the lock goes and is taken again at the loop's start
ResetTask ==
  /\ service = "reset"
  /\ threadTask' = "NoOp"
  /\ service' = "waiting"
  /\ UNCHANGED <<postTo, ready, call, queues, history>>

-----------------------------------------------------------------------------

CallStep == SetTask \/ NotifyService \/ PostFromMain
ServiceStep == WaitReturns \/ ReadTask \/ PostFromService \/ ResetTask

Quiet ==
  /\ call.pc = "none"
  /\ ~ ServiceBusy
  /\ \A t \in Targets : queued[t] = 0

Next ==
  \/ \E fromMain, fromService \in BOOLEAN, to \in [Targets -> BOOLEAN] :
       BeginCall(fromMain, fromService, to)
  \/ CallStep
  \/ ServiceStep
  \/ \E t \in Targets : Deliver(t)
  \/ Quiet /\ UNCHANGED vars

\* Both threads are scheduled and both event loops run; nobody need click.
Fairness ==
  /\ WF_vars(CallStep)
  /\ WF_vars(ServiceStep)
  /\ \A t \in Targets : WF_vars(Deliver(t))

Spec == Init /\ [][Next]_vars /\ Fairness

-----------------------------------------------------------------------------
(* Properties *)

\* When calls are far enough apart for the service thread to have finished, each
\* call delivers what it asked for, to the event loops it names, exactly once.
SpacedCallsDelivered == Quiet /\ ~ overlapped => delivered = asked

\* A notification is not lost between the test of g_ready and the wait, and does
\* not keep the service thread spinning: it ends up waiting again.
ServiceRests == <>[](~ ServiceBusy)

-----------------------------------------------------------------------------
(* Why: the inductive invariant of the proofs *)

\* the events that the call has yet to post to t itself, and those the service thread has yet
\* to post for it
MainOwes(t) ==
  /\ call.fromMain
  /\ \/ call.pc \in {"setTask", "notify", "postMain"}
     \/ call.pc = "postSecondary" /\ t = "secondary"
  /\ postTo[t]
ServiceOwes(t) ==
  /\ \/ call.pc \in {"setTask", "notify"}
     \/ ready
     \/ service \in {"readTask", "postMain"}
     \/ service = "postSecondary" /\ t = "secondary"
  /\ postTo[t]

\* What was asked for is delivered, in a queue, or still to be posted, by one thread or the
\* other; and the service thread is handed one task at a time, and finds it.
TaskHandedOver ==
  /\ call.pc \in {"setTask", "notify"} => ~ ServiceBusy
  /\ ready => service = "waiting"
  /\ call.pc = "notify" => threadTask = "PostEvent"
  /\ ready => threadTask = "PostEvent"
  /\ service \in {"readTask", "postMain", "postSecondary"} => threadTask = "PostEvent"

EventsAccounted ==
  \A t \in Targets :
    asked[t] = queued[t] + delivered[t] + Bool(MainOwes(t)) + Bool(ServiceOwes(t))

IInv ==
  /\ TypeOK
  /\ call.pc \in {"postMain", "postSecondary"} => call.fromMain
  /\ ~ overlapped => TaskHandedOver /\ EventsAccounted

=============================================================================
