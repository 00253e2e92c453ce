------------------------------ MODULE MCEvents_proofs ------------------------------
(***************************************************************************)
(* Proofs about the programs of MCEvents, one after the other, and about   *)
(* the run. EventHarness: the events that were asked for are accounted for *)
(* at every step.                                                          *)
(***************************************************************************)
EXTENDS MCEvents, SequenceTheorems, TLAPS

-----------------------------------------------------------------------------
(* EventHarness *)

\* Nothing was asked for, and nobody owes anything.
LEMMA HarnessStarts == Init => IInv
<1> SUFFICES ASSUME Init PROVE IInv
  OBVIOUS
<1>1. ready \in BOOLEAN /\ overlapped \in BOOLEAN
  BY Zenon DEF Init
<1>2. TypeOK
  BY <1>1, HarnessAssumption DEF Init, TypeOK, Targets, NoCall, CallPcs, ServicePcs
<1>3. TaskHandedOver
  BY DEF Init, TaskHandedOver, NoCall
<1>4. EventsAccounted
  BY DEF Init, EventsAccounted, MainOwes, ServiceOwes, NoCall, Bool, Targets
<1> QED  BY <1>2, <1>3, <1>4 DEF Init, IInv, NoCall

\* A call that begins when nothing is owed is owed what it asks for.
LEMMA HarnessBegin ==
  ASSUME IInv, NEW fromMain \in BOOLEAN, NEW fromService \in BOOLEAN,
         NEW to \in [Targets -> BOOLEAN], BeginCall(fromMain, fromService, to)
  PROVE  IInv'
<1>1. TypeOK'
  <2>1. overlapped' \in BOOLEAN
    BY Zenon DEF BeginCall
  <2>2. asked' \in [Targets -> Nat]
    BY DEF BeginCall, Bool, IInv, TypeOK
  <2>3. call' \in [pc : CallPcs, fromMain : BOOLEAN, fromService : BOOLEAN]
    BY DEF BeginCall, CallPcs
  <2> QED
    BY <2>1, <2>2, <2>3, HarnessAssumption DEF BeginCall, IInv, TypeOK, queues
<1>2. call'.pc \in {"postMain", "postSecondary"} => call'.fromMain
  BY DEF BeginCall
<1>3. ASSUME ~ overlapped'
      PROVE  TaskHandedOver' /\ EventsAccounted'
  <2>1. ~ overlapped /\ ~ ready /\ service = "waiting" /\ TaskHandedOver /\ EventsAccounted
    BY <1>3 DEF BeginCall, ServiceBusy, IInv
  <2>2. TaskHandedOver'
    BY <2>1 DEF BeginCall, TaskHandedOver, ServiceBusy, queues
  <2>3. ASSUME NEW t \in Targets
        PROVE  asked'[t] = queued'[t] + delivered'[t] + Bool(MainOwes(t)') + Bool(ServiceOwes(t)')
    <3>1. asked[t] = queued[t] + delivered[t] /\ queued[t] \in Nat /\ delivered[t] \in Nat
      BY <2>1 DEF BeginCall, EventsAccounted, MainOwes, ServiceOwes, Bool, IInv, TypeOK
    <3>2. asked'[t] = asked[t] + Bool(to[t] /\ fromMain) + Bool(to[t] /\ fromService)
      BY DEF BeginCall, IInv, TypeOK
    <3>3. (MainOwes(t)' <=> to[t] /\ fromMain) /\ (ServiceOwes(t)' <=> to[t] /\ fromService)
      BY <2>1 DEF BeginCall, MainOwes, ServiceOwes
    <3>4. queued' = queued /\ delivered' = delivered
      BY DEF BeginCall, queues
    <3> QED  BY <3>1, <3>2, <3>3, <3>4 DEF Bool
  <2> QED  BY <2>2, <2>3 DEF EventsAccounted
<1> QED  BY <1>1, <1>2, <1>3 DEF IInv

\* A step that moves what is owed from one place to another leaves the sum alone.
LEMMA HarnessMoves ==
  ASSUME IInv, SetTask \/ NotifyService \/ WaitReturns \/ ReadTask \/ ResetTask
  PROVE  IInv'
<1>1. TypeOK' /\ (call'.pc \in {"postMain", "postSecondary"} => call'.fromMain)
  <2>1. ready' \in BOOLEAN
    BY Zenon DEF SetTask, NotifyService, WaitReturns, ReadTask, ResetTask, ReadySet, ReadyTaken, IInv, TypeOK
  <2> QED
    BY <2>1 DEF SetTask, NotifyService, WaitReturns, ReadTask, ResetTask,
       IInv, TypeOK, CallPcs, ServicePcs, queues, history
<1>2. ASSUME ~ overlapped'
      PROVE  TaskHandedOver' /\ EventsAccounted'
  <2>1. ~ overlapped /\ TaskHandedOver /\ EventsAccounted
    BY <1>2 DEF SetTask, NotifyService, WaitReturns, ReadTask, ResetTask, history, IInv
  <2>2. TaskHandedOver'
    BY <2>1 DEF SetTask, NotifyService, WaitReturns, ReadTask, ResetTask, ReadySet, ReadyTaken,
       TaskHandedOver, ServiceBusy, IInv, TypeOK, CallPcs, ServicePcs
  <2>3. ASSUME NEW t \in Targets
        PROVE  (MainOwes(t)' <=> MainOwes(t)) /\ (ServiceOwes(t)' <=> ServiceOwes(t))
    BY <2>1 DEF SetTask, NotifyService, WaitReturns, ReadTask, ResetTask, ReadySet, ReadyTaken,
       TaskHandedOver, ServiceBusy, MainOwes, ServiceOwes, IInv, TypeOK, CallPcs, ServicePcs
  <2>4. UNCHANGED <<asked, queued, delivered>>
    BY DEF SetTask, NotifyService, WaitReturns, ReadTask, ResetTask, queues, history
  <2> QED  BY <2>1, <2>2, <2>3, <2>4 DEF EventsAccounted, Bool
<1> QED  BY <1>1, <1>2 DEF IInv

\* An event that is posted is owed no longer, and in the queue.
LEMMA HarnessPosts ==
  ASSUME IInv, PostFromMain \/ PostFromService
  PROVE  IInv'
<1> USE DEF PostFromMain, PostFromService, PostIfSelected, Selected, Targets
<1>1. PICK p \in Targets : queued' = [queued EXCEPT ![p] = @ + Bool(postTo[p])]
                           /\ \/ call.pc = IF p = "main" THEN "postMain" ELSE "postSecondary"
                              \/ service = IF p = "main" THEN "postMain" ELSE "postSecondary"
  OBVIOUS
<1>2. queued' \in [Targets -> Nat]
  BY <1>1 DEF IInv, TypeOK, Bool
<1>3. TypeOK' /\ (call'.pc \in {"postMain", "postSecondary"} => call'.fromMain)
  BY <1>2 DEF IInv, TypeOK, CallPcs, ServicePcs, history
<1>4. ASSUME ~ overlapped'
      PROVE  TaskHandedOver' /\ EventsAccounted'
  <2>1. ~ overlapped /\ TaskHandedOver /\ EventsAccounted
    BY <1>4 DEF history, IInv
  <2>2. TaskHandedOver'
    BY <2>1 DEF TaskHandedOver, ServiceBusy, IInv, TypeOK, CallPcs, ServicePcs
  <2>3. ASSUME NEW t \in Targets
        PROVE  queued'[t] + Bool(MainOwes(t)') + Bool(ServiceOwes(t)')
                 = queued[t] + Bool(MainOwes(t)) + Bool(ServiceOwes(t))
    <3>1. queued[t] \in Nat /\ postTo[t] \in BOOLEAN /\ (t = "main" \/ t = "secondary")
      BY DEF IInv, TypeOK
    <3>2. CASE PostFromMain
      <4>1. ServiceOwes(t)' <=> ServiceOwes(t)
        BY <3>2, <2>1 DEF ServiceOwes, IInv, TypeOK
      <4>2. queued'[t] + Bool(MainOwes(t)') = queued[t] + Bool(MainOwes(t))
        BY <3>1, <3>2 DEF MainOwes, Bool, IInv, TypeOK
      <4>3. Bool(MainOwes(t)) \in Nat /\ Bool(MainOwes(t)') \in Nat /\ Bool(ServiceOwes(t)) \in Nat /\ queued'[t] \in Nat
        BY <1>2 DEF Bool
      <4> QED  BY <3>1, <4>1, <4>2, <4>3 DEF Bool
    <3>3. CASE PostFromService
      <4>1. MainOwes(t)' <=> MainOwes(t)
        BY <3>3 DEF MainOwes
      <4>2. queued'[t] + Bool(ServiceOwes(t)') = queued[t] + Bool(ServiceOwes(t))
        BY <3>1, <3>3, <2>1 DEF ServiceOwes, Bool, IInv, TypeOK, TaskHandedOver, ServiceBusy
      <4>3. Bool(MainOwes(t)) \in Nat /\ Bool(ServiceOwes(t)') \in Nat /\ Bool(ServiceOwes(t)) \in Nat /\ queued'[t] \in Nat
        BY <1>2 DEF Bool
      <4> QED  BY <3>1, <4>1, <4>2, <4>3 DEF Bool
    <3> QED  BY <3>2, <3>3
  <2>4. UNCHANGED <<asked, delivered>>
    BY DEF history
  <2>5. ASSUME NEW t \in Targets
        PROVE  asked'[t] = queued'[t] + delivered'[t] + Bool(MainOwes(t)') + Bool(ServiceOwes(t)')
    <3>1. asked[t] = queued[t] + delivered[t] + Bool(MainOwes(t)) + Bool(ServiceOwes(t))
      BY <2>1 DEF EventsAccounted
    <3>2. queued[t] \in Nat /\ delivered[t] \in Nat /\ queued'[t] \in Nat
      BY <1>2 DEF IInv, TypeOK
    <3>3. /\ Bool(MainOwes(t)) \in Nat /\ Bool(ServiceOwes(t)) \in Nat
          /\ Bool(MainOwes(t)') \in Nat /\ Bool(ServiceOwes(t)') \in Nat
      BY DEF Bool
    <3> QED  BY <2>3, <2>4, <3>1, <3>2, <3>3
  <2> QED  BY <2>2, <2>5 DEF EventsAccounted
<1> QED  BY <1>3, <1>4 DEF IInv

\* An event that is delivered is in the queue no longer.
LEMMA HarnessDelivers ==
  ASSUME IInv, NEW d \in Targets, Deliver(d)
  PROVE  IInv'
<1>1. /\ queued' \in [Targets -> Nat] /\ delivered' \in [Targets -> Nat]
      /\ \A t \in Targets : queued'[t] + delivered'[t] = queued[t] + delivered[t]
  BY DEF Deliver, IInv, TypeOK
<1>2. UNCHANGED <<postTo, threadTask, ready, call, service, requests, asked, overlapped>>
  BY DEF Deliver, history
<1>3. TypeOK'
  BY <1>1, <1>2 DEF IInv, TypeOK
<1>4. ASSUME EventsAccounted PROVE EventsAccounted'
  <2>1. ASSUME NEW t \in Targets
        PROVE  asked'[t] = queued'[t] + delivered'[t] + Bool(MainOwes(t)') + Bool(ServiceOwes(t)')
    BY <1>1, <1>2, <1>4 DEF EventsAccounted, MainOwes, ServiceOwes
  <2> QED  BY <2>1 DEF EventsAccounted
<1> QED  BY <1>2, <1>3, <1>4 DEF IInv, TaskHandedOver, ServiceBusy

\* Every step keeps the invariant.
LEMMA HarnessStep == IInv /\ [Next]_vars => IInv'
<1> SUFFICES ASSUME IInv, [Next]_vars PROVE IInv'
  OBVIOUS
<1>1. CASE UNCHANGED vars
  <2>1. TypeOK'
    BY <1>1 DEF vars, IInv, TypeOK
  <2>2. ASSUME EventsAccounted PROVE EventsAccounted'
    BY <1>1, <2>2 DEF vars, EventsAccounted, MainOwes, ServiceOwes
  <2> QED  BY <1>1, <2>1, <2>2 DEF vars, IInv, TaskHandedOver, ServiceBusy
<1> QED
  BY <1>1, HarnessBegin, HarnessMoves, HarnessPosts, HarnessDelivers
  DEF Next, CallStep, ServiceStep

\* When nobody owes anything and the queues are empty, what was asked for is delivered.
LEMMA HarnessQuiet == IInv => SpacedCallsDelivered
<1> SUFFICES ASSUME IInv, Quiet, ~ overlapped PROVE delivered = asked
  BY DEF SpacedCallsDelivered
<1>1. \A t \in Targets : asked[t] = delivered[t]
  BY DEF IInv, TypeOK, EventsAccounted, Quiet, ServiceBusy, MainOwes, ServiceOwes, Bool
<1> QED  BY <1>1 DEF IInv, TypeOK

-----------------------------------------------------------------------------
(* EventCallbacks *)

\* No callback was made.
LEMMA CallbackStarts == Callback!Init => Callback!IInv
<1> SUFFICES ASSUME Callback!Init PROVE Callback!IInv
  OBVIOUS
<1>1. wild \in BOOLEAN /\ ~ wild
  BY Zenon DEF Callback!Init
<1>2. Callback!TypeOK
  BY <1>1, EventsAssumption
  DEF Callback!Init, Callback!TypeOK, Callback!Events, Callback!ReaderEvents, Callback!Callbacks,
      Callback!None, Callback!NoEvent
<1>3. Callback!Numbered
  BY EventsAssumption DEF Callback!Init, Callback!Numbered, Callback!Callbacks, Callback!NoEvent
<1>4. Callback!HandledByOwn /\ Callback!CallbacksSound
  BY <1>1, EventsAssumption
  DEF Callback!Init, Callback!HandledByOwn, Callback!CallbacksSound, Callback!Events,
      Callback!ReaderEvents
<1> QED  BY <1>2, <1>3, <1>4 DEF Callback!IInv

\* A callback is made for an event, and the one it replaces, of the same event, is deleted.
LEMMA CallbackMake ==
  ASSUME Callback!IInv, NEW e \in Callback!Events, NEW old, Callback!Make(e, old),
         \/ old = 0 /\ UNCHANGED owned /\ e \in ElementEvents
         \/ /\ e \in Callback!ReaderEvents
            /\ old = owned[e]
            /\ owned' = [owned EXCEPT ![e] = made + 1],
         UNCHANGED wild, reader' = reader
  PROVE  Callback!IInv'
<1> DEFINE new == made + 1
<1> USE DEF Callback!None, Callback!NoEvent
<1>1. /\ new \in Callback!Callbacks /\ new # 0 /\ new \notin alive /\ eventOf[new] = "none"
      /\ made' = new /\ new \in Nat /\ e # "none" /\ made \in Nat
      /\ alive' = (alive \ {old}) \cup {new}
      /\ context' = [context EXCEPT ![e] = new]
      /\ eventOf' = [eventOf EXCEPT ![new] = e]
      /\ onEvent' = [onEvent EXCEPT ![e] = IF old = 0 THEN TRUE ELSE FALSE]
  <2>1. made' = new /\ alive' = (alive \ {old}) \cup {new} /\ context' = [context EXCEPT ![e] = new]
    BY DEF Callback!Make
  <2>2. /\ eventOf' = [eventOf EXCEPT ![new] = e]
        /\ onEvent' = [onEvent EXCEPT ![e] = IF old = 0 THEN TRUE ELSE FALSE]
    BY DEF Callback!Make, Callback!HandlerAfterDelete
  <2>3. made \in Nat /\ new \in Callback!Callbacks /\ new # 0 /\ new \in Nat /\ ~ (new <= made) /\ new > made
    BY EventsAssumption DEF Callback!Make, Callback!IInv, Callback!TypeOK, Callback!Callbacks
  <2>4. new \notin alive /\ eventOf[new] = "none"
    BY <2>3 DEF Callback!IInv, Callback!Numbered
  <2>5. e # "none"
    BY EventsAssumption DEF Callback!Events, Callback!ReaderEvents
  <2> QED  BY <2>1, <2>2, <2>3, <2>4, <2>5
<1>2. old # 0 => old \in alive /\ eventOf[old] = e /\ old # new
  BY <1>1 DEF Callback!IInv, Callback!HandledByOwn
<1> HIDE DEF new
<1>3. Callback!TypeOK'
  <2>1. onEvent' \in [Callback!Events -> BOOLEAN]
    BY <1>1 DEF Callback!IInv, Callback!TypeOK
  <2>2. /\ context' \in [Callback!Events -> Callback!Callbacks \cup {0}]
        /\ eventOf' \in [Callback!Callbacks -> Callback!Events \cup {"none"}]
        /\ alive' \subseteq Callback!Callbacks
    BY <1>1 DEF Callback!IInv, Callback!TypeOK
  <2>3. owned' \in [Callback!ReaderEvents -> Callback!Callbacks \cup {0}]
    BY <1>1 DEF Callback!IInv, Callback!TypeOK, new
  <2>4. made' \in 0 .. MaxCallbacks
    BY <1>1 DEF Callback!Callbacks
  <2> QED  BY <2>1, <2>2, <2>3, <2>4 DEF Callback!IInv, Callback!TypeOK
<1>4. Callback!Numbered'
  <2>1. ASSUME NEW c \in Callback!Callbacks PROVE eventOf'[c] = "none" <=> c > made'
    BY <1>1 DEF Callback!IInv, Callback!TypeOK, Callback!Numbered, Callback!Callbacks, new
  <2>2. ASSUME NEW c \in alive' PROVE c <= made'
    BY <1>1 DEF Callback!IInv, Callback!TypeOK, Callback!Numbered, Callback!Callbacks, new
  <2> QED  BY <2>1, <2>2 DEF Callback!Numbered
<1>5. Callback!HandledByOwn'
  <2>1. ASSUME NEW f \in Callback!Events, onEvent'[f]
        PROVE  context'[f] \in alive' /\ eventOf'[context'[f]] = f
    <3>1. CASE f = e
      BY <1>1, <3>1 DEF Callback!IInv, Callback!TypeOK
    <3>2. CASE f # e
      <4>1. onEvent[f] /\ context'[f] = context[f]
        BY <1>1, <2>1, <3>2 DEF Callback!IInv, Callback!TypeOK
      <4>2. context[f] \in alive /\ eventOf[context[f]] = f /\ context[f] \in Callback!Callbacks
            /\ context[f] # 0
        BY <4>1 DEF Callback!IInv, Callback!TypeOK, Callback!HandledByOwn, Callback!Callbacks
      <4>3. context[f] # old /\ context[f] # new
        BY <1>1, <1>2, <3>2, <4>2
      <4> QED  BY <1>1, <4>1, <4>2, <4>3 DEF Callback!IInv, Callback!TypeOK
    <3> QED  BY <3>1, <3>2
  <2>2. ASSUME NEW f \in Callback!ReaderEvents, owned'[f] # 0
        PROVE  owned'[f] \in alive' /\ eventOf'[owned'[f]] = f
    BY <1>1, <1>2, <2>2, EventsAssumption
    DEF Callback!IInv, Callback!TypeOK, Callback!HandledByOwn, Callback!ReaderEvents, new
  <2> QED  BY <2>1, <2>2 DEF Callback!HandledByOwn
<1>6. Callback!CallbacksSound'
  <2>1. ASSUME NEW c \in alive',
               \A d \in Callback!Callbacks : eventOf'[d] = eventOf'[c] => d = c
        PROVE  onEvent'[eventOf'[c]] /\ context'[eventOf'[c]] = c
    <3>1. CASE c = new
      BY <1>1, <1>2, <2>1, <3>1 DEF Callback!IInv, Callback!TypeOK
    <3>2. CASE c # new
      <4>1. c \in alive /\ eventOf'[c] = eventOf[c] /\ eventOf[c] # e /\ c \in Callback!Callbacks
        BY <1>1, <2>1, <3>2 DEF Callback!IInv, Callback!TypeOK
      <4>2. eventOf[c] \in Callback!Events
        BY <4>1 DEF Callback!IInv, Callback!TypeOK, Callback!Numbered, Callback!Callbacks
      <4>3. ASSUME NEW d \in Callback!Callbacks, eventOf[d] = eventOf[c] PROVE d = c
        BY <1>1, <2>1, <4>1, <4>2, <4>3, EventsAssumption DEF Callback!IInv, Callback!TypeOK, Callback!Events, Callback!ReaderEvents
      <4> QED  BY <1>1, <4>1, <4>2, <4>3 DEF Callback!IInv, Callback!TypeOK, Callback!CallbacksSound
    <3> QED  BY <3>1, <3>2
  <2> QED  BY <2>1 DEF Callback!IInv, Callback!CallbacksSound
<1> QED  BY <1>3, <1>4, <1>5, <1>6 DEF Callback!IInv

\* A listener is removed, and with it the event's handler.
LEMMA CallbackRemove ==
  ASSUME Callback!IInv, NEW c \in Callback!Callbacks, Callback!RemoveEventListener(c)
  PROVE  Callback!IInv'
<1>1. /\ c \in alive /\ eventOf[c] \in ElementEvents /\ eventOf[c] \in Callback!Events
      /\ eventOf[c] \notin Callback!ReaderEvents
      /\ alive' = alive \ {c}
      /\ onEvent' = [onEvent EXCEPT ![eventOf[c]] = FALSE]
      /\ UNCHANGED <<context, eventOf, owned, reader, made, wild>>
  BY EventsAssumption
  DEF Callback!RemoveEventListener, Callback!HandlerAfterDelete, Callback!Events, Callback!ReaderEvents
<1>2. Callback!TypeOK'
  BY <1>1 DEF Callback!IInv, Callback!TypeOK
<1>3. Callback!Numbered'
  BY <1>1 DEF Callback!IInv, Callback!Numbered
<1>4. Callback!HandledByOwn'
  BY <1>1 DEF Callback!IInv, Callback!HandledByOwn, Callback!TypeOK
<1>5. Callback!CallbacksSound'
  <2>1. ASSUME NEW b \in alive',
               \A d \in Callback!Callbacks : eventOf'[d] = eventOf'[b] => d = b
        PROVE  onEvent'[eventOf'[b]] /\ context'[eventOf'[b]] = b
    <3>1. b \in alive /\ b # c /\ eventOf[b] # eventOf[c]
      BY <1>1, <2>1
    <3>2. onEvent[eventOf[b]] /\ context[eventOf[b]] = b
      BY <1>1, <2>1, <3>1 DEF Callback!IInv, Callback!CallbacksSound
    <3>3. b \in Callback!Callbacks /\ eventOf[b] \in Callback!Events
      BY <3>1 DEF Callback!IInv, Callback!TypeOK, Callback!Numbered, Callback!Callbacks
    <3> QED  BY <1>1, <3>1, <3>2, <3>3 DEF Callback!IInv, Callback!TypeOK
  <2> QED  BY <1>1, <2>1 DEF Callback!IInv, Callback!CallbacksSound
<1> QED  BY <1>2, <1>3, <1>4, <1>5 DEF Callback!IInv

\* The reader takes its callbacks with it, and their events' handlers.
LEMMA CallbackDestroy ==
  ASSUME Callback!IInv, Callback!DestroyReader
  PROVE  Callback!IInv'
<1> USE DEF Callback!None
<1>1. /\ alive' = alive \ {owned[e] : e \in Callback!ReaderEvents}
      /\ onEvent' = [e \in Callback!Events |->
           IF e \in Callback!ReaderEvents /\ owned[e] # 0 THEN FALSE ELSE onEvent[e]]
      /\ owned' = [e \in Callback!ReaderEvents |-> 0]
      /\ reader' = "destroyed"
      /\ UNCHANGED <<context, eventOf, made, wild>>
  BY DEF Callback!DestroyReader, Callback!HandlerAfterDelete
<1>2. Callback!TypeOK'
  BY <1>1 DEF Callback!IInv, Callback!TypeOK
<1>3. Callback!Numbered'
  BY <1>1 DEF Callback!IInv, Callback!Numbered
<1>4. Callback!HandledByOwn'
  <2>1. ASSUME NEW f \in Callback!Events, onEvent'[f]
        PROVE  context[f] \in alive' /\ eventOf[context[f]] = f
    <3>1. onEvent[f] /\ ~ (f \in Callback!ReaderEvents /\ owned[f] # 0)
      BY <1>1, <2>1
    <3>2. context[f] \in alive /\ eventOf[context[f]] = f /\ context[f] # 0
      BY <3>1, EventsAssumption
      DEF Callback!IInv, Callback!HandledByOwn, Callback!TypeOK, Callback!Callbacks
    <3>3. ASSUME NEW e \in Callback!ReaderEvents PROVE context[f] # owned[e]
      BY <3>1, <3>2 DEF Callback!IInv, Callback!HandledByOwn
    <3> QED  BY <1>1, <3>2, <3>3
  <2> QED  BY <1>1, <2>1 DEF Callback!HandledByOwn
<1>5. Callback!CallbacksSound'
  <2>1. ASSUME NEW b \in alive',
               \A d \in Callback!Callbacks : eventOf'[d] = eventOf'[b] => d = b
        PROVE  onEvent'[eventOf'[b]] /\ context'[eventOf'[b]] = b
    <3>1. b \in alive /\ \A e \in Callback!ReaderEvents : b # owned[e]
      BY <1>1
    <3>2. onEvent[eventOf[b]] /\ context[eventOf[b]] = b
      BY <1>1, <2>1, <3>1 DEF Callback!IInv, Callback!CallbacksSound
    <3>3. b \in Callback!Callbacks /\ eventOf[b] \in Callback!Events
      BY <3>1 DEF Callback!IInv, Callback!TypeOK, Callback!Numbered, Callback!Callbacks
    <3>4. ~ (eventOf[b] \in Callback!ReaderEvents /\ owned[eventOf[b]] # 0)
      BY <1>1, <2>1, <3>1 DEF Callback!IInv, Callback!HandledByOwn, Callback!TypeOK
    <3> QED  BY <1>1, <3>2, <3>3, <3>4
  <2> QED  BY <1>1, <2>1 DEF Callback!IInv, Callback!CallbacksSound
<1> QED  BY <1>2, <1>3, <1>4, <1>5 DEF Callback!IInv

\* Every step keeps the invariant.
LEMMA CallbackStep == Callback!IInv /\ [Callback!Next]_callbackVars => Callback!IInv'
<1> SUFFICES ASSUME Callback!IInv, [Callback!Next]_callbackVars PROVE Callback!IInv'
  OBVIOUS
<1>1. CASE \E e \in ElementEvents : Callback!AddEventListener(e)
  BY <1>1, CallbackMake DEF Callback!AddEventListener, Callback!Events, Callback!None
<1>2. CASE \E e \in Callback!ReaderEvents : Callback!SetReaderCallback(e)
  BY <1>2, CallbackMake DEF Callback!SetReaderCallback, Callback!Events
<1>3. CASE \/ Callback!ReadAsArrayBuffer \/ Callback!Rest \/ UNCHANGED callbackVars
           \/ \E e \in Callback!Events : Callback!Activate(e)
  <2>1. UNCHANGED <<context, onEvent, eventOf, alive, owned, made>>
    BY <1>3 DEF Callback!ReadAsArrayBuffer, Callback!Rest, Callback!Activate, callbackVars, Callback!vars
  <2>2. wild' = FALSE
    <3>1. CASE \E e \in Callback!Events : Callback!Activate(e)
      <4>1. PICK e \in Callback!Events : Callback!Activate(e)
        BY <3>1
      <4>2. ~ wild /\ context[e] \in alive
        BY <4>1 DEF Callback!Activate, Callback!IInv, Callback!CallbacksSound, Callback!HandledByOwn
      <4> QED  BY <4>1, <4>2, Zenon DEF Callback!Activate
    <3>2. CASE Callback!ReadAsArrayBuffer \/ Callback!Rest \/ UNCHANGED callbackVars
      BY <3>2
      DEF Callback!ReadAsArrayBuffer, Callback!Rest, callbackVars, Callback!vars,
          Callback!IInv, Callback!TypeOK, Callback!CallbacksSound
    <3> QED  BY <1>3, <3>1, <3>2
  <2>3. reader' \in {"idle", "reading", "done", "destroyed"}
    BY <1>3
    DEF Callback!ReadAsArrayBuffer, Callback!Rest, Callback!Activate, callbackVars, Callback!vars,
        Callback!IInv, Callback!TypeOK
  <2> QED
    BY <2>1, <2>2, <2>3
    DEF Callback!IInv, Callback!TypeOK, Callback!Numbered, Callback!HandledByOwn,
        Callback!CallbacksSound
<1> QED
  BY <1>1, <1>2, <1>3, CallbackRemove, CallbackDestroy
  DEF Callback!Next, Callback!Events

-----------------------------------------------------------------------------
(* MinimalUi *)

\* Nothing is pressed.
LEMMA UiStarts == Ui!Init => Ui!IInv
<1> SUFFICES ASSUME Ui!Init PROVE Ui!IInv
  OBVIOUS
<1>1. ended \in BOOLEAN
  BY Zenon DEF Ui!Init
<1> QED
  BY <1>1
  DEF Ui!Init, Ui!IInv, Ui!TypeOK, Ui!Places, Ui!NotYetActivated, Ui!OneActivationPerPress,
      Ui!NoButton

\* Every step keeps the invariant.
LEMMA UiStep == Ui!IInv /\ [Ui!Next]_uiVars => Ui!IInv'
<1> SUFFICES ASSUME Ui!IInv, [Ui!Next]_uiVars PROVE Ui!IInv'
  OBVIOUS
<1> USE DEF Ui!IInv, Ui!TypeOK, Ui!Places, Ui!NotYetActivated, Ui!OneActivationPerPress
<1>1. CASE ~ ended /\ \E m \in MouseButtons : Ui!MousePress(m)
  <2>1. CASE pointer = Ui!NoButton
    BY <1>1, <2>1 DEF Ui!MousePress
  <2>2. CASE pointer # Ui!NoButton
    <3>1. /\ pressedButton' = pointer /\ drawnPressed' = drawnPressed \cup {pointer}
          /\ activations' = 0 /\ pointer' = pointer /\ ended' = ended
          /\ held' \subseteq MouseButtons /\ pointer \in Buttons
      BY <1>1, <2>2 DEF Ui!MousePress
    <3>2. drawnPressed' \subseteq {pressedButton'} \cap {pointer'} /\ drawnPressed' \subseteq Buttons
      BY <3>1
    <3> QED  BY <3>1, <3>2
  <2> QED  BY <2>1, <2>2
<1>2. CASE ~ ended /\ \E m \in MouseButtons : Ui!MouseRelease(m)
  <2>1. CASE Ui!ReleaseReturns
    BY <1>2, <2>1 DEF Ui!MouseRelease, Ui!ReleaseReturns, Ui!ReleaseEnds, Ui!ForgetPressed
  <2>2. CASE Ui!ReleaseEnds
    <3>1. ended' \in BOOLEAN /\ ended'
      BY <2>2, Zenon DEF Ui!ReleaseEnds
    <3>2. /\ UNCHANGED <<pointer, pressedButton, drawnPressed>>
          /\ held' \subseteq MouseButtons
          /\ activations' \in {activations, activations + 1}
          /\ activations' # activations => pressedButton # Ui!NoButton
      BY <1>2, <2>2 DEF Ui!MouseRelease, Ui!ReleaseEnds
    <3>3. activations' \in Nat /\ activations' <= 1
      BY <1>2, <3>2
    <3> QED  BY <3>1, <3>2, <3>3
  <2> QED  BY <1>2, <2>1, <2>2 DEF Ui!MouseRelease
<1>3. CASE ~ ended /\ \E p \in Ui!Places : Ui!MouseMove(p)
  BY <1>3 DEF Ui!MouseMove, Ui!NoButton
<1>4. CASE Ui!Ended \/ UNCHANGED uiVars
  BY <1>4 DEF Ui!Ended, Ui!vars, uiVars
<1> QED  BY <1>1, <1>2, <1>3, <1>4 DEF Ui!Next

-----------------------------------------------------------------------------
(* SocketClient *)

\* One more member at the end of what waits.
LEMMA AppendToWaiting ==
  ASSUME NEW S, NEW r \in Seq(S), NEW b \in Seq(S), NEW m \in S
  PROVE  (r \o Append(b, m)) \o <<>> = Append(r \o b, m)
<1>1. <<m>> \in Seq(S) /\ r \o b \in Seq(S) /\ Append(b, m) \in Seq(S)
  BY ConcatProperties
<1>2. Append(r \o b, m) = (r \o b) \o <<m>>
  BY <1>1, AppendIsConcat
<1>3. (r \o b) \o <<m>> = r \o (b \o <<m>>)
  BY <1>1, ConcatAssociative
<1>4. b \o <<m>> = Append(b, m)
  BY AppendIsConcat
<1>5. (r \o Append(b, m)) \in Seq(S)
  BY <1>1, ConcatProperties
<1>6. (r \o Append(b, m)) \o <<>> = r \o Append(b, m)
  BY <1>5, ConcatEmptySeq
<1> QED  BY <1>2, <1>3, <1>4, <1>6

\* The same, when the end is not read.
LEMMA AppendKept ==
  ASSUME NEW S, NEW r \in Seq(S), NEW b \in Seq(S), NEW m \in S
  PROVE  r \o Append(b, m) = Append(r \o b, m)
<1>1. (r \o Append(b, m)) \in Seq(S)
  BY ConcatProperties, AppendProperties
<1> QED  BY <1>1, AppendToWaiting, ConcatEmptySeq

\* A function on an initial segment of the numbers is a sequence.
LEMMA FunctionIsSeq ==
  ASSUME NEW M, NEW n \in Nat, NEW f \in [1 .. n -> M]
  PROVE  f \in Seq(M) /\ Len(f) = n
OBVIOUS

\* the messages of what was read
MessagesIn(r) == [k \in DOMAIN r |-> r[k].message]

\* The messages of what was read are messages.
LEMMA MessagesOf ==
  ASSUME NEW M, NEW R, \A x \in R : x.message \in M, NEW r \in Seq(R)
  PROVE  MessagesIn(r) \in Seq(M) /\ Len(MessagesIn(r)) = Len(r)
<1> DEFINE mr == MessagesIn(r)
<1>1. DOMAIN r = 1 .. Len(r) /\ Len(r) \in Nat
  BY LenProperties
<1>2. \A k \in 1 .. Len(r) : r[k] \in R
  BY ElementOfSeq
<1>3. mr \in [1 .. Len(r) -> M]
  BY <1>1, <1>2 DEF MessagesIn
<1> HIDE DEF mr
<1>4. mr \in Seq(M) /\ Len(mr) = Len(r)
  BY <1>1, <1>3, FunctionIsSeq
<1> QED  BY <1>4 DEF mr

\* b, with the messages a, is read after r, which makes r2
ReadNext(M, R, r, b, a, r2) ==
  /\ \A x \in R : x.message \in M
  /\ r \in Seq(R) /\ b \in Seq(R) /\ a \in Seq(M)
  /\ Len(b) = Len(a) /\ \A j \in 1 .. Len(a) : b[j].message = a[j]
  /\ r2 = r \o b

\* what was read is kept, and the messages that are read come after its messages
AllRead(R, r, b, a, r2) ==
  /\ r2 \in Seq(R)
  /\ MessagesIn(r2) = MessagesIn(r) \o a
  /\ \A k \in DOMAIN r2 : \/ k \in DOMAIN r /\ r2[k] = r[k]
                          \/ \E j \in 1 .. Len(a) : r2[k] = b[j]

\* What is read next comes after what was read.
LEMMA MessagesRead ==
  ASSUME NEW M, NEW R, NEW r, NEW b, NEW a, NEW r2, ReadNext(M, R, r, b, a, r2)
  PROVE  AllRead(R, r, b, a, r2)
<1>0. /\ \A x \in R : x.message \in M
      /\ r \in Seq(R) /\ b \in Seq(R) /\ a \in Seq(M)
      /\ Len(b) = Len(a) /\ \A j \in 1 .. Len(a) : b[j].message = a[j]
      /\ r2 = r \o b
  BY DEF ReadNext
<1> DEFINE mr == MessagesIn(r)
           mr2 == MessagesIn(r2)
           both == Len(r) + Len(a)
<1>1. /\ Len(a) \in Nat /\ DOMAIN r = 1 .. Len(r) /\ Len(r) \in Nat
      /\ both \in Nat
  BY <1>0, LenProperties
<1>3. mr \in Seq(M) /\ Len(mr) = Len(r)
  BY <1>0, MessagesOf, Zenon
<1>4. /\ r2 \in Seq(R)
      /\ Len(r2) = both
      /\ \A k \in 1 .. both :
           r2[k] = IF k <= Len(r) THEN r[k] ELSE b[k - Len(r)]
  <2>1. /\ r \o b \in Seq(R)
        /\ Len(r \o b) = Len(r) + Len(b)
        /\ \A k \in 1 .. Len(r) + Len(b) : (r \o b)[k] = IF k <= Len(r) THEN r[k] ELSE b[k - Len(r)]
    <3>1. r \in Seq(R) /\ b \in Seq(R)
      BY <1>0
    <3> QED  BY <3>1, ConcatProperties, Zenon
  <2> QED  BY <1>0, <2>1
<1>5. DOMAIN r2 = 1 .. both
  <2> QED  BY <1>4, LenProperties
<1>6. /\ mr \o a \in Seq(M)
      /\ Len(mr \o a) = both
      /\ \A k \in 1 .. both :
           (mr \o a)[k] = IF k <= Len(r) THEN mr[k] ELSE a[k - Len(r)]
  <2> HIDE DEF mr
  <2>1. /\ mr \o a \in Seq(M)
        /\ Len(mr \o a) = Len(mr) + Len(a)
        /\ \A k \in 1 .. Len(mr) + Len(a) :
             (mr \o a)[k] = IF k <= Len(mr) THEN mr[k] ELSE a[k - Len(mr)]
    BY <1>0, <1>3, ConcatProperties
  <2> QED  BY <1>3, <2>1
<1>7. mr2 \in Seq(M) /\ Len(mr2) = both
  <2> QED  BY <1>0, <1>4, MessagesOf, Zenon
<1>8. ASSUME NEW k \in 1 .. both
      PROVE  mr2[k] = (mr \o a)[k]
  <2>1. mr2[k] = r2[k].message
    BY <1>5 DEF MessagesIn
  <2>2. CASE k <= Len(r)
    BY <1>0, <1>1, <1>4, <1>6, <2>1, <2>2 DEF MessagesIn
  <2>3. CASE ~ (k <= Len(r))
    <3>1. k - Len(r) \in 1 .. Len(a)
      BY <1>1, <2>3
    <3> QED  BY <1>0, <1>1, <1>4, <1>6, <2>1, <2>3, <3>1
  <2> QED  BY <2>2, <2>3
<1>9. mr2 = mr \o a
  <2> HIDE DEF mr2, mr, both
  <2> QED  BY <1>6, <1>7, <1>8, SeqEqual
<1>10. ASSUME NEW k \in DOMAIN r2
       PROVE  \/ k \in DOMAIN r /\ r2[k] = r[k]
              \/ \E j \in 1 .. Len(a) : r2[k] = b[j]
  <2>1. CASE k <= Len(r)
    BY <1>0, <1>1, <1>4, <1>5, <2>1
  <2>2. CASE ~ (k <= Len(r))
    <3>1. k - Len(r) \in 1 .. Len(a)
      BY <1>1, <1>5, <2>2
    <3> QED  BY <1>0, <1>1, <1>4, <1>5, <2>2, <3>1
  <2> QED  BY <2>1, <2>2
<1> QED  BY <1>4, <1>9, <1>10 DEF AllRead

\* Nothing was sent.
LEMMA ClientStarts == Client!Init => Client!IInv
<1> SUFFICES ASSUME Client!Init PROVE Client!IInv
  OBVIOUS
<1>1. /\ <<>> \in Seq(Client!Messages)
      /\ <<>> \in Seq([message : Client!Messages, session : Client!Sessions])
      /\ <<>> \o <<>> = <<>>
  BY ConcatEmptySeq
<1>2. deviceOpen \in BOOLEAN /\ ~ deviceOpen /\ pingEnabled \in BOOLEAN
  BY Zenon DEF Client!Init
<1>3. [k \in DOMAIN <<>> |-> read[k].message] = <<>> /\ DOMAIN <<>> = {}
  OBVIOUS
<1>4. Client!TypeOK
  BY <1>1, <1>2, EventsAssumption DEF Client!Init, Client!TypeOK
<1>5. Client!StreamKept
  BY <1>1, <1>3 DEF Client!Init, Client!StreamKept
<1> QED  BY <1>2, <1>4, <1>5 DEF Client!Init, Client!IInv

\* A message comes in: it is read after what waits, or waits itself.
LEMMA ClientHandles ==
  ASSUME Client!IInv, Client!HandleBinaryMessage
  PROVE  Client!IInv'
<1> DEFINE M == Client!Messages
           m == Head(sent)
           all == Append(buffer, m)
           R == [message : M, session : Client!Sessions]
<1>1. /\ sent \in Seq(M) /\ sent # <<>> /\ buffer \in Seq(M) /\ arrived \in Seq(M)
      /\ read \in Seq(R) /\ session \in 0 .. MaxSessions
      /\ stray \subseteq M /\ sent' = Tail(sent) /\ arrived' = Append(arrived, m)
      /\ UNCHANGED <<buttonText, pingEnabled, pings, deviceOpen, socket, mqtt, session, sentCount>>
  BY DEF Client!HandleBinaryMessage, Client!IInv, Client!TypeOK, Client!window
<1>2. /\ m \in M /\ m = sent[1] /\ m[1] = session /\ session > 0 /\ session \in Client!Sessions
      /\ sent' \in Seq(M) /\ \A k \in 1 .. Len(sent') : sent'[k][1] = session
  <2>1. 1 \in 1 .. Len(sent) /\ m = sent[1] /\ m \in M
    BY <1>1
  <2>2. m[1] = session
    BY <2>1 DEF Client!IInv
  <2>3. /\ sent' \in Seq(M) /\ Len(sent') = Len(sent) - 1 /\ Len(sent) \in Nat
        /\ \A k \in 1 .. Len(sent') : sent'[k] = sent[k + 1]
    BY <1>1
  <2>4. \A k \in 1 .. Len(sent') : sent'[k][1] = session
    <3> SUFFICES ASSUME NEW k \in 1 .. Len(sent') PROVE sent'[k][1] = session
      OBVIOUS
    <3>1. k + 1 \in 1 .. Len(sent)
      BY <2>3
    <3> QED  BY <2>3, <3>1 DEF Client!IInv
  <2>5. session > 0
    BY DEF Client!HandleBinaryMessage, Client!IInv
  <2>6. session \in Client!Sessions
    BY <1>1, <2>5, EventsAssumption DEF Client!Sessions
  <2> QED  BY <2>1, <2>2, <2>3, <2>4, <2>5, <2>6
<1>3. /\ [k \in DOMAIN read |-> read[k].message] \o buffer = arrived
      /\ \A k \in DOMAIN read : read[k].message[1] # read[k].session => read[k].message \in stray
      /\ \A k \in 1 .. Len(buffer) : buffer[k] \in stray
  BY DEF Client!IInv, Client!StreamKept
<1>4. /\ all \in Seq(M) /\ Len(all) = Len(buffer) + 1 /\ Len(buffer) \in Nat
      /\ \A k \in 1 .. Len(all) : all[k] = m \/ \E j \in 1 .. Len(buffer) : all[k] = buffer[j]
  <2>1. /\ all \in Seq(M) /\ Len(all) = Len(buffer) + 1 /\ Len(buffer) \in Nat
        /\ \A k \in 1 .. Len(buffer) : all[k] = buffer[k]
        /\ all[Len(buffer) + 1] = m
    BY <1>1, <1>2, AppendProperties
  <2> QED  BY <2>1
<1> DEFINE mr == MessagesIn(read)
<1>5. mr \in Seq(M) /\ mr \o buffer = arrived
  <2>1. \A x \in R : x.message \in M
    OBVIOUS
  <2>2. mr \in Seq(M)
    <3> HIDE DEF R, M
    <3> QED  BY <1>1, <2>1, MessagesOf, Zenon
  <2> QED  BY <1>3, <2>2 DEF MessagesIn
<1>6. CASE deviceOpen
  <2>1. /\ read' = read \o [k \in DOMAIN all |-> [message |-> all[k], session |-> session]]
        /\ buffer' = SubSeq(all, Len(all) + 1, Len(all))
        /\ stray' = stray
    BY <1>6 DEF Client!HandleBinaryMessage, Client!Remaining
  <2>2. buffer' = <<>>
    BY <1>4, <2>1, SubSeqEmpty
  <2>3. /\ read' \in Seq(R)
        /\ MessagesIn(read') = mr \o all
        /\ \A k \in DOMAIN read' :
             \/ k \in DOMAIN read /\ read'[k] = read[k]
             \/ \E j \in DOMAIN all : read'[k] = [message |-> all[j], session |-> session]
    <3> DEFINE b == [k \in DOMAIN all |-> [message |-> all[k], session |-> session]]
    <3>1. DOMAIN all = 1 .. Len(all) /\ \A k \in 1 .. Len(all) : all[k] \in M
      <4> HIDE DEF all, M
      <4> QED  BY <1>4, LenProperties, ElementOfSeq
    <3>2. /\ b \in [1 .. Len(all) -> R]
          /\ \A k \in 1 .. Len(all) : b[k] = [message |-> all[k], session |-> session]
          /\ \A x \in R : x.message \in M
      <4> HIDE DEF all, M
      <4> QED  BY <1>2, <3>1
    <3>3. Len(all) \in Nat /\ read' = read \o b
      BY <1>4, <2>1
    <3> HIDE DEF b, all, R, M
    <3>4. b \in Seq(R) /\ Len(b) = Len(all)
      BY <3>2, <3>3, FunctionIsSeq
    <3>5. \A k \in 1 .. Len(all) : b[k].message = all[k]
      BY <3>2
    <3>6. ReadNext(M, R, read, b, all, read')
      BY <1>1, <1>4, <3>2, <3>3, <3>4, <3>5 DEF ReadNext
    <3>7. AllRead(R, read, b, all, read')
      BY <3>6, MessagesRead, Zenon
    <3>8. ASSUME NEW k \in DOMAIN read'
          PROVE  \/ k \in DOMAIN read /\ read'[k] = read[k]
                 \/ \E j \in DOMAIN all : read'[k] = [message |-> all[j], session |-> session]
      BY <3>1, <3>2, <3>7 DEF AllRead
    <3> QED  BY <3>7, <3>8 DEF AllRead
  <2>4. (mr \o all) \o <<>> = Append(arrived, m)
    <3>1. mr \in Seq(M) /\ buffer \in Seq(M) /\ m \in M
      BY <1>1, <1>2, <1>5
    <3> HIDE DEF mr, m, M
    <3>2. (mr \o Append(buffer, m)) \o <<>> = Append(mr \o buffer, m)
      BY <3>1, AppendToWaiting, Zenon
    <3> QED  BY <1>5, <3>2
  <2>5. [k \in DOMAIN read' |-> read'[k].message] \o buffer' = arrived'
    BY <1>1, <2>2, <2>3, <2>4 DEF MessagesIn
  <2>6. ASSUME NEW k \in DOMAIN read', read'[k].message[1] # read'[k].session
        PROVE  read'[k].message \in stray'
    <3>1. CASE k \in DOMAIN read /\ read'[k] = read[k]
      BY <1>3, <2>1, <2>6, <3>1
    <3>2. CASE \E j \in DOMAIN all : read'[k] = [message |-> all[j], session |-> session]
      <4>1. PICK j \in 1 .. Len(all) : read'[k] = [message |-> all[j], session |-> session]
        <5> HIDE DEF all
        <5> QED  BY <1>4, <3>2, LenProperties
      <4>2. all[j] # m
        BY <1>2, <2>6, <4>1
      <4> HIDE DEF all
      <4>3. \E i \in 1 .. Len(buffer) : all[j] = buffer[i]
        BY <1>4, <4>2, Zenon
      <4>4. read'[k].message = all[j]
        BY <4>1
      <4> QED  BY <1>3, <2>1, <4>3, <4>4
    <3> QED  BY <2>3, <3>1, <3>2
  <2>7. <<>> \in Seq(M) /\ Len(<<>>) = 0
    OBVIOUS
  <2>8. Client!TypeOK'
    BY <1>1, <1>2, <1>6, <2>1, <2>2, <2>3, <2>7 DEF Client!IInv, Client!TypeOK
  <2>9. Client!StreamKept'
    BY <2>5, <2>6 DEF Client!StreamKept
  <2> QED  BY <1>1, <1>2, <2>2, <2>7, <2>8, <2>9 DEF Client!IInv
<1>7. CASE ~ deviceOpen
  <2>1. buffer' = all /\ stray' = stray \cup {m} /\ read' = read
    BY <1>7 DEF Client!HandleBinaryMessage
  <2>2. mr \o all = Append(arrived, m)
    <3>1. mr \in Seq(M) /\ buffer \in Seq(M) /\ m \in M
      BY <1>1, <1>2, <1>5
    <3> HIDE DEF mr, m, M
    <3>2. mr \o Append(buffer, m) = Append(mr \o buffer, m)
      BY <3>1, AppendKept
    <3> QED  BY <1>5, <3>2
  <2>3. Client!TypeOK'
    <3>1. stray' \subseteq M
      BY <1>1, <1>2, <2>1
    <3>2. arrived' \in Seq(M)
      BY <1>1, <1>2
    <3> QED  BY <1>1, <1>2, <1>4, <2>1, <3>1, <3>2 DEF Client!IInv, Client!TypeOK
  <2>4. Client!StreamKept'
    BY <1>1, <1>3, <2>1, <2>2 DEF Client!StreamKept, MessagesIn
  <2>5. \A k \in 1 .. Len(buffer') : buffer'[k] \in stray'
    BY <1>3, <1>4, <2>1
  <2> QED  BY <1>1, <1>2, <2>3, <2>4, <2>5 DEF Client!IInv
<1> QED  BY <1>6, <1>7

\* The broker sends a message, of this session.
LEMMA ClientSends ==
  ASSUME Client!IInv, Client!BrokerSends
  PROVE  Client!IInv'
<1> DEFINE m == <<session, sentCount + 1>>
<1>1. /\ session \in Client!Sessions /\ sentCount + 1 \in 1 .. MaxMessages
      /\ sentCount + 1 \in 0 .. MaxMessages
  BY EventsAssumption DEF Client!BrokerSends, Client!IInv, Client!TypeOK, Client!Sessions
<1>2. m \in Client!Messages /\ m[1] = session
  BY <1>1 DEF Client!Messages
<1>3. sent' = Append(sent, m) /\ sentCount' = sentCount + 1 /\ sent \in Seq(Client!Messages)
      /\ UNCHANGED <<buttonText, pingEnabled, pings, deviceOpen, socket, mqtt, session, buffer, arrived, read, stray>>
  BY DEF Client!BrokerSends, Client!window, Client!stream, Client!IInv, Client!TypeOK
<1>4. /\ sent' \in Seq(Client!Messages)
      /\ \A k \in 1 .. Len(sent') : sent'[k] = m \/ (k \in 1 .. Len(sent) /\ sent'[k] = sent[k])
  <2>1. /\ Append(sent, m) \in Seq(Client!Messages) /\ Len(Append(sent, m)) = Len(sent) + 1
        /\ Len(sent) \in Nat
        /\ \A k \in 1 .. Len(sent) : Append(sent, m)[k] = sent[k]
        /\ Append(sent, m)[Len(sent) + 1] = m
    BY <1>2, <1>3, AppendProperties
  <2>2. Len(sent') = Len(sent) + 1 /\ sent' \in Seq(Client!Messages)
    BY <1>3, <2>1
  <2>3. ASSUME NEW k \in 1 .. Len(sent'), k # Len(sent) + 1 PROVE k \in 1 .. Len(sent)
    BY <2>1, <2>2, <2>3
  <2>4. \A k \in 1 .. Len(sent') : sent'[k] = m \/ (k \in 1 .. Len(sent) /\ sent'[k] = sent[k])
    <3> SUFFICES ASSUME NEW k \in 1 .. Len(sent')
                 PROVE  sent'[k] = m \/ (k \in 1 .. Len(sent) /\ sent'[k] = sent[k])
      OBVIOUS
    <3> HIDE DEF m
    <3>1. CASE k = Len(sent) + 1
      <4>1. sent'[k] = Append(sent, m)[Len(sent) + 1]
        BY <1>3, <3>1, Zenon
      <4> QED  BY <2>1, <4>1
    <3>2. CASE k # Len(sent) + 1
      BY <1>3, <2>1, <2>3, <3>2
    <3> QED  BY <3>1, <3>2
  <2> QED  BY <2>2, <2>4
<1>5. Client!TypeOK' /\ Client!StreamKept'
  BY <1>1, <1>3, <1>4 DEF Client!IInv, Client!TypeOK, Client!StreamKept
<1>6. \A k \in 1 .. Len(sent') : sent'[k][1] = session'
  BY <1>2, <1>3, <1>4 DEF Client!IInv
<1> QED  BY <1>3, <1>5, <1>6 DEF Client!IInv

\* Every step keeps the invariant.
LEMMA ClientStep == Client!IInv /\ [Client!Next]_clientVars => Client!IInv'
<1> SUFFICES ASSUME Client!IInv, [Client!Next]_clientVars PROVE Client!IInv'
  OBVIOUS
<1>1. CASE \/ Client!DisconnectClicked \/ Client!PingClicked \/ Client!PingResponse
           \/ Client!OnSocketConnected \/ Client!BrokerAccepts \/ Client!BrokerDisconnected
           \/ Client!SocketClosed \/ Client!Rest \/ UNCHANGED clientVars
  <2> USE DEF Client!DisconnectClicked, Client!PingClicked, Client!PingResponse,
         Client!OnSocketConnected, Client!BrokerAccepts, Client!BrokerDisconnected,
         Client!SocketClosed, Client!Rest, clientVars, Client!vars, Client!window, Client!stream
  <2>1. UNCHANGED <<buffer, arrived, read, stray, session, sent, sentCount>>
    BY <1>1
  <2>2. deviceOpen' \in BOOLEAN /\ (deviceOpen' => deviceOpen) /\ pingEnabled' \in BOOLEAN
    <3>1. deviceOpen \in BOOLEAN /\ pingEnabled \in BOOLEAN
      BY DEF Client!IInv, Client!TypeOK
    <3>2. CASE deviceOpen' = deviceOpen
      <4>1. pingEnabled' = pingEnabled \/ pingEnabled' = FALSE \/ pingEnabled' = TRUE
        BY <1>1
      <4>2. pingEnabled' \in BOOLEAN
        BY <3>1, <4>1, Zenon
      <4> QED  BY <3>1, <3>2, <4>2
    <3>3. CASE deviceOpen' # deviceOpen
      <4>1. Client!DisconnectClicked
        BY <1>1, <3>3
      <4>2. ~ deviceOpen' /\ deviceOpen' \in BOOLEAN
        BY <4>1, Zenon DEF Client!DisconnectClicked
      <4>3. pingEnabled' = pingEnabled
        BY <4>1
      <4> QED  BY <3>1, <4>2, <4>3
    <3> QED  BY <3>2, <3>3
  <2>3. /\ socket' \in {"closed", "connecting", "open", "closing"}
        /\ socket' # "closed" => socket # "closed"
    BY <1>1 DEF Client!IInv, Client!TypeOK
  <2>4. /\ buttonText' \in {"Connect", "Disconnect"} /\ pings' \in 0 .. 1
        /\ mqtt' \in {"Disconnected", "Connecting", "Connected"}
    BY <1>1 DEF Client!IInv, Client!TypeOK
  <2> QED
    BY <2>1, <2>2, <2>3, <2>4 DEF Client!IInv, Client!TypeOK, Client!StreamKept
<1>2. CASE Client!ConnectClicked
  <2>1. deviceOpen' \in BOOLEAN /\ session' > 0 /\ session' \in 0 .. MaxSessions
    <3>1. deviceOpen' \in BOOLEAN
      BY <1>2, Zenon DEF Client!ConnectClicked
    <3> QED
      BY <1>2, <3>1, EventsAssumption DEF Client!ConnectClicked, Client!IInv, Client!TypeOK
  <2>2. sent' \in Seq(Client!Messages) /\ 1 .. Len(sent') = {}
    BY <1>2 DEF Client!ConnectClicked
  <2>3. /\ UNCHANGED <<pingEnabled, mqtt, buffer, arrived, read, stray>>
        /\ buttonText' = "Disconnect" /\ socket' = "connecting" /\ pings' = 0 /\ sentCount' = 0
    BY <1>2 DEF Client!ConnectClicked, Client!stream
  <2>4. Client!TypeOK'
    BY <2>1, <2>2, <2>3, EventsAssumption DEF Client!IInv, Client!TypeOK
  <2>5. Client!StreamKept' /\ \A k \in 1 .. Len(buffer') : buffer'[k] \in stray'
    BY <2>3 DEF Client!IInv, Client!StreamKept
  <2>6. \A k \in 1 .. Len(sent') : sent'[k][1] = session'
    BY <2>2
  <2> QED  BY <2>1, <2>4, <2>5, <2>6 DEF Client!IInv
<1> QED  BY <1>1, <1>2, ClientHandles, ClientSends DEF Client!Next

\* The messages that were read come before those that wait, and are what came in.
LEMMA ClientKept == Client!IInv => Client!StreamKept
BY DEF Client!IInv

-----------------------------------------------------------------------------
(* HarnessLoops *)

\* No loop runs, and none was made.
LEMMA LoopsStart == Loops!LoopsInit => Loops!LoopsIInv
<1> SUFFICES ASSUME Loops!LoopsInit PROVE Loops!LoopsIInv
  OBVIOUS
<1>1. appQuits \in BOOLEAN /\ ~ appQuits /\ quitNow = FALSE
  BY Zenon DEF Loops!LoopsInit
<1>2. <<>> \in Seq(Nat) /\ loops = <<>> /\ stacked = <<>> /\ loopCalls = 0 /\ ticking = {}
  BY DEF Loops!LoopsInit
<1> QED  BY <1>1, <1>2 DEF Loops!LoopsIInv, Loops!LoopsSound

\* Of a sequence with a member, all but the last are left, whichever way that is said.
LEMMA AllButLast ==
  ASSUME NEW s \in Seq(Nat), s # <<>>
  PROVE  /\ Loops!RemoveAt(s, Len(s)) = Loops!Front(s)
         /\ Loops!Front(s) \in Seq(Nat)
         /\ Len(s) \in 1 .. Len(s)
<1>1. Len(s) \in Nat /\ Len(s) \in 1 .. Len(s)
  BY EmptySeq, LenProperties
<1>2. SubSeq(s, Len(s) + 1, Len(s)) = <<>>
  BY <1>1, SubSeqEmpty
<1>3. SubSeq(s, 1, Len(s) - 1) \in Seq(Nat)
  BY <1>1, SubSeqProperties, ElementOfSeq
<1>4. SubSeq(s, 1, Len(s) - 1) \o <<>> = SubSeq(s, 1, Len(s) - 1)
  BY <1>3, ConcatEmptySeq
<1> QED  BY <1>1, <1>2, <1>3, <1>4 DEF Loops!RemoveAt, Loops!Front

\* The last of the loops above app.exec() is the last of all.
LEMMA LastAboveApp ==
  ASSUME NEW s \in Seq(Nat), s # <<>>
  PROVE  /\ <<0>> \o s # <<>>
         /\ Loops!Last(<<0>> \o s) = s[Len(s)]
         /\ Loops!Front(<<0>> \o s) = <<0>> \o Loops!Front(s)
<1>1. Len(s) \in Nat /\ Len(s) \in 1 .. Len(s) /\ <<0>> \in Seq(Nat) /\ Len(<<0>>) = 1
  BY EmptySeq, LenProperties
<1> DEFINE a == <<0>> \o s
<1>2. /\ a \in Seq(Nat) /\ Len(a) = 1 + Len(s)
      /\ \A i \in 1 .. 1 + Len(s) : a[i] = IF i <= 1 THEN <<0>>[i] ELSE s[i - 1]
  BY <1>1, ConcatProperties
<1> HIDE DEF a
<1>3. a # <<>> /\ a[Len(a)] = s[Len(s)]
  BY <1>1, <1>2, EmptySeq
<1> DEFINE f == SubSeq(s, 1, Len(s) - 1)
           g == SubSeq(a, 1, Len(a) - 1)
<1>4. /\ f \in Seq(Nat) /\ Len(f) = Len(s) - 1
      /\ \A i \in 1 .. Len(s) - 1 : f[i] = s[i]
  <2>1. \A i \in 1 .. Len(s) - 1 : s[i] \in Nat
    BY <1>1, ElementOfSeq
  <2> DEFINE n == Len(s) - 1
  <2>2. n \in Int /\ n >= 0 /\ Len(s) = n + 1
    BY <1>1
  <2>3. \A i \in 1 .. n : s[i] \in Nat
    BY <2>1
  <2> HIDE DEF n
  <2>4. /\ SubSeq(s, 1, n) \in Seq(Nat) /\ Len(SubSeq(s, 1, n)) = n
        /\ \A i \in 1 .. n : SubSeq(s, 1, n)[i] = s[i]
    BY <2>2, <2>3, SubSeqProperties
  <2> QED  BY <2>2, <2>4 DEF n
<1>5. /\ g \in Seq(Nat) /\ Len(g) = Len(s)
      /\ \A i \in 1 .. Len(s) : g[i] = a[i]
  <2>1. \A i \in 1 .. Len(s) : a[i] \in Nat
    BY <1>1, <1>2, ElementOfSeq
  <2>2. Len(a) - 1 = Len(s)
    BY <1>1, <1>2
  <2> QED  BY <1>1, <2>1, <2>2, SubSeqProperties
<1> HIDE DEF f, g
<1> DEFINE h == <<0>> \o f
<1>6. /\ h \in Seq(Nat) /\ Len(h) = Len(s)
      /\ \A i \in 1 .. Len(s) : h[i] = IF i <= 1 THEN <<0>>[i] ELSE f[i - 1]
  BY <1>1, <1>4, ConcatProperties
<1> HIDE DEF h
<1>7. \A i \in 1 .. Len(s) : g[i] = h[i]
  <2> SUFFICES ASSUME NEW i \in 1 .. Len(s) PROVE g[i] = h[i]
    OBVIOUS
  <2>1. g[i] = a[i] /\ i \in 1 .. 1 + Len(s)
    BY <1>1, <1>5
  <2>2. CASE i <= 1
    BY <1>2, <1>6, <2>1, <2>2
  <2>3. CASE ~ (i <= 1)
    <3>1. i - 1 \in 1 .. Len(s) - 1
      BY <1>1, <2>3
    <3>2. h[i] = f[i - 1] /\ a[i] = s[i - 1] /\ f[i - 1] = s[i - 1]
      BY <1>2, <1>4, <1>6, <2>1, <2>3, <3>1
    <3> QED  BY <2>1, <3>2
  <2> QED  BY <2>2, <2>3
<1>8. g = h
  BY <1>5, <1>6, <1>7, SeqEqual
<1> QED  BY <1>3, <1>8 DEF a, f, g, h, Loops!Last, Loops!Front

\* Every step keeps the invariant.
LEMMA LoopsStep == Loops!LoopsIInv /\ [Loops!LoopsNext]_loopVars => Loops!LoopsIInv'
<1> SUFFICES ASSUME Loops!LoopsIInv, [Loops!LoopsNext]_loopVars PROVE Loops!LoopsIInv'
  OBVIOUS
<1> USE DEF Loops!LoopsIInv, Loops!LoopsSound, Loops!App
<1>1. CASE \E onMainThread \in BOOLEAN : Loops!RegisterTimer(onMainThread)
  BY <1>1 DEF Loops!RegisterTimer, Loops!Counts
<1>2. CASE Loops!ClearTimers
  <2>1. ticking' = {}
    BY <1>2 DEF Loops!ClearTimers, Loops!AllStopped
  <2> QED  BY <1>2, <2>1 DEF Loops!ClearTimers
<1>3. CASE Loops!AppExec
  <2>1. loops' = <<0>> /\ loops = <<>> /\ <<0>> \in Seq(Nat)
    BY <1>3 DEF Loops!AppExec
  <2>2. quitNow' = FALSE
    BY <1>3 DEF Loops!AppExec
  <2>3. ~ appQuits => stacked = <<>>
    <3>1. <<0>> \in Seq(Nat) /\ Len(<<0>>) = 1
      OBVIOUS
    <3>2. Len(<<0>> \o stacked) = 1 + Len(stacked) /\ Len(stacked) \in Nat /\ Len(<<>>) = 0
      BY <3>1, ConcatProperties, LenProperties
    <3>3. <<0>> \o stacked # <<>>
      BY <3>2
    <3> QED  BY <2>1, <3>3
  <2>4. <<0>> \o <<>> = <<0>>
    BY <2>1, ConcatEmptySeq
  <2> QED  BY <1>3, <2>1, <2>2, <2>3, <2>4 DEF Loops!AppExec
<1>4. CASE Loops!AppQuit
  <2>1. appQuits' \in BOOLEAN /\ appQuits'
    BY <1>4, Zenon DEF Loops!AppQuit
  <2>2. loops' \in Seq(Nat)
    BY <1>4 DEF Loops!AppQuit
  <2> QED  BY <1>4, <2>1, <2>2 DEF Loops!AppQuit
<1>5. CASE Loops!EventLoopExec
  <2>1. /\ loopCalls' = loopCalls + 1 /\ loopCalls' \in Nat
        /\ stacked' = Append(stacked, loopCalls') /\ stacked' \in Seq(Nat)
        /\ UNCHANGED <<quitNow, appQuits, timers, ticking>>
    BY <1>5 DEF Loops!EventLoopExec, Loops!Counts
  <2>2. loops' \in Seq(Nat)
    BY <1>5, <2>1 DEF Loops!EventLoopExec
  <2>3. ASSUME ~ appQuits PROVE loops' \in {stacked', <<0>> \o stacked'}
    <3>1. loops' = Append(loops, loopCalls')
      BY <1>5, <2>3 DEF Loops!EventLoopExec
    <3>2. <<0>> \in Seq(Nat)
      OBVIOUS
    <3>3. <<0>> \o Append(stacked, loopCalls') = Append(<<0>> \o stacked, loopCalls')
      BY <2>1, <3>2, AppendKept, SMTT(30)
    <3> QED  BY <2>1, <2>3, <3>1, <3>3
  <2> QED  BY <2>1, <2>2, <2>3
<1>6. CASE Loops!EventLoopQuit
  <2>1. /\ stacked # <<>> /\ stacked \in Seq(Nat)
        /\ stacked' = Loops!RemoveAt(stacked, Len(stacked))
        /\ loops' = IF loops # <<>> /\ Loops!Last(loops) = stacked[Len(stacked)]
                      THEN Loops!Front(loops) ELSE loops
        /\ UNCHANGED <<quitNow, appQuits, timers, ticking, loopCalls>>
    BY <1>6 DEF Loops!EventLoopQuit, Loops!NewestQuits
  <2>2. stacked' = Loops!Front(stacked) /\ stacked' \in Seq(Nat)
    BY <2>1, AllButLast, Zenon
  <2>3. loops' \in Seq(Nat)
    <3>1. CASE loops = <<>>
      BY <2>1, <3>1
    <3>2. CASE loops # <<>>
      <4>1. Loops!Front(loops) \in Seq(Nat)
        BY <3>2, AllButLast
      <4> QED  BY <2>1, <4>1
    <3> QED  BY <3>1, <3>2
  <2>4. ASSUME ~ appQuits PROVE loops' \in {stacked', <<0>> \o stacked'}
    <3>1. CASE loops = stacked
      BY <2>1, <2>2, <3>1 DEF Loops!Last
    <3>2. CASE loops = <<0>> \o stacked
      <4>1. /\ loops # <<>> /\ Loops!Last(loops) = stacked[Len(stacked)]
            /\ Loops!Front(loops) = <<0>> \o Loops!Front(stacked)
        BY <2>1, <3>2, LastAboveApp, Zenon
      <4> QED  BY <2>1, <2>2, <4>1
    <3> QED  BY <2>4, <3>1, <3>2
  <2> QED  BY <2>1, <2>2, <2>3, <2>4
<1>7. CASE UNCHANGED loopVars
  BY <1>7 DEF loopVars
<1> QED  BY <1>1, <1>2, <1>3, <1>4, <1>5, <1>6, <1>7 DEF Loops!LoopsNext

-----------------------------------------------------------------------------
(* StandardDialogs *)

\* What an answer may be: not nothing, where nothing is not an answer.
LEMMA AnswersMade ==
  ASSUME NEW kind \in Dialogs!Kinds, NEW answer \in Dialogs!Answers(kind)
  PROVE  /\ kind \in Dialogs!Inputs \cup Dialogs!Messages \cup {"font", "error"} => answer # <<>>
         /\ kind \in Dialogs!Files \ {"openFileNames"} =>
              answer = <<>> \/ \E n \in Names : answer = <<n>>
         /\ kind = "openFileNames" => answer = <<>> \/ answer # <<>>
<1>1. CASE kind \in Dialogs!Messages
  <2>1. Dialogs!Answers(kind) = {<<b>> : b \in Dialogs!Range(Dialogs!MessageButtons(kind))}
    BY <1>1 DEF Dialogs!Answers, Dialogs!Inputs, Dialogs!Messages
  <2>2. answer # <<>>
    BY <2>1
  <2> QED  BY <1>1, <2>2 DEF Dialogs!Messages, Dialogs!Files
<1>2. CASE kind \in Dialogs!Inputs \cup {"font", "error"}
  <2>1. Dialogs!Answers(kind) = {<<n>> : n \in Names}
    BY <1>2 DEF Dialogs!Answers, Dialogs!Inputs, Dialogs!Messages
  <2>2. answer # <<>>
    BY <2>1
  <2> QED  BY <1>2, <2>2 DEF Dialogs!Inputs, Dialogs!Files
<1>3. CASE kind \in (Dialogs!Files \ {"openFileNames"}) \cup Dialogs!Texts \cup {"color"}
  <2>1. Dialogs!Answers(kind) = {<<>>} \cup {<<n>> : n \in Names}
    BY <1>3
    DEF Dialogs!Answers, Dialogs!Inputs, Dialogs!Messages, Dialogs!Files, Dialogs!Texts,
        Dialogs!Nothing
  <2> QED
    BY <1>3, <2>1 DEF Dialogs!Inputs, Dialogs!Messages, Dialogs!Files, Dialogs!Texts
<1>4. CASE kind = "openFileNames"
  BY <1>4 DEF Dialogs!Inputs, Dialogs!Messages, Dialogs!Files, Dialogs!Texts
<1> QED  BY <1>1, <1>2, <1>3, <1>4 DEF Dialogs!Kinds

\* An answer is accepted if it is one.
LEMMA AnswersAccepted ==
  ASSUME NEW kind \in Dialogs!Kinds, NEW answer \in Dialogs!Answers(kind)
  PROVE  Dialogs!Accepts(kind, TRUE, answer) <=> answer # <<>>
BY AnswersMade
DEF Dialogs!Accepts, Dialogs!Kinds, Dialogs!Inputs, Dialogs!Messages, Dialogs!Files,
    Dialogs!Texts, Dialogs!Nothing

\* No dialog was answered.
LEMMA DialogsStart == Dialogs!DialogsInit => Dialogs!DialogsIInv
<1> SUFFICES ASSUME Dialogs!DialogsInit PROVE Dialogs!DialogsIInv
  OBVIOUS
<1>1. /\ labels = [k \in Dialogs!Kinds |-> <<>>] /\ accepted = labels /\ openFilesPath = <<>>
      /\ dialog = Dialogs!NoDialog
  BY DEF Dialogs!DialogsInit, Dialogs!Nothing
<1>2. \A k \in Dialogs!Files : k \in Dialogs!Kinds
  BY DEF Dialogs!Kinds
<1>3. \A k \in Dialogs!Files : Dialogs!Start(k) = <<>>
  BY <1>1, <1>2 DEF Dialogs!Start, Dialogs!Files
<1> DEFINE All == {<<>>} \cup UNION {Dialogs!Answers(k) : k \in Dialogs!Kinds}
<1>4. <<>> \in All
  OBVIOUS
<1> HIDE DEF All
<1>5. labels \in [Dialogs!Kinds -> All]
  BY <1>1, <1>4
<1>6. \A k \in Dialogs!Files : labels[k] = <<>> /\ accepted[k] = <<>>
  BY <1>1, <1>2
<1>7. Dialogs!AnswersKept
  BY <1>1, <1>3, <1>6 DEF Dialogs!AnswersKept, Dialogs!Nothing
<1> QED  BY <1>1, <1>5, <1>6, <1>7 DEF Dialogs!DialogsIInv, Dialogs!Nothing, All

\* A dialog ends: the label and the path follow the answer, or stay.
LEMMA DialogsEnd ==
  ASSUME Dialogs!DialogsIInv, NEW ok \in BOOLEAN, NEW answer, Dialogs!End(ok, answer),
         Dialogs!Accepts(dialog.kind, ok, answer) <=> ok /\ answer # <<>>
  PROVE  Dialogs!DialogsIInv'
<1> DEFINE kind == dialog.kind
           All == {<<>>} \cup UNION {Dialogs!Answers(k) : k \in Dialogs!Kinds}
<1>1. /\ kind \in Dialogs!Kinds /\ answer \in Dialogs!Answers(kind) /\ answer \in All
      /\ dialog' = Dialogs!NoDialog
      /\ labels \in [Dialogs!Kinds -> All]
      /\ accepted = labels
  BY DEF Dialogs!End, Dialogs!DialogsIInv, Dialogs!NoDialog, Dialogs!AnswersKept, Dialogs!Nothing
<1> HIDE DEF All
<1>2. CASE ok /\ answer # <<>>
  <2>1. /\ labels' = [labels EXCEPT ![kind] = answer]
        /\ accepted' = [accepted EXCEPT ![kind] = answer]
        /\ openFilesPath' = IF kind = "openFileNames" THEN <<answer[1]>> ELSE openFilesPath
    BY <1>2 DEF Dialogs!End, Dialogs!FirstFile, Dialogs!Nothing
  <2>2. labels' \in [Dialogs!Kinds -> All] /\ labels' = accepted'
    BY <1>1, <2>1
  <2>3. ASSUME NEW k \in Dialogs!Files \ {"openFileNames"}
        PROVE  labels'[k] = <<>> \/ \E n \in Names : labels'[k] = <<n>>
    <3>1. CASE k = kind
      BY <1>1, <2>1, <3>1, AnswersMade
    <3>2. CASE k # kind
      BY <1>1, <2>1, <3>2 DEF Dialogs!DialogsIInv, Dialogs!Nothing
    <3> QED  BY <3>1, <3>2
  <2>4. openFilesPath' = IF labels'["openFileNames"] = <<>> THEN <<>>
                         ELSE <<labels'["openFileNames"][1]>>
    <3>1. openFilesPath = IF labels["openFileNames"] = <<>> THEN <<>>
                          ELSE <<labels["openFileNames"][1]>>
      BY <1>1
      DEF Dialogs!DialogsIInv, Dialogs!AnswersKept, Dialogs!Files, Dialogs!Start, Dialogs!Nothing
    <3>2. "openFileNames" \in Dialogs!Kinds
      BY DEF Dialogs!Kinds, Dialogs!Files
    <3>3. CASE kind = "openFileNames"
      BY <1>1, <1>2, <2>1, <3>2, <3>3
    <3>4. CASE kind # "openFileNames"
      BY <1>1, <2>1, <3>1, <3>2, <3>4
    <3> QED  BY <3>3, <3>4
  <2> QED
    BY <1>1, <2>2, <2>3, <2>4
    DEF Dialogs!DialogsIInv, Dialogs!AnswersKept, Dialogs!Nothing, Dialogs!NoDialog, Dialogs!Start, Dialogs!Files, All
<1>3. CASE ~ (ok /\ answer # <<>>)
  <2>1. UNCHANGED <<labels, openFilesPath>>
    BY <1>3 DEF Dialogs!End
  <2>2. accepted' = [accepted EXCEPT ![kind] = accepted[kind]]
    BY <1>3 DEF Dialogs!End, Dialogs!Nothing
  <2>3. accepted' = accepted
    BY <1>1, <2>2
  <2> QED
    BY <1>1, <2>1, <2>3
    DEF Dialogs!DialogsIInv, Dialogs!AnswersKept, Dialogs!Nothing, Dialogs!NoDialog, Dialogs!Start
<1> QED  BY <1>2, <1>3

\* Every step keeps the invariant.
LEMMA DialogsStep == Dialogs!DialogsIInv /\ [Dialogs!DialogsNext]_dialogVars => Dialogs!DialogsIInv'
<1> SUFFICES ASSUME Dialogs!DialogsIInv, [Dialogs!DialogsNext]_dialogVars
             PROVE  Dialogs!DialogsIInv'
  OBVIOUS
<1>1. CASE \E box \in {"color", "font", "file"} : Dialogs!Check(box, "dontUseNativeDialog")
  BY <1>1 DEF Dialogs!Check, Dialogs!DialogsIInv, Dialogs!AnswersKept, Dialogs!Start
<1>2. CASE \E kind \in Dialogs!Kinds : Dialogs!Open(kind)
  BY <1>2 DEF Dialogs!Open, Dialogs!DialogsIInv, Dialogs!AnswersKept, Dialogs!Start
<1>3. CASE Dialogs!Cancelled
  <2>1. CASE dialog.kind \in Dialogs!Inputs \cup {"font"}
             /\ \E n \in Names : Dialogs!End(FALSE, <<n>>)
    <3>1. ASSUME NEW n \in Names, Dialogs!End(FALSE, <<n>>)
          PROVE  ~ Dialogs!Accepts(dialog.kind, FALSE, <<n>>)
      BY <2>1
      DEF Dialogs!Accepts, Dialogs!Inputs, Dialogs!Texts, Dialogs!Files, Dialogs!Messages
    <3> QED  BY <2>1, <3>1, DialogsEnd
  <2>2. CASE dialog.kind \in Dialogs!Texts \cup Dialogs!Files \cup {"color"}
             /\ Dialogs!End(FALSE, Dialogs!Nothing)
    <3>1. ~ Dialogs!Accepts(dialog.kind, FALSE, <<>>)
      BY <2>2
      DEF Dialogs!Accepts, Dialogs!Inputs, Dialogs!Texts, Dialogs!Files, Dialogs!Messages,
          Dialogs!Nothing
    <3> QED  BY <2>2, <3>1, DialogsEnd DEF Dialogs!Nothing
  <2> QED  BY <1>3, <2>1, <2>2 DEF Dialogs!Cancelled
<1>4. CASE Dialogs!Accepted
  <2>1. PICK answer \in Dialogs!Answers(dialog.kind) : Dialogs!End(TRUE, answer)
    BY <1>4 DEF Dialogs!Accepted
  <2>2. dialog.kind \in Dialogs!Kinds
    BY <1>4 DEF Dialogs!Accepted, Dialogs!DialogsIInv, Dialogs!NoDialog
  <2> QED  BY <2>1, <2>2, AnswersAccepted, DialogsEnd
<1>5. CASE UNCHANGED dialogVars
  BY <1>5 DEF dialogVars, Dialogs!DialogsIInv, Dialogs!AnswersKept, Dialogs!Start
<1> QED  BY <1>1, <1>2, <1>3, <1>4, <1>5 DEF Dialogs!DialogsNext

-----------------------------------------------------------------------------
(* RasterWindows: the checkered pattern *)

\* Integer division by a tile size, as two inequalities.
LEMMA DivFloor ==
  ASSUME NEW T \in Nat \ {0}, NEW a \in Int
  PROVE  /\ a \div T \in Int
         /\ (a \div T) * T <= a
         /\ a < (a \div T) * T + T
OBVIOUS

\* A larger index is a larger multiple.
LEMMA MultipleOrder ==
  ASSUME NEW T \in Nat \ {0}, NEW j \in Int, NEW k \in Int, j < k
  PROVE  j * T + T <= k * T
<1> DEFINE n == k - j - 1
<1>1. n \in Nat /\ k = j + 1 + n
  OBVIOUS
<1>2. n * T >= 0 /\ n * T \in Int
  BY <1>1
<1>3. k * T = j * T + T + n * T
  BY <1>1
<1> QED  BY <1>2, <1>3

\* Only one multiple of the tile size lies so close below a number.
LEMMA DivUnique ==
  ASSUME NEW T \in Nat \ {0}, NEW a \in Int, NEW k \in Int, k * T <= a, a < k * T + T
  PROVE  a \div T = k
<1> DEFINE q == a \div T
<1>1. q \in Int /\ q * T <= a /\ a < q * T + T
  BY DivFloor
<1> HIDE DEF q
<1>2. q * T \in Int /\ k * T \in Int
  BY <1>1
<1>3. ~ (q < k)
  <2> SUFFICES ASSUME q < k PROVE FALSE
    OBVIOUS
  <2>1. q * T + T <= k * T
    BY <1>1, MultipleOrder
  <2> QED  BY <1>1, <1>2, <2>1
<1>4. ~ (k < q)
  <2> SUFFICES ASSUME k < q PROVE FALSE
    OBVIOUS
  <2>1. k * T + T <= q * T
    BY <1>1, MultipleOrder
  <2> QED  BY <1>1, <1>2, <2>1
<1>5. q = k
  BY <1>1, <1>3, <1>4
<1> QED  BY <1>5 DEF q

\* The remainder of C++ is smaller than a tile, either way.
LEMMA RemSmall ==
  ASSUME NEW T \in Nat \ {0}, NEW d \in Int
  PROVE  /\ Raster!Rem(d, T) \in Int
         /\ -T < Raster!Rem(d, T) /\ Raster!Rem(d, T) < T
         /\ \E q \in Int : d = Raster!Rem(d, T) + q * T
<1>1. CASE d >= 0
  <2> DEFINE r == d % T
             q == d \div T
  <2>1. r \in Int /\ 0 <= r /\ r < T /\ d = r + q * T /\ q \in Int
    BY <1>1
  <2>2. Raster!Rem(d, T) = r
    BY <1>1 DEF Raster!Rem
  <2> HIDE DEF r, q
  <2>3. \E p \in Int : d = Raster!Rem(d, T) + p * T
    BY <2>1, <2>2, Zenon
  <2> QED  BY <2>1, <2>2, <2>3
<1>2. CASE ~ (d >= 0)
  <2> DEFINE e == -d
             r == e % T
             q == e \div T
  <2>1. e \in Int /\ e >= 0
    BY <1>2
  <2>2. r \in Int /\ 0 <= r /\ r < T /\ e = r + q * T /\ q \in Int
    BY <2>1
  <2>3. Raster!Rem(d, T) = -r
    BY <1>2 DEF Raster!Rem
  <2> HIDE DEF q, r
  <2>4. -q \in Int /\ (-q) * T = -(q * T) /\ q * T \in Int
    BY <2>2
  <2>5. d = Raster!Rem(d, T) + (-q) * T
    BY <2>2, <2>3, <2>4
  <2>6. \E p \in Int : d = Raster!Rem(d, T) + p * T
    BY <2>4, <2>5, Zenon
  <2>7. -r \in Int /\ -T < -r /\ -r < T
    BY <2>2
  <2> QED  BY <2>3, <2>6, <2>7
<1> QED  BY <1>1, <1>2

\* A color comes back after two tiles.
LEMMA ParityPeriod ==
  ASSUME NEW a \in Int, NEW k \in Int
  PROVE  Raster!Parity(a + 2 * k) = Raster!Parity(a)
<1>1. \A b \in Int : Raster!Parity(b) = b % 2
  BY DEF Raster!Parity
<1> QED  BY <1>1

\* In one direction: the tile from k * TileSize on, and no other, covers the pixel x of a
\* pattern with the offset d, and the unbounded board moved by 2 * d has its tile k - 2 * q there.
TileFor(x, d, k, q) ==
  /\ k * TileSize \in Raster!TileStarts
  /\ k * TileSize + Raster!Shift(d) <= x
  /\ x < k * TileSize + Raster!Shift(d) + TileSize
  /\ \A i \in Raster!TileStarts :
       i + Raster!Shift(d) <= x /\ x < i + Raster!Shift(d) + TileSize => i \div TileSize = k
  /\ (k * TileSize) \div TileSize = k
  /\ (x - 2 * d) \div TileSize = k - 2 * q

\* Exactly one tile covers a pixel, and where the unbounded board, moved by twice the offset,
\* has its tiles, the pattern has them too, an even number of tiles away.
LEMMA PixelTile ==
  ASSUME NEW x \in 0 .. Extent - 1, NEW d \in Int
  PROVE  \E k, q \in Int : TileFor(x, d, k, q)
<1> DEFINE T == TileSize
           S == Raster!Shift(d)
           k == (x - S) \div T
           N == (Extent + 4 * T - 1) \div T
<1>1. T \in Nat \ {0} /\ Extent \in Nat /\ x \in Int /\ 0 <= x /\ x < Extent
  BY EventsAssumption
<1> HIDE DEF T
<1>2. PICK q \in Int : d = Raster!Rem(d, T) + q * T
  BY <1>1, RemSmall
<1>3. S \in Int /\ -(2 * T) < S /\ S < 2 * T /\ S = 2 * Raster!Rem(d, T) /\ Raster!Rem(d, T) \in Int
  <2>1. Raster!Rem(d, T) \in Int /\ -T < Raster!Rem(d, T) /\ Raster!Rem(d, T) < T
    BY <1>1, RemSmall
  <2>2. S = Raster!Rem(d, T) * 2
    BY DEF Raster!Shift, T
  <2> QED  BY <1>1, <2>1, <2>2
<1> HIDE DEF S
<1>4. k \in Int /\ k * T <= x - S /\ x - S < k * T + T
  <2>1. x - S \in Int
    BY <1>1, <1>3
  <2> QED  BY <1>1, <2>1, DivFloor, Zenon
<1> HIDE DEF k
<1>5. k * T \in Int /\ (k * T) \div T = k
  BY <1>1, <1>4, DivUnique
<1>6. N \in Int /\ N * T <= Extent + 4 * T - 1 /\ Extent + 4 * T - 1 < N * T + T
  BY <1>1, DivFloor
<1> HIDE DEF N
<1>7. k * T \in Raster!TileStarts
  <2>1. k + 2 \in 0 .. N
    <3>1. ~ (k < -2)
      <4> SUFFICES ASSUME k < -2 PROVE FALSE
        OBVIOUS
      <4>1. k * T + T <= (-2) * T
        BY <1>1, <1>4, MultipleOrder
      <4> QED  BY <1>1, <1>3, <1>4, <1>5, <4>1
    <3>2. ~ (N < k + 2)
      <4> SUFFICES ASSUME N < k + 2 PROVE FALSE
        OBVIOUS
      <4>1. N * T + T <= (k + 2) * T /\ (k + 2) * T = k * T + 2 * T
        BY <1>1, <1>4, <1>6, MultipleOrder
      <4>2. N * T \in Int
        BY <1>1, <1>6
      <4> QED  BY <1>1, <1>3, <1>4, <1>5, <1>6, <4>1, <4>2
    <3> QED  BY <1>4, <1>6, <3>1, <3>2
  <2>2. -2 * T + (k + 2) * T = k * T
    BY <1>1, <1>4
  <2> QED  BY <2>1, <2>2 DEF Raster!TileStarts, N, T
<1>8. ASSUME NEW i \in Raster!TileStarts, i + S <= x, x < i + S + T
      PROVE  i \div T = k
  <2>1. PICK n \in 0 .. N : i = -2 * T + n * T
    BY DEF Raster!TileStarts, N, T
  <2> DEFINE j == n - 2
  <2>2. j \in Int /\ i = j * T /\ i \in Int
    BY <1>1, <1>6, <2>1
  <2> HIDE DEF j
  <2>3. (x - S) \div T = j /\ i \div T = j
    <3>1. x - S \in Int /\ j * T <= x - S /\ x - S < j * T + T
      BY <1>1, <1>3, <1>8, <2>2
    <3>2. j * T \in Int /\ j * T <= j * T /\ j * T < j * T + T
      BY <1>1, <2>2
    <3> QED  BY <1>1, <2>2, <3>1, <3>2, DivUnique, Zenon
  <2> QED  BY <2>3 DEF k
<1>9. (x - 2 * d) \div T = k - 2 * q
  <2> DEFINE m == k - 2 * q
             p == q * T
             r == Raster!Rem(d, T)
  <2>1. m \in Int /\ m * T = k * T - 2 * p /\ p \in Int
    BY <1>1, <1>4
  <2>2. x - 2 * d = x - S - 2 * p
    <3>1. d = r + p /\ r \in Int /\ S = 2 * r
      BY <1>2, <1>3
    <3> HIDE DEF p, r
    <3> QED  BY <1>1, <2>1, <3>1
  <2> HIDE DEF m, p
  <2>3. m * T <= x - 2 * d /\ x - 2 * d < m * T + T /\ x - 2 * d \in Int
    BY <1>1, <1>3, <1>4, <1>5, <2>1, <2>2
  <2>4. (x - 2 * d) \div T = m
    BY <1>1, <2>1, <2>3, DivUnique
  <2> QED  BY <2>4 DEF m
<1>10. /\ k * T \in Raster!TileStarts
       /\ k * T + S <= x
       /\ x < k * T + S + T
       /\ \A i \in Raster!TileStarts : i + S <= x /\ x < i + S + T => i \div T = k
       /\ (k * T) \div T = k
       /\ (x - 2 * d) \div T = k - 2 * q
  BY <1>1, <1>3, <1>4, <1>5, <1>7, <1>8, <1>9
<1>11. TileFor(x, d, k, q)
  BY <1>10, Zenon DEF TileFor, S, T
<1> QED  BY <1>2, <1>4, <1>11, Zenon

\* Every pixel has the color of the unbounded board moved by twice the offset, and no other.
LEMMA PatternSeamless ==
  ASSUME NEW x \in 0 .. Extent - 1, NEW y \in 0 .. Extent - 1, NEW o, o[1] \in Int, o[2] \in Int
  PROVE  Raster!ColorsAt(x, y, o) =
           {Raster!Parity((x - 2 * o[1]) \div TileSize - (y - 2 * o[2]) \div TileSize)}
<1> DEFINE T == TileSize
           S1 == Raster!Shift(o[1])
           S2 == Raster!Shift(o[2])
           c == Raster!Parity((x - 2 * o[1]) \div T - (y - 2 * o[2]) \div T)
           Tile(i, j) == [x |-> i + S1, y |-> j + S2, color |-> Raster!Parity(i \div T - j \div T)]
<1>0. /\ \E k, p \in Int : TileFor(x, o[1], k, p)
      /\ \E l, q \in Int : TileFor(y, o[2], l, q)
  BY PixelTile, Zenon
<1>1. PICK k \in Int, p \in Int : TileFor(x, o[1], k, p)
  BY <1>0
<1>2. PICK l \in Int, q \in Int : TileFor(y, o[2], l, q)
  BY <1>0
<1>10. /\ k * T \in Raster!TileStarts /\ k * T + S1 <= x /\ x < k * T + S1 + T
       /\ \A i \in Raster!TileStarts : i + S1 <= x /\ x < i + S1 + T => i \div T = k
       /\ (k * T) \div T = k
       /\ (x - 2 * o[1]) \div T = k - 2 * p
  BY <1>1, Zenon DEF TileFor
<1>11. /\ l * T \in Raster!TileStarts /\ l * T + S2 <= y /\ y < l * T + S2 + T
       /\ \A i \in Raster!TileStarts : i + S2 <= y /\ y < i + S2 + T => i \div T = l
       /\ (l * T) \div T = l
       /\ (y - 2 * o[2]) \div T = l - 2 * q
  BY <1>2, Zenon DEF TileFor
<1>3. c = Raster!Parity(k - l)
  <2>1. (k - 2 * p) - (l - 2 * q) = (k - l) + 2 * (q - p) /\ k - l \in Int /\ q - p \in Int
    OBVIOUS
  <2>2. Raster!Parity((k - l) + 2 * (q - p)) = Raster!Parity(k - l)
    BY <2>1, ParityPeriod, Zenon
  <2> QED  BY <1>10, <1>11, <2>1, <2>2, Zenon
<1> HIDE DEF c, S1, S2, T
<1>4. Raster!Tiles(o) = {Tile(i, j) : i, j \in Raster!TileStarts}
  BY DEF Raster!Tiles, S1, S2, T
<1>5. Raster!ColorsAt(x, y, o) =
        {t.color : t \in {u \in Raster!Tiles(o) :
                            u.x <= x /\ x < u.x + T /\ u.y <= y /\ y < u.y + T}}
  BY Zenon DEF Raster!ColorsAt, T
<1>6. ASSUME NEW t \in Raster!Tiles(o), t.x <= x, x < t.x + T, t.y <= y, y < t.y + T
      PROVE  t.color = c
  <2>1. PICK i, j \in Raster!TileStarts : t = Tile(i, j)
    BY <1>4
  <2>2. t.x = i + S1 /\ t.y = j + S2 /\ t.color = Raster!Parity(i \div T - j \div T)
    BY <2>1
  <2>3. i \div T = k /\ j \div T = l
    BY <1>10, <1>11, <1>6, <2>2
  <2> QED  BY <1>3, <2>2, <2>3
<1>7. /\ Tile(k * T, l * T) \in Raster!Tiles(o)
      /\ Tile(k * T, l * T).x <= x /\ x < Tile(k * T, l * T).x + T
      /\ Tile(k * T, l * T).y <= y /\ y < Tile(k * T, l * T).y + T
  BY <1>10, <1>11, <1>4
<1>8. c \in Raster!ColorsAt(x, y, o)
  <2>1. Tile(k * T, l * T).color = c
    BY <1>6, <1>7
  <2> DEFINE u == Tile(k * T, l * T)
  <2> HIDE DEF u
  <2> QED  BY <1>5, <1>7, <2>1 DEF u
<1>9. ASSUME NEW d \in Raster!ColorsAt(x, y, o) PROVE d = c
  BY <1>5, <1>6
<1> QED  BY <1>8, <1>9 DEF c, T

-----------------------------------------------------------------------------
(* RasterWindows: the windows *)

\* A window that appears has seen no event.
LEMMA RasterNewWindow ==
  ASSUME NEW p \in Positions
  PROVE  Raster!WindowIInv(Raster!NewWindow(p))
<1> DEFINE w == Raster!NewWindow(p)
           o == <<0, 0>>
           g == [offset |-> o, at |-> p, seen |-> FALSE]
<1>1. p \in Raster!Points /\ o \in Raster!Points
  BY DEF Positions, Raster!Points
<1> HIDE DEF o
<1>2. \A b \in BOOLEAN : [offset |-> o, at |-> p, seen |-> b] \in Raster!GripType
  BY <1>1 DEF Raster!GripType
<1>3. g \in Raster!GripType
  BY <1>2, Zenon
<1> HIDE DEF g
<1>4. \A b, c, d \in BOOLEAN :
        [count |-> 0, timeouts |-> 0, offset |-> o, lastPos |-> o, pressed |-> b, painted |-> 0,
         dirty |-> c, pointer |-> p, seen |-> d, grip |-> g] \in Raster!WindowType
  BY <1>1, <1>3 DEF Raster!WindowType
<1>5. w = [count |-> 0, timeouts |-> 0, offset |-> o, lastPos |-> o, pressed |-> FALSE,
           painted |-> 0, dirty |-> TRUE, pointer |-> p, seen |-> FALSE, grip |-> g]
  BY Zenon DEF Raster!NewWindow, o, g
<1> HIDE DEF w
<1>6. w \in Raster!WindowType
  BY <1>4, <1>5, Zenon
<1>7. w.seen = FALSE /\ w.pressed = FALSE /\ w.dirty = TRUE
  BY <1>5
<1>8. Raster!WindowIInv(w)
  BY <1>6, <1>7, Zenon DEF Raster!WindowIInv
<1> QED  BY <1>8 DEF w

\* A window for every screen there is when main() starts.
LEMMA RasterStarts == Raster!RasterInit => Raster!RasterIInv
BY RasterNewWindow DEF Raster!RasterInit, Raster!RasterIInv

\* A screen that comes brings a window, one that goes takes it away.
LEMMA RasterScreens ==
  ASSUME Raster!RasterIInv, NEW s \in Screens, Raster!ScreenAdded(s) \/ Raster!ScreenRemoved(s)
  PROVE  Raster!RasterIInv'
<1>1. CASE Raster!ScreenAdded(s)
  <2>1. PICK p \in Positions :
          windows' = [t \in DOMAIN windows \cup {s} |-> IF t = s THEN Raster!NewWindow(p) ELSE windows[t]]
    BY <1>1 DEF Raster!ScreenAdded
  <2>2. s \notin screens /\ screens' = screens \cup {s} /\ DOMAIN windows = screens
    BY <1>1 DEF Raster!ScreenAdded, Raster!RasterIInv
  <2>3. ASSUME NEW t \in screens' PROVE Raster!WindowIInv(windows'[t])
    <3>1. CASE t = s
      BY <2>1, <2>2, <3>1, RasterNewWindow
    <3>2. CASE t # s
      BY <2>1, <2>2, <3>2 DEF Raster!RasterIInv
    <3> QED  BY <3>1, <3>2
  <2> QED  BY <2>1, <2>2, <2>3 DEF Raster!RasterIInv, Raster!WindowIInv
<1>2. CASE Raster!ScreenRemoved(s)
  BY <1>2 DEF Raster!ScreenRemoved, Raster!WindowTaken, Raster!RasterIInv
<1> QED  BY <1>1, <1>2

\* A window that handles an event is as it should be, if what the event makes of it is.
LEMMA RasterHandles ==
  ASSUME Raster!RasterIInv, NEW s \in screens, NEW w, Raster!WindowIInv(w),
         windows' = [windows EXCEPT ![s] = w], screens' = screens
  PROVE  Raster!RasterIInv'
<1>1. ASSUME NEW t \in screens PROVE Raster!WindowIInv(windows'[t])
  BY DEF Raster!RasterIInv
<1> QED  BY <1>1 DEF Raster!RasterIInv

\* A window with another value of one member is a window.
LEMMA WindowUpdated ==
  ASSUME NEW w \in Raster!WindowType
  PROVE  /\ \A n \in Nat : [w EXCEPT !.count = n] \in Raster!WindowType
         /\ \A n \in Nat : [w EXCEPT !.timeouts = n] \in Raster!WindowType
         /\ \A n \in Nat : [w EXCEPT !.painted = n] \in Raster!WindowType
         /\ \A b \in BOOLEAN : [w EXCEPT !.dirty = b] \in Raster!WindowType
         /\ \A b \in BOOLEAN : [w EXCEPT !.pressed = b] \in Raster!WindowType
         /\ \A b \in BOOLEAN : [w EXCEPT !.seen = b] \in Raster!WindowType
         /\ \A q \in Raster!Points : [w EXCEPT !.offset = q] \in Raster!WindowType
         /\ \A q \in Raster!Points : [w EXCEPT !.lastPos = q] \in Raster!WindowType
         /\ \A q \in Raster!Points : [w EXCEPT !.pointer = q] \in Raster!WindowType
         /\ \A g \in Raster!GripType : [w EXCEPT !.grip = g] \in Raster!WindowType
BY DEF Raster!WindowType

\* An event that is counted changes nothing else, and asks for an update.
LEMMA RasterCounted ==
  ASSUME NEW w, Raster!WindowIInv(w)
  PROVE  Raster!WindowIInv(Raster!Counted(w))
<1> DEFINE v == Raster!Counted(w)
<1>1. w \in Raster!WindowType /\ w.count + 1 \in Nat
  BY DEF Raster!WindowIInv, Raster!WindowType
<1>2. v = [[w EXCEPT !.count = w.count + 1] EXCEPT !.dirty = TRUE]
  BY DEF Raster!Counted
<1>3. v \in Raster!WindowType
  <2> DEFINE u == [w EXCEPT !.count = w.count + 1]
  <2>1. u \in Raster!WindowType
    BY <1>1, WindowUpdated
  <2> HIDE DEF u
  <2>2. [u EXCEPT !.dirty = TRUE] \in Raster!WindowType
    BY <2>1, WindowUpdated, Zenon
  <2> QED  BY <1>2, <2>2 DEF u
<1>4. /\ v.offset = w.offset /\ v.lastPos = w.lastPos /\ v.pointer = w.pointer
      /\ v.pressed = w.pressed /\ v.seen = w.seen /\ v.grip = w.grip /\ v.dirty = TRUE
  BY <1>1 DEF Raster!Counted, Raster!WindowType
<1> HIDE DEF v
<1> QED  BY <1>3, <1>4 DEF Raster!WindowIInv, v

\* A timeout is counted apart, and asks for an update too.
LEMMA RasterTimeout ==
  ASSUME NEW w, Raster!WindowIInv(w)
  PROVE  Raster!WindowIInv([w EXCEPT !.timeouts = @ + 1, !.dirty = TRUE])
<1> DEFINE v == [w EXCEPT !.timeouts = w.timeouts + 1, !.dirty = TRUE]
<1>1. w \in Raster!WindowType /\ w.timeouts + 1 \in Nat
  BY DEF Raster!WindowIInv, Raster!WindowType
<1>2. v = [[w EXCEPT !.timeouts = w.timeouts + 1] EXCEPT !.dirty = TRUE]
  OBVIOUS
<1>3. v \in Raster!WindowType
  <2> DEFINE u == [w EXCEPT !.timeouts = w.timeouts + 1]
  <2>1. u \in Raster!WindowType
    BY <1>1, WindowUpdated
  <2> HIDE DEF u
  <2>2. [u EXCEPT !.dirty = TRUE] \in Raster!WindowType
    BY <2>1, WindowUpdated, Zenon
  <2> QED  BY <1>2, <2>2 DEF u
<1>4. /\ v.offset = w.offset /\ v.lastPos = w.lastPos /\ v.pointer = w.pointer
      /\ v.pressed = w.pressed /\ v.seen = w.seen /\ v.grip = w.grip /\ v.dirty = TRUE
  BY <1>1 DEF Raster!WindowType
<1> HIDE DEF v
<1> QED  BY <1>3, <1>4 DEF Raster!WindowIInv, v

\* A window that is painted shows the events it counted.
LEMMA RasterPainted ==
  ASSUME NEW w, Raster!WindowIInv(w)
  PROVE  Raster!WindowIInv([w EXCEPT !.painted = w.count, !.dirty = FALSE])
<1> DEFINE v == [w EXCEPT !.painted = w.count, !.dirty = FALSE]
<1>1. w \in Raster!WindowType /\ w.count \in Nat
  BY DEF Raster!WindowIInv, Raster!WindowType
<1>2. v = [[w EXCEPT !.painted = w.count] EXCEPT !.dirty = FALSE]
  OBVIOUS
<1>3. v \in Raster!WindowType
  <2> DEFINE u == [w EXCEPT !.painted = w.count]
  <2>1. u \in Raster!WindowType
    BY <1>1, WindowUpdated
  <2> HIDE DEF u
  <2>2. [u EXCEPT !.dirty = FALSE] \in Raster!WindowType
    BY <2>1, WindowUpdated, Zenon
  <2> QED  BY <1>2, <2>2 DEF u
<1>4. /\ v.offset = w.offset /\ v.lastPos = w.lastPos /\ v.pointer = w.pointer
      /\ v.pressed = w.pressed /\ v.seen = w.seen /\ v.grip = w.grip
      /\ v.painted = w.count /\ v.count = w.count
  BY <1>1 DEF Raster!WindowType
<1> HIDE DEF v
<1> QED  BY <1>3, <1>4 DEF Raster!WindowIInv, v

\* A button that is released ends the drag.
LEMMA RasterReleased ==
  ASSUME NEW w, Raster!WindowIInv(w)
  PROVE  Raster!WindowIInv([w EXCEPT !.pressed = FALSE])
<1> DEFINE v == [w EXCEPT !.pressed = FALSE]
<1>1. w \in Raster!WindowType
  BY DEF Raster!WindowIInv
<1>2. v \in Raster!WindowType
  BY <1>1, WindowUpdated, Zenon
<1>3. /\ v.lastPos = w.lastPos /\ v.pointer = w.pointer /\ v.seen = w.seen /\ v.pressed = FALSE
      /\ v.painted = w.painted /\ v.count = w.count /\ v.dirty = w.dirty
  BY <1>1 DEF Raster!WindowType
<1> HIDE DEF v
<1> QED  BY <1>2, <1>3 DEF Raster!WindowIInv, v

\* A button that is pressed begins a drag where the pointer is.
LEMMA RasterPressed ==
  ASSUME NEW w, Raster!WindowIInv(w)
  PROVE  Raster!WindowIInv(
           [w EXCEPT !.pressed = TRUE,
                     !.grip = [offset |-> w.offset, at |-> w.pointer, seen |-> w.seen]])
<1> DEFINE g == [offset |-> w.offset, at |-> w.pointer, seen |-> w.seen]
           v == [w EXCEPT !.pressed = TRUE, !.grip = g]
<1>1. /\ w \in Raster!WindowType /\ w.offset \in Raster!Points /\ w.pointer \in Raster!Points
      /\ w.seen \in BOOLEAN
  BY DEF Raster!WindowIInv, Raster!WindowType
<1>2. g \in Raster!GripType
  BY <1>1 DEF Raster!GripType
<1>3. v = [[w EXCEPT !.grip = g] EXCEPT !.pressed = TRUE]
  BY <1>1 DEF Raster!WindowType
<1>4. v \in Raster!WindowType
  <2> DEFINE u == [w EXCEPT !.grip = g]
  <2>1. u \in Raster!WindowType
    <3> HIDE DEF g
    <3> QED  BY <1>1, <1>2, WindowUpdated
  <2> HIDE DEF u
  <2>2. [u EXCEPT !.pressed = TRUE] \in Raster!WindowType
    BY <2>1, WindowUpdated, Zenon
  <2> QED  BY <1>3, <2>2 DEF u
<1>5. /\ v.offset = w.offset /\ v.lastPos = w.lastPos /\ v.pointer = w.pointer
      /\ v.seen = w.seen /\ v.dirty = w.dirty /\ v.painted = w.painted /\ v.count = w.count
      /\ v.grip = g
  <2> HIDE DEF g
  <2> QED  BY <1>1 DEF Raster!WindowType
<1>6. Raster!Minus(w.offset, w.offset) = Raster!Minus(w.pointer, w.pointer)
  BY <1>1 DEF Raster!Minus, Raster!Points
<1>7. g.offset = w.offset /\ g.at = w.pointer /\ g.seen = w.seen
  OBVIOUS
<1> HIDE DEF v, g
<1>8. Raster!WindowIInv(v)
  BY <1>4, <1>5, <1>6, <1>7 DEF Raster!WindowIInv
<1> QED  BY <1>8 DEF v, g

\* A move takes the pattern along while a button is held.
LEMMA RasterMoved ==
  ASSUME NEW w, Raster!WindowIInv(w), NEW p \in Raster!Points
  PROVE  Raster!WindowIInv(
           [w EXCEPT !.offset = IF w.pressed THEN Raster!Plus(@, Raster!Minus(p, w.lastPos)) ELSE @,
                     !.lastPos = p, !.pointer = p, !.seen = TRUE])
<1> DEFINE o == IF w.pressed THEN Raster!Plus(w.offset, Raster!Minus(p, w.lastPos)) ELSE w.offset
           v == [w EXCEPT !.offset = o, !.lastPos = p, !.pointer = p, !.seen = TRUE]
<1>1. /\ w \in Raster!WindowType /\ w.offset \in Raster!Points /\ w.lastPos \in Raster!Points
      /\ w.pointer \in Raster!Points /\ w.grip \in Raster!GripType
  BY DEF Raster!WindowIInv, Raster!WindowType
<1>2. o \in Raster!Points
  BY <1>1 DEF Raster!Plus, Raster!Minus, Raster!Points
<1>3. ASSUME w.pressed, w.grip.seen
      PROVE  Raster!Minus(o, w.grip.offset) = Raster!Minus(p, w.grip.at)
  <2>1. /\ w.seen /\ w.lastPos = w.pointer
        /\ Raster!Minus(w.offset, w.grip.offset) = Raster!Minus(w.pointer, w.grip.at)
    BY <1>3 DEF Raster!WindowIInv
  <2>2. w.grip.offset \in Raster!Points /\ w.grip.at \in Raster!Points
    BY <1>1 DEF Raster!GripType
  <2>3. o = Raster!Plus(w.offset, Raster!Minus(p, w.pointer))
    BY <1>3, <2>1
  <2> DEFINE a == w.offset
             b == w.pointer
             c == w.grip.offset
             d == w.grip.at
  <2>4. /\ a \in Raster!Points /\ b \in Raster!Points /\ c \in Raster!Points /\ d \in Raster!Points
        /\ o = Raster!Plus(a, Raster!Minus(p, b)) /\ Raster!Minus(a, c) = Raster!Minus(b, d)
    BY <1>1, <2>1, <2>2, <2>3
  <2> HIDE DEF a, b, c, d, o
  <2>5. /\ a[1] \in Int /\ a[2] \in Int /\ b[1] \in Int /\ b[2] \in Int /\ c[1] \in Int
        /\ c[2] \in Int /\ d[1] \in Int /\ d[2] \in Int /\ p[1] \in Int /\ p[2] \in Int
    BY <2>4 DEF Raster!Points
  <2>6. a[1] - c[1] = b[1] - d[1] /\ a[2] - c[2] = b[2] - d[2]
    BY <2>4 DEF Raster!Minus
  <2>7. o[1] = a[1] + (p[1] - b[1]) /\ o[2] = a[2] + (p[2] - b[2])
    BY <2>4 DEF Raster!Plus, Raster!Minus
  <2>8. o[1] - c[1] = p[1] - d[1] /\ o[2] - c[2] = p[2] - d[2]
    BY <2>5, <2>6, <2>7
  <2>9. Raster!Minus(o, c) = Raster!Minus(p, d)
    BY <2>8 DEF Raster!Minus
  <2> QED  BY <2>9 DEF c, d
<1> HIDE DEF o
<1>4. v = [[[[w EXCEPT !.offset = o] EXCEPT !.lastPos = p] EXCEPT !.pointer = p] EXCEPT !.seen = TRUE]
  OBVIOUS
<1>5. v \in Raster!WindowType
  <2> DEFINE u1 == [w EXCEPT !.offset = o]
             u2 == [u1 EXCEPT !.lastPos = p]
             u3 == [u2 EXCEPT !.pointer = p]
  <2>1. u1 \in Raster!WindowType
    BY <1>1, <1>2, WindowUpdated
  <2> HIDE DEF u1
  <2>2. u2 \in Raster!WindowType
    BY <2>1, WindowUpdated
  <2> HIDE DEF u2
  <2>3. u3 \in Raster!WindowType
    BY <2>2, WindowUpdated
  <2> HIDE DEF u3
  <2>4. [u3 EXCEPT !.seen = TRUE] \in Raster!WindowType
    BY <2>3, WindowUpdated, Zenon
  <2> QED  BY <1>4, <2>4 DEF u1, u2, u3
<1>6. /\ v.offset = o /\ v.lastPos = p /\ v.pointer = p /\ v.seen = TRUE
      /\ v.dirty = w.dirty /\ v.painted = w.painted /\ v.count = w.count
      /\ v.grip = w.grip /\ v.pressed = w.pressed
  BY <1>1 DEF Raster!WindowType
<1> HIDE DEF v
<1>7. Raster!WindowIInv(v)
  BY <1>3, <1>5, <1>6 DEF Raster!WindowIInv
<1> QED  BY <1>7 DEF v, o

\* Every step keeps the invariant.
LEMMA RasterStep == Raster!RasterIInv /\ [Raster!RasterNext]_rasterVars => Raster!RasterIInv'
<1> SUFFICES ASSUME Raster!RasterIInv, [Raster!RasterNext]_rasterVars PROVE Raster!RasterIInv'
  OBVIOUS
<1>1. CASE UNCHANGED rasterVars
  BY <1>1 DEF rasterVars, Raster!RasterIInv
<1>2. CASE \E s \in Screens : Raster!ScreenAdded(s) \/ Raster!ScreenRemoved(s)
  BY <1>2, RasterScreens
<1>3. ASSUME NEW s \in screens, NEW w, Raster!WindowIInv(w), Raster!Handles(s, w)
      PROVE  Raster!RasterIInv'
  BY <1>3, RasterCounted, RasterHandles DEF Raster!Handles
<1>4. ASSUME NEW s \in screens,
             \/ Raster!OtherEvent(s) \/ Raster!MousePress(s) \/ Raster!MouseRelease(s)
             \/ Raster!Timeout(s) \/ Raster!PaintEvent(s)
             \/ \E p \in Positions : Raster!MouseMove(s, p)
      PROVE  Raster!RasterIInv'
  <2>1. Raster!WindowIInv(windows[s])
    BY DEF Raster!RasterIInv
  <2>2. CASE Raster!OtherEvent(s)
    BY <1>3, <2>1, <2>2 DEF Raster!OtherEvent
  <2>3. CASE Raster!MousePress(s)
    BY <1>3, <2>1, <2>3, RasterPressed DEF Raster!MousePress
  <2>4. CASE Raster!MouseRelease(s)
    BY <1>3, <2>1, <2>4, RasterReleased DEF Raster!MouseRelease
  <2>5. CASE Raster!Timeout(s)
    <3> DEFINE v == [windows[s] EXCEPT !.timeouts = @ + 1, !.dirty = TRUE]
    <3>1. Raster!WindowIInv(v)
      BY <2>1, RasterTimeout
    <3>2. windows' = [windows EXCEPT ![s] = v] /\ screens' = screens
      BY <2>5, Zenon DEF Raster!Timeout
    <3> HIDE DEF v
    <3> QED  BY <3>1, <3>2, RasterHandles
  <2>6. CASE Raster!PaintEvent(s)
    BY <2>1, <2>6, RasterPainted, RasterHandles DEF Raster!PaintEvent
  <2>7. CASE \E p \in Positions : Raster!MouseMove(s, p)
    <3>1. PICK p \in Positions : Raster!MouseMove(s, p)
      BY <2>7
    <3>2. p \in Raster!Points
      BY DEF Positions, Raster!Points
    <3> QED
      BY <1>3, <2>1, <3>1, <3>2, RasterMoved DEF Raster!MouseMove, Raster!LastPosFollows
  <2> QED  BY <1>4, <2>2, <2>3, <2>4, <2>5, <2>6, <2>7
<1> QED  BY <1>1, <1>2, <1>4 DEF Raster!RasterNext

\* What the windows promise.
LEMMA RasterKept == Raster!RasterIInv => Raster!RasterSound
<1> SUFFICES ASSUME Raster!RasterIInv, NEW s \in screens
             PROVE  LET w == windows[s]
                    IN /\ w.pressed /\ w.grip.seen =>
                            Raster!Minus(w.offset, w.grip.offset) = Raster!Minus(w.pointer, w.grip.at)
                       /\ w.painted = w.count \/ w.dirty
                       /\ ~ w.dirty => \A x, y \in 0 .. Extent - 1 :
                            Raster!ColorsAt(x, y, w.offset) =
                               {Raster!Parity((x - 2 * w.offset[1]) \div TileSize
                                               - (y - 2 * w.offset[2]) \div TileSize)}
  BY DEF Raster!RasterSound, Raster!RasterIInv
<1> DEFINE w == windows[s]
<1>1. Raster!WindowIInv(w)
  BY DEF Raster!RasterIInv
<1> HIDE DEF w
<1>2. w.offset[1] \in Int /\ w.offset[2] \in Int
  <2>1. w.offset \in Raster!Points
    BY <1>1 DEF Raster!WindowIInv, Raster!WindowType
  <2> QED  BY <2>1 DEF Raster!Points
<1>3. \A x, y \in 0 .. Extent - 1 :
        Raster!ColorsAt(x, y, w.offset) =
          {Raster!Parity((x - 2 * w.offset[1]) \div TileSize
                          - (y - 2 * w.offset[2]) \div TileSize)}
  BY <1>2, PatternSeamless, Zenon
<1> QED  BY <1>1, <1>3, Zenon DEF Raster!WindowIInv, w

-----------------------------------------------------------------------------
(* The run *)

\* Each program keeps its own invariant, whichever program takes the steps.
THEOREM EventsInvariant ==
  MCSpec => [](/\ IInv /\ Callback!IInv /\ Ui!IInv /\ Client!IInv
               /\ Loops!LoopsIInv /\ Raster!RasterIInv /\ Dialogs!DialogsIInv)
<1> DEFINE AllI == /\ IInv /\ Callback!IInv /\ Ui!IInv /\ Client!IInv
                   /\ Loops!LoopsIInv /\ Raster!RasterIInv /\ Dialogs!DialogsIInv
<1>1. MCInit => AllI
  BY HarnessStarts, CallbackStarts, UiStarts, ClientStarts, LoopsStart, RasterStarts, DialogsStart
  DEF MCInit
<1>2. AllI /\ [MCNext]_allVars => AllI'
  <2>1. [MCNext]_allVars => /\ [Next]_vars
                            /\ [Callback!Next]_callbackVars
                            /\ [Ui!Next]_uiVars
                            /\ [Client!Next]_clientVars
                            /\ [Loops!LoopsNext]_loopVars
                            /\ [Raster!RasterNext]_rasterVars
                            /\ [Dialogs!DialogsNext]_dialogVars
    BY DEF MCNext, InHarness, InCallbacks, InUi, InClient, InLoops, InRaster, InDialogs, In,
       allVars
  <2> QED
    BY <2>1, HarnessStep, CallbackStep, UiStep, ClientStep, LoopsStep, RasterStep, DialogsStep
<1> QED  BY <1>1, <1>2, PTL DEF MCSpec

\* Calls that are far enough apart deliver what they ask for, to the threads they name, exactly
\* once: for any number of calls and any choice of targets and posting threads.
THEOREM CallsDelivered == MCSpec => []SpacedCallsDelivered
<1>1. IInv => SpacedCallsDelivered
  BY HarnessQuiet
<1> QED  BY <1>1, EventsInvariant, PTL

\* The five other programs keep what they promise: for any callbacks and readers, any buttons,
\* any nesting of event loops, any windows with a pattern of any tile size, and any dialogs.
THEOREM HandlersAreSound == MCSpec => []HandlersSound
<1>1. /\ Callback!IInv /\ Ui!IInv /\ Loops!LoopsIInv /\ Raster!RasterIInv /\ Dialogs!DialogsIInv
      => HandlersSound
  BY RasterKept
  DEF HandlersSound, Callback!IInv, Ui!IInv, Loops!LoopsIInv, Dialogs!DialogsIInv
<1> QED  BY <1>1, EventsInvariant, PTL

\* The web socket device delivers the stream that came in, over any number of connections.
THEOREM StreamIsKept == MCSpec => []StreamKept
<1>1. Client!IInv => StreamKept
  BY ClientKept DEF StreamKept
<1> QED  BY <1>1, EventsInvariant, PTL

=============================================================================
