--------------------------- MODULE MCSuspend_proofs ---------------------------
(***************************************************************************)
(* Proofs about the programs that suspend themselves (MCSuspend.tla).      *)
(*                                                                         *)
(* SuspendResume: in a page where the browser dispatches every event, no   *)
(* event is lost or reordered by the suspend/resume control, for every set *)
(* of handlers and any number of events. ResumeExamples and ProcessEvents: *)
(* what they promise, for any number of events and of calls by the page.   *)
(***************************************************************************)
EXTENDS MCSuspend, SequenceTheorems, TLAPS

-----------------------------------------------------------------------------
(* SuspendResume *)

IInv == TypeOK /\ ResumeTracksSuspension /\ NoEventLost /\ IndexWaits

\* The listeners that can run are those of handlers still in m_eventHandlers.
ArmedRegistered == armed \subseteq registered

SInv == IInv /\ ArmedRegistered /\ HandlersDefined /\ DirectCallsWhenNotSuspended

\* main() starts with nothing suspended and nothing dispatched.
LEMMA InitInv == Init => SInv
<1> SUFFICES ASSUME Init PROVE SInv
  OBVIOUS
<1>1. <<>> \in Seq(FrameKinds) /\ <<>> \in Seq(Handlers) /\ <<"main">> \in Seq(FrameKinds)
  BY DEF Init, FrameKinds
<1>2. TypeOK
  BY <1>1 DEF Init, TypeOK
<1>3. ResumeTracksSuspension /\ HandlersDefined
  BY DEF Init, ResumeTracksSuspension, HandlersDefined
<1>4. NoEventLost /\ IndexWaits /\ ArmedRegistered
  BY DEF Init, NoEventLost, IndexWaits, ArmedRegistered
<1>5. DirectCallsWhenNotSuspended
  BY DEF Init, DirectCallsWhenNotSuspended
<1> QED  BY <1>2, <1>3, <1>4, <1>5 DEF SInv, IInv

\* Popping the top activation leaves a stack of activations.
LEMMA PopFrame ==
  ASSUME NEW s \in Seq(FrameKinds), s # <<>>
  PROVE  SubSeq(s, 1, Len(s) - 1) \in Seq(FrameKinds)
  OBVIOUS

\* What running wasm code does (register, remove, arm, suspend, return) keeps the
\* books of the control object: it never runs between resume() and the microtask.
LEMMA WasmStepInv ==
  ASSUME IInv, WasmStep
  PROVE  IInv'
<1>1. /\ resume \in BOOLEAN
      /\ microtask = FALSE
      /\ resume <=> parked # <<>>
      /\ current = NoHandler
      /\ dispatched = handled
  <2>1. frames # <<>>
    BY DEF WasmStep, Register, SetTimeout, ClearTimeout, Remove, Suspend, ReturnFromWasm, Running
  <2> QED  BY <2>1 DEF IInv, TypeOK, ResumeTracksSuspension, NoEventLost, IndexWaits
<1>2. CASE \E h \in Handlers : Register(h) \/ SetTimeout(h) \/ ClearTimeout(h) \/ Remove(h)
  <2>1. UNCHANGED <<control, frames, parked, history>>
    BY <1>2 DEF Register, SetTimeout, ClearTimeout, Remove
  <2>2. /\ fresh' \subseteq Handlers
        /\ registered' \subseteq Handlers
        /\ armed' \subseteq Handlers
    BY <1>2 DEF Register, SetTimeout, ClearTimeout, Remove, ArmedWithout, IInv, TypeOK
  <2> QED
    BY <1>1, <2>1, <2>2 DEF IInv, TypeOK, ResumeTracksSuspension, NoEventLost, IndexWaits,
       control, history
<1>3. CASE Suspend
  BY <1>1, <1>3 DEF Suspend, ResumeStored, Running, IInv, TypeOK, ResumeTracksSuspension, NoEventLost,
     IndexWaits, history
<1>4. CASE ReturnFromWasm
  <2>1. frames' \in Seq(FrameKinds)
    BY <1>4, PopFrame DEF ReturnFromWasm, Running, IInv, TypeOK
  <2> QED
    BY <1>1, <1>4, <2>1 DEF ReturnFromWasm, IInv, TypeOK, ResumeTracksSuspension, NoEventLost,
       IndexWaits, control, history
<1> QED  BY <1>2, <1>3, <1>4 DEF WasmStep

\* What running wasm code does keeps the listeners within the registered handlers,
\* provided that a timer's timeouts are cleared before the timer goes.
LEMMA WasmStepArmed ==
  ASSUME SInv, WasmStep, ClearBeforeDestroy
  PROVE  ArmedRegistered' /\ HandlersDefined'
<1>1. CASE \E h \in Handlers : Register(h) \/ SetTimeout(h) \/ ClearTimeout(h) \/ Remove(h)
  BY <1>1 DEF Register, SetTimeout, ClearTimeout, Remove, ArmedWithout, SInv, ArmedRegistered,
     HandlersDefined, history
<1>2. CASE Suspend \/ ReturnFromWasm
  BY <1>2 DEF Suspend, ReturnFromWasm, SInv, ArmedRegistered, HandlersDefined, history
<1> QED  BY <1>1, <1>2 DEF WasmStep

\* A stack with a direct call in it is never suspended under another one: suspend()
\* empties the live stack, and only the microtask brings frames back.
LEMMA DirectCalls ==
  ASSUME SInv, NativeDispatch, Next
  PROVE  DirectCallsWhenNotSuspended'
<1>1. CASE \E h \in Handlers : Register(h) \/ SetTimeout(h) \/ ClearTimeout(h) \/ Remove(h)
  BY <1>1 DEF Register, SetTimeout, ClearTimeout, Remove, SInv, DirectCallsWhenNotSuspended
<1>2. CASE Suspend
  BY <1>2 DEF Suspend, DirectCallsWhenNotSuspended
<1>3. CASE ReturnFromWasm
  BY <1>3 DEF ReturnFromWasm, Running, SInv, IInv, TypeOK, DirectCallsWhenNotSuspended
<1>4. CASE \E h \in Handlers : Dispatch(h)
  BY <1>4 DEF Dispatch, CanDispatch, Running, SInv, IInv, TypeOK, ResumeTracksSuspension,
     DirectCallsWhenNotSuspended
<1>5. CASE Resume
  BY <1>5 DEF Resume, DirectCallsWhenNotSuspended
<1>6. CASE Quiet
  BY <1>6 DEF Quiet, vars, SInv, DirectCallsWhenNotSuspended
<1> QED  BY <1>1, <1>2, <1>3, <1>4, <1>5, <1>6 DEF Next, WasmStep

\* The listener either parks its index for the microtask, or finds nothing
\* suspended and calls the handler: no index is overwritten.
LEMMA DispatchInv ==
  ASSUME SInv, NativeDispatch, NEW h \in Handlers, Dispatch(h)
  PROVE  IInv' /\ ArmedRegistered' /\ HandlersDefined'
<1>1. /\ microtask = FALSE
      /\ frames = <<>>
      /\ current = NoHandler
      /\ dispatched = handled
      /\ h \in registered
  BY DEF Dispatch, CanDispatch, Running, SInv, IInv, TypeOK, NoEventLost, IndexWaits,
     ArmedRegistered
<1>2. /\ Append(dispatched, h) \in Seq(Handlers)
      /\ armed' \subseteq armed
      /\ dispatched' = Append(dispatched, h)
      /\ UNCHANGED <<parked, fresh, registered>>
  BY DEF Dispatch, SInv, IInv, TypeOK
<1>3. CASE resume
  BY <1>1, <1>2, <1>3 DEF Dispatch, ResumeTaken, SInv, IInv, TypeOK, ResumeTracksSuspension,
     NoEventLost, IndexWaits, ArmedRegistered, HandlersDefined
<1>4. CASE ~ resume
  <2>1. /\ frames' = Append(<<>>, "direct")
        /\ handled' = Append(handled, h)
        /\ current' = NoHandler
        /\ UNCHANGED <<undefined, resume, microtask>>
    BY <1>1, <1>4 DEF Dispatch, CallHandler, CurrentTaken
  <2>2. frames' \in Seq(FrameKinds)
    BY <2>1 DEF FrameKinds
  <2> QED
    BY <1>1, <1>2, <1>4, <2>1, <2>2 DEF SInv, IInv, TypeOK, ResumeTracksSuspension, NoEventLost,
       IndexWaits, ArmedRegistered, HandlersDefined
<1> QED  BY <1>3, <1>4

\* The microtask calls the handler whose index waits.
LEMMA ResumeInv ==
  ASSUME SInv, Resume
  PROVE  IInv' /\ ArmedRegistered' /\ HandlersDefined'
<1>1. /\ microtask
      /\ current \in registered
      /\ current \in Handlers
      /\ current # NoHandler
      /\ ~ resume
      /\ dispatched = Append(handled, current)
  BY ControlAssumption DEF Resume, SInv, IInv, TypeOK, IndexWaits, NoEventLost,
     ResumeTracksSuspension, Handlers
<1>2. /\ frames' = Append(parked, "resumed")
      /\ handled' = Append(handled, current)
      /\ current' = NoHandler
      /\ microtask' = FALSE
      /\ parked' = <<>>
      /\ UNCHANGED <<undefined, resume, fresh, registered, armed, dispatched>>
  BY <1>1 DEF Resume, CallHandler, CurrentTaken
<1>3. frames' \in Seq(FrameKinds) /\ handled' \in Seq(Handlers)
  BY <1>1, <1>2 DEF SInv, IInv, TypeOK, FrameKinds
<1> QED
  BY <1>1, <1>2, <1>3 DEF SInv, IInv, TypeOK, ResumeTracksSuspension, NoEventLost, IndexWaits,
     ArmedRegistered, HandlersDefined

\* Every step keeps the invariant, in such a page.
LEMMA ControlStep ==
  ASSUME NativeDispatch, ClearBeforeDestroy
  PROVE  SInv /\ [Next]_vars => SInv'
<1> SUFFICES ASSUME SInv, [Next]_vars PROVE SInv'
  OBVIOUS
<1>1. CASE WasmStep
  BY <1>1, WasmStepInv, WasmStepArmed, DirectCalls DEF SInv, Next
<1>2. CASE \E h \in Handlers : Dispatch(h)
  BY <1>2, DispatchInv, DirectCalls DEF SInv, Next
<1>3. CASE Resume
  BY <1>3, ResumeInv, DirectCalls DEF SInv, Next
<1>4. CASE Quiet \/ UNCHANGED vars
  <2>1. UNCHANGED vars  BY <1>4 DEF Quiet
  <2>2. TypeOK'  BY <2>1 DEF vars, SInv, IInv, TypeOK
  <2>3. ResumeTracksSuspension'  BY <2>1 DEF vars, SInv, IInv, ResumeTracksSuspension
  <2>4. NoEventLost'  BY <2>1 DEF vars, SInv, IInv, NoEventLost
  <2>5. IndexWaits'  BY <2>1 DEF vars, SInv, IInv, IndexWaits
  <2>6. ArmedRegistered' /\ HandlersDefined'
    BY <2>1 DEF vars, SInv, ArmedRegistered, HandlersDefined
  <2>7. DirectCallsWhenNotSuspended'
    BY <2>1 DEF vars, SInv, DirectCallsWhenNotSuspended
  <2> QED  BY <2>2, <2>3, <2>4, <2>5, <2>6, <2>7 DEF SInv, IInv
<1> QED  BY <1>1, <1>2, <1>3, <1>4 DEF Next

\* IInv with the listeners' bookkeeping is inductive in a page where the browser
\* dispatches every event and clients clear timeouts in time.
THEOREM Inductive ==
  ASSUME NativeDispatch, ClearBeforeDestroy
  PROVE  Spec => []SInv
BY InitInv, ControlStep, PTL DEF Spec

\* Every event is handled once, in the order of arrival, whatever wasm code does
\* between two events: main() and handlers may suspend, nest and return at will.
THEOREM EventsKept ==
  ASSUME NativeDispatch, ClearBeforeDestroy
  PROVE  Spec => []NoEventLost
<1>1. SInv => NoEventLost  BY DEF SInv, IInv
<1> QED  BY Inductive, <1>1, PTL

\* No handler is called after it was removed: m_eventHandlers.find() succeeds.
THEOREM HandlersFound ==
  ASSUME NativeDispatch, ClearBeforeDestroy
  PROVE  Spec => []HandlersDefined
<1>1. SInv => HandlersDefined  BY DEF SInv
<1> QED  BY Inductive, <1>1, PTL

\* No handler is called directly while a stack is suspended.
THEOREM DirectCallsSafe ==
  ASSUME NativeDispatch, ClearBeforeDestroy
  PROVE  Spec => []DirectCallsWhenNotSuspended
<1>1. SInv => DirectCallsWhenNotSuspended  BY DEF SInv
<1> QED  BY Inductive, <1>1, PTL

\* control.resume tells the JavaScript side whether the instance is suspended.
THEOREM ResumeTruthful ==
  ASSUME NativeDispatch, ClearBeforeDestroy
  PROVE  Spec => []ResumeTracksSuspension
<1>1. SInv => ResumeTracksSuspension  BY DEF SInv, IInv
<1> QED  BY Inductive, <1>1, PTL

-----------------------------------------------------------------------------
(* ResumeExamples *)

\* Sequences of events are put together in any order.
LEMMA ThreeParts == \A s, h, t \in Seq(Nat) : s \o (h \o t) = (s \o h) \o t
<1> SUFFICES ASSUME NEW s \in Seq(Nat), NEW h \in Seq(Nat), NEW t \in Seq(Nat)
             PROVE  s \o (h \o t) = (s \o h) \o t
  OBVIOUS
<1> QED  BY ConcatAssociative, SMTT(30)

\* One more event at the end of those that are out.
LEMMA AppendToOut ==
  ASSUME NEW s \in Seq(Nat), NEW d \in Seq(Nat), NEW e \in Nat
  PROVE  Append(s \o d, e) = s \o Append(d, e)
<1>1. <<e>> \in Seq(Nat) /\ s \o d \in Seq(Nat)
  BY ConcatProperties
<1>2. Append(s \o d, e) = (s \o d) \o <<e>>
  BY <1>1, AppendIsConcat
<1>3. (s \o d) \o <<e>> = s \o (d \o <<e>>)
  BY <1>1, ConcatAssociative
<1>4. d \o <<e>> = Append(d, e)
  BY AppendIsConcat
<1> QED  BY <1>2, <1>3, <1>4

\* The oldest of the events that are out becomes the one that is answered next.
LEMMA OldestOut ==
  ASSUME NEW s \in Seq(Nat), NEW d \in Seq(Nat), d # <<>>
  PROVE  /\ Head(d) \in Nat
         /\ Tail(d) \in Seq(Nat)
         /\ s \o d = Append(s, Head(d)) \o Tail(d)
<1>1. Head(d) \in Nat /\ Tail(d) \in Seq(Nat) /\ <<Head(d)>> \in Seq(Nat)
  BY HeadTailProperties
<1>2. d = <<Head(d)>> \o Tail(d)
  <2>1. Len(d) \in 1 .. Len(d) /\ 1 \in 1 .. Len(d)
    BY EmptySeq, LenProperties
  <2>2. SubSeq(d, 1, Len(d)) = <<d[1]>> \o SubSeq(d, 1 + 1, Len(d))
    BY <2>1, SubSeqRecursiveFirst
  <2>3. SubSeq(d, 1, Len(d)) = d /\ SubSeq(d, 2, Len(d)) = Tail(d) /\ d[1] = Head(d)
    BY SubSeqFull, TailIsSubSeq, HeadTailProperties
  <2> QED  BY <2>2, <2>3
<1>3. s \o (<<Head(d)>> \o Tail(d)) = (s \o <<Head(d)>>) \o Tail(d)
  BY <1>1, ThreeParts, Zenon
<1>4. s \o <<Head(d)>> = Append(s, Head(d))
  BY <1>1, AppendIsConcat
<1> QED  BY <1>1, <1>2, <1>3, <1>4

\* main() suspends, when what it was resumed for has been handled.
LEMMA ExamplesSuspend ==
  ASSUME Examples!ExamplesIInv, Examples!Suspend
  PROVE  Examples!ExamplesIInv'
BY DEF Examples!Suspend, Examples!ExamplesIInv, Examples!ExamplesTypeOK, Examples!EventsOut,
       Examples!Answered, Examples!CallbacksLive

\* The event that main() was resumed for is handled: its callback is still there.
LEMMA ExamplesHandle ==
  ASSUME Examples!ExamplesIInv, NEW next \in Nat, Examples!Handle(next),
         \/ variant = "listener" /\ Examples!InvokeCurrentCallback
         \/ variant = "frames" /\ Examples!CallFrameCallback
         \/ variant \notin {"listener", "frames"} /\ UNCHANGED <<callbacks, failed>>
  PROVE  Examples!ExamplesIInv'
<1>1. /\ stack = "resuming" /\ stack' = "running"
      /\ called' = Append(called, index) /\ called' \in Seq(Nat)
      /\ index' = next
      /\ UNCHANGED <<variant, resolve, due, occurred>>
  BY DEF Examples!Handle, Examples!ExamplesIInv, Examples!ExamplesTypeOK
<1>2. /\ failed' = FALSE
      /\ callbacks' \in [index : Nat, live : SUBSET Nat]
      /\ callbacks'.index = callbacks.index
      /\ variant = "listener" => callbacks' = callbacks
      /\ variant = "frames" => callbacks'.live = callbacks.live \ {index}
  <2>1. CASE variant = "listener"
    BY <1>1, <2>1
    DEF Examples!InvokeCurrentCallback, Examples!Entry, Examples!ExamplesIInv,
        Examples!ExamplesTypeOK, Examples!CallbacksLive
  <2>2. CASE variant = "frames"
    BY <1>1, <2>2
    DEF Examples!CallFrameCallback, Examples!Entry, Examples!ExamplesIInv,
        Examples!ExamplesTypeOK, Examples!CallbacksLive
  <2>3. CASE variant \notin {"listener", "frames"}
    BY <2>3 DEF Examples!ExamplesIInv, Examples!ExamplesTypeOK
  <2> QED  BY <2>1, <2>2, <2>3
<1>3. Examples!ExamplesTypeOK'
  BY <1>1, <1>2 DEF Examples!ExamplesIInv, Examples!ExamplesTypeOK
<1>4. Examples!EventsOut'
  BY <1>1 DEF Examples!ExamplesIInv, Examples!EventsOut, Examples!Answered
<1>5. Examples!CallbacksLive'
  BY <1>1, <1>2 DEF Examples!ExamplesIInv, Examples!CallbacksLive
<1> QED  BY <1>1, <1>3, <1>4, <1>5 DEF Examples!ExamplesIInv

\* An event arrives while main() is suspended, and resumes it.
LEMMA ExamplesArrive ==
  ASSUME Examples!ExamplesIInv,
         Examples!PointerDown \/ Examples!Frame \/ Examples!ButtonClicked
  PROVE  Examples!ExamplesIInv'
<1>1. stack = "suspended" /\ resolve /\ variant # "wakeUp" /\ occurred = called
  BY DEF Examples!PointerDown, Examples!Frame, Examples!ButtonClicked, Examples!ExamplesIInv,
         Examples!EventsOut, Examples!Answered
<1>2. ASSUME NEW e \in Nat, Examples!Arrive(e), due' \in Seq(Nat),
             UNCHANGED <<variant, callbacks, called, failed>>, Examples!CallbacksLive'
      PROVE  Examples!ExamplesIInv'
  <2>1. /\ occurred' = Append(occurred, e) /\ occurred' \in Seq(Nat)
        /\ index' = e /\ stack' = "resuming"
    BY <1>1, <1>2
    DEF Examples!Arrive, Examples!Stored, Examples!ExamplesIInv, Examples!ExamplesTypeOK
  <2>2. resolve' \in BOOLEAN
    BY <1>2, Zenon DEF Examples!Arrive
  <2>3. Examples!ExamplesTypeOK'
    BY <1>2, <2>1, <2>2 DEF Examples!ExamplesIInv, Examples!ExamplesTypeOK
  <2>4. Examples!EventsOut'
    BY <1>1, <1>2, <2>1 DEF Examples!EventsOut, Examples!Answered
  <2> QED  BY <1>2, <2>1, <2>3, <2>4 DEF Examples!ExamplesIInv
<1>3. CASE Examples!PointerDown
  <2>1. callbacks.index \in Nat
    BY DEF Examples!ExamplesIInv, Examples!ExamplesTypeOK
  <2>2. index' = callbacks.index /\ variant = "listener"
    BY <1>3 DEF Examples!PointerDown, Examples!Arrive, Examples!Stored
  <2>3. Examples!CallbacksLive'
    BY <1>3, <2>2 DEF Examples!PointerDown, Examples!ExamplesIInv, Examples!CallbacksLive
  <2> QED
    BY <1>2, <1>3, <2>1, <2>3 DEF Examples!PointerDown, Examples!ExamplesIInv,
       Examples!ExamplesTypeOK
<1>4. CASE Examples!Frame
  <2>1. /\ due \in Seq(Nat) /\ due # <<>> /\ Head(due) = due[1] /\ 1 \in 1 .. Len(due)
        /\ Head(due) \in Nat /\ due' = Tail(due) /\ due' \in Seq(Nat)
    BY <1>4, HeadTailProperties DEF Examples!Frame, Examples!ExamplesIInv, Examples!ExamplesTypeOK
  <2>2. \A k \in 1 .. Len(due') : k + 1 \in 1 .. Len(due) /\ due'[k] = due[k + 1]
    BY <2>1
  <2>3. index' = Head(due) /\ variant \in {"frames", "wasm"} /\ UNCHANGED <<variant, callbacks>>
    BY <1>4 DEF Examples!Frame, Examples!Arrive, Examples!Stored
  <2>4. Examples!CallbacksLive'
    <3>1. SUFFICES ASSUME variant = "frames"
                   PROVE  /\ \A k \in 1 .. Len(due') : due'[k] \in callbacks.live
                          /\ \A j, k \in 1 .. Len(due') : j # k => due'[j] # due'[k]
                          /\ index' \in callbacks.live
                          /\ \A k \in 1 .. Len(due') : due'[k] # index'
      BY <2>3 DEF Examples!CallbacksLive
    <3>2. /\ \A k \in 1 .. Len(due) : due[k] \in callbacks.live
          /\ \A j, k \in 1 .. Len(due) : j # k => due[j] # due[k]
      BY <3>1 DEF Examples!ExamplesIInv, Examples!CallbacksLive
    <3>3. \A k \in 1 .. Len(due') : k \in Nat /\ k + 1 # 1
      OBVIOUS
    <3>4. \A j, k \in 1 .. Len(due') : j # k => j + 1 # k + 1
      OBVIOUS
    <3> QED  BY <2>1, <2>2, <2>3, <3>2, <3>3, <3>4
  <2> QED  BY <1>2, <1>4, <2>1, <2>4 DEF Examples!Frame
<1>5. CASE Examples!ButtonClicked
  <2>1. Len(occurred) + 1 \in Nat
    BY DEF Examples!ExamplesIInv, Examples!ExamplesTypeOK
  <2>2. Examples!CallbacksLive'
    BY <1>5 DEF Examples!ButtonClicked, Examples!CallbacksLive
  <2> QED
    BY <1>2, <1>5, <2>1, <2>2 DEF Examples!ButtonClicked, Examples!ExamplesIInv,
       Examples!ExamplesTypeOK
<1> QED  BY <1>3, <1>4, <1>5

\* A click whose wake-up waits for a timeout.
LEMMA ExamplesClick ==
  ASSUME Examples!ExamplesIInv, Examples!ResumeClicked
  PROVE  Examples!ExamplesIInv'
<1> DEFINE e == Len(occurred) + 1
<1>1. /\ e \in Nat /\ variant = "wakeUp" /\ stack = "suspended" /\ resolve
      /\ occurred = called \o due
      /\ called \in Seq(Nat) /\ due \in Seq(Nat) /\ occurred \in Seq(Nat)
  BY DEF Examples!ResumeClicked, Examples!ExamplesIInv, Examples!ExamplesTypeOK,
         Examples!EventsOut, Examples!Answered
<1>2. /\ occurred' = Append(occurred, e) /\ due' = Append(due, e)
      /\ UNCHANGED <<variant, stack, resolve, index, callbacks, called, failed>>
  BY <1>1 DEF Examples!ResumeClicked
<1> HIDE DEF e
<1>3. occurred' \in Seq(Nat) /\ due' \in Seq(Nat) /\ occurred' = called' \o due'
  <2>1. Append(occurred, e) \in Seq(Nat) /\ Append(due, e) \in Seq(Nat)
    BY <1>1
  <2>2. Append(called \o due, e) = called \o Append(due, e)
    BY <1>1, AppendToOut
  <2> QED  BY <1>1, <1>2, <2>1, <2>2
<1> QED
  BY <1>1, <1>2, <1>3
  DEF Examples!ExamplesIInv, Examples!ExamplesTypeOK, Examples!EventsOut, Examples!Answered,
      Examples!CallbacksLive

\* The oldest wake-up resumes main().
LEMMA ExamplesTimeout ==
  ASSUME Examples!ExamplesIInv, Examples!TimeoutFires
  PROVE  Examples!ExamplesIInv'
<1>1. /\ variant = "wakeUp" /\ stack = "suspended" /\ due # <<>>
      /\ occurred = called \o due
      /\ called \in Seq(Nat) /\ due \in Seq(Nat)
  BY DEF Examples!TimeoutFires, Examples!ExamplesIInv, Examples!ExamplesTypeOK,
         Examples!EventsOut, Examples!Answered
<1>2. /\ index' = Head(due) /\ due' = Tail(due) /\ stack' = "resuming"
      /\ UNCHANGED <<variant, resolve, callbacks, occurred, called, failed>>
  BY DEF Examples!TimeoutFires
<1>3. index' \in Nat /\ due' \in Seq(Nat) /\ occurred' = Append(called', index') \o due'
  BY <1>1, <1>2, OldestOut
<1> QED
  BY <1>1, <1>2, <1>3
  DEF Examples!ExamplesIInv, Examples!ExamplesTypeOK, Examples!EventsOut, Examples!Answered,
      Examples!CallbacksLive

\* Every step of the five programs keeps the invariant.
LEMMA ExamplesStep ==
  Examples!ExamplesIInv /\ [Examples!ExamplesNext]_resumeVars => Examples!ExamplesIInv'
<1> SUFFICES ASSUME Examples!ExamplesIInv, [Examples!ExamplesNext]_resumeVars
             PROVE  Examples!ExamplesIInv'
  OBVIOUS
<1>1. CASE Examples!InvokeCurrentCallback
  BY <1>1, ExamplesHandle DEF Examples!InvokeCurrentCallback, Examples!Nobody
<1>2. CASE Examples!CallFrameCallback
  BY <1>2, ExamplesHandle
  DEF Examples!CallFrameCallback, Examples!ExamplesIInv, Examples!ExamplesTypeOK
<1>3. CASE Examples!CallResumeFunction \/ Examples!LoopResumed \/ Examples!WokenUp
  BY <1>3, ExamplesHandle
  DEF Examples!CallResumeFunction, Examples!LoopResumed, Examples!WokenUp, Examples!Nobody
<1>4. CASE Examples!Idle \/ UNCHANGED resumeVars
  BY <1>4
  DEF Examples!Idle, Examples!resumeVars, resumeVars, Examples!ExamplesIInv,
      Examples!ExamplesTypeOK, Examples!EventsOut, Examples!Answered, Examples!CallbacksLive
<1> QED
  BY <1>1, <1>2, <1>3, <1>4, ExamplesSuspend, ExamplesArrive, ExamplesClick, ExamplesTimeout
  DEF Examples!ExamplesNext

\* main() runs, and its listener or its frames are registered.
LEMMA ExamplesStarts == Examples!ExamplesInit => Examples!ExamplesIInv
<1> SUFFICES ASSUME Examples!ExamplesInit PROVE Examples!ExamplesIInv
  OBVIOUS
<1>1. due \in {<<>>, <<1, 2>>} /\ due \in Seq(Nat)
  BY DEF Examples!ExamplesInit
<1>2. /\ callbacks \in [index : Nat, live : SUBSET Nat]
      /\ variant = "listener" => callbacks.index \in callbacks.live
      /\ variant = "frames" => callbacks.live = {1, 2}
  <2>1. CASE variant = "listener"
    BY <2>1 DEF Examples!ExamplesInit, Examples!Registered
  <2>2. CASE variant = "frames"
    BY <2>2 DEF Examples!ExamplesInit, Examples!Registered
  <2>3. CASE variant \notin {"listener", "frames"}
    BY <2>3 DEF Examples!ExamplesInit, Examples!Registered
  <2> QED  BY <2>1, <2>2, <2>3
<1>3. /\ \A k \in 1 .. Len(due) : due[k] \in {1, 2}
      /\ \A j, k \in 1 .. Len(due) : j # k => due[j] # due[k]
  BY <1>1
<1>4. Examples!CallbacksLive
  BY <1>2, <1>3 DEF Examples!ExamplesInit, Examples!CallbacksLive
<1>5. Examples!EventsOut
  BY DEF Examples!ExamplesInit, Examples!EventsOut, Examples!Answered
<1>6. Examples!ExamplesTypeOK
  <2>1. resolve \in BOOLEAN /\ failed = FALSE
    BY Zenon DEF Examples!ExamplesInit
  <2> QED
    BY <1>1, <1>2, <2>1 DEF Examples!ExamplesInit, Examples!ExamplesTypeOK, Examples!Nobody
<1> QED  BY <1>4, <1>5, <1>6 DEF Examples!ExamplesInit, Examples!ExamplesIInv

\* When main() waits again, what it was resumed for has been handled.
LEMMA ExamplesInOrder == Examples!ExamplesIInv => Examples!ResumedInOrder
<1> SUFFICES ASSUME Examples!ExamplesIInv PROVE Examples!ResumedInOrder
  OBVIOUS
<1>1. called \o <<>> = called
  BY ConcatEmptySeq DEF Examples!ExamplesIInv, Examples!ExamplesTypeOK
<1>2. ~ failed
  BY DEF Examples!ExamplesIInv, Examples!ExamplesTypeOK
<1> QED
  BY <1>1, <1>2
  DEF Examples!ExamplesIInv, Examples!EventsOut, Examples!Answered, Examples!ResumedInOrder

-----------------------------------------------------------------------------
(* ProcessEvents *)

\* Every step of the two programs keeps the invariant.
LEMMA LoopStep == Loop!LoopIInv /\ [Loop!LoopNext]_loopVars => Loop!LoopIInv'
<1> SUFFICES ASSUME Loop!LoopIInv, [Loop!LoopNext]_loopVars PROVE Loop!LoopIInv'
  OBVIOUS
<1> USE DEF Loop!LoopIInv, Loop!WaitsForItsInterrupt
<1>1. CASE Loop!MainFunc \/ Loop!WokeUp
  BY <1>1 DEF Loop!MainFunc, Loop!WokeUp, Loop!Moves
<1>2. CASE Loop!PollReturns
  <2>1. interrupt' = FALSE
    BY <1>2 DEF Loop!PollReturns, Loop!InterruptReset
  <2> QED  BY <1>2, <2>1 DEF Loop!PollReturns, Loop!Moves
<1>3. CASE Loop!WaitWakes
  <2>1. interrupt' \in BOOLEAN /\ (interrupt' => interrupt)
    BY <1>3 DEF Loop!WaitWakes, Loop!InterruptReset
  <2>2. pc' = "ended" => interrupt
    BY <1>3 DEF Loop!WaitWakes, Loop!Moves
  <2> QED  BY <1>3, <2>1, <2>2 DEF Loop!WaitWakes, Loop!Moves
<1>4. CASE Loop!Interrupt
  <2>1. interrupt' \in BOOLEAN /\ asked' \in BOOLEAN /\ (asked' <=> asked \/ pc = "wait")
    BY <1>4 DEF Loop!Interrupt
  <2> QED  BY <1>4, <2>1 DEF Loop!Interrupt
<1>5. CASE Loop!CustomSuspend
  BY <1>5 DEF Loop!CustomSuspend
<1>6. CASE Loop!Wake
  BY <1>6 DEF Loop!Wake, Loop!WakeUpPopped
<1>7. CASE Loop!SleeperReturns
  BY <1>7 DEF Loop!SleeperReturns
<1>8. CASE Loop!Quiet \/ UNCHANGED loopVars
  BY <1>8 DEF Loop!Quiet, Loop!loopVars, loopVars
<1> QED  BY <1>1, <1>2, <1>3, <1>4, <1>5, <1>6, <1>7, <1>8 DEF Loop!LoopNext

\* Nobody sleeps.
LEMMA LoopStarts == Loop!LoopInit => Loop!LoopIInv
<1> SUFFICES ASSUME Loop!LoopInit PROVE Loop!LoopIInv
  OBVIOUS
<1>1. interrupt \in BOOLEAN /\ asked \in BOOLEAN
  BY Zenon DEF Loop!LoopInit
<1> QED  BY <1>1 DEF Loop!LoopInit, Loop!LoopIInv, Loop!WaitsForItsInterrupt

-----------------------------------------------------------------------------
(* The run *)

\* Each program keeps its own invariant, whichever program takes the steps.
THEOREM SuspendInvariant ==
  ASSUME NativeDispatch, ClearBeforeDestroy
  PROVE  MCSpec => [](SInv /\ Examples!ExamplesIInv /\ Loop!LoopIInv)
<1> DEFINE AllI == SInv /\ Examples!ExamplesIInv /\ Loop!LoopIInv
<1>1. MCInit => AllI
  BY InitInv, ExamplesStarts, LoopStarts DEF MCInit
<1>2. AllI /\ [MCNext]_allVars => AllI'
  <2>1. [MCNext]_allVars => /\ [Next]_vars
                            /\ [Examples!ExamplesNext]_resumeVars
                            /\ [Loop!LoopNext]_loopVars
    BY DEF MCNext, InControl, InExamples, InLoop, In, allVars
  <2> QED  BY <2>1, ControlStep, ExamplesStep, LoopStep
<1> QED  BY <1>1, <1>2, PTL DEF MCSpec

\* control.resume is right about the suspended instance, no handler is called past a
\* suspended stack, main() is resumed in order, and the waiting call returns for an
\* interrupt of its own: for any handlers, events and calls of the page.
THEOREM SuspensionIsSound ==
  ASSUME NativeDispatch, ClearBeforeDestroy
  PROVE  MCSpec => []SuspensionSound
<1>1. SInv /\ Examples!ExamplesIInv /\ Loop!LoopIInv => SuspensionSound
  BY ExamplesInOrder DEF SInv, IInv, Loop!LoopIInv, SuspensionSound
<1> QED  BY <1>1, SuspendInvariant, PTL

=============================================================================
