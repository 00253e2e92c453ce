------------------------ MODULE RunOnThreads_proofs ------------------------
(***************************************************************************)
(* Proofs about RunOnThreads for every number of iterations, threads and   *)
(* pool threads. Inv is inductive; the safety properties follow from it.   *)
(***************************************************************************)
EXTENDS RunOnThreads, TLAPS

\* The pack is never larger than the loop and is not empty unless the loop is.
LEMMA PackFacts ==
  /\ PackSize \in Nat
  /\ PackSize <= IterationCount
  /\ IterationCount > 0 => PackSize > 0
  /\ Workers \subseteq Nat
  /\ Iterations \subseteq Nat
  /\ \A w \in Workers : 0 \in Iterations
BY PackAssumption DEF PackSize, Workers, Iterations

\* The call starts with no worker, no context and no iteration claimed.
LEMMA InitInv == Init => Inv
BY PackFacts, PackAssumption
   DEF Init, Inv, TypeOK, ClaimsConsistent, CallerConsistent, ContextsConsistent,
       WorkerPcs, CallerPcs, Running, Workers, Iterations

\* The steps of the caller claim no iteration and move no running worker.
LEMMA CallerStepInv == Inv /\ CallerStep => Inv'
<1> SUFFICES ASSUME Inv, CallerStep PROVE Inv'
  OBVIOUS
<1> USE PackFacts, PackAssumption
    DEF Inv, WorkerPcs, CallerPcs, Running, Workers
<1>1. CASE StartWorker
  <2>1. TypeOK'
    <3>1. caller.k + 1 \in 0 .. PackSize
      BY <1>1 DEF StartWorker, TypeOK, CallerConsistent
    <3>2. caller' \in [pc : CallerPcs, k : 0 .. PackSize]
      BY <1>1, <3>1 DEF StartWorker, TypeOK
    <3>3. QED
      BY <1>1, <3>2 DEF StartWorker, TypeOK
  <2>2. ClaimsConsistent'
    BY <1>1 DEF StartWorker, TypeOK, ClaimsConsistent, CallerConsistent
  <2>3. CallerConsistent'
    BY <1>1 DEF StartWorker, TypeOK, CallerConsistent, ContextsConsistent
  <2>4. ContextsConsistent'
    BY <1>1 DEF StartWorker, TypeOK, CallerConsistent, ContextsConsistent
  <2>5. QED
    BY <2>1, <2>2, <2>3, <2>4
<1>2. CASE AllStarted
  <2>1. TypeOK'
    BY <1>2 DEF AllStarted, TypeOK
  <2>2. ClaimsConsistent'
    BY <1>2 DEF AllStarted, TypeOK, ClaimsConsistent, CallerConsistent
  <2>3. CallerConsistent'
    BY <1>2 DEF AllStarted, TypeOK, CallerConsistent, ContextsConsistent
  <2>4. ContextsConsistent'
    BY <1>2 DEF AllStarted, TypeOK, CallerConsistent, ContextsConsistent
  <2>5. QED
    BY <2>1, <2>2, <2>3, <2>4
<1>3. CASE WaitFindsDone
  <2>1. TypeOK'
    <3>1. caller.k + 1 \in 0 .. PackSize
      BY <1>3 DEF WaitFindsDone, ContextDone, TypeOK, CallerConsistent
    <3>2. caller' \in [pc : CallerPcs, k : 0 .. PackSize]
      BY <1>3, <3>1 DEF WaitFindsDone, ContextDone, TypeOK
    <3>3. QED
      BY <1>3, <3>2 DEF WaitFindsDone, ContextDone, TypeOK
  <2>2. ClaimsConsistent'
    BY <1>3 DEF WaitFindsDone, ContextDone, TypeOK, ClaimsConsistent, CallerConsistent
  <2>3. CallerConsistent'
    BY <1>3 DEF WaitFindsDone, ContextDone, TypeOK, CallerConsistent, ContextsConsistent
  <2>4. ContextsConsistent'
    BY <1>3 DEF WaitFindsDone, ContextDone, TypeOK, CallerConsistent, ContextsConsistent
  <2>5. QED
    BY <2>1, <2>2, <2>3, <2>4
<1>4. CASE WaitSleeps
  <2>1. TypeOK'
    BY <1>4 DEF WaitSleeps, ContextDone, TypeOK
  <2>2. ClaimsConsistent'
    BY <1>4 DEF WaitSleeps, ContextDone, TypeOK, ClaimsConsistent, CallerConsistent
  <2>3. CallerConsistent'
    BY <1>4 DEF WaitSleeps, ContextDone, TypeOK, CallerConsistent, ContextsConsistent
  <2>4. ContextsConsistent'
    BY <1>4 DEF WaitSleeps, ContextDone, TypeOK, CallerConsistent, ContextsConsistent
  <2>5. QED
    BY <2>1, <2>2, <2>3, <2>4
<1>5. CASE WaitWakes
  <2>1. TypeOK'
    <3>1. caller.k + 1 \in 0 .. PackSize
      BY <1>5 DEF WaitWakes, MutexFree, TypeOK, CallerConsistent
    <3>2. caller' \in [pc : CallerPcs, k : 0 .. PackSize]
      BY <1>5, <3>1 DEF WaitWakes, MutexFree, TypeOK
    <3>3. QED
      BY <1>5, <3>2 DEF WaitWakes, MutexFree, TypeOK
  <2>2. ClaimsConsistent'
    BY <1>5 DEF WaitWakes, MutexFree, TypeOK, ClaimsConsistent, CallerConsistent
  <2>3. CallerConsistent'
    BY <1>5 DEF WaitWakes, MutexFree, TypeOK, CallerConsistent, ContextsConsistent
  <2>4. ContextsConsistent'
    BY <1>5 DEF WaitWakes, MutexFree, TypeOK, CallerConsistent, ContextsConsistent
  <2>5. QED
    BY <2>1, <2>2, <2>3, <2>4
<1>6. CASE Return
  <2>1. TypeOK'
    BY <1>6 DEF Return, TypeOK
  <2>2. ClaimsConsistent'
    BY <1>6 DEF Return, TypeOK, ClaimsConsistent, CallerConsistent
  <2>3. CallerConsistent'
    BY <1>6 DEF Return, TypeOK, CallerConsistent, ContextsConsistent
  <2>4. ContextsConsistent'
    BY <1>6 DEF Return, TypeOK, CallerConsistent, ContextsConsistent
  <2>5. QED
    BY <2>1, <2>2, <2>3, <2>4
<1>7. QED
  BY <1>1, <1>2, <1>3, <1>4, <1>5, <1>6 DEF CallerStep

\* A step of a runnable keeps the invariant.
LEMMA WorkerStepInv == ASSUME NEW w \in Workers, Inv, WorkerStep(w) PROVE Inv'
<1> USE PackFacts, PackAssumption
    DEF Inv, WorkerPcs, CallerPcs, Running, Workers
<1>1. CASE Dispatch(w)
  <2>1. TypeOK'
    BY <1>1 DEF Dispatch, TypeOK
  <2>2. ClaimsConsistent'
    BY <1>1 DEF Dispatch, TypeOK, ClaimsConsistent, CallerConsistent
  <2>3. CallerConsistent'
    BY <1>1 DEF Dispatch, TypeOK, CallerConsistent, ContextsConsistent
  <2>4. ContextsConsistent'
    BY <1>1 DEF Dispatch, TypeOK, CallerConsistent, ContextsConsistent
  <2>5. QED
    BY <2>1, <2>2, <2>3, <2>4
<1>2. CASE NextIteration(w)
  <2>1. TypeOK'
    <3>1. CASE NoneLeft(currentIteration)
      BY <1>2, <3>1 DEF NextIteration, TakenIteration, TypeOK
    <3>2. CASE ~ NoneLeft(currentIteration)
      <4>1. currentIteration \in Iterations
        BY <3>2 DEF NoneLeft, TypeOK, Iterations
      <4>2. QED
        BY <1>2, <3>2, <4>1 DEF NextIteration, TakenIteration, TypeOK
    <3>3. QED
      BY <3>1, <3>2
  <2>2. ClaimsConsistent'
    <3>1. CASE NoneLeft(currentIteration)
      <4>1. /\ worker' = [worker EXCEPT ![w] = "signal"]
            /\ UNCHANGED <<claimed, calls>>
            /\ currentIteration' = currentIteration + 1
            /\ currentIteration >= IterationCount
        BY <1>2, <3>1 DEF NextIteration, NoneLeft, TakenIteration
      <4>2. \A v \in Workers : worker[v] = "call" => worker'[v] = "call"
        BY <1>2, <4>1 DEF NextIteration, TypeOK
      <4>3. \A v \in Workers : worker'[v] = "call" => worker[v] = "call"
        BY <4>1 DEF TypeOK
      <4>4. \A i \in Iterations : i < currentIteration
        BY <4>1 DEF Iterations, TypeOK
      <4>5. \A i \in Iterations :
              i < currentIteration' /\ calls'[i] = 0 =>
                \E v \in Workers : worker'[v] = "call" /\ claimed'[v] = i
        BY <4>1, <4>2, <4>4 DEF ClaimsConsistent
      <4>6. \A i \in Iterations : ~ (i >= currentIteration')
        BY <4>1, <4>4 DEF TypeOK
      <4>7. \A v \in Workers : worker'[v] = "call" =>
              claimed'[v] < currentIteration' /\ calls'[claimed'[v]] = 0
        <5>1. SUFFICES ASSUME NEW v \in Workers, worker'[v] = "call"
                       PROVE  claimed[v] < currentIteration + 1 /\ calls[claimed[v]] = 0
          BY <4>1
        <5>2. worker[v] = "call"
          BY <4>3, <5>1
        <5>3. claimed[v] \in Nat
          BY DEF TypeOK
        <5>4. QED
          BY <5>2, <5>3 DEF ClaimsConsistent, TypeOK
      <4>8. currentIteration' >= IterationCount
        BY <4>1 DEF TypeOK
      <4>9. QED
        BY <4>1, <4>3, <4>5, <4>6, <4>7, <4>8 DEF ClaimsConsistent
    <3>2. CASE ~ NoneLeft(currentIteration)
      <4>1. /\ currentIteration \in Iterations
            /\ calls[currentIteration] = 0
            /\ \A v \in Workers : worker[v] = "call" => claimed[v] # currentIteration
        BY <3>2 DEF NoneLeft, TypeOK, Iterations, ClaimsConsistent
      <4>2. /\ worker' = [worker EXCEPT ![w] = "call"]
            /\ claimed' = [claimed EXCEPT ![w] = currentIteration]
            /\ currentIteration' = currentIteration + 1
            /\ calls' = calls
        BY <1>2, <3>2 DEF NextIteration, TakenIteration
      <4>3. \A i \in Iterations :
              i < currentIteration' /\ calls'[i] = 0 =>
                \E v \in Workers : worker'[v] = "call" /\ claimed'[v] = i
        <5>1. SUFFICES ASSUME NEW i \in Iterations, i < currentIteration + 1, calls[i] = 0
                       PROVE  \E v \in Workers : worker'[v] = "call" /\ claimed'[v] = i
          BY <4>2
        <5>2. CASE i = currentIteration
          BY <4>2, <5>2 DEF TypeOK
        <5>3. CASE i < currentIteration
          <6>1. PICK v \in Workers : worker[v] = "call" /\ claimed[v] = i
            BY <5>1, <5>3 DEF ClaimsConsistent
          <6>2. v # w
            BY <6>1, <1>2 DEF NextIteration
          <6>3. QED
            BY <4>2, <6>1, <6>2 DEF TypeOK
        <5>4. QED
          BY <5>1, <5>2, <5>3 DEF TypeOK, Iterations
      <4>4. \A v \in Workers :
              worker'[v] = "call" =>
                claimed'[v] < currentIteration' /\ calls'[claimed'[v]] = 0
        <5>1. SUFFICES ASSUME NEW v \in Workers, worker'[v] = "call"
                       PROVE  claimed'[v] < currentIteration + 1 /\ calls[claimed'[v]] = 0
          BY <4>2
        <5>2. CASE v = w
          BY <4>1, <4>2, <5>2 DEF TypeOK
        <5>3. CASE v # w
          <6>1. worker[v] = "call" /\ claimed'[v] = claimed[v]
            BY <4>2, <5>1, <5>3 DEF TypeOK
          <6>2. claimed[v] \in Nat
            BY DEF TypeOK
          <6>3. QED
            BY <6>1, <6>2 DEF TypeOK, ClaimsConsistent
        <5>4. QED
          BY <5>2, <5>3
      <4>5. \A u, v \in Workers :
              worker'[u] = "call" /\ worker'[v] = "call" /\ claimed'[u] = claimed'[v] => u = v
        BY <4>1, <4>2 DEF TypeOK, ClaimsConsistent
      <4>6. \A v \in Workers :
              worker'[v] \in {"signal", "unlock", "exited"} => currentIteration' >= IterationCount
        BY <4>2 DEF TypeOK, ClaimsConsistent
      <4>7. \A i \in Iterations : calls'[i] <= 1 /\ (i >= currentIteration' => calls'[i] = 0)
        BY <4>2 DEF TypeOK, ClaimsConsistent, Iterations
      <4>8. QED
        BY <4>3, <4>4, <4>5, <4>6, <4>7 DEF ClaimsConsistent
    <3>3. QED
      BY <3>1, <3>2
  <2>3. CallerConsistent'
    BY <1>2 DEF NextIteration, NoneLeft, TakenIteration, TypeOK, CallerConsistent, ContextsConsistent
  <2>4. ContextsConsistent'
    BY <1>2 DEF NextIteration, NoneLeft, TakenIteration, TypeOK, CallerConsistent, ContextsConsistent
  <2>5. QED
    BY <2>1, <2>2, <2>3, <2>4
<1>3. CASE CallFn(w)
  <2>1. TypeOK'
    <3>1. claimed[w] \in Iterations
      BY DEF TypeOK
    <3>2. calls[claimed[w]] \in Nat
      BY <3>1 DEF TypeOK
    <3>3. calls' \in [Iterations -> Nat]
      BY <1>3, <3>1, <3>2 DEF CallFn, TypeOK
    <3>4. QED
      BY <1>3, <3>3 DEF CallFn, TypeOK
  <2>2. ClaimsConsistent'
    BY <1>3 DEF CallFn, TypeOK, ClaimsConsistent, CallerConsistent
  <2>3. CallerConsistent'
    BY <1>3 DEF CallFn, TypeOK, CallerConsistent, ContextsConsistent
  <2>4. ContextsConsistent'
    BY <1>3 DEF CallFn, TypeOK, CallerConsistent, ContextsConsistent
  <2>5. QED
    BY <2>1, <2>2, <2>3, <2>4
<1>4. CASE SignalDone(w)
  <2>1. TypeOK'
    BY <1>4 DEF SignalDone, WakeOne, TypeOK
  <2>2. ClaimsConsistent'
    BY <1>4 DEF SignalDone, WakeOne, TypeOK, ClaimsConsistent, CallerConsistent
  <2>3. CallerConsistent'
    BY <1>4 DEF SignalDone, WakeOne, TypeOK, CallerConsistent, ContextsConsistent
  <2>4. ContextsConsistent'
    BY <1>4 DEF SignalDone, WakeOne, TypeOK, CallerConsistent, ContextsConsistent
  <2>5. QED
    BY <2>1, <2>2, <2>3, <2>4
<1>5. CASE UnlockContext(w)
  <2>1. TypeOK'
    BY <1>5 DEF UnlockContext, TypeOK
  <2>2. ClaimsConsistent'
    BY <1>5 DEF UnlockContext, TypeOK, ClaimsConsistent, CallerConsistent
  <2>3. CallerConsistent'
    BY <1>5 DEF UnlockContext, TypeOK, CallerConsistent, ContextsConsistent
  <2>4. ContextsConsistent'
    BY <1>5 DEF UnlockContext, TypeOK, CallerConsistent, ContextsConsistent
  <2>5. QED
    BY <2>1, <2>2, <2>3, <2>4
<1>6. QED
  BY <1>1, <1>2, <1>3, <1>4, <1>5 DEF WorkerStep

\* Inv holds in every reachable state, type correctness included.
THEOREM Inductive == Spec => []Inv
<1>1. Inv /\ [Next]_vars => Inv'
  <2> SUFFICES ASSUME Inv, [Next]_vars PROVE Inv'
    OBVIOUS
  <2>1. CASE CallerStep
    BY <2>1, CallerStepInv
  <2>2. CASE \E w \in Workers : WorkerStep(w)
    BY <2>2, WorkerStepInv
  <2>3. CASE UNCHANGED vars
    BY <2>3 DEF vars, Inv, TypeOK, ClaimsConsistent, CallerConsistent, ContextsConsistent
  <2>4. QED
    BY <2>1, <2>2, <2>3 DEF Next, Finished
<1>2. QED
  BY InitInv, <1>1, PTL DEF Spec

\* Every iteration runs exactly once when the call has returned, and at most
\* once before: the claim under the mutex and the wait for each context suffice.
THEOREM ExactlyOnce == Spec => []EachIterationOnce
<1>1. Inv => EachIterationOnce
  <2> SUFFICES ASSUME Inv, NEW i \in Iterations, caller.pc = "returned"
               PROVE  calls[i] = 1
    BY DEF Inv, EachIterationOnce, ClaimsConsistent
  <2>1. \A w \in Workers : worker[w] \in {"unlock", "exited"}
    BY DEF Inv, CallerConsistent, ContextsConsistent
  <2>2. 0 \in Workers
    BY PackFacts, PackAssumption DEF Workers, Iterations
  <2>3. i < currentIteration
    BY <2>1, <2>2, PackAssumption DEF Inv, TypeOK, ClaimsConsistent, Iterations
  <2>4. calls[i] # 0
    BY <2>1, <2>3 DEF Inv, ClaimsConsistent
  <2>5. QED
    BY <2>4 DEF Inv, TypeOK, ClaimsConsistent
<1>2. QED
  BY <1>1, Inductive, PTL

\* No worker can still touch the caller's stack once runOnThreads has returned.
THEOREM Quiescence == Spec => []NoWorkerOutlivesCall
<1>1. Inv => NoWorkerOutlivesCall
  BY DEF Inv, CallerConsistent, ContextsConsistent, NoWorkerOutlivesCall
<1>2. QED
  BY <1>1, Inductive, PTL

\* A context is deleted only after its worker has unlocked it.
THEOREM ContextSafety == Spec => []NoUseAfterDelete
<1>1. Inv => NoUseAfterDelete
  BY DEF Inv, ContextsConsistent, NoUseAfterDelete
<1>2. QED
  BY <1>1, Inductive, PTL

\* Every step of the code is a step of ParallelFor or leaves it unchanged.
THEOREM Implementation == Spec => Promise!Init /\ [][Promise!Next]_Promise!vars
<1> DEFINE ran == {i \in Iterations : calls[i] > 0}
<1>1. Init => Promise!Init
  BY DEF Init, Promise!Init, Iterations
<1>2. Inv /\ Inv' /\ [Next]_vars => [Promise!Next]_Promise!vars
  <2> SUFFICES ASSUME Inv, Inv', [Next]_vars
               PROVE  [Promise!Next]_Promise!vars
    OBVIOUS
  <2>1. ASSUME NEW w \in Workers, CallFn(w) PROVE Promise!Next
    <3>1. /\ claimed[w] \in Iterations
          /\ calls[claimed[w]] = 0
          /\ calls' = [calls EXCEPT ![claimed[w]] = @ + 1]
          /\ caller' = caller
      BY <2>1 DEF CallFn, Inv, TypeOK, ClaimsConsistent
    <3>2. caller.pc # "returned"
      BY <2>1 DEF CallFn, Inv, CallerConsistent, ContextsConsistent
    <3>3. ran' = ran \cup {claimed[w]} /\ claimed[w] \notin ran
      BY <3>1 DEF Inv, TypeOK
    <3>4. claimed[w] \in 0 .. IterationCount - 1
      BY <3>1 DEF Iterations
    <3>5. QED
      BY <3>1, <3>2, <3>3, <3>4 DEF Promise!Next, Promise!RunIteration
  <2>2. CASE Return
    <3>1. caller'.pc = "returned" /\ calls' = calls
      BY <2>2 DEF Return, Inv, TypeOK
    <3>2. \A i \in Iterations : calls[i] = 1
      <4> SUFFICES ASSUME NEW i \in Iterations PROVE calls[i] = 1
        OBVIOUS
      <4>1. \A w \in Workers : worker'[w] \in {"unlock", "exited"}
        BY <3>1 DEF Inv, CallerConsistent, ContextsConsistent
      <4>2. 0 \in Workers
        BY PackFacts, PackAssumption DEF Workers, Iterations
      <4>3. i < currentIteration'
        BY <4>1, <4>2, PackAssumption DEF Inv, TypeOK, ClaimsConsistent, Iterations
      <4>4. calls'[i] # 0
        BY <4>1, <4>3 DEF Inv, ClaimsConsistent
      <4>5. calls[i] \in Nat /\ calls[i] <= 1
        BY DEF Inv, TypeOK, ClaimsConsistent
      <4>6. QED
        BY <3>1, <4>4, <4>5
    <3>3. Promise!ReturnToCaller
      BY <3>1, <3>2 DEF Promise!ReturnToCaller, Iterations
    <3>4. QED
      BY <3>3 DEF Promise!Next
  <2>3. ASSUME calls' = calls, (caller'.pc = "returned") = (caller.pc = "returned")
        PROVE  UNCHANGED Promise!vars
    BY <2>3 DEF Promise!vars
  <2>4. CASE CallerStep /\ ~ Return
    BY <2>3, <2>4 DEF CallerStep, StartWorker, AllStarted, WaitFindsDone, WaitSleeps, WaitWakes,
                      Inv, TypeOK
  <2>5. ASSUME NEW w \in Workers, WorkerStep(w), ~ CallFn(w)
        PROVE  UNCHANGED Promise!vars
    BY <2>3, <2>5 DEF WorkerStep, Dispatch, NextIteration, SignalDone, UnlockContext, WakeOne,
                      Inv, TypeOK
  <2>6. CASE UNCHANGED vars
    BY <2>3, <2>6 DEF vars
  <2>7. QED
    BY <2>1, <2>2, <2>4, <2>5, <2>6 DEF Next, Finished
<1>3. QED
  BY <1>1, <1>2, Inductive, PTL DEF Spec

=============================================================================
