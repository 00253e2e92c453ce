---------------------------- MODULE RunOnThreads ----------------------------
(***************************************************************************)
(* One call of runOnThreads() (widgets_mandelbrot/renderthread.cpp), the   *)
(* parallel loop every render pass is built on: the caller starts a pack   *)
(* of runnables on the global QThreadPool, the runnables claim iterations  *)
(* from a shared counter, and the caller waits for each of them through a  *)
(* heap-allocated WaitContext.                                             *)
(*                                                                         *)
(* A critical section that touches only its own mutex's data is one step.  *)
(* The context mutex is explicit, because what the waiter does once it is  *)
(* woken (it deletes the context) races with the worker's unlock.          *)
(* QWaitCondition has no spurious wake-ups: Qt's wait() loops on a counter *)
(* of pending wake-ups.                                                    *)
(***************************************************************************)
EXTENDS Naturals, FiniteSets

CONSTANTS
  IterationCount,  \* iterationCount: the tiles of a pass
  MaxThreads,      \* maxThreads
  PoolSize         \* QThreadPool::maxThreadCount()

ASSUME PackAssumption ==
  /\ IterationCount \in Nat
  /\ MaxThreads \in Nat \ {0}
  /\ PoolSize \in Nat \ {0}

Iterations == 0 .. IterationCount - 1

\* const int threadPackSize = qMin(iterationCount, maxThreads)
PackSize == IF IterationCount < MaxThreads THEN IterationCount ELSE MaxThreads
Workers == 0 .. PackSize - 1

VARIABLES
  currentIteration,  \* the shared counter, on the caller's stack
  caller,            \* [pc, k]: the caller's position, and the worker it is at
  worker,            \* worker[w]: position of runnable w
  claimed,           \* claimed[w]: the iteration w holds
  calls,             \* calls[i]: how often fn(i) ran to its end
  context,           \* context[w]: "none", "live" or "freed"
  ctxOwner,          \* ctxOwner[w]: who holds context->mutex
  done               \* done[w]: context->done

vars == <<currentIteration, caller, worker, claimed, calls, context, ctxOwner, done>>

WorkerPcs == {"none", "queued", "claim", "call", "signal", "unlock", "exited"}
Running == {"claim", "call", "signal", "unlock"}
CallerPcs == {"start", "wait", "sleeping", "woken", "returned"}

TypeOK ==
  /\ currentIteration \in Nat
  /\ caller \in [pc : CallerPcs, k : 0 .. PackSize]
  /\ worker \in [Workers -> WorkerPcs]
  /\ claimed \in [Workers -> Iterations]
  /\ calls \in [Iterations -> Nat]
  /\ context \in [Workers -> {"none", "live", "freed"}]
  /\ ctxOwner \in [Workers -> {"free", "worker"}]
  /\ done \in [Workers -> BOOLEAN]

Init ==
  /\ currentIteration = 0
  /\ caller = [pc |-> "start", k |-> 0]
  /\ worker = [w \in Workers |-> "none"]
  /\ claimed = [w \in Workers |-> 0]
  /\ calls = [i \in Iterations |-> 0]
  /\ context = [w \in Workers |-> "none"]
  /\ ctxOwner = [w \in Workers |-> "free"]
  /\ done = [w \in Workers |-> FALSE]

-----------------------------------------------------------------------------
(* Tests and updates of the critical sections, each with the wrong variant  *)
(* (named after the mistake) that mutation testing puts in its place.       *)

PreIncrement == currentIteration + 1
\* return currentIteration++: the value before the increment
TakenIteration == currentIteration

NoneLeftOffByOne(i) == i > IterationCount
\* if (i >= iterationCount)
NoneLeft(i) == i >= IterationCount

DoneWhenStarted(k) == worker[k] # "none"
\* if (context->done)
ContextDone(k) == done[k]

LostWakeUp(w) == caller
\* threadDone.wakeOne(): reaches the caller only when it sleeps on this context
WakeOne(w) ==
  IF caller.pc = "sleeping" /\ caller.k = w
    THEN [caller EXCEPT !.pc = "woken"]
    ELSE caller

MutexNotTaken(k) == TRUE
\* the mutex a wait condition takes back before wait() returns
MutexFree(k) == ctxOwner[k] = "free"

-----------------------------------------------------------------------------
(* The caller *)

\* waitFns.append(runOnThread(threadFn)): a new context, a runnable in the pool
StartWorker ==
  LET k == caller.k IN
  /\ caller.pc = "start"
  /\ k < PackSize
  /\ context' = [context EXCEPT ![k] = "live"]
  /\ worker' = [worker EXCEPT ![k] = "queued"]
  /\ caller' = [caller EXCEPT !.k = k + 1]
  /\ UNCHANGED <<currentIteration, claimed, calls, ctxOwner, done>>

\* the second loop, over waitFns, begins
AllStarted ==
  /\ caller.pc = "start"
  /\ caller.k = PackSize
  /\ caller' = [pc |-> "wait", k |-> 0]
  /\ UNCHANGED <<currentIteration, worker, claimed, calls, context, ctxOwner, done>>

\* waitFn finds done set and returns early: the context is not deleted
WaitFindsDone ==
  LET k == caller.k IN
  /\ caller.pc = "wait"
  /\ k < PackSize
  /\ ctxOwner[k] = "free"
  /\ ContextDone(k)
  /\ caller' = [caller EXCEPT !.k = k + 1]
  /\ UNCHANGED <<currentIteration, worker, claimed, calls, context, ctxOwner, done>>

\* waitFn finds done unset: threadDone.wait() releases the mutex as it sleeps
WaitSleeps ==
  LET k == caller.k IN
  /\ caller.pc = "wait"
  /\ k < PackSize
  /\ ctxOwner[k] = "free"
  /\ ~ ContextDone(k)
  /\ caller' = [caller EXCEPT !.pc = "sleeping"]
  /\ UNCHANGED <<currentIteration, worker, claimed, calls, context, ctxOwner, done>>

\* wait() takes the mutex back and returns; the locker goes; delete context
WaitWakes ==
  LET k == caller.k IN
  /\ caller.pc = "woken"
  /\ MutexFree(k)
  /\ context' = [context EXCEPT ![k] = "freed"]
  /\ caller' = [pc |-> "wait", k |-> k + 1]
  /\ UNCHANGED <<currentIteration, worker, claimed, calls, ctxOwner, done>>

\* the end of runOnThreads: mutex, currentIteration and waitFns leave scope
Return ==
  /\ caller.pc = "wait"
  /\ caller.k = PackSize
  /\ caller' = [caller EXCEPT !.pc = "returned"]
  /\ UNCHANGED <<currentIteration, worker, claimed, calls, context, ctxOwner, done>>

-----------------------------------------------------------------------------
(* The runnables *)

\* the pool gives a queued runnable a thread when it has one
Dispatch(w) ==
  /\ worker[w] = "queued"
  /\ Cardinality({v \in Workers : worker[v] \in Running}) < PoolSize
  /\ worker' = [worker EXCEPT ![w] = "claim"]
  /\ UNCHANGED <<currentIteration, caller, claimed, calls, context, ctxOwner, done>>

\* int i = nextIteration(), under its mutex, and the test that ends the loop
NextIteration(w) ==
  /\ worker[w] = "claim"
  /\ currentIteration' = currentIteration + 1
  /\ IF NoneLeft(TakenIteration)
       THEN /\ worker' = [worker EXCEPT ![w] = "signal"]
            /\ UNCHANGED claimed
       ELSE /\ worker' = [worker EXCEPT ![w] = "call"]
            /\ claimed' = [claimed EXCEPT ![w] = TakenIteration]
  /\ UNCHANGED <<caller, calls, context, ctxOwner, done>>

\* fn(i): generate() stores function(i) in results[i]
CallFn(w) ==
  /\ worker[w] = "call"
  /\ calls' = [calls EXCEPT ![claimed[w]] = @ + 1]
  /\ worker' = [worker EXCEPT ![w] = "claim"]
  /\ UNCHANGED <<currentIteration, caller, claimed, context, ctxOwner, done>>

\* QMutexLocker lock; done = true; wakeOne(): reaches the caller only asleep
SignalDone(w) ==
  /\ worker[w] = "signal"
  /\ ctxOwner[w] = "free"
  /\ ctxOwner' = [ctxOwner EXCEPT ![w] = "worker"]
  /\ done' = [done EXCEPT ![w] = TRUE]
  /\ caller' = WakeOne(w)
  /\ worker' = [worker EXCEPT ![w] = "unlock"]
  /\ UNCHANGED <<currentIteration, claimed, calls, context>>

\* the locker's destructor unlocks context->mutex and the runnable ends
UnlockContext(w) ==
  /\ worker[w] = "unlock"
  /\ ctxOwner' = [ctxOwner EXCEPT ![w] = "free"]
  /\ worker' = [worker EXCEPT ![w] = "exited"]
  /\ UNCHANGED <<currentIteration, caller, claimed, calls, context, done>>

WorkerStep(w) ==
  \/ Dispatch(w)
  \/ NextIteration(w)
  \/ CallFn(w)
  \/ SignalDone(w)
  \/ UnlockContext(w)

CallerStep ==
  \/ StartWorker
  \/ AllStarted
  \/ WaitFindsDone
  \/ WaitSleeps
  \/ WaitWakes
  \/ Return

\* the call is over: nothing more happens
Finished ==
  /\ caller.pc = "returned"
  /\ \A w \in Workers : worker[w] = "exited"
  /\ UNCHANGED vars

Next == CallerStep \/ (\E w \in Workers : WorkerStep(w)) \/ Finished

\* The operating system schedules every thread that can run.
Fairness == WF_vars(CallerStep) /\ \A w \in Workers : WF_vars(WorkerStep(w))

Spec == Init /\ [][Next]_vars /\ Fairness

-----------------------------------------------------------------------------
(* Properties *)

\* "calls the provided fn iterationCount times": no iteration runs twice, and
\* when runOnThreads returns every one of them has run, so generate() has
\* filled results[] when renderPass reads it.
EachIterationOnce ==
  \A i \in Iterations :
    /\ calls[i] <= 1
    /\ caller.pc = "returned" => calls[i] = 1

\* The workers hold references to the caller's stack (mutex, currentIteration,
\* the results of generate): none can still use them after runOnThreads returned.
NoWorkerOutlivesCall ==
  caller.pc = "returned" =>
    \A w \in Workers : worker[w] \in {"unlock", "exited"}

\* The waiter deletes a WaitContext, mutex included, only when the worker is
\* through with it: a worker that still has to signal or unlock has it live.
NoUseAfterDelete ==
  \A w \in Workers : worker[w] \in Running => context[w] = "live"

\* The facts about one reachable state that the three invariants above follow
\* from: who may hold which iteration, how far the caller got, and what a
\* worker's position says of its context. Checked as an invariant, and proved
\* inductive in RunOnThreads_proofs.
ClaimsConsistent ==
  /\ \A i \in Iterations : calls[i] <= 1
  /\ \A i \in Iterations : i >= currentIteration => calls[i] = 0
  /\ \A i \in Iterations :
       i < currentIteration /\ calls[i] = 0 =>
         \E w \in Workers : worker[w] = "call" /\ claimed[w] = i
  /\ \A w \in Workers : worker[w] = "call" =>
       claimed[w] < currentIteration /\ calls[claimed[w]] = 0
  /\ \A v, w \in Workers :
       worker[v] = "call" /\ worker[w] = "call" /\ claimed[v] = claimed[w] => v = w
  /\ \A w \in Workers :
       worker[w] \in {"signal", "unlock", "exited"} => currentIteration >= IterationCount

CallerConsistent ==
  /\ caller.pc = "start" => \A w \in Workers : worker[w] = "none" <=> w >= caller.k
  /\ caller.pc # "start" => \A w \in Workers : worker[w] # "none"
  /\ caller.pc \in {"wait", "sleeping", "woken"} =>
       \A w \in Workers : w < caller.k => done[w]
  /\ caller.pc \in {"sleeping", "woken"} => caller.k < PackSize
  /\ caller.pc = "woken" => done[caller.k]
  /\ caller.pc = "returned" => \A w \in Workers : done[w]

ContextsConsistent ==
  \A w \in Workers :
    /\ done[w] <=> worker[w] \in {"unlock", "exited"}
    /\ ctxOwner[w] = "worker" <=> worker[w] = "unlock"
    /\ worker[w] \in Running \cup {"queued"} => context[w] = "live"

Inv == TypeOK /\ ClaimsConsistent /\ CallerConsistent /\ ContextsConsistent

\* No wake-up is lost between the test of done and the wait: runOnThreads
\* returns, whatever the number of pool threads.
CallReturns == <>(caller.pc = "returned")

\* The code implements the parallel loop it documents: every call of fn happens
\* inside the call of runOnThreads, once, and the return comes after all of them.
Promise == INSTANCE ParallelFor WITH
  ran <- {i \in Iterations : calls[i] > 0},
  returned <- (caller.pc = "returned")

ImplementsParallelFor == Promise!Spec

=============================================================================
