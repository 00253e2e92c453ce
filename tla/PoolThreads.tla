------------------------------ MODULE PoolThreads ------------------------------
(***************************************************************************)
(* core_threads and emscripten_pthreads: a main thread that creates        *)
(* threads and waits for them on the browser's main thread.                *)
(*                                                                         *)
(* A thread runs in a web worker. The program starts with a pool of them;  *)
(* when it is empty, the browser has to create one, which it cannot do     *)
(* while the main thread is in a call that waits. A worker goes back to    *)
(* the pool when its thread is joined, or when the main thread has         *)
(* returned to the browser.                                                *)
(*                                                                         *)
(* The threads of emscripten_pthreads add to one variable without a lock.  *)
(* The timeouts that they set only print, and are left out.                *)
(***************************************************************************)
EXTENDS Naturals

CONSTANT PoolSizes   \* values of PTHREAD_POOL_SIZE

VARIABLES
  poolProgram,   \* the program that runs
  poolSize,      \* PTHREAD_POOL_SIZE
  idleWorkers,   \* web workers without a thread
  poolThread,    \* poolThread[t]: the state of thread t
  loadedValue,   \* loadedValue[t]: the value that thread t has read
  mainStep,      \* the step of main() that is next
  value          \* value

vars == <<poolProgram, poolSize, idleWorkers, poolThread, loadedValue, mainStep, value>>

Programs == {"core_threads", "emscripten_pthreads"}
Threads == 1 .. 3
Steps == {"create 1", "create 2", "wait 1", "wait 2", "create 3", "returned"}

TypeOK ==
  /\ poolProgram \in Programs
  /\ poolSize \in PoolSizes
  /\ idleWorkers \in Nat
  /\ poolThread \in [Threads -> {"none", "no worker", "running", "adding", "ended", "joined"}]
  /\ loadedValue \in [Threads -> Nat]
  /\ mainStep \in Steps
  /\ value \in Nat

Init ==
  /\ poolProgram \in Programs
  /\ poolSize \in PoolSizes
  /\ idleWorkers = poolSize
  /\ poolThread = [t \in Threads |-> "none"]
  /\ loadedValue = [t \in Threads |-> 0]
  /\ mainStep = "create 1"
  /\ value = 0

-----------------------------------------------------------------------------
(* Updates, each preceded by the wrong variant that mutation testing puts in *)
(* its place.                                                                *)

NotWaited == "create 3"
\* main() and create_and_join(): all threads are created before the first is waited for
AfterSecond == "wait 1"

-----------------------------------------------------------------------------

After(step) ==
  CASE step = "create 1" -> "create 2"
    [] step = "create 2" -> AfterSecond
    [] step = "wait 1" -> "wait 2"
    [] step = "wait 2" -> IF poolProgram = "core_threads" THEN "returned" ELSE "create 3"
    [] OTHER -> "returned"

\* QThread::start(), pthread_create()
Create(t) ==
  /\ poolThread[t] = "none"
  /\ IF idleWorkers > 0
       THEN /\ idleWorkers' = idleWorkers - 1
            /\ poolThread' = [poolThread EXCEPT ![t] = "running"]
       ELSE /\ poolThread' = [poolThread EXCEPT ![t] = "no worker"]
            /\ UNCHANGED idleWorkers

\* QThread::wait(), pthread_join() return
Join(t) ==
  /\ poolThread[t] = "ended"
  /\ poolThread' = [poolThread EXCEPT ![t] = "joined"]
  /\ idleWorkers' = idleWorkers + 1

\* main(), create_and_join(), create_and_timer()
MainStep ==
  /\ \/ mainStep = "create 1" /\ Create(1)
     \/ mainStep = "create 2" /\ Create(2)
     \/ mainStep = "create 3" /\ Create(3)
     \/ mainStep = "wait 1" /\ Join(1)
     \/ mainStep = "wait 2" /\ Join(2)
  /\ mainStep' = After(mainStep)
  /\ UNCHANGED <<poolProgram, poolSize, loadedValue, value>>

\* the browser creates a worker: when main() has returned
BrowserStartsWorker(t) ==
  /\ mainStep = "returned"
  /\ poolThread[t] = "no worker"
  /\ poolThread' = [poolThread EXCEPT ![t] = "running"]
  /\ UNCHANGED <<poolProgram, poolSize, idleWorkers, loadedValue, mainStep, value>>

\* the lambdas: those of core_threads only print, the others read value
RunThread(t) ==
  /\ poolThread[t] = "running"
  /\ IF poolProgram = "core_threads"
       THEN /\ poolThread' = [poolThread EXCEPT ![t] = "ended"]
            /\ UNCHANGED loadedValue
       ELSE /\ poolThread' = [poolThread EXCEPT ![t] = "adding"]
            /\ loadedValue' = [loadedValue EXCEPT ![t] = value]
  /\ UNCHANGED <<poolProgram, poolSize, idleWorkers, mainStep, value>>

\* and write it
AddOne(t) ==
  /\ poolThread[t] = "adding"
  /\ value' = loadedValue[t] + 1
  /\ poolThread' = [poolThread EXCEPT ![t] = "ended"]
  /\ UNCHANGED <<poolProgram, poolSize, idleWorkers, loadedValue, mainStep>>

\* main() has returned, or waits for a thread that cannot start
Rest == UNCHANGED vars

Next ==
  \/ MainStep
  \/ \E t \in Threads : BrowserStartsWorker(t) \/ RunThread(t) \/ AddOne(t)
  \/ Rest

Spec ==
  /\ Init
  /\ [][Next]_vars
  /\ WF_vars(MainStep)
  /\ \A t \in Threads : WF_vars(RunThread(t) \/ AddOne(t))

-----------------------------------------------------------------------------
(* Properties *)

Created == {t \in Threads : poolThread[t] # "none"}

\* With a worker in the pool for each of the two threads the waiting ends, and the
\* third thread finds a worker again, and all threads end; with fewer the main thread
\* waits for ever, as the note at core_threads/main.cpp:24 says. The two threads of
\* emscripten_pthreads that run together may lose one addition, but no more: the third
\* one reads what they have left.
WaitsEnd ==
  <>(IF poolSize >= 2
       THEN /\ mainStep = "returned"
            /\ \A t \in Created : poolThread[t] \in {"ended", "joined"}
            /\ poolProgram = "emscripten_pthreads" => value \in {2, 3}
       ELSE [](mainStep \in {"wait 1", "wait 2"}))

=============================================================================
