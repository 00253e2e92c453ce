----------------------------- MODULE ThreadTester -----------------------------
(***************************************************************************)
(* ThreadCreateJoinTester (emscripten_proxying_queue/main.cpp) and the     *)
(* asyncLoop() that runs a number of testers one after the other.          *)
(*                                                                         *)
(* The main thread creates std::threads, at most maxLiveThreads at a time. *)
(* A thread only proxies a task to the main thread, through a queue that   *)
(* is a member of the tester. The task joins the thread, creates more of   *)
(* them and, when it was the last, reports the result, which starts the    *)
(* next tester, and deletes its own tester, queue included.                *)
(*                                                                         *)
(* The main thread runs tasks from its event loop, one at a time; joining  *)
(* is the only thing that blocks it. Emscripten's proxying queue and       *)
(* std::thread are external.                                               *)
(***************************************************************************)
EXTENDS Naturals, FiniteSets, Sequences

CONSTANTS
  Runs,               \* asyncLoop's n: testers run one after the other
  MaxLiveThreads,     \* maxConcurrentThreads
  MaxCreatedThreads   \* threadCount

ASSUME TesterAssumption ==
  /\ Runs \in Nat \ {0}
  /\ MaxLiveThreads \in Nat \ {0}
  /\ MaxCreatedThreads \in Nat \ {0}

Testers == 1 .. Runs
Threads == 1 .. MaxCreatedThreads

VARIABLES
  main,      \* [pc, i, k]: what the main thread executes, for tester i, thread k
  tester,    \* tester[i]: its members, and whether it is allocated
  thread,    \* thread[i][k]: "none", "started", "posting" (in proxyAsync), "exited"
  tasks,     \* tasks[i]: the threads whose task is in m_queue
  joined,    \* joined[i]: the threads that were joined and deleted
  reports    \* reports[i]: calls of done(finalThreadCount, elapsed)

vars == <<main, tester, thread, tasks, joined, reports>>

MainPcs == {"idle", "join", "createFirst", "createMore", "check", "delete"}
ThreadStates == {"none", "started", "posting", "exited"}

TypeOK ==
  /\ main \in [pc : MainPcs, i : Testers, k : Threads]
  /\ tester \in [Testers -> [memory : {"none", "live", "freed"}, live : Nat,
                             created : 0 .. MaxCreatedThreads, timedout : BOOLEAN]]
  /\ thread \in [Testers -> [Threads -> ThreadStates]]
  /\ tasks \in [Testers -> SUBSET Threads]
  /\ joined \in [Testers -> SUBSET Threads]
  /\ reports \in [Testers -> Seq(0 .. MaxCreatedThreads)]

NewTester == [memory |-> "live", live |-> 0, created |-> 0, timedout |-> FALSE]

\* main() up to the first run(): asyncLoop called its first iteration
Init ==
  /\ main = [pc |-> "createFirst", i |-> 1, k |-> 1]
  /\ tester = [i \in Testers |-> IF i = 1 THEN NewTester ELSE [NewTester EXCEPT !.memory = "none"]]
  /\ thread = [i \in Testers |-> [k \in Threads |-> "none"]]
  /\ tasks = [i \in Testers |-> {}]
  /\ joined = [i \in Testers |-> {}]
  /\ reports = [i \in Testers |-> <<>>]

-----------------------------------------------------------------------------
(* Tests inside the actions, each preceded by the wrong variants that       *)
(* mutation testing puts in its place.                                      *)

CreateForever(t) == ~ t.timedout /\ t.live # MaxLiveThreads
CreateWithoutLimit(t) == ~ t.timedout /\ t.created # MaxCreatedThreads
CreateAfterTimeout(t) == t.created # MaxCreatedThreads /\ t.live # MaxLiveThreads
\* tryIncrementTreadCount()
CanCreate(t) ==
  /\ ~ t.timedout
  /\ t.created # MaxCreatedThreads
  /\ t.live # MaxLiveThreads

DoneWhenAllCreated(t) == t.timedout \/ t.created = MaxCreatedThreads
DoneWhenNoneLive(t) == t.live = 0 /\ t.created = MaxCreatedThreads
\* the condition of checkDone()
AllDone(t) == (t.timedout \/ t.created = MaxCreatedThreads) /\ t.live = 0

JoinDoesNotWait(s) == TRUE
\* std::thread::join() returns when the thread function has returned
JoinReturns(s) == s = "exited"

-----------------------------------------------------------------------------
(* The main thread *)

\* the event loop executes a task of a queue that still exists
BeginTask(i, k) ==
  /\ main.pc = "idle"
  /\ k \in tasks[i]
  /\ tasks' = [tasks EXCEPT ![i] = @ \ {k}]
  /\ main' = [pc |-> "join", i |-> i, k |-> k]
  /\ UNCHANGED <<tester, thread, joined, reports>>

\* joinThread(thread); decrementThreadCount()
JoinThread ==
  /\ main.pc = "join"
  /\ JoinReturns(thread[main.i][main.k])
  /\ joined' = [joined EXCEPT ![main.i] = @ \cup {main.k}]
  /\ tester' = [tester EXCEPT ![main.i].live = @ - 1]
  /\ main' = [main EXCEPT !.pc = "createMore"]
  /\ UNCHANGED <<thread, tasks, reports>>

\* one turn of the loop in createThreads()
CreateThread ==
  LET i == main.i
      k == tester[i].created + 1
  IN
  /\ main.pc \in {"createFirst", "createMore"}
  /\ CanCreate(tester[i])
  /\ tester' = [tester EXCEPT ![i].created = k, ![i].live = @ + 1]
  /\ thread' = [thread EXCEPT ![i][k] = "started"]
  /\ UNCHANGED <<main, tasks, joined, reports>>

\* createThreads() returns: to checkDone() in a task; from run(), to main() or
\* to the checkDone() of the tester before, which deletes itself
CreateThreadsReturns ==
  LET i == main.i IN
  /\ main.pc \in {"createFirst", "createMore"}
  /\ ~ CanCreate(tester[i])
  /\ main' = CASE main.pc = "createMore"         -> [main EXCEPT !.pc = "check"]
               [] main.pc = "createFirst" /\ i = 1 -> [main EXCEPT !.pc = "idle"]
               [] OTHER                          -> [main EXCEPT !.pc = "delete", !.i = i - 1]
  /\ UNCHANGED <<tester, thread, tasks, joined, reports>>

\* checkDone(): the clock decides m_timedout; done() calls iterationDone(),
\* which creates and runs the next tester
CheckDone ==
  LET i == main.i IN
  /\ main.pc = "check"
  /\ \E late \in BOOLEAN :
       LET t == [tester[i] EXCEPT !.timedout = @ \/ late] IN
       IF AllDone(t)
         THEN /\ reports' = [reports EXCEPT ![i] = Append(@, t.created)]
              /\ tester' = [j \in Testers |->
                   IF j = i THEN t ELSE IF j = i + 1 THEN NewTester ELSE tester[j]]
              /\ main' = IF i = Runs
                           THEN [main EXCEPT !.pc = "delete"]
                           ELSE [main EXCEPT !.pc = "createFirst", !.i = i + 1]
         ELSE /\ tester' = [tester EXCEPT ![i] = t]
              /\ main' = [main EXCEPT !.pc = "idle"]
              /\ UNCHANGED reports
  /\ UNCHANGED <<thread, tasks, joined>>

\* delete this: the members go, the queue with its tasks among them
DeleteTester ==
  /\ main.pc = "delete"
  /\ tester' = [tester EXCEPT ![main.i].memory = "freed"]
  /\ tasks' = [tasks EXCEPT ![main.i] = {}]
  /\ main' = [main EXCEPT !.pc = "idle"]
  /\ UNCHANGED <<thread, joined, reports>>

-----------------------------------------------------------------------------
(* The threads: threadFunction() *)

\* m_queue.proxyAsync(): the task is in the queue, the call has not returned
PostTask(i, k) ==
  /\ thread[i][k] = "started"
  /\ thread' = [thread EXCEPT ![i][k] = "posting"]
  /\ tasks' = [tasks EXCEPT ![i] = @ \cup {k}]
  /\ UNCHANGED <<main, tester, joined, reports>>

\* proxyAsync() and threadFunction() return
ExitThread(i, k) ==
  /\ thread[i][k] = "posting"
  /\ thread' = [thread EXCEPT ![i][k] = "exited"]
  /\ UNCHANGED <<main, tester, tasks, joined, reports>>

-----------------------------------------------------------------------------

MainStep ==
  \/ \E i \in Testers, k \in Threads : BeginTask(i, k)
  \/ JoinThread
  \/ CreateThread
  \/ CreateThreadsReturns
  \/ CheckDone
  \/ DeleteTester

ThreadStep(i, k) == PostTask(i, k) \/ ExitThread(i, k)

\* the last tester is gone; the runtime stays alive
TestCompleted ==
  /\ main.pc = "idle"
  /\ tester[Runs].memory = "freed"
  /\ UNCHANGED vars

Next ==
  \/ MainStep
  \/ \E i \in Testers, k \in Threads : ThreadStep(i, k)
  \/ TestCompleted

\* Started threads are scheduled, and the browser runs the main thread's tasks.
Fairness ==
  /\ WF_vars(MainStep)
  /\ \A i \in Testers, k \in Threads : WF_vars(ThreadStep(i, k))

Spec == Init /\ [][Next]_vars /\ Fairness

-----------------------------------------------------------------------------
(* Properties *)

Unjoined(i) == {k \in Threads : thread[i][k] # "none"} \ joined[i]

\* However tasks and threads interleave, at most maxConcurrentThreads threads
\* exist that are not joined, over all testers together.
LiveThreadsBounded ==
  \A i, j \in Testers :
    /\ Cardinality(Unjoined(i)) <= MaxLiveThreads
    /\ Unjoined(i) # {} /\ Unjoined(j) # {} => i = j

\* delete this happens inside a task of the tester's own queue: by then no
\* thread is left in proxyAsync on that queue, nor is a task waiting in it.
NoUseAfterDelete ==
  \A i \in Testers :
    tester[i].memory = "freed" =>
      /\ \A k \in Threads : thread[i][k] \in {"none", "exited"}
      /\ tasks[i] = {}

\* done() is called once per tester, with the number of threads really joined,
\* which is all of them unless the tester timed out.
ReportsRight ==
  \A i \in Testers :
    /\ Len(reports[i]) <= 1
    /\ reports[i] # <<>> =>
         /\ reports[i][1] = Cardinality(joined[i])
         /\ ~ tester[i].timedout => reports[i][1] = MaxCreatedThreads

\* A tester that has timed out creates no more threads.
NoneCreatedAfterTimeout ==
  [][\A i \in Testers : tester[i].timedout => tester'[i].created = tester[i].created]_vars

\* Every tester ends, in time or not, and the loop gets to its end.
AllTestersEnd == <>(\A i \in Testers : tester[i].memory = "freed")

-----------------------------------------------------------------------------
(* Why: the inductive invariant of the proofs *)

ThreadsCreated ==
  \A i \in Testers, k \in Threads : thread[i][k] = "none" <=> k > tester[i].created

\* a task is that of a thread that has posted it and was not joined
TasksPosted ==
  \A i \in Testers :
    /\ \A k \in joined[i] : thread[i][k] = "exited" /\ k \notin tasks[i]
    /\ \A k \in tasks[i] : thread[i][k] \in {"posting", "exited"}

JoinsPosted ==
  main.pc = "join" =>
    /\ thread[main.i][main.k] \in {"posting", "exited"}
    /\ main.k \notin joined[main.i] \cup tasks[main.i]

LiveCounted ==
  \A i \in Testers :
    /\ tester[i].live = Cardinality(Unjoined(i))
    /\ tester[i].live <= MaxLiveThreads

\* testers follow one another: one begins when the one before has reported
InTurn ==
  /\ \A i, j \in Testers : i < j /\ tester[j].memory # "none" => reports[i] # <<>>
  /\ main.pc \in {"join", "createFirst", "createMore", "check"} =>
       tester[main.i].memory = "live" /\ reports[main.i] = <<>>
  /\ main.pc = "delete" => reports[main.i] # <<>>

\* nothing happens to a tester before it is made, nor after it has reported
Reported ==
  \A i \in Testers :
    /\ tester[i].memory = "none" => tester[i].created = 0 /\ reports[i] = <<>>
    /\ tester[i].memory = "freed" => reports[i] # <<>>
    /\ reports[i] # <<>> =>
         /\ reports[i] = <<tester[i].created>>
         /\ tester[i].live = 0
         /\ tester[i].timedout \/ tester[i].created = MaxCreatedThreads

IInv ==
  /\ TypeOK
  /\ ThreadsCreated
  /\ TasksPosted
  /\ JoinsPosted
  /\ LiveCounted
  /\ InTurn
  /\ Reported

=============================================================================
