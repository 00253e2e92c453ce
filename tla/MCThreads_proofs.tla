--------------------------- MODULE MCThreads_proofs ---------------------------
(***************************************************************************)
(* Proofs about the programs of MCThreads, one after the other.            *)
(* ThreadTester: for any number of testers, threads and live threads, the  *)
(* limit on live threads holds, no tester is deleted with a thread or a    *)
(* task left that uses its queue, and each reports once and truthfully.    *)
(* The invariant counts: the live threads of a tester are those that exist *)
(* and were not joined, so that none is left when the count is zero.       *)
(* EchoSockets: for messages and buffers of any length, a client gets its  *)
(* bytes back in order while reads keep messages whole.                    *)
(***************************************************************************)
EXTENDS MCThreads, FiniteSetTheorems, SequenceTheorems, TLAPS

-----------------------------------------------------------------------------
(* ThreadTester *)

TesterSet == [memory : {"none", "live", "freed"}, live : Nat,
              created : 0 .. MaxCreatedThreads, timedout : BOOLEAN]

\* The threads of a tester that are not joined are finitely many; there are none if none is
\* live.
LEMMA UnjoinedFinite ==
  ASSUME NEW i \in Testers
  PROVE  /\ IsFiniteSet(Unjoined(i))
         /\ Cardinality(Unjoined(i)) = 0 <=> Unjoined(i) = {}
<1>1. IsFiniteSet(Threads)
  BY FS_Interval, TesterAssumption DEF Threads
<1>2. Unjoined(i) \in SUBSET Threads
  BY DEF Unjoined
<1> QED  BY <1>1, <1>2, FS_Subset, FS_EmptySet

\* A tester that has reported, or was not made, has no thread that is not joined.
LEMMA NoneLeft ==
  ASSUME IInv, NEW i \in Testers, reports[i] # <<>> \/ tester[i].memory \in {"none", "freed"}
  PROVE  Unjoined(i) = {} /\ tester[i].live = 0
<1>1. CASE reports[i] # <<>>
  <2>1. tester[i].live = 0
    BY <1>1 DEF IInv, Reported
  <2> QED  BY <2>1, UnjoinedFinite DEF IInv, LiveCounted
<1>2. CASE tester[i].memory = "none"
  <2>1. tester[i].created = 0
    BY <1>2 DEF IInv, Reported
  <2>2. \A k \in Threads : k > 0
    BY DEF Threads
  <2>3. \A k \in Threads : thread[i][k] = "none"
    BY <2>1, <2>2 DEF IInv, ThreadsCreated
  <2>4. Unjoined(i) = {}
    BY <2>3 DEF Unjoined
  <2> QED  BY <2>4, UnjoinedFinite DEF IInv, LiveCounted
<1>3. CASE tester[i].memory = "freed"
  <2>1. reports[i] # <<>>
    BY <1>3 DEF IInv, Reported
  <2> QED  BY <1>1, <2>1
<1> QED  BY <1>1, <1>2, <1>3

\* A tester with a thread that is not joined is live and has not reported.
LEMMA UnjoinedLive ==
  ASSUME IInv, NEW i \in Testers, Unjoined(i) # {}
  PROVE  tester[i].memory = "live" /\ reports[i] = <<>>
<1>1. tester[i].memory \in {"none", "live", "freed"}
  BY DEF IInv, TypeOK
<1> QED  BY <1>1, NoneLeft

\* Counts follow the threads that are not joined; a step that changes neither keeps them.
LEMMA CountsKept ==
  ASSUME IInv, NEW i \in Testers, tester'[i].live = tester[i].live,
         joined'[i] = joined[i],
         \A k \in Threads : thread'[i][k] = "none" <=> thread[i][k] = "none"
  PROVE  /\ tester'[i].live = Cardinality(Unjoined(i)')
         /\ tester'[i].live <= MaxLiveThreads
<1>1. Unjoined(i)' = Unjoined(i)
  BY DEF Unjoined
<1> QED  BY <1>1 DEF IInv, LiveCounted

\* The invariant holds when the first tester begins.
LEMMA Starts == Init => IInv
<1> SUFFICES ASSUME Init
             PROVE  IInv
  OBVIOUS
<1> USE TesterAssumption
<1>1. 1 \in Testers /\ 1 \in Threads
  BY DEF Testers, Threads
<1>2. NewTester \in TesterSet /\ [NewTester EXCEPT !.memory = "none"] \in TesterSet
  <2>1. 0 \in 0 .. MaxCreatedThreads
    OBVIOUS
  <2>2. NewTester \in TesterSet
    BY <2>1 DEF NewTester, TesterSet
  <2> QED  BY <2>2 DEF TesterSet
<1>3. \A i \in Testers : tester[i].created = 0 /\ tester[i].live = 0
  BY DEF Init, NewTester
<1>4. TypeOK
  <2>1. main \in [pc : MainPcs, i : Testers, k : Threads]
    BY <1>1 DEF Init, MainPcs
  <2>2. tester \in [Testers -> TesterSet]
    BY <1>2 DEF Init
  <2>3. reports \in [Testers -> Seq(0 .. MaxCreatedThreads)]
    BY DEF Init
  <2> QED  BY <2>1, <2>2, <2>3 DEF Init, TypeOK, TesterSet, ThreadStates
<1>5. ThreadsCreated
  BY <1>3 DEF Init, ThreadsCreated, Threads
<1>6. TasksPosted /\ JoinsPosted
  BY DEF Init, TasksPosted, JoinsPosted
<1>7. LiveCounted
  <2> SUFFICES ASSUME NEW i \in Testers
               PROVE  tester[i].live = Cardinality(Unjoined(i)) /\ tester[i].live <= MaxLiveThreads
    BY DEF LiveCounted
  <2>1. Unjoined(i) = {}
    BY DEF Init, Unjoined
  <2> QED  BY <1>3, <2>1, FS_EmptySet
<1>8. InTurn
  BY DEF Init, InTurn, NewTester, Testers
<1>9. Reported
  BY <1>3 DEF Init, Reported, NewTester
<1> QED  BY <1>4, <1>5, <1>6, <1>7, <1>8, <1>9 DEF IInv

\* A task whose thread was not joined is taken from the queue of a tester that is live.
LEMMA BeginTaskStep ==
  ASSUME IInv, NEW i \in Testers, NEW k \in Threads, BeginTask(i, k)
  PROVE  IInv'
<1> USE DEF BeginTask
<1>1. thread[i][k] \in {"posting", "exited"} /\ k \notin joined[i]
  BY DEF IInv, TasksPosted
<1>2. k \in Unjoined(i)
  BY <1>1 DEF Unjoined
<1>3. tester[i].memory = "live" /\ reports[i] = <<>>
  BY <1>2, UnjoinedLive
<1>4. TypeOK'
  BY DEF IInv, TypeOK, MainPcs
<1>5. ThreadsCreated'
  BY DEF IInv, ThreadsCreated
<1>6. TasksPosted' /\ JoinsPosted'
  BY <1>1 DEF IInv, TypeOK, TasksPosted, JoinsPosted
<1>7. LiveCounted'
  BY CountsKept DEF LiveCounted
<1>8. InTurn' /\ Reported'
  BY <1>3 DEF IInv, InTurn, Reported
<1> QED  BY <1>4, <1>5, <1>6, <1>7, <1>8 DEF IInv

\* Joining takes one thread from those that are not joined, and one from the count.
LEMMA JoinThreadStep ==
  ASSUME IInv, JoinThread
  PROVE  IInv'
<1> DEFINE i == main.i
           k == main.k
<1> USE DEF JoinThread, JoinReturns
<1>1. i \in Testers /\ k \in Threads
  BY DEF IInv, TypeOK
<1>2. thread[i][k] = "exited" /\ k \notin joined[i] /\ k \notin tasks[i]
  BY DEF IInv, JoinsPosted
<1>3. k \in Unjoined(i)
  BY <1>1, <1>2 DEF Unjoined
<1>4. tester[i].live \in Nat /\ tester[i].live > 0
  <2>1. tester[i].live = Cardinality(Unjoined(i)) /\ tester[i].live \in Nat
    BY <1>1 DEF IInv, LiveCounted, TypeOK
  <2> QED  BY <1>1, <1>3, <2>1, UnjoinedFinite
<1>5. /\ tester' \in [Testers -> TesterSet]
      /\ tester'[i].live = tester[i].live - 1
      /\ \A j \in Testers : j # i => tester'[j] = tester[j]
      /\ \A j \in Testers : /\ tester'[j].memory = tester[j].memory
                            /\ tester'[j].created = tester[j].created
                            /\ tester'[j].timedout = tester[j].timedout
  <2> DEFINE t == [tester[i] EXCEPT !.live = @ - 1]
  <2>1. tester \in [Testers -> TesterSet]
    BY DEF IInv, TypeOK, TesterSet
  <2>2. tester' = [tester EXCEPT ![i] = t]
    OBVIOUS
  <2>3. tester[i] \in TesterSet
    BY <1>1, <2>1
  <2>4. /\ t \in TesterSet
        /\ t.live = tester[i].live - 1
        /\ t.memory = tester[i].memory
        /\ t.created = tester[i].created
        /\ t.timedout = tester[i].timedout
    BY <1>4, <2>3 DEF TesterSet
  <2> HIDE DEF t
  <2> QED  BY <1>1, <2>1, <2>2, <2>4
<1>6. /\ joined'[i] = joined[i] \cup {k}
      /\ \A j \in Testers : j # i => joined'[j] = joined[j]
      /\ joined' \in [Testers -> SUBSET Threads]
  BY <1>1 DEF IInv, TypeOK
<1>7. TypeOK'
  BY <1>5, <1>6 DEF IInv, TypeOK, TesterSet, MainPcs
<1>8. ThreadsCreated'
  BY <1>5 DEF IInv, ThreadsCreated
<1>9. TasksPosted' /\ JoinsPosted'
  <2>1. main'.pc # "join"
    BY DEF IInv, TypeOK
  <2> QED  BY <1>1, <1>2, <1>6, <2>1 DEF IInv, TasksPosted, JoinsPosted
<1>10. LiveCounted'
  <2> SUFFICES ASSUME NEW j \in Testers
               PROVE  /\ tester'[j].live = Cardinality(Unjoined(j)')
                      /\ tester'[j].live <= MaxLiveThreads
    BY DEF LiveCounted
  <2>1. CASE j = i
    <3>1. Unjoined(i)' = Unjoined(i) \ {k}
      BY <1>6 DEF Unjoined
    <3>2. Cardinality(Unjoined(i)') = Cardinality(Unjoined(i)) - 1
      BY <1>1, <1>3, <3>1, UnjoinedFinite, FS_RemoveElement
    <3>3. tester[i].live = Cardinality(Unjoined(i)) /\ tester[i].live <= MaxLiveThreads
      BY <1>1 DEF IInv, LiveCounted
    <3> QED  BY <1>4, <1>5, <2>1, <3>2, <3>3, TesterAssumption
  <2>2. CASE j # i
    BY <1>5, <1>6, <2>2, CountsKept
  <2> QED  BY <2>1, <2>2
<1>11. InTurn'
  BY <1>5 DEF IInv, InTurn, TypeOK
<1>12. Reported'
  <2>1. reports[i] = <<>>
    BY DEF IInv, InTurn
  <2> QED  BY <1>5, <2>1 DEF IInv, Reported
<1> QED  BY <1>7, <1>8, <1>9, <1>10, <1>11, <1>12 DEF IInv

\* Creating adds one thread, below the limit, to a tester that has not reported.
LEMMA CreateThreadStep ==
  ASSUME IInv, CreateThread
  PROVE  IInv'
<1> DEFINE i == main.i
           k == tester[i].created + 1
<1> USE DEF CreateThread, CanCreate
<1>1. i \in Testers
  BY DEF IInv, TypeOK
<1>2. /\ tester[i].created \in Nat /\ tester[i].live \in Nat
      /\ tester[i].created < MaxCreatedThreads /\ tester[i].live < MaxLiveThreads
  <2>1. tester[i].created \in 0 .. MaxCreatedThreads /\ tester[i].live \in Nat
    BY <1>1 DEF IInv, TypeOK
  <2>2. tester[i].live <= MaxLiveThreads
    BY <1>1 DEF IInv, LiveCounted
  <2> QED  BY <2>1, <2>2, TesterAssumption
<1>3. k \in Threads /\ thread[i][k] = "none"
  <2>1. k \in Threads
    BY <1>2, TesterAssumption DEF Threads
  <2> QED  BY <1>1, <1>2, <2>1 DEF IInv, ThreadsCreated
<1>4. /\ tester' \in [Testers -> TesterSet]
      /\ tester'[i].live = tester[i].live + 1
      /\ tester'[i].created = k
      /\ \A j \in Testers : j # i => tester'[j] = tester[j]
      /\ \A j \in Testers : /\ tester'[j].memory = tester[j].memory
                            /\ tester'[j].timedout = tester[j].timedout
  <2> DEFINE t == [tester[i] EXCEPT !.created = k, !.live = @ + 1]
  <2>1. tester \in [Testers -> TesterSet]
    BY DEF IInv, TypeOK, TesterSet
  <2>2. tester' = [tester EXCEPT ![i] = t]
    BY <1>1, <2>1
  <2>3. tester[i] \in TesterSet
    BY <1>1, <2>1
  <2>4. k \in 0 .. MaxCreatedThreads
    BY <1>2, TesterAssumption
  <2>5. t \in TesterSet
    <3> DEFINE s == [tester[i] EXCEPT !.created = k]
    <3>1. s \in TesterSet /\ s.live = tester[i].live
      BY <2>3, <2>4 DEF TesterSet
    <3>2. t = [s EXCEPT !.live = @ + 1]
      BY <2>3 DEF TesterSet
    <3>3. s.live + 1 \in Nat
      BY <1>2, <3>1
    <3> HIDE DEF s, t
    <3> QED  BY <3>1, <3>2, <3>3 DEF TesterSet
  <2>6. /\ t.live = tester[i].live + 1
        /\ t.created = k
        /\ t.memory = tester[i].memory
        /\ t.timedout = tester[i].timedout
    BY <2>3 DEF TesterSet
  <2> HIDE DEF t
  <2> QED  BY <1>1, <2>1, <2>2, <2>5, <2>6
<1>5. /\ thread' \in [Testers -> [Threads -> ThreadStates]]
      /\ thread'[i][k] = "started"
      /\ \A j \in Testers, l \in Threads : j # i \/ l # k => thread'[j][l] = thread[j][l]
  BY <1>1, <1>3 DEF IInv, TypeOK, ThreadStates
<1>6. k \notin joined[i] /\ k \notin tasks[i]
  BY <1>1, <1>3 DEF IInv, TasksPosted
<1>7. TypeOK'
  BY <1>4, <1>5 DEF IInv, TypeOK, TesterSet
<1>8. ThreadsCreated'
  <2> SUFFICES ASSUME NEW j \in Testers, NEW l \in Threads
               PROVE  thread'[j][l] = "none" <=> l > tester'[j].created
    BY DEF ThreadsCreated
  <2>1. CASE j # i
    BY <1>4, <1>5, <2>1 DEF IInv, ThreadsCreated
  <2>2. CASE j = i /\ l = k
    BY <1>2, <1>4, <1>5, <2>2
  <2>3. CASE j = i /\ l # k
    <3>1. thread'[j][l] = "none" <=> l > tester[i].created
      BY <1>5, <2>3 DEF IInv, ThreadsCreated
    <3> QED  BY <1>2, <1>4, <2>3, <3>1 DEF Threads
  <2> QED  BY <2>1, <2>2, <2>3
<1>9. TasksPosted'
  BY <1>5, <1>6 DEF IInv, TasksPosted, TypeOK
<1>10. JoinsPosted'
  BY DEF JoinsPosted
<1>11. LiveCounted'
  <2> SUFFICES ASSUME NEW j \in Testers
               PROVE  /\ tester'[j].live = Cardinality(Unjoined(j)')
                      /\ tester'[j].live <= MaxLiveThreads
    BY DEF LiveCounted
  <2>1. CASE j = i
    <3>1. Unjoined(i)' = Unjoined(i) \cup {k}
      BY <1>1, <1>3, <1>5, <1>6 DEF Unjoined
    <3>2. k \notin Unjoined(i)
      BY <1>3 DEF Unjoined
    <3>3. Cardinality(Unjoined(i)') = Cardinality(Unjoined(i)) + 1
      BY <1>1, <3>1, <3>2, UnjoinedFinite, FS_AddElement
    <3>4. tester[i].live = Cardinality(Unjoined(i))
      BY <1>1 DEF IInv, LiveCounted
    <3> QED  BY <1>2, <1>4, <2>1, <3>3, <3>4, TesterAssumption
  <2>2. CASE j # i
    BY <1>4, <1>5, <2>2, CountsKept
  <2> QED  BY <2>1, <2>2
<1>12. InTurn'
  BY <1>4 DEF IInv, InTurn
<1>13. Reported'
  <2>1. reports[i] = <<>> /\ tester[i].memory = "live"
    BY DEF IInv, InTurn
  <2> QED  BY <1>4, <2>1 DEF IInv, Reported
<1> QED  BY <1>7, <1>8, <1>9, <1>10, <1>11, <1>12, <1>13 DEF IInv

\* After the last thread of a later tester the one before goes on, which has reported.
LEMMA CreateThreadsReturnsStep ==
  ASSUME IInv, CreateThreadsReturns
  PROVE  IInv'
<1> DEFINE i == main.i
<1> USE DEF CreateThreadsReturns
<1>1. i \in Testers /\ tester[i].memory = "live" /\ reports[i] = <<>>
  BY DEF IInv, TypeOK, InTurn
<1>2. CASE main.pc = "createMore"
  <2>1. main' = [main EXCEPT !.pc = "check"]
    BY <1>2
  <2>2. TypeOK'
    BY <2>1 DEF IInv, TypeOK, MainPcs
  <2>3. main'.pc = "check" /\ main'.i = i
    BY <2>1 DEF IInv, TypeOK
  <2> QED  BY <1>1, <2>2, <2>3, CountsKept
           DEF IInv, ThreadsCreated, TasksPosted, JoinsPosted, LiveCounted, InTurn, Reported
<1>3. CASE main.pc = "createFirst" /\ i = 1
  <2>1. main' = [main EXCEPT !.pc = "idle"]
    BY <1>3
  <2>2. TypeOK'
    BY <2>1 DEF IInv, TypeOK, MainPcs
  <2>3. main'.pc = "idle"
    BY <2>1 DEF IInv, TypeOK
  <2> QED  BY <2>2, <2>3, CountsKept
           DEF IInv, ThreadsCreated, TasksPosted, JoinsPosted, LiveCounted, InTurn, Reported
<1>4. CASE main.pc = "createFirst" /\ i # 1
  <2>1. main' = [main EXCEPT !.pc = "delete", !.i = i - 1]
    BY <1>4
  <2>2. i - 1 \in Testers /\ i - 1 < i
    BY <1>1, <1>4, TesterAssumption DEF Testers
  <2>3. reports[i - 1] # <<>>
    BY <1>1, <2>2 DEF IInv, InTurn
  <2>4. TypeOK'
    BY <2>1, <2>2 DEF IInv, TypeOK, MainPcs
  <2>5. main'.pc = "delete" /\ main'.i = i - 1
    BY <2>1 DEF IInv, TypeOK
  <2> QED  BY <2>3, <2>4, <2>5, CountsKept
           DEF IInv, ThreadsCreated, TasksPosted, JoinsPosted, LiveCounted, InTurn, Reported
<1> QED  BY <1>2, <1>3, <1>4

\* A tester is made only when the one before has reported; one that is not done waits.
LEMMA CheckDoneStep ==
  ASSUME IInv, CheckDone
  PROVE  IInv'
<1> DEFINE i == main.i
<1>1. i \in Testers /\ tester[i].memory = "live" /\ reports[i] = <<>> /\ main.pc = "check"
  BY DEF IInv, TypeOK, InTurn, CheckDone
<1>2. tester \in [Testers -> TesterSet] /\ reports \in [Testers -> Seq(0 .. MaxCreatedThreads)]
  BY DEF IInv, TypeOK, TesterSet
<1>3. UNCHANGED <<thread, tasks, joined>>
  BY DEF CheckDone
<1>4. PICK late \in BOOLEAN :
        LET t == [tester[i] EXCEPT !.timedout = @ \/ late] IN
        IF AllDone(t)
          THEN /\ reports' = [reports EXCEPT ![i] = Append(@, t.created)]
               /\ tester' = [j \in Testers |->
                    IF j = i THEN t ELSE IF j = i + 1 THEN NewTester ELSE tester[j]]
               /\ main' = IF i = Runs
                            THEN [main EXCEPT !.pc = "delete"]
                            ELSE [main EXCEPT !.pc = "createFirst", !.i = i + 1]
          ELSE /\ tester' = [tester EXCEPT ![i] = t]
               /\ main' = [main EXCEPT !.pc = "idle"]
               /\ UNCHANGED reports
  BY DEF CheckDone
<1> DEFINE t == [tester[i] EXCEPT !.timedout = @ \/ late]
<1>5. tester[i] \in TesterSet
  BY <1>1, <1>2
<1>6. t \in TesterSet
  BY <1>5 DEF TesterSet
<1>7. t.memory = "live" /\ t.live = tester[i].live /\ t.created = tester[i].created
  BY <1>1, <1>5 DEF TesterSet
<1> HIDE DEF t
<1>8. TasksPosted'
  BY <1>3 DEF IInv, TasksPosted
<1>9. CASE AllDone(t)
  <2>1. /\ reports' = [reports EXCEPT ![i] = Append(@, t.created)]
        /\ tester' = [j \in Testers |->
             IF j = i THEN t ELSE IF j = i + 1 THEN NewTester ELSE tester[j]]
        /\ main' = IF i = Runs
                     THEN [main EXCEPT !.pc = "delete"]
                     ELSE [main EXCEPT !.pc = "createFirst", !.i = i + 1]
    BY <1>4, <1>9 DEF t
  <2>2. t.created \in 0 .. MaxCreatedThreads
    BY <1>6 DEF TesterSet
  <2>3. /\ reports' \in [Testers -> Seq(0 .. MaxCreatedThreads)]
        /\ reports'[i] = <<t.created>>
        /\ \A j \in Testers : j # i => reports'[j] = reports[j]
    BY <1>1, <1>2, <2>1, <2>2
  <2>4. /\ NewTester \in TesterSet /\ NewTester.memory = "live" /\ NewTester.created = 0
        /\ NewTester.live = 0 /\ i # i + 1
    <3>1. 0 \in 0 .. MaxCreatedThreads /\ i # i + 1
      BY <1>1, TesterAssumption DEF Testers
    <3>2. NewTester \in TesterSet
      BY <3>1 DEF NewTester, TesterSet
    <3> QED  BY <3>1, <3>2 DEF NewTester
  <2>5. /\ tester' \in [Testers -> TesterSet]
        /\ tester'[i] = t
        /\ \A j \in Testers : j = i + 1 => tester'[j] = NewTester
        /\ \A j \in Testers : j # i /\ j # i + 1 => tester'[j] = tester[j]
    BY <1>1, <1>2, <1>6, <2>1, <2>4
  \* the next tester was not made yet, as this one had not reported
  <2>6. \A j \in Testers : j > i => tester[j].memory = "none"
    BY <1>1 DEF IInv, InTurn
  <2>7. \A j \in Testers : j = i + 1 =>
          tester[j].created = 0 /\ tester[j].live = 0 /\ reports[j] = <<>>
    <3>1. \A j \in Testers : j = i + 1 => tester[j].memory = "none"
      BY <1>1, <2>6 DEF Testers
    <3> QED  BY <3>1, NoneLeft DEF IInv, Reported
  <2>8. \A j \in Testers : /\ tester'[j].created = tester[j].created
                           /\ tester'[j].live = tester[j].live
    BY <1>7, <2>4, <2>5, <2>7
  <2>9. /\ main' \in [pc : MainPcs, i : Testers, k : Threads]
        /\ \/ main'.pc = "delete" /\ main'.i = i
           \/ main'.pc = "createFirst" /\ main'.i = i + 1 /\ i + 1 \in Testers
    <3>1. main \in [pc : MainPcs, i : Testers, k : Threads]
      BY DEF IInv, TypeOK
    <3>2. CASE i = Runs
      BY <2>1, <3>1, <3>2 DEF MainPcs
    <3>3. CASE i # Runs
      <4>1. i + 1 \in Testers
        BY <1>1, <3>3, TesterAssumption DEF Testers
      <4> QED  BY <2>1, <3>1, <3>3, <4>1 DEF MainPcs
    <3> QED  BY <3>2, <3>3
  <2>10. TypeOK'
    BY <1>3, <2>3, <2>5, <2>9 DEF IInv, TypeOK, TesterSet
  <2>11. ThreadsCreated'
    BY <1>3, <2>8 DEF IInv, ThreadsCreated
  <2>12. JoinsPosted'
    BY <2>9 DEF JoinsPosted
  <2>13. LiveCounted'
    BY <1>3, <2>8, CountsKept DEF LiveCounted
  <2>14. InTurn'
    <3>1. ASSUME NEW a \in Testers, NEW b \in Testers, a < b, tester'[b].memory # "none"
          PROVE  reports'[a] # <<>>
      <4>1. CASE a = i
        <5>1. reports'[i] # <<>>
          BY <2>3
        <5> QED  BY <4>1, <5>1
      <4>2. CASE a # i /\ b \in {i, i + 1}
        <5>1. a < i
          BY <1>1, <3>1, <4>2 DEF Testers
        <5>2. reports[a] # <<>>
          BY <1>1, <5>1 DEF IInv, InTurn
        <5> QED  BY <2>3, <4>2, <5>2
      <4>3. CASE a # i /\ b \notin {i, i + 1}
        <5>1. tester[b].memory # "none"
          BY <2>5, <3>1, <4>3
        <5>2. reports[a] # <<>>
          BY <3>1, <5>1 DEF IInv, InTurn
        <5> QED  BY <2>3, <4>3, <5>2
      <4> QED  BY <4>1, <4>2, <4>3
    <3>2. main'.pc = "delete" => reports'[main'.i] # <<>>
      <4>1. reports'[i] # <<>>
        BY <2>3
      <4> QED  BY <2>9, <4>1
    <3>3. main'.pc \in {"join", "createFirst", "createMore", "check"} =>
            tester'[main'.i].memory = "live" /\ reports'[main'.i] = <<>>
      BY <2>3, <2>4, <2>5, <2>7, <2>9
    <3> QED  BY <3>1, <3>2, <3>3 DEF InTurn
  <2>15. Reported'
    <3> SUFFICES ASSUME NEW j \in Testers
                 PROVE  /\ tester'[j].memory = "none" =>
                             tester'[j].created = 0 /\ reports'[j] = <<>>
                        /\ tester'[j].memory = "freed" => reports'[j] # <<>>
                        /\ reports'[j] # <<>> =>
                             /\ reports'[j] = <<tester'[j].created>>
                             /\ tester'[j].live = 0
                             /\ tester'[j].timedout \/ tester'[j].created = MaxCreatedThreads
      BY DEF Reported
    <3>1. CASE j = i
      BY <1>7, <1>9, <2>3, <2>5, <3>1 DEF AllDone
    <3>2. CASE j = i + 1
      BY <2>3, <2>4, <2>5, <2>7, <3>2
    <3>3. CASE j # i /\ j # i + 1
      BY <2>3, <2>5, <3>3 DEF IInv, Reported
    <3> QED  BY <3>1, <3>2, <3>3
  <2> QED  BY <1>8, <2>10, <2>11, <2>12, <2>13, <2>14, <2>15 DEF IInv
<1>10. CASE ~ AllDone(t)
  <2>1. /\ tester' = [tester EXCEPT ![i] = t]
        /\ main' = [main EXCEPT !.pc = "idle"]
        /\ UNCHANGED reports
    BY <1>4, <1>10 DEF t
  <2>2. /\ tester' \in [Testers -> TesterSet]
        /\ tester'[i] = t
        /\ \A j \in Testers : j # i => tester'[j] = tester[j]
    BY <1>1, <1>2, <1>6, <2>1
  <2>3. \A j \in Testers : /\ tester'[j].created = tester[j].created
                           /\ tester'[j].live = tester[j].live
                           /\ tester'[j].memory = tester[j].memory
    BY <1>1, <1>7, <2>2
  <2>4. main' \in [pc : MainPcs, i : Testers, k : Threads] /\ main'.pc = "idle"
    BY <2>1 DEF IInv, TypeOK, MainPcs
  <2>5. TypeOK'
    BY <1>3, <2>1, <2>2, <2>4 DEF IInv, TypeOK, TesterSet
  <2>6. ThreadsCreated' /\ JoinsPosted'
    BY <1>3, <2>3, <2>4 DEF IInv, ThreadsCreated, JoinsPosted
  <2>7. LiveCounted'
    BY <1>3, <2>3, CountsKept DEF LiveCounted
  <2>8. InTurn'
    BY <2>1, <2>3, <2>4 DEF IInv, InTurn
  <2>9. Reported'
    BY <1>1, <2>1, <2>2, <2>3 DEF IInv, Reported
  <2> QED  BY <1>8, <2>5, <2>6, <2>7, <2>8, <2>9 DEF IInv
<1> QED  BY <1>9, <1>10

\* Only a tester that has reported is deleted.
LEMMA DeleteTesterStep ==
  ASSUME IInv, DeleteTester
  PROVE  IInv'
<1> DEFINE i == main.i
<1> USE DEF DeleteTester
<1>1. i \in Testers /\ reports[i] # <<>>
  BY DEF IInv, TypeOK, InTurn
<1>2. tester \in [Testers -> TesterSet]
  BY DEF IInv, TypeOK, TesterSet
<1> DEFINE t == [tester[i] EXCEPT !.memory = "freed"]
<1>3. /\ t \in TesterSet /\ t.memory = "freed" /\ t.live = tester[i].live
      /\ t.created = tester[i].created /\ t.timedout = tester[i].timedout
  <2>1. tester[i] \in TesterSet
    BY <1>1, <1>2
  <2>2. t \in TesterSet
    BY <2>1 DEF TesterSet
  <2> QED  BY <2>1, <2>2 DEF TesterSet
<1>4. tester' = [tester EXCEPT ![i] = t]
  OBVIOUS
<1> HIDE DEF t
<1>5. /\ tester' \in [Testers -> TesterSet]
      /\ tester'[i].memory = "freed"
      /\ \A j \in Testers : j # i => tester'[j] = tester[j]
      /\ \A j \in Testers : /\ tester'[j].live = tester[j].live
                            /\ tester'[j].created = tester[j].created
                            /\ tester'[j].timedout = tester[j].timedout
  BY <1>1, <1>2, <1>3, <1>4
<1>6. main' \in [pc : MainPcs, i : Testers, k : Threads] /\ main'.pc = "idle"
  BY DEF IInv, TypeOK, MainPcs
<1>7. /\ tasks' \in [Testers -> SUBSET Threads]
      /\ \A j \in Testers : tasks'[j] \subseteq tasks[j]
  BY <1>1 DEF IInv, TypeOK
<1>8. TypeOK'
  BY <1>5, <1>6, <1>7 DEF IInv, TypeOK, TesterSet
<1>9. ThreadsCreated' /\ JoinsPosted'
  BY <1>5, <1>6 DEF IInv, ThreadsCreated, JoinsPosted
<1>10. TasksPosted'
  BY <1>7 DEF IInv, TasksPosted
<1>11. LiveCounted'
  BY <1>5, CountsKept DEF LiveCounted
<1>12. InTurn'
  <2> SUFFICES ASSUME NEW a \in Testers, NEW b \in Testers, a < b, tester'[b].memory # "none"
               PROVE  reports[a] # <<>>
    BY <1>6 DEF InTurn
  <2>1. CASE b = i
    <3>1. tester[i].memory # "none"
      BY <1>1 DEF IInv, Reported
    <3> QED  BY <2>1, <3>1 DEF IInv, InTurn
  <2>2. CASE b # i
    BY <1>5, <2>2 DEF IInv, InTurn
  <2> QED  BY <2>1, <2>2
<1>13. Reported'
  BY <1>1, <1>5 DEF IInv, Reported
<1> QED  BY <1>8, <1>9, <1>10, <1>11, <1>12, <1>13 DEF IInv

\* A thread posts its task and returns; that it exists does not change.
LEMMA ThreadStepStep ==
  ASSUME IInv, NEW i \in Testers, NEW k \in Threads, ThreadStep(i, k)
  PROVE  IInv'
<1> USE DEF ThreadStep, PostTask, ExitThread
<1>1. UNCHANGED <<main, tester, joined, reports>> /\ thread[i][k] \in {"started", "posting"}
  OBVIOUS
<1>2. /\ thread' \in [Testers -> [Threads -> ThreadStates]]
      /\ thread'[i][k] \in {"posting", "exited"}
      /\ \A j \in Testers, l \in Threads : j # i \/ l # k => thread'[j][l] = thread[j][l]
  <2>1. thread \in [Testers -> [Threads -> ThreadStates]]
    BY DEF IInv, TypeOK
  <2>2. PICK s \in {"posting", "exited"} : thread' = [thread EXCEPT ![i][k] = s]
    OBVIOUS
  <2>3. s \in ThreadStates
    BY DEF ThreadStates
  <2> QED  BY <2>1, <2>2, <2>3
<1>3. /\ tasks' \in [Testers -> SUBSET Threads]
      /\ \A j \in Testers : tasks'[j] \subseteq (IF j = i THEN tasks[j] \cup {k} ELSE tasks[j])
  <2>1. tasks \in [Testers -> SUBSET Threads]
    BY DEF IInv, TypeOK
  <2>2. CASE PostTask(i, k)
    <3>1. tasks' = [tasks EXCEPT ![i] = @ \cup {k}]
      BY <2>2
    <3> QED  BY <2>1, <3>1
  <2>3. CASE ExitThread(i, k)
    BY <2>1, <2>3
  <2> QED  BY <2>2, <2>3
<1>4. k \notin joined[i]
  BY <1>1 DEF IInv, TasksPosted
<1>5. \A j \in Testers, l \in Threads : thread'[j][l] = "none" <=> thread[j][l] = "none"
  BY <1>1, <1>2
<1>6. TypeOK'
  BY <1>1, <1>2, <1>3 DEF IInv, TypeOK
<1>7. ThreadsCreated'
  BY <1>1, <1>5 DEF IInv, ThreadsCreated
<1>8. TasksPosted'
  <2>1. ASSUME NEW j \in Testers, NEW l \in joined[j]
        PROVE  thread'[j][l] = "exited" /\ l \notin tasks'[j]
    <3>1. l \in Threads /\ thread[j][l] = "exited" /\ l \notin tasks[j]
      BY DEF IInv, TypeOK, TasksPosted
    <3>2. j # i \/ l # k
      BY <1>4
    <3> QED  BY <1>2, <1>3, <3>1, <3>2
  <2>2. ASSUME NEW j \in Testers, NEW l \in tasks'[j]
        PROVE  thread'[j][l] \in {"posting", "exited"}
    <3>1. CASE j = i /\ l = k
      BY <1>2, <3>1
    <3>2. CASE ~ (j = i /\ l = k)
      <4>1. l \in tasks[j] /\ l \in Threads
        BY <1>3, <3>2
      <4> QED  BY <1>2, <3>2, <4>1 DEF IInv, TasksPosted
    <3> QED  BY <3>1, <3>2
  <2> QED  BY <1>1, <2>1, <2>2 DEF TasksPosted
<1>9. JoinsPosted'
  <2> SUFFICES ASSUME main.pc = "join"
               PROVE  /\ thread'[main.i][main.k] \in {"posting", "exited"}
                      /\ main.k \notin joined[main.i] \cup tasks'[main.i]
    BY <1>1 DEF JoinsPosted
  <2>1. /\ main.i \in Testers /\ main.k \in Threads
        /\ thread[main.i][main.k] \in {"posting", "exited"}
        /\ main.k \notin joined[main.i] \cup tasks[main.i]
    BY DEF IInv, TypeOK, JoinsPosted
  <2>2. CASE main.i = i /\ main.k = k
    <3>1. ExitThread(i, k)
      BY <2>1, <2>2
    <3> QED  BY <1>2, <2>1, <2>2, <3>1
  <2>3. CASE ~ (main.i = i /\ main.k = k)
    BY <1>2, <1>3, <2>1, <2>3
  <2> QED  BY <2>2, <2>3
<1>10. LiveCounted'
  BY <1>1, <1>5, CountsKept DEF LiveCounted
<1>11. InTurn' /\ Reported'
  BY <1>1 DEF IInv, InTurn, Reported
<1> QED  BY <1>6, <1>7, <1>8, <1>9, <1>10, <1>11 DEF IInv

\* Every step keeps the invariant.
LEMMA Step == IInv /\ [Next]_vars => IInv'
<1> SUFFICES ASSUME IInv, [Next]_vars
             PROVE  IInv'
  OBVIOUS
<1>1. CASE UNCHANGED vars
  <2>1. UNCHANGED <<main, tester, thread, tasks, joined, reports>>
    BY <1>1 DEF vars
  <2> QED  BY <2>1, CountsKept
           DEF IInv, TypeOK, ThreadsCreated, TasksPosted, JoinsPosted, LiveCounted, InTurn,
               Reported
<1>2. CASE MainStep
  BY <1>2, BeginTaskStep, JoinThreadStep, CreateThreadStep, CreateThreadsReturnsStep,
     CheckDoneStep, DeleteTesterStep DEF MainStep
<1>3. CASE \E i \in Testers, k \in Threads : ThreadStep(i, k)
  BY <1>3, ThreadStepStep
<1> QED  BY <1>1, <1>2, <1>3 DEF Next, TestCompleted

\* No more threads are unjoined than the count allows, and only of one tester.
LEMMA InvariantBounds == IInv => LiveThreadsBounded
<1> SUFFICES ASSUME IInv, NEW i \in Testers, NEW j \in Testers
             PROVE  /\ Cardinality(Unjoined(i)) <= MaxLiveThreads
                    /\ Unjoined(i) # {} /\ Unjoined(j) # {} => i = j
  BY DEF LiveThreadsBounded
<1>1. Cardinality(Unjoined(i)) <= MaxLiveThreads
  BY DEF IInv, LiveCounted
<1>2. ASSUME Unjoined(i) # {}, Unjoined(j) # {}
      PROVE  i = j
  <2>1. /\ tester[i].memory = "live" /\ reports[i] = <<>>
        /\ tester[j].memory = "live" /\ reports[j] = <<>>
    BY <1>2, UnjoinedLive
  <2>2. ~ (i < j) /\ ~ (j < i)
    BY <2>1 DEF IInv, InTurn
  <2> QED  BY <2>2, TesterAssumption DEF Testers
<1> QED  BY <1>1, <1>2

\* A deleted tester has joined all of its threads, and a joined thread has no task.
LEMMA InvariantSafe == IInv => NoUseAfterDelete
<1> SUFFICES ASSUME IInv, NEW i \in Testers, tester[i].memory = "freed"
             PROVE  /\ \A k \in Threads : thread[i][k] \in {"none", "exited"}
                    /\ tasks[i] = {}
  BY DEF NoUseAfterDelete
<1>1. Unjoined(i) = {}
  BY NoneLeft
<1>2. \A k \in Threads : thread[i][k] = "none" \/ k \in joined[i]
  BY <1>1 DEF Unjoined
<1>3. \A k \in Threads : thread[i][k] \in {"none", "exited"}
  BY <1>2 DEF IInv, TasksPosted
<1>4. \A k \in tasks[i] : k \in Threads /\ thread[i][k] # "none" /\ k \notin joined[i]
  BY DEF IInv, TypeOK, TasksPosted
<1> QED  BY <1>2, <1>3, <1>4

\* What a tester reports is the number of threads that it created, and has joined.
LEMMA InvariantReports == IInv => ReportsRight
<1> SUFFICES ASSUME IInv, NEW i \in Testers, reports[i] # <<>>
             PROVE  /\ Len(reports[i]) = 1
                    /\ reports[i][1] = Cardinality(joined[i])
                    /\ ~ tester[i].timedout => reports[i][1] = MaxCreatedThreads
  <2>1. \A i \in Testers : reports[i] = <<>> => Len(reports[i]) <= 1
    OBVIOUS
  <2>2. \A i \in Testers : Len(reports[i]) = 1 => Len(reports[i]) <= 1
    OBVIOUS
  <2> QED  BY <2>1, <2>2 DEF ReportsRight
<1>1. /\ reports[i] = <<tester[i].created>>
      /\ tester[i].timedout \/ tester[i].created = MaxCreatedThreads
  BY DEF IInv, Reported
<1>2. Len(reports[i]) = 1 /\ reports[i][1] = tester[i].created
  BY <1>1
<1>3. tester[i].created \in 0 .. MaxCreatedThreads
  BY DEF IInv, TypeOK
<1>4. joined[i] = 1 .. tester[i].created
  <2>1. joined[i] \subseteq Threads
    BY DEF IInv, TypeOK
  <2>2. \A k \in Threads : k \in joined[i] <=> thread[i][k] # "none"
    <3>1. Unjoined(i) = {}
      BY NoneLeft
    <3> QED  BY <3>1 DEF Unjoined, IInv, TasksPosted
  <2>3. \A k \in Threads : k \in joined[i] <=> k <= tester[i].created
    BY <1>3, <2>2 DEF IInv, ThreadsCreated, Threads
  <2>4. \A k \in 1 .. tester[i].created : k \in Threads /\ k <= tester[i].created
    BY <1>3, TesterAssumption DEF Threads
  <2>5. \A k \in joined[i] : k \in 1 .. tester[i].created
    BY <1>3, <2>1, <2>3, TesterAssumption DEF Threads
  <2> QED  BY <2>3, <2>4, <2>5
<1>5. Cardinality(joined[i]) = tester[i].created
  <2>1. Cardinality(1 .. tester[i].created)
          = IF 1 > tester[i].created THEN 0 ELSE tester[i].created - 1 + 1
    BY <1>3, FS_Interval
  <2> QED  BY <1>3, <1>4, <2>1
<1> QED  BY <1>1, <1>2, <1>5

\* The invariant: counts agree with threads, testers take turns, and a report is final.
THEOREM TesterInvariant == Spec => []IInv
  BY Starts, Step, PTL DEF Spec

\* tryIncrementTreadCount(): over all testers together, no more threads exist unjoined than
\* maxConcurrentThreads.
THEOREM ThreadLimit == Spec => []LiveThreadsBounded
  BY TesterInvariant, InvariantBounds, PTL

\* checkDone(): "delete this" leaves no thread in proxyAsync() and no task in the queue.
THEOREM SafeDelete == Spec => []NoUseAfterDelete
  BY TesterInvariant, InvariantSafe, PTL

\* checkDone(): done() is called once, with the threads that were joined, which are all
\* unless the tester timed out.
THEOREM TruthfulReports == Spec => []ReportsRight
  BY TesterInvariant, InvariantReports, PTL

-----------------------------------------------------------------------------
(* EchoSockets *)

\* the sockets that are never closed, and the bytes of a message with its NUL
Clients == {"page", "thread"}
Block == MessageLength + 1

\* u is the bytes of k messages, those after the first a
Messages(u, k, a) ==
  /\ Len(u) = k * Block
  /\ \A m \in 0 .. k - 1, j \in 1 .. Block :
       u[m * Block + j] = IF j <= MessageLength THEN a + m + 1 ELSE Echo!Nul

\* r is the bytes of the first a messages, without the NULs
Replies(r, a) ==
  /\ Len(r) = a * MessageLength
  /\ \A m \in 0 .. a - 1, j \in 1 .. MessageLength : r[m * MessageLength + j] = m + 1

\* what was sent on socket s after the first a messages is on its way to the server
Pending(s, a) == Messages(up[s], sends[s] - a, a)

\* the first a messages that were sent on socket s were echoed
Replied(s, a) ==
  /\ got[s] \in Seq(Int)
  /\ down[s] \in Seq(Int)
  /\ Replies(got[s] \o down[s], a)

InOrder == \A s \in Clients : \E a \in 0 .. sends[s] : Pending(s, a) /\ Replied(s, a)

\* a client sends when it is connected, and stays connected
Connected ==
  /\ gSocket = "0" => conn["page"] = "none"
  /\ threadPhase = "idle" => conn["thread"] = "none"
  /\ \A s \in Clients :
       /\ conn[s] \in {"none", "connecting", "open"}
       /\ sends[s] > 0 => conn[s] = "open"

EchoTypes ==
  /\ up \in [Echo!Sockets -> Seq(Nat)]
  /\ got = [s \in Echo!Sockets |-> got[s]]
  /\ down = [s \in Echo!Sockets |-> down[s]]
  /\ sends \in [Echo!Sockets -> Nat]
  /\ conn = [s \in Echo!Sockets |-> conn[s]]
  /\ backlog \in Seq(Echo!Sockets)
  /\ serving \in Echo!Sockets \cup {Echo!Nobody}
  /\ clientMessage \in Seq(Int)
  /\ Len(clientMessage) = BufferSize + 1

EchoInv ==
  /\ EchoTypes
  /\ Connected
  /\ ~ ragged => InOrder

\* A number of blocks is not larger than another number of them.
LEMMA BlocksMonotone ==
  ASSUME NEW L \in Nat, NEW m \in Int, NEW n \in Int, m <= n
  PROVE  m * L <= n * L
OBVIOUS

\* One block more, and one less.
LEMMA NextBlock ==
  ASSUME NEW L \in Nat, NEW m \in Int
  PROVE  (m + 1) * L = m * L + L /\ (m - 1) * L = m * L - L
OBVIOUS

\* Payloads() has the number of the message in the place of each of its bytes.
LEMMA PayloadBlocks ==
  ASSUME NEW r \in Seq(Int), NEW a \in Nat, NEW n \in Nat, a <= n, Replies(r, a)
  PROVE  /\ Len(r) <= n * MessageLength
         /\ r = SubSeq(Echo!Payloads(n), 1, Len(r))
<1> DEFINE L == MessageLength
           P == Echo!Payloads(n)
<1> USE DEF Replies
<1>0. L \in Nat /\ L > 0
  BY EchoAssumption
<1>1. Len(r) <= n * L
  BY <1>0, BlocksMonotone
<1>2. n * L \in Nat
  BY <1>0
<1>3. P = [k \in 1 .. n * L |-> (k - 1) \div L + 1]
  BY DEF Echo!Payloads
<1>4. ASSUME NEW k \in 1 .. Len(r)
      PROVE  r[k] = (k - 1) \div L + 1
  <2> DEFINE m == (k - 1) \div L
             j == k - m * L
  <2>1. m \in Nat /\ m * L <= k - 1 /\ k - 1 < m * L + L
    BY <1>0
  <2> HIDE DEF m
  <2>2. m < a
    <3>1. SUFFICES ASSUME m >= a PROVE FALSE
      BY <2>1
    <3>2. a * L <= m * L
      BY <1>0, <2>1, <3>1, BlocksMonotone
    <3> QED  BY <1>0, <2>1, <3>2
  <2>3. m \in 0 .. a - 1 /\ j \in 1 .. L /\ m * L + j = k
    BY <1>0, <2>1, <2>2
  <2>4. r[m * L + j] = m + 1
    BY <2>3
  <2> QED  BY <2>3, <2>4 DEF m
<1>5. SubSeq(P, 1, Len(r)) = [k \in 1 .. Len(r) |-> P[k]]
  <2>1. P \in Seq(Int)
    BY <1>0, <1>2, <1>3
  <2> QED  BY <2>1
<1>6. ASSUME NEW k \in 1 .. Len(r)
      PROVE  P[k] = r[k]
  BY <1>1, <1>2, <1>3, <1>4
<1>7. r = [k \in 1 .. Len(r) |-> r[k]]
  OBVIOUS
<1> QED  BY <1>1, <1>5, <1>6, <1>7

\* The invariant says what the clients were promised.
LEMMA EchoPromise == EchoInv => EchoesInOrder
<1> SUFFICES ASSUME EchoInv, ~ ragged, NEW s \in Clients
             PROVE  LET replies == got[s] \o down[s] IN
                    /\ Len(replies) <= sends[s] * MessageLength
                    /\ replies = SubSeq(Echo!Payloads(sends[s]), 1, Len(replies))
                    /\ up[s] = <<>> => Len(replies) = sends[s] * MessageLength
  BY DEF EchoesInOrder, Echo!EchoesInOrder, Clients
<1>1. PICK a \in 0 .. sends[s] : Pending(s, a) /\ Replied(s, a)
  BY DEF EchoInv, InOrder
<1>2. got[s] \o down[s] \in Seq(Int) /\ sends[s] \in Nat
  BY <1>1 DEF Replied, EchoInv, EchoTypes, Clients, Echo!Sockets
<1>3. up[s] = <<>> => sends[s] = a
  BY <1>1, <1>2, EchoAssumption DEF Pending, Messages, Block
<1> DEFINE r == got[s] \o down[s]
<1>4. Replies(r, a)
  BY <1>1 DEF Replied
<1>5. a \in Nat /\ a <= sends[s]
  BY <1>2
<1>6. r \in Seq(Int)
  BY <1>2
<1> HIDE DEF r
<1>7. Len(r) <= sends[s] * MessageLength /\ r = SubSeq(Echo!Payloads(sends[s]), 1, Len(r))
  BY <1>2, <1>4, <1>5, <1>6, PayloadBlocks
<1> QED  BY <1>3, <1>4, <1>7 DEF r, Replies

\* Nothing was sent.
LEMMA EchoStarts == Echo!Init => EchoInv
<1> SUFFICES ASSUME Echo!Init PROVE EchoInv
  OBVIOUS
<1> USE DEF Echo!Init
<1>1. PICK junk \in {0, BufferSize} : clientMessage =
        [k \in 1 .. BufferSize + 1 |-> IF k <= junk THEN Echo!Junk ELSE Echo!Nul]
  OBVIOUS
<1>2. clientMessage \in Seq(Int) /\ Len(clientMessage) = BufferSize + 1
  <2>1. clientMessage \in [1 .. BufferSize + 1 -> Int] /\ BufferSize + 1 \in Nat
    BY <1>1, EchoAssumption DEF Echo!Junk, Echo!Nul
  <2> QED  BY <2>1
<1>3. EchoTypes
  <2>1. <<>> \in Seq(Nat) /\ <<>> \in Seq(Int) /\ <<>> \in Seq(Echo!Sockets)
    OBVIOUS
  <2>2. up \in [Echo!Sockets -> Seq(Nat)] /\ sends \in [Echo!Sockets -> Nat]
    BY <2>1
  <2>4. /\ got = [s \in Echo!Sockets |-> got[s]]
        /\ down = [s \in Echo!Sockets |-> down[s]]
        /\ conn = [s \in Echo!Sockets |-> conn[s]]
    OBVIOUS
  <2> QED  BY <1>2, <2>1, <2>2, <2>4 DEF EchoTypes
<1>4. Connected
  BY DEF Connected, Clients, Echo!Sockets
<1>5. ASSUME NEW s \in Clients
      PROVE  Pending(s, 0) /\ Replied(s, 0) /\ 0 \in 0 .. sends[s]
  <2>1. s \in Echo!Sockets /\ up[s] = <<>> /\ sends[s] = 0 /\ got[s] = <<>> /\ down[s] = <<>>
    BY DEF Clients, Echo!Sockets
  <2> QED  BY <2>1, EchoAssumption DEF Pending, Messages, Replied, Replies, Block
<1> QED  BY <1>3, <1>4, <1>5 DEF EchoInv, InOrder

\* What is on the way to the server, and what came back, stay as they are.
LEMMA ReplyKept ==
  ASSUME NEW s \in Clients, InOrder,
         up'[s] = up[s], sends'[s] = sends[s],
         got'[s] = got[s] /\ down'[s] = down[s]
  PROVE  \E a \in 0 .. sends'[s] : Pending(s, a)' /\ Replied(s, a)'
<1>1. PICK a \in 0 .. sends[s] : Pending(s, a) /\ Replied(s, a)
  BY DEF InOrder
<1> QED  BY <1>1 DEF Pending, Replied

\* sendMessage() sends one more message.
LEMMA SendKept ==
  ASSUME NEW s \in Clients, EchoTypes, InOrder, Echo!SendMessage(s)
  PROVE  \E a \in 0 .. sends'[s] : Pending(s, a)' /\ Replied(s, a)'
<1> DEFINE L == MessageLength
           n == sends[s]
           message == [k \in 1 .. L + 1 |-> IF k <= L THEN n + 1 ELSE Echo!Nul]
<1>1. PICK a \in 0 .. n : Pending(s, a) /\ Replied(s, a)
  BY DEF InOrder
<1>2. s \in Echo!Sockets /\ n \in Nat /\ up[s] \in Seq(Nat) /\ L \in Nat
  BY EchoAssumption DEF EchoTypes, Clients, Echo!Sockets
<1>3. message \in Seq(Nat) /\ Len(message) = L + 1
  BY <1>2 DEF Echo!Nul
<1>4. sends'[s] = n + 1 /\ up'[s] = up[s] \o message
  BY <1>2 DEF Echo!SendMessage, EchoTypes
<1> HIDE DEF message
<1>9. /\ Len(up'[s]) = Len(up[s]) + Len(message)
      /\ \A i \in 1 .. Len(up[s]) : up'[s][i] = up[s][i]
      /\ \A i \in 1 .. Len(message) : up'[s][Len(up[s]) + i] = message[i]
  <2>1. up[s] \in Seq(Nat) /\ message \in Seq(Nat)
    BY <1>2, <1>3
  <2>2. /\ Len(up[s] \o message) = Len(up[s]) + Len(message)
        /\ \A i \in 1 .. Len(up[s]) : (up[s] \o message)[i] = up[s][i]
        /\ \A i \in 1 .. Len(message) : (up[s] \o message)[Len(up[s]) + i] = message[i]
    BY <2>1
  <2> QED  BY <1>4, <2>2, Zenon
<1>5. Len(up'[s]) = (n + 1 - a) * Block
  <2>1. Len(up'[s]) = Len(up[s]) + (L + 1)
    BY <1>3, <1>9
  <2>2. Len(up[s]) = (n - a) * Block /\ Block \in Nat /\ n - a \in Int
    BY <1>1, <1>2 DEF Pending, Messages, Block
  <2>3. ((n - a) + 1) * Block = (n - a) * Block + Block
    BY <2>2, NextBlock
  <2>4. n + 1 - a = (n - a) + 1
    BY <1>1, <1>2
  <2> QED  BY <2>1, <2>2, <2>3, <2>4 DEF Block
<1>6. ASSUME NEW m \in 0 .. n - a, NEW j \in 1 .. Block
      PROVE  up'[s][m * Block + j] = IF j <= L THEN a + m + 1 ELSE Echo!Nul
  <2> DEFINE i == m * Block + j
  <2>0. a \in Nat /\ a <= n /\ m \in Nat /\ j \in Nat /\ j >= 1 /\ Block \in Nat
    BY <1>1, <1>2 DEF Block
  <2>1. i \in Nat /\ i >= 1 /\ Len(up[s]) = (n - a) * Block
    <3>1. m * Block \in Nat
      BY <2>0
    <3> QED  BY <1>1, <2>0, <3>1 DEF Pending, Messages
  <2>2. CASE m = n - a
    <3>1. i = Len(up[s]) + j /\ j \in 1 .. L + 1
      BY <1>2, <2>1, <2>2 DEF Block
    <3>2. up'[s][i] = message[j]
      BY <1>3, <1>9, <3>1
    <3> QED  BY <1>2, <2>2, <3>1, <3>2 DEF message
  <2>3. CASE m <= n - a - 1
    <3>1. (m + 1) * Block <= (n - a) * Block
      <4>1. m + 1 \in Int /\ n - a \in Int /\ m + 1 <= n - a
        BY <1>2, <2>0, <2>3
      <4> QED  BY <2>0, <4>1, BlocksMonotone
    <3>2. (m + 1) * Block = m * Block + Block
      BY <2>0, NextBlock
    <3>3. i \in 1 .. Len(up[s])
      BY <1>2, <2>0, <2>1, <3>1, <3>2
    <3>4. up'[s][i] = up[s][i]
      BY <1>9, <3>3
    <3>5. m \in 0 .. n - a - 1
      BY <1>2, <2>3
    <3> QED  BY <1>1, <3>4, <3>5 DEF Pending, Messages
  <2> QED  BY <1>2, <2>2, <2>3
<1>7. Pending(s, a)'
  <2>1. sends'[s] - a - 1 = n - a /\ sends'[s] - a = n + 1 - a
    BY <1>2, <1>4
  <2> QED  BY <1>5, <1>6, <2>1 DEF Pending, Messages, Block
<1>8. Replied(s, a)'
  BY <1>1 DEF Replied, Echo!SendMessage
<1> QED  BY <1>2, <1>4, <1>7, <1>8

\* strlen() stops at the NUL of a message.
LEMMA EchoedMessage ==
  ASSUME NEW buffer \in Seq(Int), NEW count, Block <= Len(buffer),
         \A j \in 1 .. MessageLength : buffer[j] # Echo!Nul, buffer[Block] = Echo!Nul
  PROVE  Echo!Echoed(buffer, count) = SubSeq(buffer, 1, MessageLength)
<1> DEFINE IsEnd(k) == buffer[k] = Echo!Nul /\ \A j \in 1 .. k - 1 : buffer[j] # Echo!Nul
           end == CHOOSE k \in 1 .. Len(buffer) : IsEnd(k)
<1>1. Block \in 1 .. Len(buffer) /\ Block - 1 = MessageLength
  BY EchoAssumption DEF Block
<1>2. IsEnd(Block)
  BY <1>1
<1>3. end \in 1 .. Len(buffer) /\ IsEnd(end)
  BY <1>1, <1>2
<1> HIDE DEF end
<1>4. end = Block
  <2>1. ~ end < Block
    BY <1>1, <1>3
  <2>2. ~ Block < end
    BY <1>1, <1>3
  <2> QED  BY <1>1, <1>3, <2>1, <2>2
<1> QED  BY <1>1, <1>4 DEF end, Echo!Echoed

\* The server takes the first message off a stream of k messages.
LEMMA MessageTaken ==
  ASSUME NEW u \in Seq(Nat), NEW k \in Nat, NEW a \in Nat, Messages(u, k, a), Block <= Len(u)
  PROVE  LET v == SubSeq(u, Block + 1, Len(u)) IN
         /\ k >= 1
         /\ Messages(v, k - 1, a + 1)
         /\ \A j \in 1 .. Block : u[j] = IF j <= MessageLength THEN a + 1 ELSE Echo!Nul
<1> DEFINE v == SubSeq(u, Block + 1, Len(u))
<1> USE DEF Messages
<1>1. Block \in Nat /\ Block >= 1
  BY EchoAssumption DEF Block
<1>2. k >= 1
  BY <1>1
<1>3. (k - 1) * Block = k * Block - Block
  BY <1>1, NextBlock
<1>4. v \in Seq(Nat) /\ Len(v) = (k - 1) * Block
      /\ \A i \in 1 .. Len(v) : v[i] = u[Block + i]
  <2>1. Len(u) \in Nat /\ Block + 1 \in 1 .. Len(u) + 1
    BY <1>1
  <2> QED  BY <1>1, <1>3, <2>1
<1> HIDE DEF v
<1>5. ASSUME NEW m \in 0 .. k - 2, NEW j \in 1 .. Block
      PROVE  v[m * Block + j] = IF j <= MessageLength THEN a + 1 + m + 1 ELSE Echo!Nul
  <2>1. (m + 1) * Block = m * Block + Block /\ m * Block \in Nat
    BY <1>1, NextBlock
  <2>2. (m + 1) * Block <= (k - 1) * Block
    <3>1. m + 1 \in Int /\ k - 1 \in Int /\ m + 1 <= k - 1
      OBVIOUS
    <3> QED  BY <1>1, <3>1, BlocksMonotone
  <2>3. m * Block + j \in 1 .. Len(v)
    <3> DEFINE p == m * Block
    <3>1. p \in Nat /\ p + Block <= Len(v) /\ Len(v) \in Nat
      BY <1>4, <2>1, <2>2
    <3> HIDE DEF p
    <3>2. p + j \in 1 .. Len(v)
      BY <1>1, <3>1
    <3> QED  BY <3>2 DEF p
  <2>4. v[m * Block + j] = u[(m + 1) * Block + j]
    <3>1. Block + (m * Block + j) = (m + 1) * Block + j
      BY <1>1, <2>1
    <3> QED  BY <1>4, <2>3, <3>1
  <2>5. m + 1 \in 0 .. k - 1 /\ a + (m + 1) + 1 = a + 1 + m + 1
    OBVIOUS
  <2> QED  BY <2>4, <2>5
<1>6. ASSUME NEW j \in 1 .. Block
      PROVE  u[j] = IF j <= MessageLength THEN a + 1 ELSE Echo!Nul
  <2>1. 0 \in 0 .. k - 1 /\ 0 * Block + j = j /\ a + 0 + 1 = a + 1
    BY <1>1, <1>2
  <2> QED  BY <2>1
<1>7. Messages(v, k - 1, a + 1)
  <2>1. k - 1 - 1 = k - 2
    OBVIOUS
  <2> QED  BY <1>4, <1>5, <2>1
<1> QED  BY <1>2, <1>6, <1>7 DEF v

\* The bytes of one more message come back behind the others.
LEMMA ReplyGrows ==
  ASSUME NEW g \in Seq(Int), NEW d \in Seq(Int), NEW e \in Seq(Int), NEW a \in Nat, Replies(g \o d, a),
         Len(e) = MessageLength,
         \A j \in 1 .. MessageLength : e[j] = a + 1
  PROVE  Replies(g \o (d \o e), a + 1)
<1> DEFINE L == MessageLength
           r == g \o d
           s == r \o e
<1> USE DEF Replies
<1>1. L \in Nat /\ r \in Seq(Int)
  BY EchoAssumption
<1>2. g \o (d \o e) = s
  <2>1. (g \o d) \o e = g \o (d \o e)
    BY ONLY ConcatAssociative, g \in Seq(Int), d \in Seq(Int), e \in Seq(Int)
  <2> QED  BY ONLY <2>1
<1>3. r \in Seq(Int) /\ Len(r) = a * L
      /\ \A m \in 0 .. a - 1, j \in 1 .. L : r[m * L + j] = m + 1
  BY <1>1
<1> HIDE DEF r
<1>4. /\ Len(s) = Len(r) + L
      /\ \A i \in 1 .. Len(r) : s[i] = r[i]
      /\ \A i \in 1 .. L : s[Len(r) + i] = e[i]
  <2>1. /\ Len(s) = Len(r) + Len(e)
        /\ \A i \in 1 .. Len(r) : s[i] = r[i]
        /\ \A i \in 1 .. Len(e) : s[Len(r) + i] = e[i]
    <3>1. r \in Seq(Int) /\ e \in Seq(Int)
      BY <1>1
    <3> QED  BY ONLY <3>1
  <2> QED  BY <2>1
<1> HIDE DEF s
<1>5. (a + 1) * L = a * L + L
  BY <1>1, NextBlock
<1>6. ASSUME NEW m \in 0 .. a, NEW j \in 1 .. L
      PROVE  s[m * L + j] = m + 1
  <2>1. CASE m = a
    BY <1>3, <1>4, <2>1
  <2>2. CASE m \in 0 .. a - 1
    <3>1. (m + 1) * L <= a * L
      <4>1. m + 1 \in Int /\ m + 1 <= a
        BY <2>2
      <4> QED  BY <1>1, <4>1, BlocksMonotone
    <3>2. (m + 1) * L = m * L + L /\ m * L \in Nat
      BY <1>1, <2>2, NextBlock
    <3>3. m * L + j \in 1 .. Len(r)
      <4> DEFINE p == m * L
      <4>1. p \in Nat /\ p + L <= Len(r) /\ Len(r) \in Nat
        BY <1>1, <1>3, <3>1, <3>2
      <4> HIDE DEF p
      <4>2. p + j \in 1 .. Len(r)
        BY <1>1, <4>1
      <4> QED  BY <4>2 DEF p
    <3> QED  BY <1>3, <1>4, <2>2, <3>3
  <2> QED  BY <2>1, <2>2
<1>7. Replies(s, a + 1)
  <2>1. a + 1 - 1 = a
    OBVIOUS
  <2> QED  BY <1>3, <1>4, <1>5, <1>6, <2>1
<1> QED  BY <1>2, <1>7

\* The server reads: one message, which it echoes, as long as it has not read anything else.
LEMMA ReadKept ==
  ASSUME EchoInv, serving # Echo!Nobody,
         NEW count \in 1 .. Len(up[serving]), count <= BufferSize, Echo!ReadAndEcho(count),
         UNCHANGED <<Echo!page, threadPhase, nativePhase, sends>>
  PROVE  EchoInv'
<1> DEFINE c == serving
           L == MessageLength
           buffer == SubSeq(up[c], 1, count) \o SubSeq(clientMessage, count + 1, BufferSize + 1)
<1>1. /\ c \in Echo!Sockets
      /\ up[c] \in Seq(Nat)
      /\ count \in Nat /\ count >= 1 /\ count <= Len(up[c])
  BY DEF EchoInv, EchoTypes
<1>2. /\ buffer \in Seq(Int)
      /\ Len(buffer) = BufferSize + 1
      /\ \A j \in 1 .. count : buffer[j] = up[c][j]
  <2>1. clientMessage \in Seq(Int) /\ Len(clientMessage) = BufferSize + 1 /\ BufferSize \in Nat
    BY EchoAssumption DEF EchoInv, EchoTypes
  <2>2. /\ SubSeq(up[c], 1, count) \in Seq(Int)
        /\ Len(SubSeq(up[c], 1, count)) = count
        /\ \A j \in 1 .. count : SubSeq(up[c], 1, count)[j] = up[c][j]
    BY <1>1
  <2>3. /\ SubSeq(clientMessage, count + 1, BufferSize + 1) \in Seq(Int)
        /\ Len(SubSeq(clientMessage, count + 1, BufferSize + 1)) = BufferSize + 1 - count
    BY <1>1, <2>1
  <2> DEFINE front == SubSeq(up[c], 1, count)
             rest == SubSeq(clientMessage, count + 1, BufferSize + 1)
  <2>4. /\ front \in Seq(Int) /\ Len(front) = count
        /\ rest \in Seq(Int) /\ Len(rest) = BufferSize + 1 - count
        /\ \A j \in 1 .. count : front[j] = up[c][j]
    BY <2>2, <2>3
  <2> HIDE DEF front, rest
  <2>5. /\ front \o rest \in Seq(Int) /\ Len(front \o rest) = BufferSize + 1
        /\ \A j \in 1 .. count : (front \o rest)[j] = front[j]
    <3>1. /\ front \o rest \in Seq(Int)
          /\ Len(front \o rest) = Len(front) + Len(rest)
          /\ \A j \in 1 .. Len(front) + Len(rest) : (front \o rest)[j] =
               IF j <= Len(front) THEN front[j] ELSE rest[j - Len(front)]
      BY <2>4, ConcatProperties
    <3>2. \A j \in 1 .. count : j \in 1 .. Len(front) + Len(rest) /\ j <= Len(front)
      BY <1>1, <2>1, <2>4
    <3> QED  BY <1>1, <2>1, <2>4, <3>1, <3>2
  <2> QED  BY <2>4, <2>5 DEF front, rest
<1>3. /\ clientMessage' = buffer
      /\ up' = [up EXCEPT ![c] = SubSeq(@, count + 1, Len(@))]
      /\ conn' = [conn EXCEPT ![c] = IF @ = "closed" THEN "reset" ELSE @]
      /\ down' = IF conn[c] = "open" THEN [down EXCEPT ![c] = @ \o Echo!Echoed(buffer, count)]
                 ELSE down
      /\ UNCHANGED <<got, backlog, serving>>
  BY DEF Echo!ReadAndEcho
<1> HIDE DEF buffer
<1>4. EchoTypes'
  <2>1. SubSeq(up[c], count + 1, Len(up[c])) \in Seq(Nat)
    BY <1>1
  <2>2. up' \in [Echo!Sockets -> Seq(Nat)]
    BY <1>3, <2>1 DEF EchoInv, EchoTypes
  <2>3. /\ down' = [s \in Echo!Sockets |-> down'[s]]
        /\ conn' = [s \in Echo!Sockets |-> conn'[s]]
    BY <1>3 DEF EchoInv, EchoTypes
  <2> QED  BY <1>2, <1>3, <2>2, <2>3 DEF EchoInv, EchoTypes
<1>5. ASSUME NEW s \in Clients
      PROVE  conn'[s] = conn[s]
  <2>1. s \in Echo!Sockets /\ conn[s] \in {"none", "connecting", "open"}
    BY DEF EchoInv, Connected, Clients, Echo!Sockets
  <2> QED  BY <1>3, <2>1 DEF EchoInv, EchoTypes
<1>6. Connected'
  <2>1. "page" \in Clients /\ "thread" \in Clients
    BY DEF Clients
  <2> QED  BY <1>5, <2>1 DEF EchoInv, Connected, Echo!page
<1>7. ASSUME ~ ragged'
      PROVE  ~ ragged /\ count = Block /\ up[c][count] = Echo!Nul
  BY <1>7, Zenon DEF Echo!ReadAndEcho, Block
<1>8. ASSUME ~ ragged', NEW s \in Clients
      PROVE  \E a \in 0 .. sends'[s] : Pending(s, a)' /\ Replied(s, a)'
  <2>1. s \in Echo!Sockets /\ InOrder /\ sends[s] \in Nat /\ sends' = sends
    BY <1>7, <1>8 DEF EchoInv, EchoTypes, Clients, Echo!Sockets
  <2>2. CASE s # c
    <3>1. up'[s] = up[s] /\ down'[s] = down[s] /\ got'[s] = got[s]
      BY <1>3, <2>1, <2>2 DEF EchoInv, EchoTypes
    <3> QED  BY <2>1, <3>1, ReplyKept
  <2>3. CASE s = c
    <3>1. PICK a \in 0 .. sends[s] : Pending(s, a) /\ Replied(s, a)
      BY <2>1 DEF InOrder
    <3> DEFINE k == sends[s] - a
    <3>2. a \in Nat /\ k \in Nat /\ up[s] \in Seq(Nat)
      BY <1>1, <2>1, <2>3, <3>1
    <3>3. up'[s] = SubSeq(up[s], Block + 1, Len(up[s])) /\ Block <= Len(up[s])
      BY <1>1, <1>3, <1>7, <1>8, <2>3 DEF EchoInv, EchoTypes
    <3>4. Messages(up[s], k, a)
      BY <3>1 DEF Pending
    <3> HIDE DEF k
    <3>5. /\ k >= 1
          /\ Messages(up'[s], k - 1, a + 1)
          /\ \A j \in 1 .. Block : up[s][j] = IF j <= L THEN a + 1 ELSE Echo!Nul
      BY <3>2, <3>3, <3>4, MessageTaken
    <3>6. a + 1 \in 0 .. sends'[s] /\ sends'[s] - (a + 1) = k - 1
      BY <2>1, <3>2, <3>5 DEF k
    <3>7. Pending(s, a + 1)'
      BY <3>5, <3>6 DEF Pending, Messages, Block
    <3>8. conn[s] = "open"
      <4>1. sends[s] > 0
        BY <2>1, <3>2, <3>5 DEF k
      <4> QED  BY <4>1 DEF EchoInv, Connected
    <3>9. Echo!Echoed(buffer, count) = SubSeq(buffer, 1, L)
      <4>1. /\ Block <= Len(buffer)
            /\ \A j \in 1 .. Block : buffer[j] = up[s][j]
            /\ Block \in Nat /\ L \in Nat /\ Block = L + 1
        BY <1>1, <1>2, <1>7, <1>8, <2>3, EchoAssumption DEF Block
      <4>2. \A j \in 1 .. L : buffer[j] # Echo!Nul
        BY <3>2, <3>5, <4>1 DEF Echo!Nul
      <4>3. buffer[Block] = Echo!Nul
        BY <3>5, <4>1
      <4> QED  BY <1>2, <4>1, <4>2, <4>3, EchoedMessage
    <3> DEFINE e == SubSeq(buffer, 1, L)
    <3>10. e \in Seq(Int) /\ Len(e) = L /\ \A j \in 1 .. L : e[j] = a + 1
      <4>1. L \in Nat /\ L <= Len(buffer) /\ Block = L + 1 /\ Block = count
        BY <1>1, <1>2, <1>7, <1>8, EchoAssumption DEF Block
      <4>2. e \in Seq(Int) /\ Len(e) = L /\ \A j \in 1 .. L : e[j] = buffer[j]
        BY <1>2, <4>1
      <4>3. \A j \in 1 .. L : buffer[j] = a + 1
        BY <1>2, <2>3, <3>5, <4>1
      <4> QED  BY <4>2, <4>3
    <3>11. got'[s] = got[s] /\ down'[s] = down[s] \o e
      BY <1>3, <2>1, <2>3, <3>8, <3>9 DEF EchoInv, EchoTypes
    <3> HIDE DEF e
    <3>12. got[s] \in Seq(Int) /\ down[s] \in Seq(Int) /\ Replies(got[s] \o down[s], a)
      BY <3>1 DEF Replied
    <3>13. Replies(got[s] \o (down[s] \o e), a + 1)
      BY <3>2, <3>10, <3>12, ReplyGrows
    <3>14. Replied(s, a + 1)'
      <4>1. down[s] \o e \in Seq(Int)
        BY <3>10, <3>12
      <4> QED  BY <3>11, <3>12, <3>13, <4>1 DEF Replied, Replies
    <3> QED  BY <3>6, <3>7, <3>14
  <2> QED  BY <2>2, <2>3
<1> QED  BY <1>4, <1>6, <1>7, <1>8 DEF EchoInv, InOrder

\* A step of a client that sends nothing and receives nothing.
LEMMA ConnectKept ==
  ASSUME EchoInv,
         UNCHANGED <<Echo!streams, clientMessage, ragged, sends>>,
         conn' = [s \in Echo!Sockets |-> conn'[s]],
         backlog' \in Seq(Echo!Sockets), serving' \in Echo!Sockets \cup {Echo!Nobody},
         Connected'
  PROVE  EchoInv'
<1>1. EchoTypes'
  BY DEF EchoInv, EchoTypes, Echo!streams
<1>2. ASSUME ~ ragged', NEW s \in Clients
      PROVE  \E a \in 0 .. sends'[s] : Pending(s, a)' /\ Replied(s, a)'
  <2>1. InOrder
    BY <1>2 DEF EchoInv
  <2> QED  BY <2>1, ReplyKept DEF Echo!streams
<1> QED  BY <1>1, <1>2 DEF EchoInv, InOrder

\* A client sends.
LEMMA ClientSends ==
  ASSUME EchoInv, NEW c \in Echo!Sockets, Echo!CanSend(c), Echo!SendMessage(c),
         UNCHANGED <<Echo!server, conn>>,
         gSocket' = "0" => gSocket = "0", threadPhase' = "idle" => threadPhase = "idle"
  PROVE  EchoInv'
<1> DEFINE message == [k \in 1 .. MessageLength + 1 |->
                        IF k <= MessageLength THEN sends[c] + 1 ELSE Echo!Nul]
<1>1. EchoTypes'
  <2>1. message \in Seq(Nat)
    <3>1. MessageLength + 1 \in Nat /\ sends[c] + 1 \in Nat
      BY EchoAssumption DEF EchoInv, EchoTypes
    <3>2. message \in [1 .. MessageLength + 1 -> Nat]
      BY <3>1 DEF Echo!Nul
    <3> QED  BY <3>1, <3>2
  <2>2. up[c] \o message \in Seq(Nat)
    BY <2>1 DEF EchoInv, EchoTypes
  <2>3. up' = [up EXCEPT ![c] = @ \o message] /\ sends' = [sends EXCEPT ![c] = @ + 1]
        /\ UNCHANGED <<down, got, conn, backlog, serving, clientMessage>>
    BY DEF Echo!SendMessage, Echo!server
  <2> HIDE DEF message
  <2>4. up' \in [Echo!Sockets -> Seq(Nat)] /\ sends' \in [Echo!Sockets -> Nat]
    BY <2>2, <2>3 DEF EchoInv, EchoTypes
  <2> QED  BY <2>3, <2>4 DEF EchoInv, EchoTypes
<1>2. Connected'
  <2>1. ASSUME NEW s \in Clients
        PROVE  conn'[s] \in {"none", "connecting", "open"} /\ (sends'[s] > 0 => conn'[s] = "open")
    <3>1. CASE s = c
      BY <3>1 DEF EchoInv, Connected, Echo!CanSend
    <3>2. CASE s # c
      BY <3>2 DEF EchoInv, Connected, EchoTypes, Clients, Echo!Sockets, Echo!SendMessage
    <3> QED  BY <3>1, <3>2
  <2> QED  BY <2>1 DEF EchoInv, Connected
<1>3. ASSUME ~ ragged', NEW s \in Clients
      PROVE  \E a \in 0 .. sends'[s] : Pending(s, a)' /\ Replied(s, a)'
  <2>1. InOrder /\ EchoTypes
    BY <1>3 DEF EchoInv, Echo!server
  <2>2. CASE s = c
    BY <2>1, <2>2, SendKept
  <2>3. CASE s # c
    <3>1. up'[s] = up[s] /\ sends'[s] = sends[s] /\ down' = down /\ got' = got
      BY <2>1, <2>3 DEF EchoTypes, Clients, Echo!Sockets, Echo!SendMessage
    <3> QED  BY <2>1, <3>1, ReplyKept
  <2> QED  BY <2>2, <2>3
<1> QED  BY <1>1, <1>2, <1>3 DEF EchoInv, InOrder

\* A client receives all that came back.
LEMMA ClientReceives ==
  ASSUME EchoInv, NEW c \in Clients, Echo!ReceiveMessage(c),
         UNCHANGED <<gSocket, conn, sends, Echo!server>>,
         threadPhase' = "idle" => threadPhase = "idle"
  PROVE  EchoInv'
<1>1. EchoTypes'
  BY DEF EchoInv, EchoTypes, Clients, Echo!Sockets, Echo!ReceiveMessage, Echo!server
<1>2. Connected'
  BY DEF EchoInv, Connected
<1>3. ASSUME ~ ragged', NEW s \in Clients
      PROVE  \E a \in 0 .. sends'[s] : Pending(s, a)' /\ Replied(s, a)'
  <2>1. InOrder /\ EchoTypes /\ s \in Echo!Sockets
    BY <1>3 DEF EchoInv, Echo!server, Clients, Echo!Sockets
  <2>2. CASE s = c
    <3>1. PICK a \in 0 .. sends[s] : Pending(s, a) /\ Replied(s, a)
      BY <2>1 DEF InOrder
    <3>2. got'[s] = got[s] \o down[s] /\ down'[s] = <<>> /\ up' = up
      BY <2>1, <2>2 DEF EchoTypes, Echo!ReceiveMessage
    <3>3. got[s] \o down[s] \in Seq(Int)
      BY <3>1 DEF Replied
    <3>4. got'[s] \o down'[s] = got[s] \o down[s] /\ got'[s] \in Seq(Int) /\ down'[s] \in Seq(Int)
      BY <3>2, <3>3
    <3>5. Replied(s, a)'
      BY <3>1, <3>4 DEF Replied, Replies
    <3>6. Pending(s, a)'
      BY <3>1, <3>2 DEF Pending, Messages
    <3> QED  BY <3>1, <3>5, <3>6
  <2>3. CASE s # c
    <3>1. up' = up /\ sends' = sends /\ down'[s] = down[s] /\ got'[s] = got[s]
      BY <2>1, <2>3 DEF EchoTypes, Echo!ReceiveMessage
    <3> QED  BY <2>1, <3>1, ReplyKept
  <2> QED  BY <2>2, <2>3
<1> QED  BY <1>1, <1>2, <1>3 DEF EchoInv, InOrder

\* Connecting, accepting and closing: a client of the page or the thread connects once.
LEMMA ConnectionSteps ==
  ASSUME EchoInv,
         \/ Echo!RunConnect
         \/ Echo!RunSendReceiveInThread
         \/ \E s \in Echo!Sockets : Echo!Handshake(s)
         \/ Echo!ServerStep /\ (Echo!Accept \/ Echo!ClientGone)
  PROVE  EchoInv'
<1>0. "page" \in Clients /\ "thread" \in Clients /\ Clients \subseteq Echo!Sockets
  BY DEF Clients, Echo!Sockets
<1>1. conn = [s \in Echo!Sockets |-> conn[s]] /\ backlog \in Seq(Echo!Sockets)
      /\ serving \in Echo!Sockets \cup {Echo!Nobody}
  BY DEF EchoInv, EchoTypes
<1>2. CASE Echo!RunConnect
  <2>1. UNCHANGED <<Echo!streams, backlog, serving, clientMessage, ragged, sends, threadPhase>>
    BY <1>2 DEF Echo!RunConnect, Echo!server
  <2>2. gSocket = "0" /\ gSocket' # "0"
        /\ (conn' = conn \/ conn' = [conn EXCEPT !["page"] = "connecting"])
    BY <1>2 DEF Echo!RunConnect, Echo!ConnectBegins
  <2>3. conn["page"] = "none" /\ ~ sends["page"] > 0
    BY <1>0, <2>2 DEF EchoInv, Connected
  <2>4. Connected'
    BY <1>0, <1>1, <2>1, <2>2, <2>3 DEF EchoInv, Connected, Clients
  <2>5. conn' = [s \in Echo!Sockets |-> conn'[s]]
    BY <1>1, <2>2
  <2> QED  BY <1>1, <2>1, <2>4, <2>5, ConnectKept
<1>3. CASE Echo!RunSendReceiveInThread
  <2>1. UNCHANGED <<Echo!streams, backlog, serving, clientMessage, ragged, sends, gSocket>>
    BY <1>3 DEF Echo!RunSendReceiveInThread, Echo!server, Echo!page
  <2>2. threadPhase = "idle" /\ threadPhase' # "idle"
        /\ (conn' = conn \/ conn' = [conn EXCEPT !["thread"] = "connecting"])
    BY <1>3 DEF Echo!RunSendReceiveInThread, Echo!ConnectBegins
  <2>3. conn["thread"] = "none" /\ ~ sends["thread"] > 0
    BY <1>0, <2>2 DEF EchoInv, Connected
  <2>4. Connected'
    BY <1>0, <1>1, <2>1, <2>2, <2>3 DEF EchoInv, Connected, Clients
  <2>5. conn' = [s \in Echo!Sockets |-> conn'[s]]
    BY <1>1, <2>2
  <2> QED  BY <1>1, <2>1, <2>4, <2>5, ConnectKept
<1>4. ASSUME NEW c \in Echo!Sockets, Echo!Handshake(c)
      PROVE  EchoInv'
  <2>1. UNCHANGED <<Echo!streams, serving, clientMessage, ragged, sends, gSocket, threadPhase>>
    BY <1>4 DEF Echo!Handshake, Echo!page
  <2>2. conn[c] = "connecting" /\ conn' = [conn EXCEPT ![c] = "open"] /\ backlog' = Append(backlog, c)
    BY <1>4 DEF Echo!Handshake
  <2>3. Connected'
    BY <1>0, <1>1, <2>1, <2>2 DEF EchoInv, Connected, Clients
  <2>4. conn' = [s \in Echo!Sockets |-> conn'[s]]
    BY <1>1, <2>2
  <2>5. backlog' \in Seq(Echo!Sockets)
    BY <1>1, <2>2
  <2> QED  BY <1>1, <2>1, <2>3, <2>4, <2>5, ConnectKept
<1>5. CASE Echo!ServerStep /\ (Echo!Accept \/ Echo!ClientGone)
  <2>1. UNCHANGED <<Echo!streams, clientMessage, ragged, sends, gSocket, threadPhase, conn>>
    BY <1>5 DEF Echo!ServerStep, Echo!Accept, Echo!ClientGone, Echo!page
  <2>2. backlog' \in Seq(Echo!Sockets) /\ serving' \in Echo!Sockets \cup {Echo!Nobody}
    BY <1>1, <1>5, HeadTailProperties DEF Echo!Accept, Echo!ClientGone
  <2>3. Connected'
    BY <2>1 DEF EchoInv, Connected
  <2> QED  BY <1>1, <2>1, <2>2, <2>3, ConnectKept
<1> QED  BY <1>2, <1>3, <1>4, <1>5

\* The native program sends once and closes its socket, which it shares with nobody.
LEMMA NativeKept ==
  ASSUME EchoInv, Echo!NativeStep
  PROVE  EchoInv'
<1>1. UNCHANGED <<gSocket, threadPhase, Echo!server>>
  BY DEF Echo!NativeStep, Echo!page
<1>2. CASE UNCHANGED <<Echo!streams, sends>>
  <2>1. conn' = [s \in Echo!Sockets |-> conn'[s]] /\ \A s \in Clients : conn'[s] = conn[s]
    <3>1. \/ conn' = conn
          \/ conn' = [conn EXCEPT !["native"] = "connecting"]
          \/ conn' = [conn EXCEPT !["native"] = IF @ = "open" THEN "closed" ELSE "none"]
      BY DEF Echo!NativeStep, Echo!ConnectBegins
    <3>2. conn = [s \in Echo!Sockets |-> conn[s]]
      BY DEF EchoInv, EchoTypes
    <3> QED  BY <3>1, <3>2 DEF Clients, Echo!Sockets
  <2>2. Connected'
    BY <1>1, <1>2, <2>1 DEF EchoInv, Connected, Clients
  <2>3. backlog' \in Seq(Echo!Sockets) /\ serving' \in Echo!Sockets \cup {Echo!Nobody}
    BY <1>1 DEF EchoInv, EchoTypes, Echo!server
  <2> QED  BY <1>1, <1>2, <2>1, <2>2, <2>3, ConnectKept DEF Echo!server
<1>3. CASE Echo!CanSend("native") /\ Echo!SendMessage("native") /\ UNCHANGED conn
  BY <1>1, <1>3, ClientSends DEF Echo!Sockets
<1> QED  BY <1>2, <1>3 DEF Echo!NativeStep

\* Every step of the clients and the server keeps the streams.
LEMMA EchoStep == EchoInv /\ Echo!Next => EchoInv'
<1> SUFFICES ASSUME EchoInv, Echo!Next PROVE EchoInv'
  OBVIOUS
<1>0. "page" \in Clients /\ "thread" \in Clients
      /\ "page" \in Echo!Sockets /\ "thread" \in Echo!Sockets
  BY DEF Clients, Echo!Sockets
<1>1. CASE Echo!RunSendMessage
  BY <1>0, <1>1, ClientSends DEF Echo!RunSendMessage, Echo!page
<1>2. CASE Echo!ThreadStep
  <2>1. UNCHANGED <<gSocket, conn, Echo!server>> /\ threadPhase' # "idle"
    BY <1>2 DEF Echo!ThreadStep, Echo!page
  <2>2. CASE /\ threadPhase \in {"send", "send again"}
             /\ Echo!CanSend("thread")
             /\ Echo!SendMessage("thread")
    BY <1>0, <2>1, <2>2, ClientSends
  <2>3. CASE /\ threadPhase = "recv"
             /\ Echo!ReceiveMessage("thread")
             /\ UNCHANGED sends
    BY <1>0, <2>1, <2>3, ClientReceives
  <2> QED  BY <1>2, <2>2, <2>3 DEF Echo!ThreadStep
<1>3. ASSUME NEW s \in Echo!Sockets, Echo!ReadyRead(s)
      PROVE  EchoInv'
  BY <1>3, ClientReceives DEF Echo!ReadyRead, Echo!page, Clients
<1>4. CASE Echo!ServerStep
  <2>1. ASSUME serving # Echo!Nobody, NEW count \in 1 .. Len(up[serving]), count <= BufferSize,
               Echo!ReadAndEcho(count)
        PROVE  EchoInv'
    BY <1>4, <2>1, ReadKept DEF Echo!ServerStep
  <2> QED  BY <1>4, <2>1, ConnectionSteps DEF Echo!ServerStep
<1>5. CASE Echo!Rest
  <2>1. UNCHANGED <<gSocket, threadPhase, conn, Echo!streams, backlog, serving, clientMessage,
                    ragged, sends>>
    BY <1>5 DEF Echo!Rest, Echo!vars, Echo!page, Echo!server
  <2>2. Connected'
    BY <2>1 DEF EchoInv, Connected
  <2> QED  BY <2>1, <2>2, ConnectKept DEF EchoInv, EchoTypes
<1> QED  BY <1>1, <1>2, <1>3, <1>4, <1>5, ConnectionSteps, NativeKept DEF Echo!Next

\* As long as the server reads whole messages, a client gets back what it sent, once and in
\* order, whatever is served between and left in the buffer (the loop of server.cpp, and
\* readyRead() and the thread's loops of client.cpp).
THEOREM EchoesComeBack == MCSpec => []EchoesInOrder
<1>1. MCInit => EchoInv
  BY EchoStarts DEF MCInit
<1>2. EchoInv /\ [MCNext]_allVars => EchoInv'
  <2> SUFFICES ASSUME EchoInv, [MCNext]_allVars PROVE EchoInv'
    OBVIOUS
  <2>1. CASE UNCHANGED socketVars
    <3>1. UNCHANGED <<gSocket, threadPhase, conn, Echo!streams, backlog, serving, clientMessage,
                      ragged, sends>>
      BY <2>1 DEF socketVars, Echo!streams
    <3>2. Connected'
      BY <3>1 DEF EchoInv, Connected
    <3> QED  BY <3>1, <3>2, ConnectKept DEF EchoInv, EchoTypes
  <2>2. UNCHANGED socketVars \/ Echo!Next
    BY DEF MCNext, allVars, InTester, InSockets, InPool, In
  <2> QED  BY <2>1, <2>2, EchoStep
<1> QED  BY <1>1, <1>2, EchoPromise, PTL DEF MCSpec

=============================================================================
