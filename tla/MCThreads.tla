------------------------------- MODULE MCThreads -------------------------------
(*****************************************************************************)
(* One run for the small programs with threads: the thread tester of         *)
(* emscripten_proxying_queue, the clients and the server of                  *)
(* emscripten_sockets, and core_threads with emscripten_pthreads.            *)
(*                                                                           *)
(* The programs have nothing to do with each other. The first state          *)
(* chooses one, and only that one takes steps.                               *)
(*****************************************************************************)
EXTENDS ThreadTester, Integers

CONSTANTS
  MessageLength, BufferSize, MaxSends,   \* EchoSockets
  PoolSizes                              \* PoolThreads

VARIABLES
  program,
  gSocket, threadPhase, nativePhase, conn, up, down, got, backlog, serving, clientMessage,
  serverUp, sends, ragged,
  poolProgram, poolSize, idleWorkers, poolThread, loadedValue, mainStep, value

socketVars ==
  <<gSocket, threadPhase, nativePhase, conn, up, down, got, backlog, serving, clientMessage,
    serverUp, sends, ragged>>
poolVars == <<poolProgram, poolSize, idleWorkers, poolThread, loadedValue, mainStep, value>>
allVars == <<program, vars, socketVars, poolVars>>

Echo == INSTANCE EchoSockets
Pool == INSTANCE PoolThreads

\* a message is not empty
ASSUME EchoAssumption == MessageLength \in Nat \ {0} /\ BufferSize \in Nat

-----------------------------------------------------------------------------

\* What the first states of a program leave open is chosen for that program alone.
MCInit ==
  /\ program \in {"tester", "sockets", "pool"}
  /\ Init
  /\ Echo!Init /\ (program # "sockets" => clientMessage[1] = Echo!Nul)
  /\ Pool!Init
  /\ program # "pool" => poolProgram = "core_threads" /\ poolSize = CHOOSE n \in PoolSizes : TRUE

\* A step of the chosen program, which leaves the others alone.
In(name, action, others) ==
  /\ program = name
  /\ action
  /\ UNCHANGED <<program, others>>

InTester(action) == In("tester", action, <<socketVars, poolVars>>)
InSockets(action) == In("sockets", action, <<vars, poolVars>>)
InPool(action) == In("pool", action, <<vars, socketVars>>)

MCNext ==
  \/ InTester(Next)
  \/ InSockets(Echo!Next)
  \/ InPool(Pool!Next)

\* The fairness of the programs, each while it is the chosen one.
MCSpec ==
  /\ MCInit
  /\ [][MCNext]_allVars
  /\ WF_allVars(InTester(MainStep))
  /\ \A i \in Testers, k \in Threads : WF_allVars(InTester(ThreadStep(i, k)))
  /\ WF_allVars(InSockets(Echo!ThreadStep))
  /\ WF_allVars(InSockets(nativePhase # "idle" /\ Echo!NativeStep))
  /\ WF_allVars(InSockets(Echo!ServerStep))
  /\ \A s \in Echo!Sockets : WF_allVars(InSockets(Echo!Handshake(s)))
  /\ WF_allVars(InPool(Pool!MainStep))
  /\ \A t \in Pool!Threads : WF_allVars(InPool(Pool!RunThread(t) \/ Pool!AddOne(t)))

-----------------------------------------------------------------------------
(* Properties *)

\* EchoSockets: as long as the server reads one message at a time, every client gets
\* back its own bytes, once and in order.
EchoesInOrder == Echo!EchoesInOrder

\* ThreadTester: every tester ends, in time or not, and the loop gets to its end;
\* after the time-out no thread is created.
\* EchoSockets: a thread that has connected ends, unless the page has a socket.
\* PoolThreads: the main thread waits for ever if and only if the pool is too small.
ThreadsEnd ==
  /\ program = "tester" => AllTestersEnd
  /\ NoneCreatedAfterTimeout
  /\ Echo!ThreadServed
  /\ program = "pool" => Pool!WaitsEnd

=============================================================================
