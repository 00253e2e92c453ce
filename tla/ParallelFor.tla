----------------------------- MODULE ParallelFor -----------------------------
(***************************************************************************)
(* What runOnThreads() promises its caller, without threads, mutexes or    *)
(* wait conditions: "calls the provided function iterationCount times"     *)
(* (renderthread.cpp:103), in any order, and returns after the last call.  *)
(***************************************************************************)
EXTENDS Naturals

CONSTANT IterationCount

VARIABLES
  ran,      \* the iterations whose call has ended
  returned  \* the parallel loop is over

vars == <<ran, returned>>

Init ==
  /\ ran = {}
  /\ returned = FALSE

RunIteration(i) ==
  /\ ~ returned
  /\ i \notin ran
  /\ ran' = ran \cup {i}
  /\ UNCHANGED returned

ReturnToCaller ==
  /\ ran = 0 .. IterationCount - 1
  /\ returned' = TRUE
  /\ UNCHANGED ran

Next == (\E i \in 0 .. IterationCount - 1 : RunIteration(i)) \/ ReturnToCaller

Spec == Init /\ [][Next]_vars /\ WF_vars(Next)

=============================================================================
