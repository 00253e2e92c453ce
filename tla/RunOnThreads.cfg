\* A pack of three threads, four iterations, a pool with room for two of them.
SPECIFICATION Spec
CONSTANTS
  IterationCount = 4
  MaxThreads = 3
  PoolSize = 2
INVARIANTS
  EachIterationOnce
  NoWorkerOutlivesCall
  NoUseAfterDelete
PROPERTIES
  CallReturns
  ImplementsParallelFor
