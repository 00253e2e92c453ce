\* Tester: two testers, two threads at a time, four in all. Sockets: messages of two bytes
\* and a NUL, a buffer for two of them, two messages by the page. Pools of up to three.
SPECIFICATION MCSpec
CONSTANTS
  Runs = 2
  MaxLiveThreads = 2
  MaxCreatedThreads = 4
  MessageLength = 2
  BufferSize = 6
  MaxSends = 2
  PoolSizes = {0, 1, 2, 3}
INVARIANTS
  LiveThreadsBounded
  NoUseAfterDelete
  ReportsRight
  EchoesInOrder
PROPERTIES
  ThreadsEnd
