------------------------------ MODULE MemoryMeters ------------------------------
(***************************************************************************)
(* The programs that use up memory: emscripten_malloc, whose page calls    *)
(* malloc_again() and memset_again(), and widgets_memory, which allocates  *)
(* and frees on the heap and in JavaScript.                                *)
(*                                                                         *)
(* Sizes are in units of 32 MB. A size_t has 32 bits, 128 units, and the   *)
(* totals of widgets_memory have 64 bits; freeing adds the negated size to *)
(* them. In both programs the heap gives up somewhere below its limit.     *)
(***************************************************************************)
EXTENDS Integers, Sequences, SequencesExt

CONSTANTS
  HeapLimit,    \* units that malloc() can hand out at most: less than 2 GB
  MaxBlocks,    \* bound: allocations in one behaviour, of each kind
  Word          \* 2^64, in units: larger than anything that is allocated

VARIABLES
  mallocSize,   \* malloc_size
  mallocFailed, \* malloc_has_failed
  totalMalloc,  \* total_malloc
  pointers,     \* alloc_sizes
  memsetIndex,  \* memset_buffer_index
  heapMemory,   \* heapMemory, the sizes
  heapTotal,    \* totalAllocSize
  jsMemory,     \* jsMemory, the sizes
  jsTotal       \* totalJsAllocSize

mallocs == <<mallocSize, mallocFailed, totalMalloc, pointers, memsetIndex>>
widget == <<heapMemory, heapTotal, jsMemory, jsTotal>>
vars == <<mallocs, widget>>

MinMallocSize == 2
MaxMallocSize == 64
SizeT == 128
AllocSize == 8   \* heapAllocSize, jsAllocSize

Sum(sizes) ==
  LET total[k \in 0 .. Len(sizes)] == IF k = 0 THEN 0 ELSE total[k - 1] + sizes[k]
  IN total[Len(sizes)]

TypeOK ==
  /\ mallocSize \in 0 .. SizeT
  /\ mallocFailed \in BOOLEAN
  /\ totalMalloc \in 0 .. SizeT - 1
  /\ pointers \in Seq(0 .. SizeT)
  /\ memsetIndex \in Nat
  /\ heapMemory \in Seq({AllocSize})
  /\ heapTotal \in 0 .. Word - 1
  /\ jsMemory \in Seq({AllocSize})
  /\ jsTotal \in 0 .. Word - 1

Init ==
  /\ mallocSize = MinMallocSize \div 2
  /\ mallocFailed = FALSE
  /\ totalMalloc = 0
  /\ pointers = <<>>
  /\ memsetIndex = 0
  /\ heapMemory = <<>>
  /\ heapTotal = 0
  /\ jsMemory = <<>>
  /\ jsTotal = 0

-----------------------------------------------------------------------------
(* Updates, each preceded by the wrong variant that mutation testing puts in *)
(* its place.                                                                *)

HalvedBelow(size) == size \div 2
\* malloc_again() after a failure
Halved(size) == IF size \div 2 >= MinMallocSize THEN size \div 2 ELSE size

-----------------------------------------------------------------------------

\* malloc_again() before a failure: twice the size is zero if it does not fit a size_t
Doubled(size) ==
  IF (2 * size) % SizeT <= MaxMallocSize THEN (2 * size) % SizeT ELSE size

\* malloc_again()
MallocAgain ==
  /\ Len(pointers) < MaxBlocks
  /\ mallocSize' = IF mallocFailed THEN Halved(mallocSize) ELSE Doubled(mallocSize)
  /\ \/ /\ Sum(pointers) + mallocSize' <= HeapLimit
        /\ pointers' = Append(pointers, mallocSize')
        /\ totalMalloc' = (totalMalloc + mallocSize') % SizeT
        /\ UNCHANGED mallocFailed
     \/ /\ mallocFailed' = TRUE
        /\ UNCHANGED <<pointers, totalMalloc>>
  /\ UNCHANGED <<memsetIndex, widget>>

\* memset_again()
MemsetAgain ==
  /\ memsetIndex < Len(pointers)
  /\ memsetIndex' = memsetIndex + 1
  /\ UNCHANGED <<mallocSize, mallocFailed, totalMalloc, pointers, widget>>

\* updateHeapSize() and updateJsSize()
Updated(total, delta) == (total + delta) % Word

\* "Allocate 256 MB Emscripten Heap Memory"; when malloc() returns 0 nothing changes
AllocHeap ==
  /\ Len(heapMemory) < MaxBlocks
  /\ Sum(heapMemory) + AllocSize <= HeapLimit
  /\ heapTotal' = Updated(heapTotal, AllocSize)
  /\ heapMemory' = Append(heapMemory, AllocSize)
  /\ UNCHANGED <<mallocs, jsMemory, jsTotal>>

\* "Free Memory": the negated size is a large unsigned number
FreeHeap ==
  /\ heapMemory # <<>>
  /\ heapTotal' = Updated(heapTotal, Word - Last(heapMemory))
  /\ heapMemory' = Front(heapMemory)
  /\ UNCHANGED <<mallocs, jsMemory, jsTotal>>

AllocJs ==
  /\ Len(jsMemory) < MaxBlocks
  /\ jsTotal' = Updated(jsTotal, AllocSize)
  /\ jsMemory' = Append(jsMemory, AllocSize)
  /\ UNCHANGED <<mallocs, heapMemory, heapTotal>>

FreeJs ==
  /\ jsMemory # <<>>
  /\ jsTotal' = Updated(jsTotal, Word - Last(jsMemory))
  /\ jsMemory' = Front(jsMemory)
  /\ UNCHANGED <<mallocs, heapMemory, heapTotal>>

Next ==
  \/ MallocAgain
  \/ MemsetAgain
  \/ AllocHeap
  \/ FreeHeap
  \/ AllocJs
  \/ FreeJs

Spec == Init /\ [][Next]_vars

-----------------------------------------------------------------------------
(* Properties *)

\* The totals are the memory that is held, whatever fails and wraps around; malloc()
\* is asked for 64 MB to 2 GB, and twice as much or half as much as before; and only
\* memory that was allocated is written.
MetersRight ==
  /\ totalMalloc = Sum(pointers) % SizeT
  /\ heapTotal = Sum(heapMemory)
  /\ jsTotal = Sum(jsMemory)
  /\ \A k \in DOMAIN pointers : pointers[k] \in {2, 4, 8, 16, 32, 64}
  /\ memsetIndex <= Len(pointers)
  /\ mallocFailed => mallocSize >= MinMallocSize

=============================================================================
