---------------------------- MODULE BumpAllocator ----------------------------
(***************************************************************************)
(* The global allocator: alloc initialises the heap with mmap on first use *)
(* and then moves HEAP_CUR by compare_exchange; dealloc does nothing.      *)
(* main allocates (spawn_task boxes accept_loop) before start_workers, so  *)
(* the other threads only exist once an allocation of main has succeeded.  *)
(* A null result ends the thread: alloc's callers panic, and the panic     *)
(* handler exits the calling thread only.                                  *)
(***************************************************************************)
EXTENDS Naturals, FiniteSets

CONSTANTS
  Threads,
  Main,         \* the thread that runs main
  HeapBase,     \* where mmap puts the heap
  HeapSize,     \* HEAP_SIZE
  WordSpan,     \* usize wraps at this value
  Layouts,      \* the layouts asked for: [size, align], align a power of two
  MaxAllocs     \* bound: allocations begun

ASSUME AllocatorAssumption ==
  /\ Main \in Threads
  /\ HeapBase \in Nat \ {0}
  /\ HeapSize \in Nat
  /\ WordSpan \in Nat /\ HeapBase + HeapSize < WordSpan
  /\ Layouts \subseteq [size : Nat, align : Nat \ {0}]
  /\ MaxAllocs \in Nat

VARIABLES
  start, cur, end,      \* HEAP_START, HEAP_CUR, HEAP_END
  mapped,               \* number of heaps mapped: mapping k starts at Base(k)
  workers,              \* has start_workers run?
  allocs,
  pc,
  lay,                  \* per thread: the layout of its request
  addr,                 \* per thread: what mmap returned
  seen,                 \* per thread: HEAP_CUR as loaded
  blocks                \* history: the blocks handed out, [lo, hi], numbered

heapVars == <<start, cur, end, mapped>>
vars == <<heapVars, workers, allocs, pc, lay, addr, seen, blocks>>

\* Every mmap returns another region; they are HeapSize + 1 apart here.
Base(k) == HeapBase + k * (HeapSize + 1)

\* The sum is unchecked in the code; HEAP_CUR is a user address and alignments are
\* small, so that it cannot wrap.
AlignUp(c, a) == ((c + a - 1) \div a) * a

Init ==
  /\ start = 0 /\ cur = 0 /\ end = 0
  /\ mapped = 0
  /\ workers = FALSE
  /\ allocs = 0
  /\ pc = [t \in Threads |-> "idle"]
  /\ lay = [t \in Threads |-> [size |-> 0, align |-> 1]]
  /\ addr = [t \in Threads |-> 0]
  /\ seen = [t \in Threads |-> 0]
  /\ blocks = {}

Goto(t, from, to) ==
  /\ pc[t] = from
  /\ pc' = [pc EXCEPT ![t] = to]

\* Fault: the workers are started before main has spawned accept_loop.
StartWorkersEarly ==
  /\ ~workers
  /\ workers' = TRUE
  /\ UNCHANGED <<heapVars, allocs, pc, lay, addr, seen, blocks>>

\* spawn_task(accept_loop(sfd)) has returned; start_workers clones the threads.
StartWorkers ==
  /\ ~workers
  /\ pc[Main] = "idle" /\ blocks # {}
  /\ workers' = TRUE
  /\ UNCHANGED <<heapVars, allocs, pc, lay, addr, seen, blocks>>

Begin(t) ==
  /\ t = Main \/ workers
  /\ allocs < MaxAllocs
  /\ Goto(t, "idle", IF start = 0 THEN "mmap" ELSE "load")
  /\ \E l \in Layouts : lay' = [lay EXCEPT ![t] = l]
  /\ allocs' = allocs + 1
  /\ UNCHANGED <<heapVars, workers, addr, seen, blocks>>

\* mmap returns a fresh region, or null and the heap stays uninitialised.
Mmap(t) ==
  /\ \/ /\ Goto(t, "mmap", "start")
        /\ addr' = [addr EXCEPT ![t] = Base(mapped)]
        /\ mapped' = mapped + 1
     \/ /\ Goto(t, "mmap", "load")
        /\ UNCHANGED <<addr, mapped>>
  /\ UNCHANGED <<start, cur, end, workers, allocs, lay, seen, blocks>>

StoreStart(t) ==
  /\ Goto(t, "start", "cur")
  /\ start' = addr[t]
  /\ UNCHANGED <<cur, end, mapped, workers, allocs, lay, addr, seen, blocks>>

StoreCur(t) ==
  /\ Goto(t, "cur", "end")
  /\ cur' = addr[t]
  /\ UNCHANGED <<start, end, mapped, workers, allocs, lay, addr, seen, blocks>>

StoreEnd(t) ==
  /\ Goto(t, "end", "load")
  /\ end' = addr[t] + HeapSize
  /\ UNCHANGED <<start, cur, mapped, workers, allocs, lay, addr, seen, blocks>>

\* A zero-sized layout gets a dangling pointer and touches nothing.
ZeroSize(t) ==
  /\ lay[t].size = 0
  /\ Goto(t, "load", "idle")
  /\ UNCHANGED <<heapVars, workers, allocs, lay, addr, seen, blocks>>

LoadCur(t) ==
  /\ lay[t].size # 0
  /\ Goto(t, "load", "bound")
  /\ seen' = [seen EXCEPT ![t] = cur]
  /\ UNCHANGED <<heapVars, workers, allocs, lay, addr, blocks>>

Aligned(t) == AlignUp(seen[t], lay[t].align)
Bumped(t)  == Aligned(t) + lay[t].size

\* Fault: the sum wraps before it is compared.
FitsWrapped(t) == Bumped(t) % WordSpan <= end

\* checked_add, then the comparison with HEAP_END.
Fits(t) == Bumped(t) < WordSpan /\ Bumped(t) <= end

\* Null ends the thread.
CheckEnd(t) ==
  /\ Goto(t, "bound", IF Fits(t) THEN "cas" ELSE "dead")
  /\ UNCHANGED <<heapVars, workers, allocs, lay, addr, seen, blocks>>

NewBlock(t) == [lo |-> Aligned(t), hi |-> Bumped(t), n |-> Cardinality(blocks)]

\* Fault: HEAP_CUR is stored without comparing.
CasStores(t) ==
  /\ Goto(t, "cas", "idle")
  /\ cur' = Bumped(t)
  /\ blocks' = blocks \cup {NewBlock(t)}
  /\ UNCHANGED <<start, end, mapped, workers, allocs, lay, addr, seen>>

Cas(t) ==
  /\ \/ /\ cur = seen[t]
        /\ Goto(t, "cas", "idle")
        /\ cur' = Bumped(t)
        /\ blocks' = blocks \cup {NewBlock(t)}
     \/ /\ cur # seen[t]
        /\ Goto(t, "cas", "load")
        /\ UNCHANGED <<cur, blocks>>
  /\ UNCHANGED <<start, end, mapped, workers, allocs, lay, addr, seen>>

Alloc(t) ==
  \/ Begin(t) \/ Mmap(t) \/ StoreStart(t) \/ StoreCur(t) \/ StoreEnd(t)
  \/ ZeroSize(t) \/ LoadCur(t) \/ CheckEnd(t) \/ Cas(t)

Next == StartWorkers \/ \E t \in Threads : Alloc(t)

Spec == Init /\ [][Next]_vars

-----------------------------------------------------------------------------
(* Properties.                                                             *)

\* Two threads are never given overlapping memory, however their
\* compare_exchange loops interleave.
BlocksDisjoint ==
  \A b, c \in blocks : b # c => b.hi <= c.lo \/ c.hi <= b.lo

\* Every block lies in the one mapped heap, also when a size is near the end of the
\* address space.
BlocksInHeap ==
  \A b \in blocks : HeapBase <= b.lo /\ b.lo < b.hi /\ b.hi <= HeapBase + HeapSize

\* The check of HEAP_START and the stores after mmap are not atomic: the heap is
\* mapped once only because main allocates before it starts the workers.
HeapMappedOnce == mapped <= 1
=============================================================================
