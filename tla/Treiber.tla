------------------------------- MODULE Treiber -------------------------------
(***************************************************************************)
(* The lock-free schedule: wake_handle with alloc_node, and                *)
(* take_scheduled_task with free_node, one action per atomic operation or  *)
(* read of shared memory.  Nodes come from the freelist or from the bump   *)
(* allocator, which never hands out an address twice; a node that does not *)
(* go to the freelist is never seen again.                                 *)
(***************************************************************************)
EXTENDS Integers, Sequences, FiniteSets

CONSTANTS
  Wakers,       \* threads that call wake_handle
  Takers,       \* threads that call take_scheduled_task
  FREELIST_MAX,
  CountSpan,    \* FREELIST_COUNT wraps at this value: 2^64
  MaxWakes,     \* bound: calls of wake_handle
  Null          \* the null pointer

Threads == Wakers \cup Takers
Handles == 1 .. MaxWakes        \* the n-th wake is for handle n
Nodes   == 1 .. MaxWakes        \* an address per wake is enough

ASSUME TreiberAssumption ==
  /\ FREELIST_MAX \in Nat
  /\ CountSpan \in Nat \ {0}
  /\ IsFiniteSet(Wakers) /\ IsFiniteSet(Takers) /\ Takers # {}
  /\ FREELIST_MAX + Cardinality(Wakers) + Cardinality(Takers) < CountSpan
  /\ MaxWakes \in Nat
  /\ Null \notin Nat

VARIABLES
  head,         \* SCHEDULE_HEAD
  fhead,        \* FREELIST_HEAD
  fcount,       \* FREELIST_COUNT
  nextOf,       \* a node's next pointer
  handleOf,     \* a node's handle
  fresh,        \* nodes the bump allocator has handed out
  wakes,        \* calls of wake_handle so far
  pc,
  hd, nx,       \* per thread: head and next as loaded
  nd, h,        \* per thread: its node, and the handle it pushes or has taken
  schedSeq,     \* history: the nodes pushed and not popped, newest first
  freeSeq,      \* history: the same for the freelist
  freed         \* history: how many pushes the freelist has had more than pops

heapVars == <<nextOf, handleOf, fresh>>
listVars == <<head, fhead, fcount, freed>>
vars == <<listVars, heapVars, wakes, pc, hd, nx, nd, h, schedSeq, freeSeq>>

Init ==
  /\ head = Null /\ fhead = Null /\ fcount = 0 /\ freed = 0
  /\ nextOf = [n \in Nodes |-> Null]
  /\ handleOf = [n \in Nodes |-> 0]
  /\ fresh = 0 /\ wakes = 0
  /\ pc = [t \in Threads |-> "idle"]
  /\ hd = [t \in Threads |-> Null]
  /\ nx = [t \in Threads |-> Null]
  /\ nd = [t \in Threads |-> Null]
  /\ h = [t \in Threads |-> 0]
  /\ schedSeq = <<>> /\ freeSeq = <<>>

\* The history of a list without its first node.
Rest(s) == IF s = <<>> THEN s ELSE Tail(s)

Goto(t, from, to) ==
  /\ pc[t] = from
  /\ pc' = [pc EXCEPT ![t] = to]

-----------------------------------------------------------------------------
(* wake_handle: alloc_node, then the push.                                 *)

WakeHandle(t) ==
  /\ t \in Wakers
  /\ wakes < MaxWakes
  /\ Goto(t, "idle", "alloc")
  /\ wakes' = wakes + 1
  /\ h' = [h EXCEPT ![t] = wakes + 1]
  /\ UNCHANGED <<listVars, heapVars, hd, nx, nd, schedSeq, freeSeq>>

\* FREELIST_HEAD is null: a new node from the allocator.
AllocFresh(t) ==
  /\ fhead = Null
  /\ Goto(t, "alloc", "push")
  /\ fresh' = fresh + 1
  /\ nd' = [nd EXCEPT ![t] = fresh + 1]
  /\ handleOf' = [handleOf EXCEPT ![fresh + 1] = h[t]]
  /\ nextOf' = [nextOf EXCEPT ![fresh + 1] = Null]
  /\ UNCHANGED <<listVars, wakes, hd, nx, h, schedSeq, freeSeq>>

AllocLoad(t) ==
  /\ fhead # Null
  /\ Goto(t, "alloc", "allocNext")
  /\ hd' = [hd EXCEPT ![t] = fhead]
  /\ UNCHANGED <<listVars, heapVars, wakes, nx, nd, h, schedSeq, freeSeq>>

AllocNext(t) ==
  /\ Goto(t, "allocNext", "allocCas")
  /\ nx' = [nx EXCEPT ![t] = nextOf[hd[t]]]
  /\ UNCHANGED <<listVars, heapVars, wakes, hd, nd, h, schedSeq, freeSeq>>

AllocCas(t) ==
  /\ \/ /\ fhead = hd[t]
        /\ Goto(t, "allocCas", "allocSub")
        /\ fhead' = nx[t]
        /\ nd' = [nd EXCEPT ![t] = hd[t]]
        /\ freeSeq' = Rest(freeSeq)
        /\ freed' = freed - 1
     \/ /\ fhead # hd[t]
        /\ Goto(t, "allocCas", "alloc")
        /\ UNCHANGED <<fhead, nd, freeSeq, freed>>
  /\ UNCHANGED <<head, fcount, heapVars, wakes, hd, nx, h, schedSeq>>

\* Fault: the count is a plain integer and goes below zero.
AllocSubSigned(t) ==
  /\ Goto(t, "allocSub", "allocInit")
  /\ fcount' = fcount - 1
  /\ UNCHANGED <<head, fhead, freed, heapVars, wakes, hd, nx, nd, h, schedSeq, freeSeq>>

\* fetch_sub wraps below zero.
AllocSub(t) ==
  /\ Goto(t, "allocSub", "allocInit")
  /\ fcount' = (fcount + CountSpan - 1) % CountSpan
  /\ UNCHANGED <<head, fhead, freed, heapVars, wakes, hd, nx, nd, h, schedSeq, freeSeq>>

\* Fault: a recycled node keeps the handle it had.
AllocInitOldHandle(t) ==
  /\ Goto(t, "allocInit", "push")
  /\ nextOf' = [nextOf EXCEPT ![nd[t]] = Null]
  /\ UNCHANGED <<listVars, handleOf, fresh, wakes, hd, nx, nd, h, schedSeq, freeSeq>>

AllocInit(t) ==
  /\ Goto(t, "allocInit", "push")
  /\ handleOf' = [handleOf EXCEPT ![nd[t]] = h[t]]
  /\ nextOf' = [nextOf EXCEPT ![nd[t]] = Null]
  /\ UNCHANGED <<listVars, fresh, wakes, hd, nx, nd, h, schedSeq, freeSeq>>

PushLoad(t) ==
  /\ Goto(t, "push", "pushCas")
  /\ hd' = [hd EXCEPT ![t] = head]
  /\ nextOf' = [nextOf EXCEPT ![nd[t]] = head]
  /\ UNCHANGED <<listVars, handleOf, fresh, wakes, nx, nd, h, schedSeq, freeSeq>>

\* Fault: the node is linked although the head has moved since it was loaded.
PushStore(t) ==
  /\ Goto(t, "pushCas", "idle")
  /\ head' = nd[t]
  /\ schedSeq' = <<nd[t]>> \o schedSeq
  /\ UNCHANGED <<fhead, fcount, freed, heapVars, wakes, hd, nx, nd, h, freeSeq>>

\* Fault: a failed compare_exchange is retried with the old head.
PushCasNoReload(t) ==
  /\ head = hd[t]
  /\ Goto(t, "pushCas", "idle")
  /\ head' = nd[t]
  /\ schedSeq' = <<nd[t]>> \o schedSeq
  /\ UNCHANGED <<fhead, fcount, freed, heapVars, wakes, hd, nx, nd, h, freeSeq>>

PushCas(t) ==
  /\ \/ /\ head = hd[t]
        /\ Goto(t, "pushCas", "idle")
        /\ head' = nd[t]
        /\ schedSeq' = <<nd[t]>> \o schedSeq
     \/ /\ head # hd[t]
        /\ Goto(t, "pushCas", "push")
        /\ UNCHANGED <<head, schedSeq>>
  /\ UNCHANGED <<fhead, fcount, freed, heapVars, wakes, hd, nx, nd, h, freeSeq>>

-----------------------------------------------------------------------------
(* take_scheduled_task: the pop, then free_node.                           *)

TakeScheduledTask(t) ==
  /\ t \in Takers
  /\ Goto(t, "idle", "take")
  /\ UNCHANGED <<listVars, heapVars, wakes, hd, nx, nd, h, schedSeq, freeSeq>>

TakeNull(t) ==
  /\ head = Null
  /\ Goto(t, "take", "none")
  /\ UNCHANGED <<listVars, heapVars, wakes, hd, nx, nd, h, schedSeq, freeSeq>>

TakeLoad(t) ==
  /\ head # Null
  /\ Goto(t, "take", "takeNext")
  /\ hd' = [hd EXCEPT ![t] = head]
  /\ UNCHANGED <<listVars, heapVars, wakes, nx, nd, h, schedSeq, freeSeq>>

TakeNext(t) ==
  /\ Goto(t, "takeNext", "takeCas")
  /\ nx' = [nx EXCEPT ![t] = nextOf[hd[t]]]
  /\ UNCHANGED <<listVars, heapVars, wakes, hd, nd, h, schedSeq, freeSeq>>

\* Fault: the head is replaced although it has moved since it was loaded.
TakeStore(t) ==
  /\ Goto(t, "takeCas", "read")
  /\ head' = nx[t]
  /\ nd' = [nd EXCEPT ![t] = hd[t]]
  /\ schedSeq' = Rest(schedSeq)
  /\ UNCHANGED <<fhead, fcount, freed, heapVars, wakes, hd, nx, h, freeSeq>>

TakeCas(t) ==
  /\ \/ /\ head = hd[t]
        /\ Goto(t, "takeCas", "read")
        /\ head' = nx[t]
        /\ nd' = [nd EXCEPT ![t] = hd[t]]
        /\ schedSeq' = Rest(schedSeq)
     \/ /\ head # hd[t]
        /\ Goto(t, "takeCas", "take")
        /\ UNCHANGED <<head, nd, schedSeq>>
  /\ UNCHANGED <<fhead, fcount, freed, heapVars, wakes, hd, nx, h, freeSeq>>

ReadHandle(t) ==
  /\ Goto(t, "read", "free")
  /\ h' = [h EXCEPT ![t] = handleOf[nd[t]]]
  /\ UNCHANGED <<listVars, heapVars, wakes, hd, nx, nd, schedSeq, freeSeq>>

\* Fault: the limit is compared with <=.
FreeCheckOneMore(t) ==
  /\ Goto(t, "free", IF fcount <= FREELIST_MAX THEN "freeLoad" ELSE "done")
  /\ UNCHANGED <<listVars, heapVars, wakes, hd, nx, nd, h, schedSeq, freeSeq>>

\* The count is read once; a node over the limit is dropped.
FreeCheck(t) ==
  /\ Goto(t, "free", IF fcount < FREELIST_MAX THEN "freeLoad" ELSE "done")
  /\ UNCHANGED <<listVars, heapVars, wakes, hd, nx, nd, h, schedSeq, freeSeq>>

FreeLoad(t) ==
  /\ Goto(t, "freeLoad", "freeCas")
  /\ hd' = [hd EXCEPT ![t] = fhead]
  /\ nextOf' = [nextOf EXCEPT ![nd[t]] = fhead]
  /\ UNCHANGED <<listVars, handleOf, fresh, wakes, nx, nd, h, schedSeq, freeSeq>>

FreeCas(t) ==
  /\ \/ /\ fhead = hd[t]
        /\ Goto(t, "freeCas", "freeAdd")
        /\ fhead' = nd[t]
        /\ freeSeq' = <<nd[t]>> \o freeSeq
        /\ freed' = freed + 1
     \/ /\ fhead # hd[t]
        /\ Goto(t, "freeCas", "freeLoad")
        /\ UNCHANGED <<fhead, freeSeq, freed>>
  /\ UNCHANGED <<head, fcount, heapVars, wakes, hd, nx, nd, h, schedSeq>>

FreeAdd(t) ==
  /\ Goto(t, "freeAdd", "done")
  /\ fcount' = (fcount + 1) % CountSpan
  /\ UNCHANGED <<head, fhead, freed, heapVars, wakes, hd, nx, nd, h, schedSeq, freeSeq>>

Return(t) ==
  /\ Goto(t, "done", "idle") \/ Goto(t, "none", "idle")
  /\ UNCHANGED <<listVars, heapVars, wakes, hd, nx, nd, h, schedSeq, freeSeq>>

-----------------------------------------------------------------------------

Wake(t) ==
  \/ WakeHandle(t) \/ AllocFresh(t) \/ AllocLoad(t) \/ AllocNext(t) \/ AllocCas(t)
  \/ AllocSub(t) \/ AllocInit(t) \/ PushLoad(t) \/ PushCas(t)

Take(t) ==
  \/ TakeScheduledTask(t) \/ TakeNull(t) \/ TakeLoad(t) \/ TakeNext(t) \/ TakeCas(t)
  \/ ReadHandle(t) \/ FreeCheck(t) \/ FreeLoad(t) \/ FreeCas(t) \/ FreeAdd(t)
  \/ Return(t)

Next == \E t \in Threads : Wake(t) \/ Take(t)

Spec == Init /\ [][Next]_vars

\* Some thread that has begun an operation and is run takes its next step.
Fairness == \A t \in Threads : WF_vars((Wake(t) \/ Take(t)) /\ pc[t] # "idle")

FairSpec == Spec /\ Fairness

-----------------------------------------------------------------------------
(* Properties.                                                             *)

PcValues == {"idle", "alloc", "allocNext", "allocCas", "allocSub", "allocInit",
             "push", "pushCas", "take", "none", "takeNext", "takeCas", "read",
             "free", "freeLoad", "freeCas", "freeAdd", "done"}

\* Types; in particular a fresh node is available whenever one is asked for.
TypeOK ==
  /\ {head, fhead} \subseteq Nodes \cup {Null}
  /\ fcount \in 0 .. CountSpan - 1
  /\ nextOf \in [Nodes -> Nodes \cup {Null}]
  /\ handleOf \in [Nodes -> Handles \cup {0}]
  /\ fresh \in 0 .. wakes /\ wakes \in 0 .. MaxWakes
  /\ pc \in [Threads -> PcValues]
  /\ hd \in [Threads -> Nodes \cup {Null}]
  /\ nx \in [Threads -> Nodes \cup {Null}]
  /\ nd \in [Threads -> Nodes \cup {Null}]
  /\ h \in [Threads -> Handles \cup {0}]
  /\ schedSeq \in Seq(Nodes) /\ freeSeq \in Seq(Nodes) /\ freed \in Int

\* The memory from p on is the list s, ended by a null pointer.
IsList(p, s) ==
  /\ p = IF s = <<>> THEN Null ELSE s[1]
  /\ \A i \in DOMAIN s : nextOf[s[i]] = IF i = Len(s) THEN Null ELSE s[i + 1]

\* The nodes a thread has to itself, between a pop and the next push.
Private(t) ==
  IF pc[t] \in {"allocSub", "allocInit", "push", "pushCas", "read", "free",
                "freeLoad", "freeCas"}
  THEN {nd[t]} ELSE {}

Elements(s) == {s[i] : i \in DOMAIN s}

\* SCHEDULE_HEAD and FREELIST_HEAD each lead through exactly the nodes pushed
\* and not yet popped, and no node is in two places: a wake is never lost,
\* never taken twice, and no node is recycled while it is still linked.
MemoryIsStack ==
  /\ IsList(head, schedSeq) /\ IsList(fhead, freeSeq)
  /\ Cardinality(Elements(schedSeq)) = Len(schedSeq)
  /\ Cardinality(Elements(freeSeq)) = Len(freeSeq)
  /\ Elements(schedSeq) \cap Elements(freeSeq) = {}
  /\ \A t \in Threads :
       /\ Private(t) \cap (Elements(schedSeq) \cup Elements(freeSeq)) = {}
       /\ \A u \in Threads \ {t} : Private(t) \cap Private(u) = {}

\* The freelist outgrows its limit by at most one node for each taker but one:
\* free_node compares the count before it pushes and adds to it afterwards, so
\* the count lags behind by the takers that are in between.
FreelistBounded == freed <= FREELIST_MAX + Cardinality(Takers) - 1

\* "Node freelist (256 cap)", "Maximum freelist size for scheduler nodes": what
\* README.md and config.rs say of FREELIST_MAX.
FreelistCapped == freed <= FREELIST_MAX

Waking == {"alloc", "allocNext", "allocCas", "allocSub", "allocInit", "push",
           "pushCas"}

\* The schedule is an atomic stack of handles (TaskStack): a push takes effect at its
\* compare_exchange, a take at its own, and the handle read afterwards is the
\* one that was on top.
Stack == INSTANCE TaskStack WITH
  Nothing <- 0,
  Empty <- Null,
  stack <- [i \in DOMAIN schedSeq |-> handleOf[schedSeq[i]]],
  waking <- [t \in Threads |-> IF pc[t] \in Waking THEN h[t] ELSE 0],
  got <- [t \in Threads |->
            CASE pc[t] = "none" -> Null
              [] pc[t] = "read" -> handleOf[nd[t]]
              [] pc[t] \in {"free", "freeLoad", "freeCas", "freeAdd", "done"} -> h[t]
              [] OTHER -> 0]

ImplementsTaskStack == Stack!Spec

\* A thread inside wake_handle or take_scheduled_task gets out: a failed
\* compare_exchange means that another thread has made progress.
OperationsEnd == \A t \in Threads : pc[t] # "idle" ~> pc[t] = "idle"
=============================================================================
