------------------------------ MODULE TaskSlots ------------------------------
(***************************************************************************)
(* The task slots of the scheduler: spawn and poll_task_safe, with SLOTS   *)
(* and its generations, the lock inside each slot, FREE_SLOTS and          *)
(* NEXT_SLOT.                                                              *)
(*                                                                         *)
(* accept_loop is the only task that spawns and its slot lock keeps it on  *)
(* one worker at a time: that worker is the process "spawner" here, inside *)
(* its poll of slot 0.  The other workers take handles and poll them.  A   *)
(* task is the number of its spawn; its handle is what spawn returned.     *)
(* The schedule and the IO registry are a count of the wakes each handle   *)
(* still has: accept_loop gives it two, and a poll that registers a waker  *)
(* gives its own back.                                                     *)
(***************************************************************************)
EXTENDS Naturals, Sequences, FiniteSets

CONSTANTS
  Workers,      \* the workers that poll connection tasks
  MaxSlots,     \* MAX_TASK_SLOTS
  SlotSpan,     \* slot numbers a handle can name: 0x3FF + 1
  GenSpan,      \* generations a handle can name: 2^32
  MaxSpawns,    \* bound: tasks accept_loop spawns
  None,
  Spawner       \* the worker inside accept_loop, as an owner of locks

ASSUME SlotsAssumption ==
  /\ MaxSlots \in Nat \ {0}
  /\ SlotSpan \in Nat \ {0}
  /\ GenSpan \in Nat \ {0}
  /\ MaxSpawns \in Nat
  /\ None \notin Nat /\ None \notin Workers
  /\ Spawner \notin Workers /\ Spawner # None

Slots   == 0 .. MaxSlots - 1
Ids     == 0 .. MaxSpawns      \* 0 is accept_loop
Handles == [slot : Nat, gen : Nat]

VARIABLES
  slotsLock,    \* owner of the SLOTS mutex (held across steps by spawn only)
  generation,   \* of each slot
  task,         \* the task in a slot's inner, None when empty
  inner,        \* owner of the slot's inner lock
  free,         \* FREE_SLOTS
  next,         \* NEXT_SLOT
  handle,       \* what spawn returned for a task
  wakes,        \* wakes a handle has left
  spawned,      \* tasks spawned so far
  spc, sslot,   \* spawner: control state and slot_idx
  pc,           \* worker: control state
  cur,          \* worker: the task whose handle it polls
  slot          \* worker: slot_idx

slotVars  == <<slotsLock, generation, task, inner>>
allocVars == <<free, next>>
taskVars  == <<handle, wakes, spawned>>
spawnVars == <<spc, sslot>>
workVars  == <<pc, cur, slot>>
vars == <<slotVars, allocVars, taskVars, spawnVars, workVars>>

\* main has spawned accept_loop into slot 0 and a worker is polling it.
Init ==
  /\ slotsLock = None
  /\ generation = [s \in Slots |-> IF s = 0 THEN 1 ELSE 0]
  /\ task = [s \in Slots |-> IF s = 0 THEN 0 ELSE None]
  /\ inner = [s \in Slots |-> IF s = 0 THEN Spawner ELSE None]
  /\ free = <<>>
  /\ next = 1
  /\ handle = [i \in Ids |-> [slot |-> 0, gen |-> 0]]
  /\ wakes = [i \in Ids |-> 0]
  /\ spawned = 0
  /\ spc = "idle"
  /\ sslot = 0
  /\ pc = [w \in Workers |-> "take"]
  /\ cur = [w \in Workers |-> 0]
  /\ slot = [w \in Workers |-> 0]

-----------------------------------------------------------------------------
(* spawn, called from accept_loop; then its two calls of wake_handle.      *)

SpawnGoto(from, to) ==
  /\ spc = from
  /\ spc' = to

\* FREE_SLOTS.lock().pop() takes the last one; "fetch" when there is none.
SpawnPop ==
  /\ spawned < MaxSpawns
  /\ \/ /\ free # <<>>
        /\ SpawnGoto("idle", "bump")
        /\ sslot' = free[Len(free)]
        /\ free' = SubSeq(free, 1, Len(free) - 1)
     \/ /\ free = <<>>
        /\ SpawnGoto("idle", "fetch")
        /\ UNCHANGED <<sslot, free>>
  /\ UNCHANGED <<slotVars, next, taskVars, workVars>>

\* Fault: the limit is compared with > and one slot too many is given out.
SpawnFetchOneMore ==
  /\ SpawnGoto("fetch", IF next > MaxSlots THEN "dead" ELSE "bump")
  /\ sslot' = IF next > MaxSlots THEN sslot ELSE next
  /\ next' = next + 1
  /\ UNCHANGED <<slotVars, free, taskVars, workVars>>

\* NEXT_SLOT.fetch_add, which counts a failed attempt too.  The panic handler
\* exits the thread: the worker is gone and keeps the lock of accept_loop's slot.
SpawnFetch ==
  /\ SpawnGoto("fetch", IF next >= MaxSlots THEN "dead" ELSE "bump")
  /\ sslot' = IF next >= MaxSlots THEN sslot ELSE next
  /\ next' = next + 1
  /\ UNCHANGED <<slotVars, free, taskVars, workVars>>

\* SLOTS is locked, the generation is advanced and becomes the handle's.
SpawnBump ==
  /\ slotsLock = None
  /\ SpawnGoto("bump", "assign")
  /\ slotsLock' = Spawner
  /\ spawned' = spawned + 1
  /\ generation' = [generation EXCEPT ![sslot] = @ + 1]
  /\ handle' = [handle EXCEPT ![spawned + 1] =
                  [slot |-> sslot, gen |-> generation[sslot] % GenSpan]]
  /\ UNCHANGED <<task, inner, allocVars, wakes, sslot, workVars>>

\* inner.lock() is taken while SLOTS is held; both are released on return.
SpawnAssign ==
  /\ inner[sslot] = None
  /\ SpawnGoto("assign", "wake")
  /\ task' = [task EXCEPT ![sslot] = spawned]
  /\ slotsLock' = None
  /\ UNCHANGED <<generation, inner, allocVars, taskVars, sslot, workVars>>

\* spawn_task wakes the new handle and accept_loop wakes it again.
SpawnWake ==
  /\ SpawnGoto("wake", "again") \/ SpawnGoto("again", "idle")
  /\ wakes' = [wakes EXCEPT ![spawned] = @ + 1]
  /\ UNCHANGED <<slotVars, allocVars, handle, spawned, sslot, workVars>>

-----------------------------------------------------------------------------
(* worker_loop and poll_task_safe.                                         *)

Goto(w, from, to) ==
  /\ pc[w] = from
  /\ pc' = [pc EXCEPT ![w] = to]

Take(w) ==
  \E i \in Ids :
    /\ wakes[i] > 0
    /\ Goto(w, "take", "check")
    /\ wakes' = [wakes EXCEPT ![i] = @ - 1]
    /\ cur' = [cur EXCEPT ![w] = i]
    /\ UNCHANGED <<slotVars, allocVars, handle, spawned, spawnVars, slot>>

SlotOf(i) == handle[i].slot % SlotSpan

\* Fault: a handle is compared with the generation before spawn advanced it.
AcceptsOldOnly(i) ==
  /\ SlotOf(i) \in Slots
  /\ generation[SlotOf(i)] = handle[i].gen

\* The handle's generation is the slot's, or the one before.
Accepts(i) ==
  /\ SlotOf(i) \in Slots
  /\ generation[SlotOf(i)] \in {handle[i].gen, handle[i].gen + 1}

\* The check under the SLOTS lock; a stale handle is reported Ready.
Check(w) ==
  /\ slotsLock = None
  /\ Goto(w, "check", IF Accepts(cur[w]) THEN "lock" ELSE "take")
  /\ slot' = [slot EXCEPT ![w] = IF Accepts(cur[w]) THEN SlotOf(cur[w]) ELSE 0]
  /\ cur' = [cur EXCEPT ![w] = IF Accepts(cur[w]) THEN @ ELSE 0]
  /\ UNCHANGED <<slotVars, allocVars, taskVars, spawnVars>>

\* slot.inner.lock(), with SLOTS released since the check.
Lock(w) ==
  /\ inner[slot[w]] = None
  /\ Goto(w, "lock", "poll")
  /\ inner' = [inner EXCEPT ![slot[w]] = w]
  /\ UNCHANGED <<slotsLock, generation, task, allocVars, taskVars, spawnVars, cur,
                 slot>>

Unlock(w, to) ==
  /\ Goto(w, "poll", to)
  /\ inner' = [inner EXCEPT ![slot[w]] = None]

Forget(w) ==
  /\ cur' = [cur EXCEPT ![w] = 0]
  /\ slot' = [slot EXCEPT ![w] = 0]

\* Fault: a worker that finds the slot empty gives it to FREE_SLOTS as well.
PollEmptyFrees(w) ==
  /\ task[slot[w]] = None
  /\ Unlock(w, "free")
  /\ UNCHANGED <<slotsLock, generation, task, allocVars, taskVars, spawnVars, cur,
                 slot>>

\* Fault: the guard of an empty slot is leaked.
PollEmptyKeepsLock(w) ==
  /\ task[slot[w]] = None
  /\ Goto(w, "poll", "take")
  /\ Forget(w)
  /\ UNCHANGED <<slotVars, allocVars, taskVars, spawnVars>>

\* The slot is empty: Ready.
PollEmpty(w) ==
  /\ task[slot[w]] = None
  /\ Unlock(w, "take")
  /\ Forget(w)
  /\ UNCHANGED <<slotsLock, generation, task, allocVars, taskVars, spawnVars>>

\* The future is Pending.  Its waker carries the polled handle; it is stored
\* unless the future had registered one before.
PollPending(w) ==
  /\ task[slot[w]] # None
  /\ Unlock(w, "take")
  /\ Forget(w)
  /\ \/ wakes' = [wakes EXCEPT ![cur[w]] = @ + 1]
     \/ UNCHANGED wakes
  /\ UNCHANGED <<slotsLock, generation, task, allocVars, handle, spawned, spawnVars>>

\* Fault: the finished future stays in the slot.
PollReadyKeepsTask(w) ==
  /\ task[slot[w]] # None
  /\ Unlock(w, "free")
  /\ UNCHANGED <<slotsLock, generation, task, allocVars, taskVars, spawnVars, cur,
                 slot>>

\* The future is Ready: *guard = None; drop(guard).
PollReady(w) ==
  /\ task[slot[w]] # None
  /\ Unlock(w, "free")
  /\ task' = [task EXCEPT ![slot[w]] = None]
  /\ UNCHANGED <<slotsLock, generation, allocVars, taskVars, spawnVars, cur, slot>>

\* FREE_SLOTS.lock().push(slot_idx)
FreeSlot(w) ==
  /\ Goto(w, "free", "take")
  /\ free' = Append(free, slot[w])
  /\ Forget(w)
  /\ UNCHANGED <<slotVars, next, taskVars, spawnVars>>

-----------------------------------------------------------------------------

Spawn == SpawnPop \/ SpawnFetch \/ SpawnBump \/ SpawnAssign \/ SpawnWake

Worker(w) ==
  \/ Take(w) \/ Check(w) \/ Lock(w)
  \/ PollEmpty(w) \/ PollPending(w) \/ PollReady(w) \/ FreeSlot(w)

Next == Spawn \/ \E w \in Workers : Worker(w)

Spec == Init /\ [][Next]_vars

\* The kernel runs every thread; spin locks need no fairness of their own here.
Fairness == WF_vars(Spawn) /\ \A w \in Workers : WF_vars(Worker(w))

FairSpec == Spec /\ Fairness

-----------------------------------------------------------------------------
(* Properties.                                                             *)

\* Types; generations and NEXT_SLOT only bounded by the number of spawns.
TypeOK ==
  /\ slotsLock \in {None, Spawner}
  /\ generation \in [Slots -> Nat]
  /\ task \in [Slots -> Ids \cup {None}]
  /\ inner \in [Slots -> Workers \cup {None, Spawner}]
  /\ free \in Seq(Slots)
  /\ next \in Nat
  /\ handle \in [Ids -> Handles]
  /\ wakes \in [Ids -> Nat]
  /\ spawned \in Ids
  /\ spc \in {"idle", "fetch", "bump", "assign", "wake", "again", "dead"}
  /\ sslot \in Slots
  /\ pc \in [Workers -> {"take", "check", "lock", "poll", "free"}]
  /\ cur \in [Workers -> Ids]
  /\ slot \in [Workers -> Slots]

FreeAt(s)    == {i \in DOMAIN free : free[i] = s}
FreeingOf(s) == {w \in Workers : pc[w] = "free" /\ slot[w] = s}
Claimed(s)   == spc \in {"bump", "assign"} /\ sslot = s

\* No slot is lost and none is given twice: a slot spawn has ever handed out is
\* in exactly one place, FREE_SLOTS, a task, the spawn that claimed it, or the
\* worker about to free it; the others are untouched.
SlotConservation ==
  \A s \in Slots :
    Cardinality(FreeAt(s)) + Cardinality(FreeingOf(s))
      + (IF Claimed(s) THEN 1 ELSE 0) + (IF task[s] # None THEN 1 ELSE 0)
      = IF s < next THEN 1 ELSE 0

\* spawn never drops a live future by assigning over it, and never claims the
\* slot of accept_loop, whose inner lock it would wait for with SLOTS held.
ClaimsEmptySlot == \A s \in Slots : Claimed(s) => task[s] = None /\ s # 0

\* A live task can be polled: its own handle passes poll_task_safe's check.
OwnHandlePasses ==
  \A s \in Slots, i \in Ids \ {0} :
    task[s] = i => SlotOf(i) = s /\ Accepts(i)

\* "Poll the task associated with `handle`": a worker polls no other task.
NoForeignPoll ==
  \A w \in Workers : pc[w] = "poll" => task[slot[w]] \in {cur[w], None}

\* spawn gets the inner lock it waits for with SLOTS held, so poll_task_safe
\* gets SLOTS again on every worker.
SlotsReleased == slotsLock = Spawner ~> slotsLock = None
=============================================================================
