------------------------------- MODULE Reactor -------------------------------
(***************************************************************************)
(* The server seen by its worker threads: worker_loop (executor), the      *)
(* schedule and ppoll_and_schedule with the eventfd (runtime), the IO      *)
(* registry (io_registry), the accept, recv and send futures (net), the    *)
(* accept loop (main) and the skeleton of the connection handlers (http,   *)
(* websocket): which socket operations they await and how they close.      *)
(*                                                                         *)
(* A task's name also stands for its handle, the slot and the generation   *)
(* spawn gave it; slots are reused, so a handle may lead to another task   *)
(* than its own.  spawn itself is one step here (module TaskSlots has its  *)
(* steps, and the slots running out), and the Treiber stack is one         *)
(* sequence: module Treiber implements it as long as no node is recycled   *)
(* between several threads.  The model starts where main calls             *)
(* start_workers: the listening socket is non-blocking, the eventfd exists *)
(* and the accept task has been spawned and woken.                         *)
(***************************************************************************)
EXTENDS Naturals, Sequences, FiniteSets

CONSTANTS
  Workers,          \* the threads in worker_loop, the main thread included
  Conns,            \* the connection tasks the clients can cause
  Acc,              \* the accept_loop task
  Fds,              \* file descriptors free for accepted sockets
  ListenFd,         \* the listening socket
  Slots,            \* the task slots; enough for the connections Fds allow
  AccSlot,          \* the accept_loop task's slot
  None,             \* no worker, no task
  MaxSegments,      \* bound: segments one client sends
  MaxReplies,       \* bound: sends a handler makes for one received chunk
  SendBuffersFill   \* can a socket's send buffer be full (sendto = EAGAIN)?

Tasks  == Conns \cup {Acc}
AllFds == Fds \cup {ListenFd}

ASSUME ReactorAssumption ==
  /\ Acc \notin Conns
  /\ ListenFd \notin Fds
  /\ AccSlot \in Slots
  /\ None \notin Workers \cup Tasks \cup Slots
  /\ MaxSegments \in Nat
  /\ MaxReplies \in Nat
  /\ SendBuffersFill \in BOOLEAN

VARIABLES
  sched,        \* the scheduled handles, head of SCHEDULE_HEAD first
  evt,          \* the eventfd's counter: 0, or 1 for any positive value
  regEvents,    \* IO_REG: the events of the fd's entry, "none" without entry
  regWaiters,   \* IO_REG: the wakers of the fd's entry
  state,        \* of a task: not yet connected, in the backlog, live, done
  fd,           \* the socket a task works on
  phase,        \* how far a handler has come (Phases)
  replies,      \* sends it still has to make before it reads on or closes
  registered,   \* tasks whose current future has registered set
  inner,        \* the worker that holds the lock of the slot the task is in
  slot,         \* the slot a task's handle names, None before spawn
  latest,       \* the task last spawned into a slot: the slot's generation
  open,         \* open accepted sockets
  inbox,        \* segments received from the client and not read
  sent,         \* segments the client has sent
  writable,     \* sockets with room in their send buffer
  hup,          \* sockets whose client has gone
  pc, cur,      \* worker: control state; the handle it has taken
  polled,       \* worker: the task it found in the handle's slot and polls
  snap,         \* worker: ppoll's fd list, a snapshot of regEvents
  rev,          \* worker: fds with revents # 0 still to be handled
  wakeq         \* worker: wakers still to be woken

queueVars == <<sched, evt>>
regVars   == <<regEvents, regWaiters>>
slotVars  == <<slot, latest>>
taskVars  == <<state, fd, phase, replies, registered, inner, slotVars>>
sockVars  == <<open, inbox, sent, writable, hup>>
pollVars  == <<cur, polled>>
localVars == <<pc, pollVars, snap, rev, wakeq>>
vars == <<queueVars, regVars, taskVars, sockVars, localVars>>

Events == {"in", "out"}

\* A handler reads the request, perhaps more of it, and then either answers it
\* and closes ("last"), or is accept_and_run: a welcome, then the frame loop.
Phases == {"request", "extra", "welcome", "frames", "last"}

NoEntries == [f \in AllFds |-> "none"]
PcValues == {"take", "check", "lock", "poll", "register", "unregister", "refresh",
             "close", "wake", "signal", "snapshot", "ppoll", "drain", "scan"}

Init ==
  /\ sched = <<Acc>>
  /\ evt = 1
  /\ regEvents = NoEntries
  /\ regWaiters = [f \in AllFds |-> <<>>]
  /\ state = [t \in Tasks |-> IF t = Acc THEN "live" ELSE "unborn"]
  /\ fd = [t \in Tasks |-> ListenFd]
  /\ phase = [c \in Conns |-> "request"]
  /\ replies = [c \in Conns |-> 0]
  /\ registered = {}
  /\ inner = [t \in Tasks |-> None]
  /\ slot = [t \in Tasks |-> IF t = Acc THEN AccSlot ELSE None]
  /\ latest = [s \in Slots |-> IF s = AccSlot THEN Acc ELSE None]
  /\ open = {}
  /\ inbox = [c \in Conns |-> 0]
  /\ sent = [c \in Conns |-> 0]
  /\ writable = {}
  /\ hup = {}
  /\ pc = [w \in Workers |-> "take"]
  /\ cur = [w \in Workers |-> None]
  /\ polled = [w \in Workers |-> None]
  /\ snap = [w \in Workers |-> NoEntries]
  /\ rev = [w \in Workers |-> {}]
  /\ wakeq = [w \in Workers |-> <<>>]

Goto(w, from, to) ==
  /\ pc[w] = from
  /\ pc' = [pc EXCEPT ![w] = to]

-----------------------------------------------------------------------------
(* The clients and the kernel's side of their sockets.                     *)

Backlog == {c \in Conns : state[c] = "backlog"}

ClientConnect(c) ==
  /\ state[c] = "unborn"
  /\ state' = [state EXCEPT ![c] = "backlog"]
  /\ UNCHANGED <<queueVars, regVars, fd, phase, replies, registered, inner,
                 slotVars, sockVars, localVars>>

Connected(c) == state[c] = "live" /\ fd[c] \in open \ hup

ClientSend(c) ==
  /\ Connected(c)
  /\ sent[c] < MaxSegments
  /\ sent' = [sent EXCEPT ![c] = @ + 1]
  /\ inbox' = [inbox EXCEPT ![c] = @ + 1]
  /\ UNCHANGED <<queueVars, regVars, taskVars, open, writable, hup, localVars>>

ClientRead(c) ==
  /\ Connected(c)
  /\ writable' = writable \cup {fd[c]}
  /\ UNCHANGED <<queueVars, regVars, taskVars, open, inbox, sent, hup,
                 localVars>>

ClientClose(c) ==
  /\ Connected(c)
  /\ hup' = hup \cup {fd[c]}
  /\ UNCHANGED <<queueVars, regVars, taskVars, open, inbox, sent, writable,
                 localVars>>

\* The direction a task waits for: a handler with nothing left to send is in a
\* RecvFuture, the accept loop always in an AcceptFuture.
Direction(t) == IF t \in Conns /\ replies[t] > 0 THEN "out" ELSE "in"

\* Is the direction d of the task's socket ready, as recvfrom, sendto and
\* accept4 see it?  An orderly or abortive close makes both calls return.
CanProceed(t, d) ==
  IF t = Acc THEN Backlog # {}
  ELSE \/ d = "in" /\ inbox[t] > 0
       \/ d = "out" /\ fd[t] \in writable
       \/ fd[t] \in hup

\* ppoll's view of an fd polled for d: POLLNVAL for a closed one.
PollReady(f, d) ==
  \/ f = ListenFd /\ CanProceed(Acc, d)
  \/ f \in Fds \ open
  \/ \E c \in Conns : state[c] = "live" /\ fd[c] = f /\ CanProceed(c, d)

-----------------------------------------------------------------------------
(* worker_loop: take_scheduled_task, then poll_task_safe.                  *)

TakeTask(w) ==
  /\ sched # <<>>
  /\ Goto(w, "take", "check")
  /\ cur' = [cur EXCEPT ![w] = Head(sched)]
  /\ sched' = Tail(sched)
  /\ UNCHANGED <<evt, regVars, taskVars, sockVars, polled, snap, rev, wakeq>>

\* Fault: the fd list is built when the worker starts and never refreshed.
TakeNoneOldList(w) ==
  /\ sched = <<>>
  /\ Goto(w, "take", "ppoll")
  /\ UNCHANGED <<queueVars, regVars, taskVars, sockVars, pollVars, snap, rev, wakeq>>

TakeNone(w) ==
  /\ sched = <<>>
  /\ Goto(w, "take", "snapshot")
  /\ UNCHANGED <<queueVars, regVars, taskVars, sockVars, pollVars, snap, rev, wakeq>>

\* The task in the slot that a handle names.
InSlot(t, h) == state[t] = "live" /\ slot[t] = slot[h]

\* poll_task_safe returns Ready without a poll: the handle is dropped.
Dismiss(w, from) ==
  /\ Goto(w, from, "take")
  /\ cur' = [cur EXCEPT ![w] = None]

\* The generation check under the SLOTS lock: a handle passes until another task
\* is spawned into its slot.  The lock is released before the slot is locked.
CheckHandle(w) ==
  /\ pc[w] = "check"
  /\ \/ latest[slot[cur[w]]] = cur[w] /\ Goto(w, "check", "lock") /\ UNCHANGED cur
     \/ latest[slot[cur[w]]] # cur[w] /\ Dismiss(w, "check")
  /\ UNCHANGED <<queueVars, regVars, taskVars, sockVars, polled, snap, rev, wakeq>>

\* slot.inner.lock() and the slot is empty by now: Ready.
SlotEmpty(w) ==
  /\ Dismiss(w, "lock")
  /\ \A t \in Tasks : ~InSlot(t, cur[w])
  /\ UNCHANGED <<queueVars, regVars, taskVars, sockVars, polled, snap, rev, wakeq>>

\* slot.inner.lock(), which spins while another worker polls the task in the
\* slot; whatever task is in the slot now is polled, with the handle's waker.
LockSlot(w) ==
  \E t \in Tasks :
    /\ Goto(w, "lock", "poll")
    /\ InSlot(t, cur[w]) /\ inner[t] = None
    /\ inner' = [inner EXCEPT ![t] = w]
    /\ polled' = [polled EXCEPT ![w] = t]
    /\ UNCHANGED <<queueVars, regVars, state, fd, phase, replies, registered,
                   slotVars, sockVars, cur, snap, rev, wakeq>>

\* The poll is over: the guard of the slot's lock is dropped.
Leave(w) ==
  /\ inner' = [inner EXCEPT ![polled[w]] = None]
  /\ cur' = [cur EXCEPT ![w] = None]
  /\ polled' = [polled EXCEPT ![w] = None]

\* Fault: worker_loop's continue is missing and it falls through to ppoll.
SuspendFallsThrough(w) ==
  /\ pc' = [pc EXCEPT ![w] = "snapshot"]
  /\ Leave(w)

\* poll has returned: worker_loop continues with take_scheduled_task.
Suspend(w) ==
  /\ pc' = [pc EXCEPT ![w] = "take"]
  /\ Leave(w)

Polling(w, t) == pc[w] = "poll" /\ polled[w] = t

-----------------------------------------------------------------------------
(* The futures and the handlers that await them.                           *)

\* The handler has done its sends: it closes after an answer, or after a close
\* frame; otherwise it sends or reads on.
Continue(w, c) ==
  \/ /\ replies'[c] = 0 /\ phase'[c] \in {"frames", "last"}
     /\ pc' = [pc EXCEPT ![w] = "unregister"]
  \/ /\ replies'[c] > 0 \/ phase'[c] # "last"
     /\ UNCHANGED pc

\* Fault: the next future inherits registered from the one before.
NextFutureKeepsFlag(w, c) ==
  /\ UNCHANGED registered
  /\ Continue(w, c)

\* The current future is done; the handler creates the next one, or closes.
NextFuture(w, c) ==
  /\ registered' = registered \ {c}
  /\ Continue(w, c)

\* A page or the 404 answer, in one send whose result is ignored.
Answer(c) ==
  /\ phase' = [phase EXCEPT ![c] = "last"]
  /\ replies' = [replies EXCEPT ![c] = 1]

\* accept_and_run: without a key the socket is closed; with one the 101 answer
\* goes out in this poll (nothing is in the send buffer yet), and then the
\* welcome message in one or more sends.
Handshake(c) ==
  \/ /\ phase' = [phase EXCEPT ![c] = "last"]
     /\ UNCHANGED replies
  \/ /\ phase' = [phase EXCEPT ![c] = "welcome"]
     /\ \E n \in 1..MaxReplies : replies' = [replies EXCEPT ![c] = n]

Route(c) == Answer(c) \/ Handshake(c)

\* The frames a chunk completes want answers, or none does.
Frames(c) ==
  /\ phase' = [phase EXCEPT ![c] = "frames"]
  /\ \E n \in 0..MaxReplies : replies' = [replies EXCEPT ![c] = n]

\* A chunk arrives; a full buffer without the end of the headers is read on once.
RecvData(w, c) ==
  /\ Polling(w, c) /\ Direction(c) = "in"
  /\ \E k \in 1..inbox[c] : inbox' = [inbox EXCEPT ![c] = @ - k]
  /\ \/ /\ phase[c] = "request"
        /\ phase' = [phase EXCEPT ![c] = "extra"]
        /\ UNCHANGED replies
     \/ phase[c] \in {"request", "extra"} /\ Route(c)
     \/ phase[c] \in {"welcome", "frames"} /\ Frames(c)
  /\ NextFuture(w, c)
  /\ UNCHANGED <<queueVars, regVars, state, fd, inner, slotVars, open, sent,
                 writable, hup, pollVars, snap, rev, wakeq>>

\* Fault: end of file is taken for EAGAIN.
RecvEmptyPending(w, c) ==
  /\ Polling(w, c) /\ Direction(c) = "in"
  /\ inbox[c] = 0 /\ fd[c] \in hup
  /\ Suspend(w)
  /\ UNCHANGED <<queueVars, regVars, state, fd, phase, replies, registered,
                 slotVars, sockVars, snap, rev, wakeq>>

\* recvfrom returns 0 or an error: the handler unregisters and closes, except
\* that after the extra read the request is routed with what there is of it.
RecvEmpty(w, c) ==
  /\ Polling(w, c) /\ Direction(c) = "in"
  /\ inbox[c] = 0 /\ fd[c] \in hup
  /\ \/ phase[c] = "extra" /\ Route(c)
     \/ /\ phase[c] # "extra"
        /\ phase' = [phase EXCEPT ![c] = "last"]
        /\ UNCHANGED replies
  /\ NextFuture(w, c)
  /\ UNCHANGED <<queueVars, regVars, state, fd, inner, slotVars, sockVars,
                 pollVars, snap, rev, wakeq>>

\* sendto accepts the bytes, or fails on a closed connection; both are ignored.
\* (That sendto may end the process with SIGPIPE is module Connection's subject.)
SendData(w, c) ==
  /\ Polling(w, c) /\ Direction(c) = "out"
  /\ CanProceed(c, "out")
  /\ replies' = [replies EXCEPT ![c] = @ - 1]
  /\ \/ UNCHANGED writable
     \/ SendBuffersFill /\ writable' = writable \ {fd[c]}
  /\ UNCHANGED phase
  /\ NextFuture(w, c)
  /\ UNCHANGED <<queueVars, regVars, state, fd, inner, slotVars, open, inbox,
                 sent, hup, pollVars, snap, rev, wakeq>>

\* FREE_SLOTS holds the slots that tasks have left; NEXT_SLOT names the next of
\* the slots never used, which are all alike.
Freed == {s \in Slots : latest[s] # None /\ state[latest[s]] = "done"}
Fresh == {s \in Slots : latest[s] = None}

\* spawn: the task goes into a free slot, a used one first, and the slot's
\* generation advances.
Spawn(c) ==
  \E s \in Slots :
    /\ \/ s \in Freed
       \/ Freed = {} /\ Fresh # {} /\ s = CHOOSE x \in Fresh : TRUE
    /\ slot' = [slot EXCEPT ![c] = s]
    /\ latest' = [latest EXCEPT ![s] = c]

\* accept_loop: accept4, spawn_task (spawn and wake_handle), wake_handle again.
Accept(w) ==
  /\ Polling(w, Acc)
  /\ \E c \in Backlog, f \in Fds \ open :
       /\ Spawn(c)
       /\ open' = open \cup {f}
       /\ writable' = writable \cup {f}
       /\ hup' = hup \ {f}
       /\ state' = [state EXCEPT ![c] = "live"]
       /\ fd' = [fd EXCEPT ![c] = f]
       /\ wakeq' = [wakeq EXCEPT ![w] = <<c, c>>]
  /\ registered' = registered \ {Acc}
  /\ Goto(w, "poll", "wake")
  /\ UNCHANGED <<queueVars, regVars, phase, replies, inner, inbox, sent, pollVars,
                 snap, rev>>

\* Fault: accept_loop returns on an error instead of continuing.
AcceptErrorReturns(w) ==
  /\ Polling(w, Acc)
  /\ \/ \E c \in Backlog : state' = [state EXCEPT ![c] = "done", ![Acc] = "done"]
     \/ /\ Backlog # {} /\ Fds \subseteq open
        /\ state' = [state EXCEPT ![Acc] = "done"]
  /\ Suspend(w)
  /\ UNCHANGED <<queueVars, regVars, fd, phase, replies, registered, slotVars,
                 sockVars, snap, rev, wakeq>>

\* accept4 fails: the client aborted, or the process is out of descriptors.
\* accept_loop continues with a new AcceptFuture inside the same poll.
AcceptError(w) ==
  /\ Polling(w, Acc)
  /\ \/ \E c \in Backlog : state' = [state EXCEPT ![c] = "done"]
     \/ Backlog # {} /\ Fds \subseteq open /\ UNCHANGED state
  /\ registered' = registered \ {Acc}
  /\ UNCHANGED <<queueVars, regVars, fd, phase, replies, inner, slotVars,
                 sockVars, localVars>>

\* EAGAIN and the future has not registered yet: it will, in the next step.
WouldBlock(w) ==
  /\ pc[w] = "poll" /\ ~CanProceed(polled[w], Direction(polled[w]))
  /\ polled[w] \notin registered
  /\ Goto(w, "poll", "register")
  /\ UNCHANGED <<queueVars, regVars, taskVars, sockVars, pollVars, snap, rev, wakeq>>

\* EAGAIN and registered is set: Pending, without touching the registry.
StillPending(w) ==
  /\ pc[w] = "poll" /\ ~CanProceed(polled[w], Direction(polled[w]))
  /\ polled[w] \in registered
  /\ Suspend(w)
  /\ UNCHANGED <<queueVars, regVars, state, fd, phase, replies, registered,
                 slotVars, sockVars, snap, rev, wakeq>>

-----------------------------------------------------------------------------
(* io_registry: register_fd_waker and unregister_fd; close.                *)

\* The poll's waker, that of the handle, joins the fd's entry; an entry that is
\* there already keeps its events.
RegisterFdWaker(w) ==
  LET t == polled[w]
      f == fd[t]
  IN /\ pc[w] = "register"
     /\ regEvents' = [regEvents EXCEPT ![f] = IF @ = "none" THEN Direction(t)
                                                            ELSE @]
     /\ regWaiters' = [regWaiters EXCEPT ![f] = Append(@, cur[w])]
     /\ registered' = registered \cup {t}
     /\ Suspend(w)
     /\ UNCHANGED <<queueVars, state, fd, phase, replies, slotVars, sockVars,
                    snap, rev, wakeq>>

\* Fault: the entry goes, its wakers stay.
RemoveEntryOnly(f) ==
  /\ regEvents' = [regEvents EXCEPT ![f] = "none"]
  /\ UNCHANGED regWaiters

RemoveEntry(f) ==
  /\ regEvents' = [regEvents EXCEPT ![f] = "none"]
  /\ regWaiters' = [regWaiters EXCEPT ![f] = <<>>]

\* Fault: the handler closes without unregistering first.
UnregisterFdForgotten(w) ==
  /\ Goto(w, "unregister", "refresh")
  /\ UNCHANGED <<queueVars, regVars, taskVars, sockVars, pollVars, snap, rev, wakeq>>

UnregisterFd(w) ==
  /\ Goto(w, "unregister", "refresh")
  /\ RemoveEntry(fd[polled[w]])
  /\ UNCHANGED <<queueVars, taskVars, sockVars, pollVars, snap, rev, wakeq>>

\* unregister_fd ends with signal_eventfd: a blocked ppoll takes a new list.
RefreshSignal(w) ==
  /\ Goto(w, "refresh", "close")
  /\ evt' = 1
  /\ UNCHANGED <<sched, regVars, taskVars, sockVars, pollVars, snap, rev, wakeq>>

\* The handler closes the socket, and what was received on it is gone.
CloseSocket(c) ==
  /\ open' = open \ {fd[c]}
  /\ inbox' = [inbox EXCEPT ![c] = 0]

\* The task returned Ready: the slot is emptied, unlocked and free again.
FreeSlot(w) ==
  /\ state' = [state EXCEPT ![polled[w]] = "done"]
  /\ Suspend(w)

CloseFd(w) ==
  /\ pc[w] = "close"
  /\ CloseSocket(polled[w])
  /\ FreeSlot(w)
  /\ UNCHANGED <<queueVars, regVars, fd, phase, replies, registered, slotVars,
                 sent, writable, hup, snap, rev, wakeq>>

-----------------------------------------------------------------------------
(* wake_handle: push on the schedule, then signal_eventfd.                 *)

\* Wakers are woken by ppoll_and_schedule, or by accept_loop inside a poll.
AfterWake(w) == IF inner[Acc] = w THEN "poll" ELSE "scan"

WakePush(w) ==
  /\ Goto(w, "wake", "signal")
  /\ sched' = <<Head(wakeq[w])>> \o sched
  /\ wakeq' = [wakeq EXCEPT ![w] = Tail(@)]
  /\ UNCHANGED <<evt, regVars, taskVars, sockVars, pollVars, snap, rev>>

WakeSignal(w) ==
  /\ Goto(w, "signal", IF wakeq[w] = <<>> THEN AfterWake(w) ELSE "wake")
  /\ evt' = 1
  /\ UNCHANGED <<sched, regVars, taskVars, sockVars, pollVars, snap, rev, wakeq>>

-----------------------------------------------------------------------------
(* ppoll_and_schedule.                                                     *)

Snapshot(w) ==
  /\ Goto(w, "snapshot", "ppoll")
  /\ snap' = [snap EXCEPT ![w] = regEvents]
  /\ UNCHANGED <<queueVars, regVars, taskVars, sockVars, pollVars, rev, wakeq>>

\* ppoll without timeout returns with the eventfd or some polled fd ready.
Ppoll(w) ==
  LET ready == {f \in AllFds : snap[w][f] # "none" /\ PollReady(f, snap[w][f])}
  IN /\ evt = 1 \/ ready # {}
     /\ Goto(w, "ppoll", IF evt = 1 THEN "drain" ELSE "scan")
     /\ rev' = [rev EXCEPT ![w] = ready]
     /\ snap' = [snap EXCEPT ![w] = NoEntries]
     /\ UNCHANGED <<queueVars, regVars, taskVars, sockVars, pollVars, wakeq>>

\* ppoll fails (ret <= 0): back to worker_loop.
PpollError(w) ==
  /\ Goto(w, "ppoll", "take")
  /\ snap' = [snap EXCEPT ![w] = NoEntries]
  /\ UNCHANGED <<queueVars, regVars, taskVars, sockVars, pollVars, rev, wakeq>>

\* read(evt): the eventfd is a blocking one, so a worker whose ppoll saw the
\* counter positive waits here if another worker has read it since.
Drain(w) ==
  /\ evt = 1
  /\ Goto(w, "drain", "scan")
  /\ evt' = 0
  /\ UNCHANGED <<sched, regVars, taskVars, sockVars, pollVars, snap, rev, wakeq>>

\* Fault: wakers are woken by reference and the entry stays.
ScanFdByRef(w) ==
  /\ pc[w] = "scan"
  /\ \E f \in rev[w] :
       /\ rev' = [rev EXCEPT ![w] = @ \ {f}]
       /\ wakeq' = [wakeq EXCEPT ![w] = regWaiters[f]]
       /\ pc' = [pc EXCEPT ![w] = IF regEvents[f] = "none" THEN "scan" ELSE "wake"]
  /\ UNCHANGED <<queueVars, regVars, taskVars, sockVars, pollVars, snap>>

\* Fault: the wakers of a removed entry are dropped.
ScanFdDropsWakers(w) ==
  /\ pc[w] = "scan"
  /\ \E f \in rev[w] :
       /\ rev' = [rev EXCEPT ![w] = @ \ {f}]
       /\ RemoveEntry(f)
  /\ UNCHANGED <<queueVars, taskVars, sockVars, pc, pollVars, snap, wakeq>>

\* One ready fd: its entry is removed and its wakers are taken.
ScanFd(w) ==
  /\ pc[w] = "scan"
  /\ \E f \in rev[w] :
       /\ rev' = [rev EXCEPT ![w] = @ \ {f}]
       /\ wakeq' = [wakeq EXCEPT ![w] = regWaiters[f]]
       /\ pc' = [pc EXCEPT ![w] = IF regEvents[f] = "none" THEN "scan" ELSE "wake"]
       /\ RemoveEntry(f)
  /\ UNCHANGED <<queueVars, taskVars, sockVars, pollVars, snap>>

ScanDone(w) ==
  /\ rev[w] = {}
  /\ Goto(w, "scan", "take")
  /\ UNCHANGED <<queueVars, regVars, taskVars, sockVars, pollVars, snap, rev, wakeq>>

-----------------------------------------------------------------------------

Client(c) == ClientConnect(c) \/ ClientSend(c) \/ ClientRead(c) \/ ClientClose(c)

Handler(w, c) == RecvData(w, c) \/ RecvEmpty(w, c) \/ SendData(w, c)

Worker(w) ==
  \/ TakeTask(w) \/ TakeNone(w)
  \/ CheckHandle(w) \/ SlotEmpty(w) \/ LockSlot(w)
  \/ \E c \in Conns : Handler(w, c)
  \/ Accept(w) \/ AcceptError(w) \/ WouldBlock(w) \/ StillPending(w)
  \/ RegisterFdWaker(w) \/ UnregisterFd(w) \/ RefreshSignal(w) \/ CloseFd(w)
  \/ WakePush(w) \/ WakeSignal(w)
  \/ Snapshot(w) \/ Ppoll(w) \/ PpollError(w) \/ Drain(w)
  \/ ScanFd(w) \/ ScanDone(w)

Next == (\E c \in Conns : Client(c)) \/ (\E w \in Workers : Worker(w))

Spec == Init /\ [][Next]_vars

\* The kernel runs every thread, and a ppoll that is retried after an error
\* (EINTR) and finds a ready descriptor is not interrupted for ever.
Fairness == \A w \in Workers : WF_vars(Worker(w)) /\ SF_vars(Ppoll(w))

FairSpec == Spec /\ Fairness

-----------------------------------------------------------------------------
(* Properties.                                                             *)

\* Every variable has its type, and an fd has wakers exactly when it has an entry
\* in IO_REG: register_fd_waker creates an entry with its first waker, and taking
\* an entry out of the registry takes its wakers with it.
TypeOK ==
  /\ sched \in Seq(Tasks)
  /\ evt \in {0, 1}
  /\ regEvents \in [AllFds -> Events \cup {"none"}]
  /\ regWaiters \in [AllFds -> Seq(Tasks)]
  /\ \A f \in AllFds : regEvents[f] = "none" <=> regWaiters[f] = <<>>
  /\ state \in [Tasks -> {"unborn", "backlog", "live", "done"}]
  /\ fd \in [Tasks -> AllFds]
  /\ phase \in [Conns -> Phases]
  /\ replies \in [Conns -> Nat]
  /\ registered \in SUBSET Tasks
  /\ inner \in [Tasks -> Workers \cup {None}]
  /\ slot \in [Tasks -> Slots \cup {None}]
  /\ latest \in [Slots -> Tasks \cup {None}]
  /\ open \in SUBSET Fds
  /\ inbox \in [Conns -> Nat]
  /\ sent \in [Conns -> Nat]
  /\ writable \in SUBSET Fds
  /\ hup \in SUBSET Fds
  /\ pc \in [Workers -> PcValues]
  /\ cur \in [Workers -> Tasks \cup {None}]
  /\ polled \in [Workers -> Tasks \cup {None}]
  /\ snap \in [Workers -> [AllFds -> Events \cup {"none"}]]
  /\ rev \in [Workers -> SUBSET AllFds]
  /\ wakeq \in [Workers -> Seq(Tasks)]

Waiting == {"snapshot", "ppoll", "drain"}

\* No lost wake-up: while a handle is scheduled the eventfd is readable or some
\* worker reaches take_scheduled_task before it waits again.  The push and the
\* signal of wake_handle, the one read that clears the signals of several wakes
\* and worker_loop's "immediately check for more work" hold this together.
NoStrandedWork ==
  sched # <<>> => evt = 1 \/ \E w \in Workers : pc[w] \notin Waiting

\* register_fd_waker does not signal the eventfd, and a worker that loses the
\* race for the eventfd's counter waits in a read that sees no socket.  Still
\* every entry of IO_REG is watched: some worker is not blocked, or the eventfd
\* is readable, or some worker's ppoll has every entry in its list.
Watched ==
  \/ evt = 1
  \/ \E w \in Workers : pc[w] \notin {"ppoll", "drain"}
  \/ \E w \in Workers :
       /\ pc[w] = "ppoll"
       /\ \A f \in AllFds : regEvents[f] # "none" => snap[w][f] = regEvents[f]

\* An entry of IO_REG belongs to an open socket, and its wakers lead to the slot
\* of the live task that owns the socket: a handler unregisters before it closes,
\* so neither a reused fd number nor a reused slot meets an entry that was made
\* for the connection that had it before.
RegistryNamesSlot ==
  \A f \in AllFds : regEvents[f] # "none" =>
    /\ f \in open \cup {ListenFd}
    /\ \A i \in DOMAIN regWaiters[f] :
         \E t \in Tasks : fd[t] = f /\ InSlot(t, regWaiters[f][i])

\* The wakers of an entry are the socket owner's own: only such a waker passes
\* poll_task_safe's check when ppoll_and_schedule wakes it, as worker_loop counts
\* on ("waker is registered ... ppoll will wake it when ready").  It fails: a
\* worker that has passed the check polls whatever task is in the slot when it
\* gets the lock, and registers that task's socket under the old handle.
RegistryNamesOwner ==
  \A f \in AllFds : regEvents[f] # "none" =>
    /\ f \in open \cup {ListenFd}
    /\ \A i \in DOMAIN regWaiters[f] :
         state[regWaiters[f][i]] = "live" /\ fd[regWaiters[f][i]] = f

\* What will make a worker poll t: its place in the schedule sc, the polls under
\* way (cu), its wakers in IO_REG (rw) and in the workers' to_wake lists (wq).
SchedTokens(t, sc) == {<<"sched", i>> : i \in {j \in DOMAIN sc : sc[j] = t}}
PollTokens(t, cu) == {<<"poll", w>> : w \in {v \in Workers : cu[v] = t}}
WakerTokens(t, rw) ==
  UNION {{<<"waker", f, i>> :
     i \in {j \in DOMAIN rw[f] : rw[f][j] = t}} : f \in AllFds}
ToWakeTokens(t, wq) ==
  UNION {{<<"to_wake", w, i>> :
     i \in {j \in DOMAIN wq[w] : wq[w][j] = t}} : w \in Workers}

TokensIn(t, sc, cu, rw, wq) ==
  SchedTokens(t, sc) \cup PollTokens(t, cu) \cup WakerTokens(t, rw)
  \cup ToWakeTokens(t, wq)

Tokens(t) == TokensIn(t, sched, cur, regWaiters, wakeq)

\* The two wakes accept_loop gives a new task are all it ever has: neither the
\* schedule nor IO_REG grows with the number of readiness events.
WakesBounded ==
  \A t \in Tasks : Cardinality(Tokens(t)) <= IF t = Acc THEN 1 ELSE 2

\* A live task is scheduled, being polled, or has a waker in IO_REG: worker_loop
\* drops a Pending task because "waker is registered ... ppoll will wake it".
NotForgotten == \A t \in Tasks : state[t] = "live" => Tokens(t) # {}

\* A suspended task's entry in IO_REG names the events its future waits for.
WaitsForItsEvent ==
  \A t \in registered :
    regEvents[fd[t]] # "none" /\ inner[t] = None => regEvents[fd[t]] = Direction(t)

\* Received bytes are read by the handler, or its connection ends.
InputIsRead ==
  \A c \in Conns : state[c] = "live" /\ inbox[c] > 0 ~> inbox[c] = 0

\* A client in the listen backlog is accepted, or its connection is refused.
ClientIsServed ==
  \A c \in Conns : state[c] = "backlog" ~> state[c] \in {"live", "done"}

\* When the client has gone, the handler returns and its socket is closed.
ConnectionEnds ==
  \A c \in Conns : state[c] = "live" /\ fd[c] \in hup ~> state[c] = "done"
=============================================================================
