------------------------------ MODULE TaskStack ------------------------------
(***************************************************************************)
(* What the scheduler promises of its schedule: one stack of handles, on   *)
(* which wake_handle pushes and from which take_scheduled_task pops, each  *)
(* in one atomic step; None is returned only when the stack is empty.      *)
(***************************************************************************)
EXTENDS Naturals, Sequences

CONSTANTS
  Threads,
  Handles,
  Nothing,      \* the thread is in no call
  Empty         \* take_scheduled_task found no task

VARIABLES
  stack,        \* the scheduled handles, last woken first
  waking,       \* per thread: the handle it is about to push
  got           \* per thread: the handle it has taken and not yet returned

vars == <<stack, waking, got>>

Init ==
  /\ stack = <<>>
  /\ waking = [t \in Threads |-> Nothing]
  /\ got = [t \in Threads |-> Nothing]

Call(t) ==
  \E h \in Handles :
    /\ waking[t] = Nothing
    /\ waking' = [waking EXCEPT ![t] = h]
    /\ UNCHANGED <<stack, got>>

Push(t) ==
  /\ waking[t] # Nothing
  /\ stack' = <<waking[t]>> \o stack
  /\ waking' = [waking EXCEPT ![t] = Nothing]
  /\ UNCHANGED got

Pop(t) ==
  /\ got[t] = Nothing
  /\ stack # <<>>
  /\ got' = [got EXCEPT ![t] = Head(stack)]
  /\ stack' = Tail(stack)
  /\ UNCHANGED waking

PopNone(t) ==
  /\ got[t] = Nothing
  /\ stack = <<>>
  /\ got' = [got EXCEPT ![t] = Empty]
  /\ UNCHANGED <<stack, waking>>

Return(t) ==
  /\ got[t] # Nothing
  /\ got' = [got EXCEPT ![t] = Nothing]
  /\ UNCHANGED <<stack, waking>>

Next == \E t \in Threads : Call(t) \/ Push(t) \/ Pop(t) \/ PopNone(t) \/ Return(t)

Spec == Init /\ [][Next]_vars
=============================================================================
