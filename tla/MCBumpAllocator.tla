--------------------------- MODULE MCBumpAllocator ---------------------------
(* BumpAllocator with layouts of every kind: empty, unaligned, aligned, one   *)
(* that fills the heap and one whose end is past the end of the address space. *)
EXTENDS BumpAllocator

Layout(s, a) == [size |-> s, align |-> a]

SomeLayouts == {Layout(0, 4), Layout(1, 1), Layout(3, 2), Layout(4, 4), Layout(40, 8)}
=============================================================================
