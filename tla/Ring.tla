-------------------------------- MODULE Ring --------------------------------
(***************************************************************************)
(* The pointer arithmetic of a bounded ring of slots (src/src/ring.rs),    *)
(* shared by each person's outbox and each store's inbox.                  *)
(*                                                                         *)
(* A ring's row is a record r with the fields capacity, read_index,        *)
(* write_index and size.  The rows of its slots table are represented by   *)
(* held, the set of slot indices that have a row.                          *)
(***************************************************************************)
EXTENDS Naturals

\* A ring of c slots nobody has used: the columns' DEFAULT 0.
NewRing(c) == [capacity |-> c, read_index |-> 0, write_index |-> 0, size |-> 0]

\* Mutant: the bound is off by one.
IsFull_OffByOne(r) == r.size > r.capacity

IsFull(r) == r.size >= r.capacity

\* The slot that lies k places after the read pointer.
SlotAt(r, k) == (r.read_index + k) % r.capacity

\* The slots from the read pointer up to the write pointer.
Span(r) == {SlotAt(r, k) : k \in 0 .. (r.size - 1)}

\* Mutant: the pointer stays where it is.
AdvanceWrite_SizeOnly(r) == [r EXCEPT !.size = r.size + 1]

AdvanceWrite(r) ==
    [r EXCEPT !.write_index = (r.write_index + 1) % r.capacity,
              !.size        = r.size + 1]

\* How many released slots the loop of release walks past: it stops at the
\* first slot that still has a row, or at the end of the span.
Skipped(r, held) ==
    CHOOSE k \in 0 .. r.size :
        /\ k = r.size \/ SlotAt(r, k) \in held
        /\ \A j \in 0 .. (k - 1) : SlotAt(r, j) \notin held

\* Mutant: the released slot is counted a second time.
Release_CountsTwice(r, held) ==
    [r EXCEPT !.read_index = SlotAt(r, Skipped(r, held)),
              !.size       = r.size - Skipped(r, held) - 1]

\* The pointers once the slot being released has left held.
Release(r, held) ==
    [r EXCEPT !.read_index = SlotAt(r, Skipped(r, held)),
              !.size       = r.size - Skipped(r, held)]

\* resize refuses a ring whose span is not empty.
CanResize(r) == r.size = 0

Resize(r, c) == [r EXCEPT !.capacity = c, !.read_index = 0, !.write_index = 0]

-----------------------------------------------------------------------------
\* What a ring's row may hold, with a capacity between 1 and maxCapacity.
Pointers(maxCapacity) ==
    [capacity : 1 .. maxCapacity, read_index : Nat, write_index : Nat, size : Nat]

\* The CHECK constraints of the inbox_rings and outbox_rings tables.
PointersAgree(r) ==
    /\ r.read_index < r.capacity
    /\ r.write_index < r.capacity
    /\ r.size <= r.capacity
    /\ (r.read_index + r.size) % r.capacity = r.write_index
=============================================================================
