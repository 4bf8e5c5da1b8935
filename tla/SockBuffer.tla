----------------------------- MODULE SockBuffer -----------------------------
(***************************************************************************)
(* SockIO::Buffer (epoll/poll_common.h), the receive buffer of every       *)
(* connection of the epoll server and of the epoll client.  A buffer is    *)
(* its positions, counted from the allocation `buf`: s is the first byte   *)
(* not yet consumed, e the first free byte, size the length of the         *)
(* allocation.  The bytes themselves are left to the module that uses it.  *)
(***************************************************************************)
EXTENDS Integers

Buffers == [s : Nat, e : Nat, size : Nat]

NewBuffer(size) == [s |-> 0, e |-> 0, size |-> size]

DataSize(b) == b.e - b.s

PitSize(b) == b.size - b.e

Dig(b, bytes) == [s |-> b.s + bytes, e |-> b.e, size |-> b.size]

Fill(b, bytes) == [s |-> b.s, e |-> b.e + bytes, size |-> b.size]

ResetPos(b) == [s |-> 0, e |-> 0, size |-> b.size]

\* The unconsumed bytes are copied to the front of the allocation.
Move(b) == IF DataSize(b) > 0
           THEN [s |-> 0, e |-> DataSize(b), size |-> b.size]
           ELSE ResetPos(b)

\* A larger allocation takes over the unconsumed bytes; the old one is freed.
Expand(b, size) == [s |-> 0, e |-> DataSize(b), size |-> size]

\* The copy of Move is a memcpy, defined only between disjoint areas; from
\* the front to the front it is harmless.
MoveIsDisjoint(b) == b.s = 0 \/ DataSize(b) <= b.s
=============================================================================
