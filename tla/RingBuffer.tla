----------------------------- MODULE RingBuffer -----------------------------
(***************************************************************************)
(* The lock-free byte ring of ring_buffer.c, between the UART callback     *)
(* that pushes and the super loop that drains.  Every read and write of an *)
(* index or a slot that the other side can see is a step of its own, so    *)
(* either side may be interrupted between any two of them.                 *)
(***************************************************************************)
EXTENDS Naturals, Sequences

CONSTANTS Capacity, \* slots, a power of two
          Bytes,    \* what is queued
          MaxRead   \* the largest read the consumer asks for

ASSUME RingAssumption ==
  /\ Capacity \in Nat \ {0, 1}
  /\ MaxRead \in Nat \ {0}

\* The size ring_buffer_init() accepts: what lets its masks stand for remainders.
ASSUME PowerOfTwo == \E k \in 1..15 : Capacity = 2^k

VARIABLES storage, head, tail,
          producer,  \* where the push in progress is
          byte, next, \* its argument and its local index
          consumer,  \* which consumer call is in progress
          seen, at,  \* its locals: the head it sampled, the index it has reached
          limit,     \* the max of a read
          dst,       \* what it has copied
          pushed, taken, \* what the last push, and the last pop or read, returned
          counted    \* the last count, and how many bytes there were to count

ringVars     == <<storage, head, tail>>
producerVars == <<producer, byte, next, pushed>>
consumerVars == <<consumer, seen, at, limit, dst, taken, counted>>
bufferVars == <<ringVars, producerVars, consumerVars>>

Places == 0..(Capacity - 1)

Masked(i) == i % Capacity  \* i & rb->mask
Held(h, t) == Masked(Capacity + h - t)

\* The bytes between the two published indices, oldest first.
Contents == [k \in 1..Held(head, tail) |-> storage[Masked(tail + (k - 1))]]

RingTypeOK ==
  /\ storage \in [Places -> Bytes]
  /\ head \in Places /\ tail \in Places /\ next \in Places
  /\ producer \in {"IDLE", "STORE", "PUBLISH"} /\ byte \in Bytes
  /\ consumer \in {"IDLE", "READ", "CLEAR", "COUNT"}
  /\ seen \in Places /\ at \in Places /\ limit \in 0..MaxRead
  /\ dst \in Seq(Bytes) /\ taken \in Seq(Bytes)
  /\ pushed \in {"OK", "FULL"}
  /\ counted \in [got : 0..Capacity, were : 0..Capacity]

RingInit ==
  /\ storage \in [Places -> Bytes]
  /\ head = 0 /\ tail = 0 /\ next = 0
  /\ producer = "IDLE" /\ byte \in Bytes
  /\ consumer = "IDLE" /\ seen = 0 /\ at = 0 /\ limit = 0
  /\ dst = <<>> /\ taken = <<>> /\ pushed = "OK"
  /\ counted = [got |-> 0, were |-> 0]

(***************************************************************************)
(* ring_buffer_push()                                                      *)
(***************************************************************************)
\* Mutant: the slot that tells full from empty is used too.
PushStartsUnreserved(b) ==
  /\ producer = "IDLE"
  /\ byte' = b /\ next' = Masked(head + 1)
  /\ producer' = "STORE"
  /\ UNCHANGED <<ringVars, pushed, consumerVars>>

PushStarts(b) ==
  /\ producer = "IDLE"
  /\ IF Masked(head + 1) = tail
     THEN pushed' = "FULL" /\ UNCHANGED <<producer, byte, next>>
     ELSE /\ byte' = b /\ next' = Masked(head + 1)
          /\ producer' = "STORE" /\ UNCHANGED pushed
  /\ UNCHANGED <<ringVars, consumerVars>>

\* Mutant: the index is published before the byte is there.
PushPublishesFirst ==
  /\ producer = "STORE"
  /\ head' = next /\ producer' = "PUBLISH"
  /\ UNCHANGED <<storage, tail, byte, next, pushed, consumerVars>>

PushStores ==
  /\ producer = "STORE"
  /\ storage' = [storage EXCEPT ![head] = byte]
  /\ producer' = "PUBLISH"
  /\ UNCHANGED <<head, tail, byte, next, pushed, consumerVars>>

PushPublishes ==
  /\ producer = "PUBLISH"
  /\ head' = next /\ pushed' = "OK" /\ producer' = "IDLE" /\ next' = 0
  /\ UNCHANGED <<storage, tail, byte, consumerVars>>

(***************************************************************************)
(* ring_buffer_read(), and ring_buffer_pop(), a read of one byte           *)
(***************************************************************************)
ReadStarts(max) ==
  /\ consumer = "IDLE"
  /\ IF head = tail
     THEN taken' = <<>> /\ UNCHANGED <<consumer, seen, at, limit>>
     ELSE /\ seen' = head /\ at' = tail /\ limit' = max
          /\ consumer' = "READ" /\ UNCHANGED taken
  /\ UNCHANGED <<ringVars, producerVars, dst, counted>>

\* The locals of a call end with it.
Returns ==
  /\ consumer' = "IDLE"
  /\ seen' = 0 /\ at' = 0 /\ limit' = 0 /\ dst' = <<>>

\* Mutant: the slot is given back while it is being copied.
ReadCopiesReleased ==
  /\ consumer = "READ" /\ Len(dst) < limit /\ at # seen
  /\ dst' = Append(dst, storage[at]) /\ at' = Masked(at + 1) /\ tail' = Masked(at + 2)
  /\ UNCHANGED <<storage, head, producerVars, consumer, seen, limit, taken, counted>>

ReadCopies ==
  /\ consumer = "READ" /\ Len(dst) < limit /\ at # seen
  /\ dst' = Append(dst, storage[at]) /\ at' = Masked(at + 1)
  /\ UNCHANGED <<ringVars, producerVars, consumer, seen, limit, taken, counted>>

ReadPublishes ==
  /\ consumer = "READ" /\ (Len(dst) = limit \/ at = seen)
  /\ tail' = at /\ taken' = dst /\ Returns
  /\ UNCHANGED <<storage, head, producerVars, counted>>

(***************************************************************************)
(* ring_buffer_clear() and ring_buffer_count()                             *)
(***************************************************************************)
ClearStarts ==
  /\ consumer = "IDLE"
  /\ seen' = head /\ consumer' = "CLEAR"
  /\ UNCHANGED <<ringVars, producerVars, at, limit, dst, taken, counted>>

ClearPublishes ==
  /\ consumer = "CLEAR"
  /\ tail' = seen /\ Returns
  /\ UNCHANGED <<storage, head, producerVars, taken, counted>>

CountStarts ==
  /\ consumer = "IDLE"
  /\ seen' = head /\ consumer' = "COUNT"
  /\ UNCHANGED <<ringVars, producerVars, at, limit, dst, taken, counted>>

CountEnds ==
  /\ consumer = "COUNT"
  /\ counted' = [got |-> Held(seen, tail), were |-> Held(head, tail)]
  /\ Returns
  /\ UNCHANGED <<ringVars, producerVars, taken>>

Producer == (\E b \in Bytes : PushStarts(b)) \/ PushStores \/ PushPublishes
Consumer == \/ \E max \in 1..MaxRead : ReadStarts(max)
            \/ ReadCopies \/ ReadPublishes \/ ClearStarts \/ ClearPublishes
            \/ CountStarts \/ CountEnds
RingNext == Producer \/ Consumer
RingSpec == RingInit /\ [][RingNext]_bufferVars

(***************************************************************************)
(* Properties.                                                             *)
(***************************************************************************)
\* The ring is a bounded queue: no byte is lost, repeated, overtaken or read
\* before it was written, a push is refused only when Capacity - 1 bytes are
\* held, and a read comes back empty only when there is nothing (ring_buffer.h).
Fifo == INSTANCE ByteFifo WITH queue <- Contents, out <- taken, Bound <- Capacity - 1
FifoSpec == Fifo!FifoSpec

\* The slot the producer writes and the slots the consumer copies are never the
\* same, which is what lets both sides go without a critical section.
Copying == {Masked(at + k) : k \in 0..(Held(seen, at) - 1)}
SidesApart ==
  /\ RingTypeOK
  /\ producer # "IDLE" /\ consumer = "READ" => head \notin Copying

\* A count the consumer takes never promises more bytes than are there to read,
\* whatever is pushed while it is taken.
CountIsSafe == counted.got <= counted.were
=============================================================================
