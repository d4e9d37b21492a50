------------------------------ MODULE ByteFifo ------------------------------
(***************************************************************************)
(* What ring_buffer.h promises to one producer and one consumer: a bounded *)
(* queue that hands every accepted byte over once, in order, that refuses  *)
(* a byte only when it is full, and says it is empty only when it is.      *)
(***************************************************************************)
EXTENDS Naturals, Sequences

CONSTANTS Bytes,   \* what is queued
          Bound,   \* how many bytes the queue holds
          MaxRead  \* the largest read

VARIABLES queue,   \* the bytes held
          pushed,  \* what the last push returned, "FULL" or "OK"
          out      \* the bytes the last pop or read returned

fifoVars == <<queue, pushed, out>>

FifoInit == queue = <<>> /\ pushed = "OK" /\ out = <<>>

Put(b) ==
  /\ Len(queue) < Bound
  /\ queue' = Append(queue, b) /\ pushed' = "OK"
  /\ UNCHANGED out

Refuse ==
  /\ Len(queue) = Bound
  /\ pushed' = "FULL"
  /\ UNCHANGED <<queue, out>>

Take(n) ==
  /\ n \in 1..Len(queue)
  /\ out' = SubSeq(queue, 1, n)
  /\ queue' = SubSeq(queue, n + 1, Len(queue))
  /\ UNCHANGED pushed

FindEmpty ==
  /\ queue = <<>> /\ out' = <<>>
  /\ UNCHANGED <<queue, pushed>>

\* A clear may leave the bytes that are pushed while it runs.
Discard(n) ==
  /\ n \in 0..Len(queue)
  /\ queue' = SubSeq(queue, n + 1, Len(queue))
  /\ UNCHANGED <<pushed, out>>

FifoNext ==
  \/ \E b \in Bytes : Put(b)
  \/ Refuse
  \/ \E n \in 1..MaxRead : Take(n)
  \/ FindEmpty
  \/ \E n \in 0..Bound : Discard(n)

FifoSpec == FifoInit /\ [][FifoNext]_fifoVars
=============================================================================
