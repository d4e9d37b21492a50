------------------------------ MODULE XBeeUart ------------------------------
(***************************************************************************)
(* The driver of the module's UART, xbee_uart.c: two one-byte slots kept   *)
(* queued with UARTDRV, a receive callback that empties a slot into the    *)
(* ring and queues it again, and one staging buffer for what is sent.      *)
(*                                                                         *)
(* The super loop's calls are split where an interrupt can come between    *)
(* two accesses to what a callback shares; a callback is one step.  The    *)
(* ring is the queue ByteFifo that RingBuffer implements.  UARTDRV is      *)
(* external: it fills the slots in the order they were queued, keeps a few *)
(* bytes in hardware meanwhile, and may refuse an operation.               *)
(***************************************************************************)
EXTENDS Naturals, Sequences, SequencesExt

CONSTANTS RingSize,    \* XBEE_UART_RX_RING_SIZE
          HwDepth,     \* bytes the peripheral holds while no slot is free
          MaxRefusals, \* bound: operations UARTDRV refuses
          MaxBytes,    \* bound: bytes that arrive
          MaxWrites    \* bound: transmissions

ASSUME UartAssumption ==
  /\ RingSize \in Nat \ {0, 1} /\ HwDepth \in Nat \ {0}
  /\ MaxRefusals \in Nat /\ MaxBytes \in Nat /\ MaxWrites \in Nat

VARIABLES running,  \* rx_running
          queued,   \* the slots queued with UARTDRV, the one being filled first
          slot,     \* rx_slot
          ring,     \* rx_ring
          txBusy,   \* tx_busy
          txBuf,    \* tx_buf: which transmission it stages
          stats,    \* the four counters
          call,     \* the call of the super loop in progress, and how far it is
          \* UARTDRV and the line:
          hw,       \* bytes received and in no slot yet
          arrived,  \* bytes are numbered as they arrive
          sending,  \* the transmission UARTDRV has been given, or 0
          refusals, \* how many operations it has refused
          \* history, read by the properties only:
          missing,  \* slots whose re-queue was refused since the last init
          read,     \* the last byte the loop has read
          out,      \* how many bytes have left the ring since the counters were cleared,
          before    \* and how many were in it then

rx   == <<running, queued, slot, ring, hw, arrived>>
tx   == <<txBusy, txBuf, sending>>
hist == <<missing, read, out, before>>
vars == <<rx, tx, stats, call, refusals, hist>>

Slots == {0, 1}
Counters == {"rxBytes", "txBytes", "overruns", "errors"}
Zero     == [c \in Counters |-> 0]

Calls == {"IDLE", "DEINIT_ABORT", "INIT_ABORT", "START",
          "QUEUE_0", "QUEUE_1", "GIVE_UP", "FILL", "TRANSMIT", "COUNT"}

TypeOK ==
  /\ running \in BOOLEAN /\ txBusy \in BOOLEAN
  /\ queued \in Seq(Slots) /\ slot \in [Slots -> 0..MaxBytes]
  /\ ring \in Seq(1..MaxBytes) /\ Len(ring) < RingSize
  /\ hw \in Seq(1..MaxBytes) /\ Len(hw) <= HwDepth /\ arrived \in 0..MaxBytes
  /\ txBuf \in 0..MaxWrites /\ sending \in 0..MaxWrites
  /\ stats \in [Counters -> Nat]
  /\ call \in Calls /\ refusals \in 0..MaxRefusals
  /\ missing \subseteq Slots /\ read \in 0..MaxBytes
  /\ out \in 0..MaxBytes /\ before \in 0..(RingSize - 1)

Init ==
  /\ running = FALSE /\ queued = <<>> /\ slot = [s \in Slots |-> 0] /\ ring = <<>>
  /\ txBusy = FALSE /\ txBuf = 0 /\ sending = 0 /\ stats = Zero
  /\ call = "IDLE" /\ hw = <<>> /\ arrived = 0 /\ refusals = 0
  /\ missing = {} /\ read = 0 /\ out = 0 /\ before = 0

Refused == refusals < MaxRefusals /\ refusals' = refusals + 1
Accepted == UNCHANGED refusals

(***************************************************************************)
(* The interrupt side.                                                     *)
(***************************************************************************)
\* Mutant: every completion queues the first slot.
FirstSlot(s) == 0

\* The slot of a completion, by the address of its buffer.
SlotOf(s) == s

\* Mutant: the other slot's byte is pushed.
OtherSlot(s) == slot'[1 - s]

Landed(s) == slot'[s]

Requeues == running

\* rx_callback(), for a slot UARTDRV has filled, or failed to.
RxCallback(s, ok) ==
  /\ LET fits == Len(ring) < RingSize - 1
         counter == IF ~ok THEN "errors" ELSE IF fits THEN "rxBytes" ELSE "overruns"
     IN \E refused \in BOOLEAN :
          /\ ring' = IF ok /\ fits THEN Append(ring, Landed(s)) ELSE ring
          /\ IF Requeues
             THEN IF refused
                  THEN Refused /\ queued' = Tail(queued) /\ missing' = missing \cup {SlotOf(s)}
                  ELSE /\ Accepted /\ queued' = Append(Tail(queued), SlotOf(s))
                       /\ UNCHANGED missing
             ELSE ~refused /\ Accepted /\ queued' = Tail(queued) /\ UNCHANGED missing
          /\ stats' = [c \in Counters |->
                         stats[c] + (IF c = counter THEN 1 ELSE 0)
                                  + (IF c = "errors" /\ refused THEN 1 ELSE 0)]
  /\ UNCHANGED running

\* A byte leaves the peripheral for the slot in front, whole or damaged.
Receive ==
  /\ hw # <<>> /\ queued # <<>>
  /\ slot' = [slot EXCEPT ![Head(queued)] = Head(hw)] /\ hw' = Tail(hw)
  /\ \E ok \in BOOLEAN : RxCallback(Head(queued), ok)
  /\ UNCHANGED <<tx, call, arrived, read, out, before>>

\* tx_callback()
Sent ==
  /\ sending # 0
  /\ sending' = 0 /\ txBusy' = FALSE
  /\ UNCHANGED <<rx, txBuf, stats, call, refusals, hist>>

\* A byte that finds the peripheral full is lost, and nobody counts it.
Arrive ==
  /\ arrived < MaxBytes /\ arrived' = arrived + 1
  /\ hw' = IF Len(hw) < HwDepth THEN Append(hw, arrived') ELSE hw
  /\ UNCHANGED <<running, queued, slot, ring, tx, stats, call, refusals, hist>>

(***************************************************************************)
(* xbee_uart_init() and xbee_uart_deinit()                                 *)
(***************************************************************************)
\* UARTDRV_Abort() completes every queued receive operation through the callback.
AbortReceive ==
  /\ stats' = [stats EXCEPT !["errors"] = @ + Len(queued)]
  /\ queued' = IF Requeues THEN queued ELSE <<>>

DeinitStarts(then) ==
  /\ call = "IDLE" /\ then \in {"DEINIT", "INIT"}
  /\ running' = FALSE
  /\ call' = IF then = "INIT" THEN "INIT_ABORT" ELSE "DEINIT_ABORT"
  /\ UNCHANGED <<queued, slot, ring, hw, arrived, tx, stats, refusals, hist>>

Abort ==
  /\ call \in {"DEINIT_ABORT", "INIT_ABORT"}
  /\ AbortReceive /\ sending' = 0 /\ txBusy' = FALSE
  /\ call' = IF call = "INIT_ABORT" THEN "START" ELSE "IDLE"
  /\ UNCHANGED <<running, slot, ring, hw, arrived, txBuf, refusals, hist>>

Start ==
  /\ call = "START"
  /\ ring' = <<>> /\ stats' = Zero /\ txBusy' = FALSE /\ running' = TRUE
  /\ call' = "QUEUE_0"
  /\ missing' = {} /\ out' = 0 /\ before' = 0
  /\ UNCHANGED <<queued, slot, hw, arrived, txBuf, sending, refusals, read>>

QueueSlot(s) ==
  /\ call = IF s = 0 THEN "QUEUE_0" ELSE "QUEUE_1"
  /\ \/ /\ Accepted /\ queued' = Append(queued, s)
        /\ call' = (IF s = 0 THEN "QUEUE_1" ELSE "IDLE") /\ UNCHANGED running
     \/ /\ Refused /\ running' = FALSE /\ call' = "GIVE_UP" /\ UNCHANGED queued
  /\ UNCHANGED <<slot, ring, hw, arrived, tx, stats, hist>>

GiveUp ==
  /\ call = "GIVE_UP" /\ AbortReceive /\ call' = "IDLE"
  /\ UNCHANGED <<running, slot, ring, hw, arrived, tx, refusals, hist>>

(***************************************************************************)
(* xbee_uart_write()                                                       *)
(***************************************************************************)
\* Mutant: the claim does not look whether the buffer is free.
ClaimAnyway ==
  /\ call = "IDLE" /\ txBuf < MaxWrites
  /\ txBusy' = TRUE /\ call' = "FILL"
  /\ UNCHANGED <<rx, txBuf, sending, stats, refusals, hist>>

\* A claim that finds the buffer taken returns SL_STATUS_BUSY.
Claim ==
  /\ call = "IDLE" /\ txBuf < MaxWrites /\ ~txBusy
  /\ txBusy' = TRUE /\ call' = "FILL"
  /\ UNCHANGED <<rx, txBuf, sending, stats, refusals, hist>>

Fill ==
  /\ call = "FILL" /\ txBuf' = txBuf + 1 /\ call' = "TRANSMIT"
  /\ UNCHANGED <<rx, txBusy, sending, stats, refusals, hist>>

\* Mutant: a refused transmission keeps the buffer.
TransmitKeeps ==
  /\ call = "TRANSMIT"
  /\ \/ Accepted /\ sending' = txBuf /\ call' = "COUNT" /\ UNCHANGED txBusy
     \/ Refused /\ call' = "IDLE" /\ UNCHANGED <<sending, txBusy>>
  /\ UNCHANGED <<rx, txBuf, stats, hist>>

Transmit ==
  /\ call = "TRANSMIT"
  /\ \/ Accepted /\ sending' = txBuf /\ call' = "COUNT" /\ UNCHANGED txBusy
     \/ Refused /\ txBusy' = FALSE /\ call' = "IDLE" /\ UNCHANGED sending
  /\ UNCHANGED <<rx, txBuf, stats, hist>>

\* The callback may have come before the bytes are counted.
CountSent ==
  /\ call = "COUNT" /\ stats' = [stats EXCEPT !["txBytes"] = @ + 1] /\ call' = "IDLE"
  /\ UNCHANGED <<rx, tx, refusals, hist>>

(***************************************************************************)
(* xbee_uart_read(), xbee_uart_rx_flush() and xbee_uart_clear_stats()      *)
(***************************************************************************)
Read ==
  /\ call = "IDLE" /\ ring # <<>>
  /\ read' = Head(ring) /\ ring' = Tail(ring) /\ out' = out + 1
  /\ UNCHANGED <<running, queued, slot, hw, arrived, tx, stats, call, refusals,
                 missing, before>>

Flush ==
  /\ call = "IDLE" /\ ring # <<>>
  /\ ring' = <<>> /\ out' = out + Len(ring)
  /\ UNCHANGED <<running, queued, slot, hw, arrived, tx, stats, call, refusals,
                 missing, read, before>>

ClearStats ==
  /\ call = "IDLE" /\ stats' = Zero /\ out' = 0 /\ before' = Len(ring)
  /\ UNCHANGED <<rx, tx, call, refusals, missing, read>>

Interrupt == Receive \/ Sent
Loop == \/ \E then \in {"DEINIT", "INIT"} : DeinitStarts(then)
        \/ Abort \/ Start \/ (\E s \in Slots : QueueSlot(s)) \/ GiveUp
        \/ Claim \/ Fill \/ Transmit \/ CountSent
        \/ Read \/ Flush \/ ClearStats
InCall == call # "IDLE" /\ Loop
Next == Interrupt \/ Arrive \/ Loop
Spec == Init /\ [][Next]_vars

\* UARTDRV completes what it has been given, and a call of the loop ends.
FairSpec == Spec /\ WF_vars(Receive) /\ WF_vars(Sent) /\ WF_vars(InCall)

(***************************************************************************)
(* Properties.                                                             *)
(***************************************************************************)
\* While the receiver runs each slot is queued exactly once, but for the ones
\* whose re-queue was refused, and after a stop none is: an abort drains
\* (xbee_uart.c:125), and two operations never share a slot (xbee_uart.c:107).
SlotsApart ==
  /\ TypeOK
  /\ \A i, j \in DOMAIN queued : queued[i] = queued[j] => i = j
  /\ running /\ call \notin {"QUEUE_0", "QUEUE_1"} => ToSet(queued) = Slots \ missing
  /\ ~running /\ call \in {"IDLE", "START"} => queued = <<>>

\* Bytes reach the loop in the order they arrived, none twice, whatever was
\* aborted, refused, dropped or flushed between two of them; and what the
\* interrupt counted as received is what the loop has taken out of the ring or
\* can still read, whichever of them ran in between.
InOrder ==
  /\ stats["rxBytes"] + before = out + Len(ring)
  /\ \A i, j \in DOMAIN ring : i < j => ring[i] < ring[j]
  /\ \A i \in DOMAIN ring : read < ring[i]

\* The staging buffer is UARTDRV's from the moment it is handed over until the
\* callback or an abort: no call writes it while it is being sent
\* (xbee_uart.c:233), and the transmitter is not reported free.
BufferOwned ==
  [][sending # 0 => txBusy /\ (sending' # 0 => txBuf' = txBuf)]_vars

\* The transmitter is always free again: after a transmission, a refusal, or a
\* shutdown in between.
FreeAgain == []<>(~txBusy)
=============================================================================
