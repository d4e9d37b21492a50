--------------------------- MODULE XBeeUartProofs ---------------------------
(***************************************************************************)
(* Proofs about the driver of the module's UART, for every ring, every     *)
(* depth of the peripheral and every number of refusals: its slots are     *)
(* never shared, bytes keep their order, and the staging buffer has one    *)
(* owner.                                                                  *)
(***************************************************************************)
EXTENDS XBeeUart, RingBuffer, SequenceTheorems, TLAPS

\* Taking the first of a non-empty sequence.
LEMMA HeadTail ==
  ASSUME NEW S, NEW s \in Seq(S), s # <<>>
  PROVE  /\ Head(s) \in S /\ Tail(s) \in Seq(S) /\ Len(s) \in Nat \ {0}
         /\ Head(s) = s[1] /\ Len(Tail(s)) = Len(s) - 1
         /\ \A i \in 1..Len(Tail(s)) : Tail(s)[i] = s[i + 1]
OBVIOUS

\* A sequence of bounded numbers is one of numbers.
LEMMA NumbersOnly ==
  ASSUME NEW n \in Nat, NEW s \in Seq(1..n)
  PROVE  s \in Seq(Nat)
OBVIOUS

\* Adding one at the end.
LEMMA Appended ==
  ASSUME NEW S, NEW s \in Seq(S), NEW e \in S
  PROVE  /\ Append(s, e) \in Seq(S) /\ Len(s) \in Nat /\ Len(Append(s, e)) = Len(s) + 1
         /\ \A i \in 1..Len(s) : Append(s, e)[i] = s[i]
         /\ Append(s, e)[Len(s) + 1] = e
OBVIOUS

(***************************************************************************)
(* The inductive invariant.                                                *)
(***************************************************************************)
\* No slot is queued twice; which ones are, by where the loop is.
Apart(q) == \A i, j \in DOMAIN q : q[i] = q[j] => i = j
Aborting == {"DEINIT_ABORT", "INIT_ABORT", "GIVE_UP"}
Queueing == {"QUEUE_0", "QUEUE_1"}
SlotInv ==
  /\ Apart(queued)
  /\ running => call \notin Aborting \cup {"START"}
  /\ ~running => call \notin Queueing
  /\ ~running /\ call \notin Aborting => queued = <<>>
  /\ call = "QUEUE_0" => queued = <<>> /\ missing = {}
  /\ call = "QUEUE_1" => ToSet(queued) = {0} \ missing /\ 1 \notin missing
  /\ running /\ call \notin Queueing => ToSet(queued) = Slots \ missing

\* Bytes in the ring arrived before those in the peripheral, and after what has
\* been read.
Rising(s) == \A i, j \in DOMAIN s : i < j => s[i] < s[j]
OrderInv ==
  /\ Rising(ring) /\ Rising(hw)
  /\ \A i \in DOMAIN ring, j \in DOMAIN hw : ring[i] < hw[j]
  /\ \A i \in DOMAIN ring : read < ring[i] /\ ring[i] <= arrived
  /\ \A i \in DOMAIN hw : read < hw[i] /\ hw[i] <= arrived
  /\ read <= arrived

\* The count of what was received, and what bounds it.
CountInv ==
  /\ stats["rxBytes"] + before = out + Len(ring)
  /\ out + Len(ring) + Len(hw) <= arrived

\* Who has the staging buffer.
BufferInv ==
  /\ sending # 0 => txBusy /\ call \notin {"FILL", "TRANSMIT", "START"}
  /\ call = "FILL" => txBuf < MaxWrites
  /\ call \in {"FILL", "TRANSMIT"} => txBusy

UartInv == TypeOK /\ SlotInv /\ OrderInv /\ CountInv /\ BufferInv

\* An idle driver with nothing received satisfies it.
LEMMA InitInv == Init => UartInv
<1> SUFFICES ASSUME Init PROVE UartInv
  OBVIOUS
<1>1. /\ RingSize \in Nat \ {0, 1} /\ HwDepth \in Nat \ {0}
      /\ MaxRefusals \in Nat /\ MaxBytes \in Nat /\ MaxWrites \in Nat
  BY UartAssumption
<1>2. TypeOK
  BY <1>1 DEF Init, TypeOK, Zero, Counters, Slots, Calls
<1>3. SlotInv
  BY DEF Init, SlotInv, Apart, Aborting, Queueing
<1>4. OrderInv /\ CountInv /\ BufferInv
  BY <1>1 DEF Init, OrderInv, Rising, CountInv, BufferInv, Zero, Counters
<1> QED BY <1>2, <1>3, <1>4 DEF UartInv

(***************************************************************************)
(* Queues without repetitions, and rising ones.                            *)
(***************************************************************************)
\* Taking the front slot off a queue without repetitions.
LEMMA TailApart ==
  ASSUME NEW S, NEW q \in Seq(S), q # <<>>, Apart(q)
  PROVE  /\ Apart(Tail(q)) /\ Tail(q) \in Seq(S)
         /\ ToSet(Tail(q)) = ToSet(q) \ {Head(q)} /\ Head(q) \in ToSet(q)
<1>1. /\ Tail(q) \in Seq(S) /\ Len(q) \in Nat \ {0} /\ Head(q) = q[1]
      /\ Len(Tail(q)) = Len(q) - 1 /\ \A i \in 1..Len(Tail(q)) : Tail(q)[i] = q[i + 1]
      /\ DOMAIN q = 1..Len(q) /\ DOMAIN Tail(q) = 1..Len(Tail(q))
  BY HeadTail
<1>2. Apart(Tail(q))
  BY <1>1 DEF Apart
<1>3. ASSUME NEW x
      PROVE  x \in ToSet(Tail(q)) <=> x \in ToSet(q) \ {Head(q)}
  <2>1. ASSUME x \in ToSet(Tail(q))
        PROVE  x \in ToSet(q) \ {Head(q)}
    <3>1. PICK i \in DOMAIN Tail(q) : x = Tail(q)[i]
      BY <2>1 DEF ToSet
    <3>2. i + 1 \in DOMAIN q /\ x = q[i + 1] /\ i + 1 # 1 /\ 1 \in DOMAIN q
      BY <1>1, <3>1
    <3>3. x # q[1]
      BY <3>2 DEF Apart
    <3> QED BY <1>1, <3>2, <3>3 DEF ToSet
  <2>2. ASSUME x \in ToSet(q) \ {Head(q)}
        PROVE  x \in ToSet(Tail(q))
    <3>1. PICK i \in DOMAIN q : x = q[i]
      BY <2>2 DEF ToSet
    <3>2. i # 1
      BY <1>1, <2>2, <3>1
    <3>3. i - 1 \in DOMAIN Tail(q) /\ (i - 1) + 1 = i
      BY <1>1, <3>1, <3>2
    <3>4. Tail(q)[i - 1] = x
      BY <1>1, <3>1, <3>3
    <3> QED BY <3>3, <3>4 DEF ToSet
  <2> QED BY <2>1, <2>2
<1>4. Head(q) \in ToSet(q)
  BY <1>1 DEF ToSet
<1> QED BY <1>1, <1>2, <1>3, <1>4

\* Queueing a slot that is not queued.
LEMMA AppendApart ==
  ASSUME NEW S, NEW q \in Seq(S), Apart(q), NEW e \in S, e \notin ToSet(q)
  PROVE  /\ Apart(Append(q, e)) /\ Append(q, e) \in Seq(S)
         /\ ToSet(Append(q, e)) = ToSet(q) \cup {e}
<1> DEFINE more == Append(q, e)
<1>1. /\ more \in Seq(S) /\ Len(q) \in Nat /\ Len(more) = Len(q) + 1
      /\ \A i \in 1..Len(q) : more[i] = q[i]
      /\ more[Len(q) + 1] = e
      /\ DOMAIN q = 1..Len(q) /\ DOMAIN more = 1..(Len(q) + 1)
  BY Appended
<1> HIDE DEF more
<1>2. \A i \in 1..Len(q) : q[i] # e
  BY <1>1 DEF ToSet
<1>3. ASSUME NEW i \in 1..(Len(q) + 1), NEW j \in 1..(Len(q) + 1),
             more[i] = more[j]
      PROVE  i = j
  <2>1. CASE i \in 1..Len(q) /\ j \in 1..Len(q)
    BY <1>1, <1>3, <2>1 DEF Apart
  <2>2. CASE i = Len(q) + 1 \/ j = Len(q) + 1
    BY <1>1, <1>2, <1>3, <2>2
  <2> QED BY <1>1, <2>1, <2>2
<1>4. Apart(more)
  BY <1>1, <1>3 DEF Apart
<1>5. ASSUME NEW x
      PROVE  x \in ToSet(more) <=> x \in ToSet(q) \cup {e}
  <2>1. ASSUME x \in ToSet(more)
        PROVE  x \in ToSet(q) \cup {e}
    <3>1. PICK i \in 1..(Len(q) + 1) : x = more[i]
      BY <1>1, <2>1 DEF ToSet
    <3>2. CASE i \in 1..Len(q)
      BY <1>1, <3>1, <3>2 DEF ToSet
    <3>3. CASE i = Len(q) + 1
      BY <1>1, <3>1, <3>3
    <3> QED BY <1>1, <3>2, <3>3
  <2>2. ASSUME x \in ToSet(q) \cup {e}
        PROVE  x \in ToSet(more)
    <3>1. CASE x \in ToSet(q)
      <4>1. PICK i \in 1..Len(q) : x = q[i]
        BY <1>1, <3>1 DEF ToSet
      <4>2. i \in DOMAIN more /\ x = more[i]
        BY <1>1, <4>1
      <4> QED BY <4>2 DEF ToSet
    <3>2. CASE x = e
      <4>0. Len(q) + 1 \in 1..(Len(q) + 1)
        BY <1>1
      <4>1. x = more[Len(q) + 1]
        BY <1>1, <3>2
      <4>2. Len(q) + 1 \in DOMAIN more
        BY <1>1, <4>0
      <4> QED BY <4>1, <4>2 DEF ToSet
    <3> QED BY <2>2, <3>1, <3>2
  <2> QED BY <2>1, <2>2
<1> QED BY <1>1, <1>4, <1>5 DEF more

\* Taking the oldest byte off a rising sequence.
LEMMA TailRising ==
  ASSUME NEW q \in Seq(Nat), q # <<>>, Rising(q)
  PROVE  Rising(Tail(q)) /\ \A i \in DOMAIN Tail(q) : Head(q) < Tail(q)[i]
<1>1. /\ Tail(q) \in Seq(Nat) /\ Len(q) \in Nat \ {0} /\ Head(q) = q[1]
      /\ Len(Tail(q)) = Len(q) - 1 /\ \A i \in 1..Len(Tail(q)) : Tail(q)[i] = q[i + 1]
      /\ DOMAIN q = 1..Len(q) /\ DOMAIN Tail(q) = 1..Len(Tail(q))
  BY HeadTail
<1> DEFINE rest == Tail(q)
<1>2. ASSUME NEW i \in 1..Len(rest)
      PROVE  i + 1 \in DOMAIN q /\ 1 \in DOMAIN q /\ 1 < i + 1 /\ rest[i] = q[i + 1]
  BY <1>1
<1> HIDE DEF rest
<1>3. ASSUME NEW i \in DOMAIN rest, NEW j \in DOMAIN rest, i < j
      PROVE  rest[i] < rest[j]
  <2>1. i \in 1..Len(rest) /\ j \in 1..Len(rest)
    BY <1>1 DEF rest
  <2>2. i + 1 < j + 1
    BY <1>3, <2>1
  <2>3. rest[i] = q[i + 1] /\ rest[j] = q[j + 1] /\ i + 1 \in DOMAIN q /\ j + 1 \in DOMAIN q
    BY <1>2, <2>1
  <2> QED BY <2>2, <2>3 DEF Rising
<1>4. ASSUME NEW i \in DOMAIN rest
      PROVE  Head(q) < rest[i]
  <2>1. i \in 1..Len(rest)
    BY <1>1 DEF rest
  <2> QED BY <1>1, <1>2, <2>1 DEF Rising
<1> QED BY <1>3, <1>4 DEF Rising, rest

\* Adding a byte later than all of a rising sequence.
LEMMA AppendRising ==
  ASSUME NEW q \in Seq(Nat), Rising(q), NEW e \in Nat, \A i \in DOMAIN q : q[i] < e
  PROVE  Rising(Append(q, e))
<1>1. /\ Len(q) \in Nat /\ Len(Append(q, e)) = Len(q) + 1
      /\ \A i \in 1..Len(q) : Append(q, e)[i] = q[i]
      /\ Append(q, e)[Len(q) + 1] = e
      /\ DOMAIN q = 1..Len(q) /\ DOMAIN Append(q, e) = 1..(Len(q) + 1)
  BY Appended
<1>2. ASSUME NEW i \in 1..(Len(q) + 1), NEW j \in 1..(Len(q) + 1), i < j
      PROVE  Append(q, e)[i] < Append(q, e)[j]
  <2>1. i \in 1..Len(q)
    BY <1>1, <1>2
  <2>2. CASE j \in 1..Len(q)
    BY <1>1, <1>2, <2>1, <2>2 DEF Rising
  <2>3. CASE j = Len(q) + 1
    BY <1>1, <2>1, <2>3
  <2> QED BY <1>1, <2>2, <2>3
<1> QED BY <1>1, <1>2 DEF Rising

(***************************************************************************)
(* The receive interrupt.                                                  *)
(***************************************************************************)
\* What a completion does: the byte goes into the ring or is lost, the slot is
\* queued again, or not, and one counter or two go up.
ReceiveEffect(ok, refused) ==
  LET s    == Head(queued)
      fits == Len(ring) < RingSize - 1
  IN /\ slot' = [slot EXCEPT ![s] = Head(hw)] /\ hw' = Tail(hw)
     /\ ring' = IF ok /\ fits THEN Append(ring, Head(hw)) ELSE ring
     /\ queued' = IF running /\ ~refused THEN Append(Tail(queued), s) ELSE Tail(queued)
     /\ missing' = IF running /\ refused THEN missing \cup {s} ELSE missing
     /\ stats' \in [Counters -> Nat]
     /\ stats'["rxBytes"] = stats["rxBytes"] + (IF ok /\ fits THEN 1 ELSE 0)
     /\ refusals' \in 0..MaxRefusals

\* A byte that lands is one completion, with one of the effects above.
LEMMA ReceiveDoes ==
  ASSUME UartInv, Receive
  PROVE  /\ hw # <<>> /\ queued # <<>>
         /\ UNCHANGED <<running, tx, call, arrived, read, out, before>>
         /\ \E ok, refused \in BOOLEAN : ReceiveEffect(ok, refused)
<1>1. /\ hw # <<>> /\ queued # <<>>
      /\ slot' = [slot EXCEPT ![Head(queued)] = Head(hw)] /\ hw' = Tail(hw)
      /\ UNCHANGED <<running, tx, call, arrived, read, out, before>>
  BY DEF Receive, RxCallback
<1>2. Head(queued) \in Slots /\ slot'[Head(queued)] = Head(hw)
  BY <1>1, HeadTail DEF UartInv, TypeOK
<1>3. stats \in [Counters -> Nat] /\ refusals \in 0..MaxRefusals /\ MaxRefusals \in Nat
  BY UartAssumption DEF UartInv, TypeOK
<1>4. PICK ok \in BOOLEAN : RxCallback(Head(queued), ok)
  BY DEF Receive
<1> DEFINE fits == Len(ring) < RingSize - 1
           counter == IF ~ok THEN "errors" ELSE IF fits THEN "rxBytes" ELSE "overruns"
<1>5. PICK refused \in BOOLEAN :
        /\ ring' = IF ok /\ fits THEN Append(ring, Landed(Head(queued))) ELSE ring
        /\ IF Requeues
           THEN IF refused
                THEN /\ Refused /\ queued' = Tail(queued)
                     /\ missing' = missing \cup {SlotOf(Head(queued))}
                ELSE /\ Accepted /\ queued' = Append(Tail(queued), SlotOf(Head(queued)))
                     /\ UNCHANGED missing
           ELSE ~refused /\ Accepted /\ queued' = Tail(queued) /\ UNCHANGED missing
        /\ stats' = [c \in Counters |->
                       stats[c] + (IF c = counter THEN 1 ELSE 0)
                                + (IF c = "errors" /\ refused THEN 1 ELSE 0)]
  BY <1>4 DEF RxCallback
<1>6. stats' \in [Counters -> Nat]
  BY <1>3, <1>5
<1>7. stats'["rxBytes"] = stats["rxBytes"] + (IF ok /\ fits THEN 1 ELSE 0)
  BY <1>3, <1>5 DEF Counters
<1>8. refusals' \in 0..MaxRefusals
  BY <1>3, <1>5 DEF Refused, Accepted
<1>9. ReceiveEffect(ok, refused)
  BY <1>1, <1>2, <1>5, <1>6, <1>7, <1>8 DEF ReceiveEffect, Landed, SlotOf, Requeues
<1> QED BY <1>1, <1>9

\* A completion in mid-call keeps the invariant, whatever the loop is doing.
LEMMA ReceiveStep ==
  ASSUME UartInv, Receive
  PROVE  UartInv'
<1>1. /\ hw # <<>> /\ queued # <<>>
      /\ UNCHANGED <<running, tx, call, arrived, read, out, before>>
  BY ReceiveDoes
<1>2. PICK ok \in BOOLEAN, refused \in BOOLEAN : ReceiveEffect(ok, refused)
  BY ReceiveDoes
<1> DEFINE s == Head(queued)
           b == Head(hw)
           stored == ok /\ Len(ring) < RingSize - 1
<1>3. /\ slot' = [slot EXCEPT ![s] = b] /\ hw' = Tail(hw)
      /\ ring' = IF stored THEN Append(ring, b) ELSE ring
      /\ queued' = IF running /\ ~refused THEN Append(Tail(queued), s) ELSE Tail(queued)
      /\ missing' = IF running /\ refused THEN missing \cup {s} ELSE missing
      /\ stats' \in [Counters -> Nat] /\ refusals' \in 0..MaxRefusals
      /\ stats'["rxBytes"] = stats["rxBytes"] + (IF stored THEN 1 ELSE 0)
  BY <1>2 DEF ReceiveEffect
<1>4. /\ queued \in Seq(Slots) /\ hw \in Seq(1..MaxBytes) /\ ring \in Seq(1..MaxBytes)
      /\ RingSize \in Nat \ {0, 1} /\ MaxBytes \in Nat /\ HwDepth \in Nat
      /\ slot \in [Slots -> 0..MaxBytes] /\ Apart(queued) /\ missing \subseteq Slots
  BY UartAssumption DEF UartInv, TypeOK, SlotInv
<1>5. /\ s \in Slots /\ s \in ToSet(queued) /\ Tail(queued) \in Seq(Slots)
      /\ Apart(Tail(queued)) /\ ToSet(Tail(queued)) = ToSet(queued) \ {s}
  BY <1>1, <1>4, HeadTail, TailApart
<1>6. /\ b \in 1..MaxBytes /\ Tail(hw) \in Seq(1..MaxBytes) /\ Len(hw) \in Nat \ {0}
      /\ Len(Tail(hw)) = Len(hw) - 1 /\ b = hw[1]
  BY <1>1, <1>4, HeadTail
<1>7. /\ Append(ring, b) \in Seq(1..MaxBytes) /\ Len(ring) \in Nat
      /\ Len(Append(ring, b)) = Len(ring) + 1
      /\ \A i \in 1..Len(ring) : Append(ring, b)[i] = ring[i]
      /\ Append(ring, b)[Len(ring) + 1] = b
  BY <1>4, <1>6, Appended
<1>8. /\ Apart(Append(Tail(queued), s)) /\ Append(Tail(queued), s) \in Seq(Slots)
      /\ ToSet(Append(Tail(queued), s)) = ToSet(queued)
  <2>1. s \notin ToSet(Tail(queued))
    BY <1>5
  <2>2. /\ Apart(Append(Tail(queued), s)) /\ Append(Tail(queued), s) \in Seq(Slots)
        /\ ToSet(Append(Tail(queued), s)) = ToSet(Tail(queued)) \cup {s}
    <3>1. PICK rest \in Seq(Slots) : rest = Tail(queued)
      BY <1>5
    <3>2. Apart(rest) /\ s \in Slots /\ s \notin ToSet(rest)
      BY <1>5, <2>1, <3>1
    <3> HIDE DEF s
    <3>3. /\ Apart(Append(rest, s)) /\ Append(rest, s) \in Seq(Slots)
          /\ ToSet(Append(rest, s)) = ToSet(rest) \cup {s}
      BY <3>2, AppendApart
    <3> QED BY <3>1, <3>3
  <2> QED BY <1>5, <2>2
<1> HIDE DEF s, b, stored
<1>9. TypeOK'
  <2>1. /\ queued' \in Seq(Slots) /\ missing' \subseteq Slots /\ slot' \in [Slots -> 0..MaxBytes]
    BY <1>3, <1>4, <1>5, <1>6, <1>8
  <2>2. ring' \in Seq(1..MaxBytes) /\ Len(ring') < RingSize
    <3>1. CASE stored
      <4>1. ring' = Append(ring, b) /\ Len(ring) < RingSize - 1
        BY <1>3, <3>1 DEF stored
      <4> QED BY <1>4, <1>7, <4>1
    <3>2. CASE ~stored
      BY <1>3, <1>4, <3>2 DEF UartInv, TypeOK
    <3> QED BY <3>1, <3>2
  <2>3. hw' \in Seq(1..MaxBytes) /\ Len(hw') <= HwDepth
    BY <1>3, <1>4, <1>6 DEF UartInv, TypeOK
  <2> QED BY <1>1, <1>3, <2>1, <2>2, <2>3 DEF UartInv, TypeOK, tx
<1>10. SlotInv'
  <2>1. Apart(queued')
    BY <1>3, <1>5, <1>8
  <2>2. running' = running /\ call' = call
    BY <1>1
  <2>3. running => ToSet(queued') = (IF refused THEN ToSet(queued) \ {s} ELSE ToSet(queued))
    BY <1>3, <1>5, <1>8
  <2>4. call # "QUEUE_0"
    BY <1>1 DEF UartInv, SlotInv
  <2>5. ~running => call \in Aborting
    BY <1>1 DEF UartInv, SlotInv
  <2>6. call = "QUEUE_1" => ToSet(queued') = {0} \ missing' /\ 1 \notin missing'
    <3> SUFFICES ASSUME call = "QUEUE_1" PROVE ToSet(queued') = {0} \ missing' /\ 1 \notin missing'
      OBVIOUS
    <3>1. running /\ ToSet(queued) = {0} \ missing /\ 1 \notin missing
      BY <2>5 DEF UartInv, SlotInv, Aborting
    <3>2. s = 0
      BY <1>5, <3>1
    <3> QED BY <1>3, <2>3, <3>1, <3>2
  <2>7. running /\ call \notin Queueing => ToSet(queued') = Slots \ missing'
    <3> SUFFICES ASSUME running, call \notin Queueing PROVE ToSet(queued') = Slots \ missing'
      OBVIOUS
    <3>1. ToSet(queued) = Slots \ missing
      BY DEF UartInv, SlotInv
    <3> QED BY <1>3, <2>3, <3>1
  <2>8. running => call \notin Aborting \cup {"START"}
    BY DEF UartInv, SlotInv
  <2> QED BY <2>1, <2>2, <2>4, <2>5, <2>6, <2>7, <2>8 DEF SlotInv, Queueing, Aborting
<1>11. OrderInv'
  <2>0. /\ DOMAIN ring = 1..Len(ring) /\ DOMAIN hw = 1..Len(hw) /\ hw' = Tail(hw)
        /\ DOMAIN hw' = 1..(Len(hw) - 1)
        /\ \A i \in 1..(Len(hw) - 1) : hw'[i] = hw[i + 1]
        /\ ring \in Seq(Nat) /\ hw \in Seq(Nat) /\ arrived \in Nat /\ read \in Nat
    <3>1. ring \in Seq(Nat) /\ hw \in Seq(Nat)
      BY <1>4
    <3>2. arrived \in Nat /\ read \in Nat
      BY <1>4 DEF UartInv, TypeOK
    <3>3. \A i \in 1..(Len(hw) - 1) : Tail(hw)[i] = hw[i + 1]
      BY <1>1, <1>4, <1>6, HeadTail
    <3>4. DOMAIN Tail(hw) = 1..(Len(hw) - 1) /\ DOMAIN ring = 1..Len(ring) /\ DOMAIN hw = 1..Len(hw)
      BY <1>4, <1>6
    <3> QED BY <1>3, <3>1, <3>2, <3>3, <3>4
  <2>1. /\ Rising(ring) /\ Rising(hw)
        /\ \A i \in DOMAIN ring, j \in DOMAIN hw : ring[i] < hw[j]
        /\ \A i \in DOMAIN ring : read < ring[i] /\ ring[i] <= arrived
        /\ \A i \in DOMAIN hw : read < hw[i] /\ hw[i] <= arrived
        /\ read <= arrived
    BY DEF UartInv, OrderInv
  <2>2. Rising(hw') /\ \A j \in DOMAIN hw' : b < hw'[j]
    BY <1>1, <2>0, <2>1, TailRising DEF b
  <2>3. 1 \in DOMAIN hw /\ \A j \in DOMAIN hw' : j + 1 \in DOMAIN hw
    BY <1>6, <2>0
  <2>4. /\ \A i \in DOMAIN ring : ring[i] < b
        /\ read < b /\ b <= arrived
        /\ \A j \in DOMAIN hw' : read < hw'[j] /\ hw'[j] <= arrived
        /\ \A i \in DOMAIN ring, j \in DOMAIN hw' : ring[i] < hw'[j]
    BY <1>6, <2>0, <2>1, <2>3
  <2>5. Rising(ring')
    <3>1. b \in Nat
      BY <1>4, <1>6
    <3>2. Rising(Append(ring, b))
      BY <2>0, <2>1, <2>4, <3>1, AppendRising
    <3> QED BY <1>3, <2>1, <3>2
  <2>6. \A i \in DOMAIN ring' : ring'[i] = b \/ (i \in DOMAIN ring /\ ring'[i] = ring[i])
    <3>1. CASE stored
      <4>1. DOMAIN ring' = 1..(Len(ring) + 1)
        BY <1>3, <1>7, <3>1
      <4> QED BY <1>3, <1>7, <2>0, <3>1, <4>1
    <3>2. CASE ~stored
      BY <1>3, <3>2
    <3> QED BY <3>1, <3>2
  <2>7. arrived' = arrived /\ read' = read
    BY <1>1
  <2> QED BY <2>1, <2>2, <2>4, <2>5, <2>6, <2>7 DEF OrderInv
<1>12. CountInv'
  <2>1. Len(ring') = Len(ring) + (IF stored THEN 1 ELSE 0) /\ Len(hw') = Len(hw) - 1
    BY <1>3, <1>6, <1>7
  <2>2. stats["rxBytes"] \in Nat /\ out \in Nat /\ arrived \in Nat /\ before \in Nat
    BY <1>4 DEF UartInv, TypeOK, Counters
  <2>3. out' = out /\ before' = before /\ arrived' = arrived
    BY <1>1
  <2>4. /\ stats["rxBytes"] + before = out + Len(ring)
        /\ out + Len(ring) + Len(hw) <= arrived
    BY DEF UartInv, CountInv
  <2>5. stats'["rxBytes"] = stats["rxBytes"] + (IF stored THEN 1 ELSE 0)
    BY <1>3
  <2> HIDE DEF stored
  <2> QED BY <1>6, <1>7, <2>1, <2>2, <2>3, <2>4, <2>5 DEF CountInv
<1>13. BufferInv'
  BY <1>1 DEF UartInv, BufferInv, tx
<1> QED BY <1>9, <1>10, <1>11, <1>12, <1>13 DEF UartInv

(***************************************************************************)
(* The other steps.                                                        *)
(***************************************************************************)
\* A byte that arrives is the last one so far.
LEMMA ArriveStep ==
  ASSUME UartInv, Arrive
  PROVE  UartInv'
<1>1. /\ arrived < MaxBytes /\ arrived' = arrived + 1
      /\ hw' = IF Len(hw) < HwDepth THEN Append(hw, arrived') ELSE hw
      /\ UNCHANGED <<running, queued, slot, ring, tx, stats, call, refusals, hist>>
  BY DEF Arrive
<1>2. /\ hw \in Seq(1..MaxBytes) /\ hw \in Seq(Nat) /\ MaxBytes \in Nat /\ HwDepth \in Nat
      /\ arrived \in Nat /\ arrived' \in 1..MaxBytes /\ Len(hw) \in Nat /\ Len(hw) <= HwDepth
      /\ out \in Nat /\ Len(ring) \in Nat /\ read \in Nat /\ ring \in Seq(1..MaxBytes)
  <2>1. /\ hw \in Seq(1..MaxBytes) /\ MaxBytes \in Nat /\ HwDepth \in Nat
        /\ arrived \in 0..MaxBytes /\ Len(hw) <= HwDepth /\ out \in 0..MaxBytes
        /\ ring \in Seq(1..MaxBytes) /\ read \in 0..MaxBytes
    BY UartAssumption DEF UartInv, TypeOK
  <2>2. hw \in Seq(Nat)
    BY <2>1, NumbersOnly
  <2>3. arrived \in Nat /\ arrived' \in 1..MaxBytes /\ out \in Nat /\ read \in Nat
    BY <1>1, <2>1
  <2>4. Len(hw) \in Nat /\ Len(ring) \in Nat
    BY <2>1
  <2> QED BY <2>1, <2>2, <2>3, <2>4
<1>3. /\ Append(hw, arrived') \in Seq(1..MaxBytes)
      /\ Len(Append(hw, arrived')) = Len(hw) + 1
      /\ \A i \in 1..Len(hw) : Append(hw, arrived')[i] = hw[i]
      /\ Append(hw, arrived')[Len(hw) + 1] = arrived'
  BY <1>2, Appended
<1>4. TypeOK'
  <2>1. hw' \in Seq(1..MaxBytes) /\ Len(hw') <= HwDepth
    <3>1. CASE Len(hw) < HwDepth
      <4>1. hw' = Append(hw, arrived')
        BY <1>1, <3>1
      <4>2. Len(hw') = Len(hw) + 1 /\ hw' \in Seq(1..MaxBytes)
        BY <1>3, <4>1
      <4>3. Len(hw) \in Nat /\ HwDepth \in Nat
        BY <1>2
      <4> QED BY <3>1, <4>2, <4>3
    <3>2. CASE ~(Len(hw) < HwDepth)
      BY <1>1, <1>2, <3>2
    <3> QED BY <3>1, <3>2
  <2>2. arrived' \in 0..MaxBytes
    BY <1>2
  <2> QED BY <1>1, <2>1, <2>2 DEF UartInv, TypeOK, tx, hist
<1>5. SlotInv' /\ BufferInv'
  BY <1>1 DEF UartInv, SlotInv, BufferInv, tx, hist
<1>6. OrderInv'
  <2>1. /\ Rising(ring) /\ Rising(hw)
        /\ \A i \in DOMAIN ring, j \in DOMAIN hw : ring[i] < hw[j]
        /\ \A i \in DOMAIN ring : read < ring[i] /\ ring[i] <= arrived
        /\ \A i \in DOMAIN hw : read < hw[i] /\ hw[i] <= arrived
        /\ read <= arrived
    BY DEF UartInv, OrderInv
  <2>2. /\ \A i \in DOMAIN ring : ring[i] \in Nat /\ ring[i] < arrived'
        /\ \A i \in DOMAIN hw : hw[i] \in Nat /\ hw[i] < arrived'
        /\ read < arrived' /\ arrived' \in Nat
    <3>1. /\ arrived \in Nat /\ read \in Nat /\ arrived' = arrived + 1
          /\ DOMAIN ring = 1..Len(ring) /\ DOMAIN hw = 1..Len(hw)
      BY <1>1, <1>2
    <3>2. /\ \A i \in DOMAIN ring : ring[i] \in 1..MaxBytes
          /\ \A i \in DOMAIN hw : hw[i] \in 1..MaxBytes
      BY <1>2
    <3>3. MaxBytes \in Nat
      BY <1>2
    <3> QED BY <2>1, <3>1, <3>2, <3>3
  <2>3. Rising(hw')
    <3>1. Rising(Append(hw, arrived'))
      BY <1>2, <2>1, <2>2, AppendRising
    <3> QED BY <1>1, <2>1, <3>1
  <2>4. \A i \in DOMAIN hw' : hw'[i] = arrived' \/ (i \in DOMAIN hw /\ hw'[i] = hw[i])
    <3>1. CASE Len(hw) < HwDepth
      <4>1. DOMAIN hw' = 1..(Len(hw) + 1) /\ DOMAIN hw = 1..Len(hw)
        BY <1>1, <1>2, <1>3, <3>1
      <4> QED BY <1>1, <1>2, <1>3, <3>1, <4>1
    <3>2. CASE ~(Len(hw) < HwDepth)
      BY <1>1, <3>2
    <3> QED BY <3>1, <3>2
  <2>5. ring' = ring /\ read' = read
    BY <1>1 DEF hist
  <2> QED BY <1>1, <1>2, <2>1, <2>2, <2>3, <2>4, <2>5 DEF OrderInv
<1>7. CountInv'
  <2>1. Len(hw') <= Len(hw) + 1 /\ Len(hw') \in Nat
    BY <1>1, <1>2, <1>3
  <2>2. stats' = stats /\ before' = before /\ out' = out /\ ring' = ring
    BY <1>1 DEF hist
  <2>3. /\ stats["rxBytes"] + before = out + Len(ring)
        /\ out + Len(ring) + Len(hw) <= arrived
    BY DEF UartInv, CountInv
  <2> HIDE DEF hist
  <2>4. out + Len(ring) + Len(hw') <= arrived'
    <3>1. arrived' = arrived + 1
      BY <1>1
    <3>2. out \in Nat /\ Len(ring) \in Nat /\ Len(hw) \in Nat /\ arrived \in Nat
      BY <1>2
    <3> QED BY <2>1, <2>3, <3>1, <3>2
  <2> QED BY <2>2, <2>3, <2>4 DEF CountInv
<1> QED BY <1>4, <1>5, <1>6, <1>7 DEF UartInv

\* The transmitter's steps touch nothing of the receiver's.
LEMMA TransmitterStep ==
  ASSUME UartInv, Sent \/ Claim \/ Fill \/ Transmit \/ CountSent
  PROVE  UartInv'
<1>1. /\ UNCHANGED rx /\ UNCHANGED hist
      /\ stats' = stats \/ stats' = [stats EXCEPT !["txBytes"] = @ + 1]
      /\ call' = call \/ (call \notin Queueing \cup Aborting \cup {"START"}
                          /\ call' \in {"IDLE", "FILL", "TRANSMIT", "COUNT"})
  BY DEF Sent, Claim, Fill, Transmit, CountSent, rx, tx, hist, Queueing, Aborting
<1>2. stats' \in [Counters -> Nat] /\ stats'["rxBytes"] = stats["rxBytes"]
  BY <1>1 DEF UartInv, TypeOK, Counters
<1>3. TypeOK'
  <2>1. txBusy' \in BOOLEAN /\ call' \in Calls
    BY DEF UartInv, TypeOK, Calls, Sent, Claim, Fill, Transmit, CountSent, tx
  <2>2. txBuf' \in 0..MaxWrites /\ sending' \in 0..MaxWrites /\ refusals' \in 0..MaxRefusals
    BY UartAssumption DEF UartInv, TypeOK, BufferInv, Sent, Claim, Fill, Transmit, CountSent,
       tx, Refused, Accepted
  <2> QED BY <1>1, <1>2, <2>1, <2>2 DEF UartInv, TypeOK, rx, hist
<1>4. SlotInv'
  BY <1>1 DEF UartInv, SlotInv, rx, hist, Queueing, Aborting
<1>5. OrderInv' /\ CountInv'
  BY <1>1, <1>2 DEF UartInv, OrderInv, CountInv, rx, hist
<1>6. BufferInv'
  BY DEF UartInv, BufferInv, Sent, Claim, Fill, Transmit, CountSent, tx
<1> QED BY <1>3, <1>4, <1>5, <1>6 DEF UartInv

\* Stopping the receiver, and what an abort drains.
LEMMA StopStep ==
  ASSUME UartInv, Abort \/ GiveUp \/ \E then \in {"DEINIT", "INIT"} : DeinitStarts(then)
  PROVE  UartInv'
<1>1. CASE \E then \in {"DEINIT", "INIT"} : DeinitStarts(then)
  <2>1. /\ running' = FALSE /\ call' \in {"INIT_ABORT", "DEINIT_ABORT"}
        /\ UNCHANGED <<queued, slot, ring, hw, arrived, tx, stats, refusals, hist>>
    BY <1>1 DEF DeinitStarts
  <2>2. TypeOK' /\ BufferInv'
    BY <2>1 DEF UartInv, TypeOK, BufferInv, tx, hist, Calls
  <2>3. SlotInv' /\ OrderInv' /\ CountInv'
    BY <2>1 DEF UartInv, SlotInv, OrderInv, CountInv, hist, Aborting, Queueing
  <2> QED BY <2>2, <2>3 DEF UartInv
<1>2. CASE Abort \/ GiveUp
  <2>1. /\ ~running /\ running' = running /\ queued' = <<>>
        /\ UNCHANGED <<slot, ring, hw, arrived, txBuf, refusals, hist>>
        /\ call' \in {"START", "IDLE"} /\ (call' = "START" => sending' = 0)
        /\ stats' = [stats EXCEPT !["errors"] = @ + Len(queued)]
        /\ \/ sending' = 0 /\ txBusy' = FALSE
           \/ call' = "IDLE" /\ sending' = sending /\ txBusy' = txBusy
    BY <1>2 DEF Abort, GiveUp, AbortReceive, Requeues, UartInv, SlotInv, Aborting, tx
  <2>2. stats' \in [Counters -> Nat] /\ stats'["rxBytes"] = stats["rxBytes"]
    <3>1. stats \in [Counters -> Nat] /\ queued \in Seq(Slots)
      BY DEF UartInv, TypeOK
    <3>2. Len(queued) \in Nat
      BY <3>1
    <3> QED BY <2>1, <3>1, <3>2 DEF Counters
  <2>3. TypeOK'
    <3>0. sending \in 0..MaxWrites /\ txBusy \in BOOLEAN /\ 0 \in 0..MaxWrites
      BY UartAssumption DEF UartInv, TypeOK
    <3>1. sending' \in 0..MaxWrites /\ txBusy' \in BOOLEAN
      BY <2>1, <3>0
    <3> QED BY <2>1, <2>2, <3>1 DEF UartInv, TypeOK, Calls, hist
  <2>4. SlotInv'
    BY <2>1 DEF SlotInv, Apart, Aborting, Queueing
  <2>5. OrderInv' /\ CountInv'
    BY <2>1, <2>2 DEF UartInv, OrderInv, CountInv, hist
  <2>6. BufferInv'
    BY <2>1 DEF UartInv, BufferInv
  <2> QED BY <2>3, <2>4, <2>5, <2>6 DEF UartInv
<1> QED BY <1>1, <1>2

\* Starting it: the ring is reset, then each slot is queued.
LEMMA StartStep ==
  ASSUME UartInv, Start
  PROVE  UartInv'
<1>1. /\ call = "START" /\ ring' = <<>> /\ stats' = Zero /\ txBusy' = FALSE
      /\ running' = TRUE /\ call' = "QUEUE_0" /\ missing' = {} /\ out' = 0 /\ before' = 0
      /\ UNCHANGED <<queued, slot, hw, arrived, txBuf, sending, refusals, read>>
  BY DEF Start
<1>2. queued = <<>> /\ sending = 0
  BY <1>1 DEF UartInv, SlotInv, BufferInv, Aborting
<1>3. TypeOK'
  <2>1. /\ RingSize \in Nat \ {0, 1} /\ MaxBytes \in Nat
        /\ ring' \in Seq(1..MaxBytes) /\ Len(ring') = 0
    BY <1>1, UartAssumption
  <2>2. out' \in 0..MaxBytes /\ before' \in 0..(RingSize - 1)
    BY <1>1, <2>1
  <2>3. stats' \in [Counters -> Nat]
    BY <1>1 DEF Zero
  <2>4. Len(ring') < RingSize
    BY <2>1
  <2> QED BY <1>1, <2>1, <2>2, <2>3, <2>4 DEF UartInv, TypeOK, Calls
<1>4. SlotInv'
  BY <1>1, <1>2 DEF SlotInv, Apart, Aborting, Queueing
<1>5. OrderInv'
  BY <1>1 DEF UartInv, OrderInv, Rising
<1>6. CountInv'
  <2>1. stats'["rxBytes"] = 0 /\ Len(ring') = 0 /\ hw' = hw /\ arrived' = arrived
    BY <1>1 DEF Zero, Counters
  <2>2. /\ out \in 0..MaxBytes /\ ring \in Seq(1..MaxBytes) /\ hw \in Seq(1..MaxBytes)
        /\ arrived \in 0..MaxBytes /\ MaxBytes \in Nat
    BY UartAssumption DEF UartInv, TypeOK
  <2>3. out \in Nat /\ Len(ring) \in Nat /\ Len(hw) \in Nat /\ arrived \in Nat
    BY <2>2
  <2>4. out + Len(ring) + Len(hw) <= arrived
    BY DEF UartInv, CountInv
  <2>5. Len(hw) <= arrived
    BY <2>3, <2>4
  <2> QED BY <1>1, <2>1, <2>3, <2>5 DEF CountInv
<1>7. BufferInv'
  BY <1>1, <1>2 DEF BufferInv
<1> QED BY <1>3, <1>4, <1>5, <1>6, <1>7 DEF UartInv

\* Queueing the two slots, either of which UARTDRV may refuse.
LEMMA QueueStep ==
  ASSUME UartInv, NEW s \in Slots, QueueSlot(s)
  PROVE  UartInv'
<1>1. /\ call = (IF s = 0 THEN "QUEUE_0" ELSE "QUEUE_1")
      /\ UNCHANGED <<slot, ring, hw, arrived, tx, stats, hist>>
      /\ \/ /\ refusals' = refusals /\ queued' = Append(queued, s)
            /\ call' = (IF s = 0 THEN "QUEUE_1" ELSE "IDLE") /\ running' = running
         \/ /\ refusals < MaxRefusals /\ refusals' = refusals + 1
            /\ running' = FALSE /\ call' = "GIVE_UP" /\ queued' = queued
  BY DEF QueueSlot, Accepted, Refused
<1>2. /\ running /\ queued \in Seq(Slots) /\ Apart(queued) /\ s \in {0, 1}
      /\ s = 0 => queued = <<>> /\ missing = {}
      /\ s = 1 => ToSet(queued) = {0} \ missing /\ 1 \notin missing
  BY <1>1 DEF UartInv, TypeOK, SlotInv, Slots, Queueing
<1>3. s \notin ToSet(queued)
  BY <1>2 DEF ToSet
<1>4. /\ Apart(Append(queued, s)) /\ Append(queued, s) \in Seq(Slots)
      /\ ToSet(Append(queued, s)) = ToSet(queued) \cup {s}
  BY <1>2, <1>3, AppendApart
<1>5. ToSet(<<>>) = {}
  BY DEF ToSet
<1>6. TypeOK'
  <2>1. refusals' \in 0..MaxRefusals
    BY <1>1, UartAssumption DEF UartInv, TypeOK
  <2>2. queued' \in Seq(Slots) /\ call' \in Calls /\ running' \in BOOLEAN
    BY <1>1, <1>2, <1>4 DEF Calls
  <2> QED BY <1>1, <2>1, <2>2 DEF UartInv, TypeOK, tx, hist
<1>7. SlotInv'
  <2>1. missing' = missing
    BY <1>1 DEF hist
  <2>2. CASE call' = "GIVE_UP"
    BY <1>1, <1>2, <2>2 DEF SlotInv, Aborting, Queueing
  <2>3. CASE s = 0 /\ call' = "QUEUE_1"
    BY <1>1, <1>2, <1>4, <1>5, <2>1, <2>3 DEF SlotInv, Aborting, Queueing
  <2>4. CASE s = 1 /\ call' = "IDLE"
    <3>1. ToSet(queued') = Slots \ missing'
      BY <1>1, <1>2, <1>4, <2>1, <2>4 DEF Slots
    <3> QED BY <1>1, <1>2, <1>4, <2>4, <3>1 DEF SlotInv, Aborting, Queueing
  <2> QED BY <1>1, <1>2, <2>2, <2>3, <2>4
<1>8. OrderInv' /\ CountInv'
  BY <1>1 DEF UartInv, OrderInv, CountInv, hist
<1>9. BufferInv'
  BY <1>1 DEF UartInv, BufferInv, tx
<1> QED BY <1>6, <1>7, <1>8, <1>9 DEF UartInv

\* What the loop takes out of the ring is the oldest byte, or all of them.
LEMMA TakeStep ==
  ASSUME UartInv, Read \/ Flush \/ ClearStats
  PROVE  UartInv'
<1>1. /\ UNCHANGED <<running, queued, slot, hw, arrived, tx, call, refusals, missing>>
      /\ call = "IDLE"
  BY DEF Read, Flush, ClearStats, rx
<1>2. /\ ring \in Seq(1..MaxBytes) /\ MaxBytes \in Nat /\ hw \in Seq(1..MaxBytes)
      /\ out \in 0..MaxBytes /\ arrived \in 0..MaxBytes /\ read \in 0..MaxBytes
      /\ before \in 0..(RingSize - 1) /\ Len(ring) < RingSize /\ RingSize \in Nat
      /\ stats \in [Counters -> Nat]
  BY UartAssumption DEF UartInv, TypeOK
<1>3. /\ Len(ring) \in Nat /\ Len(hw) \in Nat /\ out \in Nat /\ arrived \in Nat
      /\ before \in Nat /\ stats["rxBytes"] \in Nat /\ ring \in Seq(Nat)
      /\ DOMAIN ring = 1..Len(ring)
  <2>1. ring \in Seq(Nat)
    BY <1>2, NumbersOnly
  <2>2. stats["rxBytes"] \in Nat
    BY <1>2 DEF Counters
  <2>3. out \in Nat /\ arrived \in Nat /\ before \in Nat
    BY <1>2
  <2>4. Len(ring) \in Nat /\ Len(hw) \in Nat /\ DOMAIN ring = 1..Len(ring)
    BY <1>2
  <2> QED BY <2>1, <2>2, <2>3, <2>4
<1>4. /\ stats["rxBytes"] + before = out + Len(ring)
      /\ out + Len(ring) + Len(hw) <= arrived
  BY DEF UartInv, CountInv
<1>5. /\ Rising(ring) /\ Rising(hw)
      /\ \A i \in DOMAIN ring, j \in DOMAIN hw : ring[i] < hw[j]
      /\ \A i \in DOMAIN ring : read < ring[i] /\ ring[i] <= arrived
      /\ \A i \in DOMAIN hw : read < hw[i] /\ hw[i] <= arrived
      /\ read <= arrived
  BY DEF UartInv, OrderInv
<1>6. SlotInv' /\ BufferInv'
  BY <1>1 DEF UartInv, SlotInv, BufferInv, tx
<1>7. CASE Read
  <2>1. /\ ring # <<>> /\ read' = Head(ring) /\ ring' = Tail(ring) /\ out' = out + 1
        /\ stats' = stats /\ before' = before
    BY <1>7 DEF Read
  <2>2. /\ Head(ring) \in 1..MaxBytes /\ Tail(ring) \in Seq(1..MaxBytes)
        /\ Len(ring) \in Nat \ {0} /\ Head(ring) = ring[1] /\ Len(ring') = Len(ring) - 1
        /\ \A i \in 1..Len(ring') : ring'[i] = ring[i + 1]
    BY <1>2, <2>1, HeadTail
  <2>3. DOMAIN ring' = 1..(Len(ring) - 1) /\ 1 \in DOMAIN ring
    BY <1>3, <2>1, <2>2
  <2>4. \A i \in DOMAIN ring' : i + 1 \in DOMAIN ring /\ ring'[i] = ring[i + 1]
    BY <1>3, <2>2, <2>3
  <2>5. Rising(ring') /\ \A i \in DOMAIN ring' : read' < ring'[i]
    BY <1>3, <1>5, <2>1, TailRising
  <2>6. OrderInv'
    BY <1>1, <1>5, <2>1, <2>2, <2>3, <2>4, <2>5 DEF OrderInv
  <2>7. CountInv'
    BY <1>1, <1>3, <1>4, <2>1, <2>2 DEF CountInv
  <2>8. TypeOK'
    <3>1. out' \in 0..MaxBytes /\ Len(ring') < RingSize
      BY <1>2, <1>3, <1>4, <2>1, <2>2
    <3>2. ring' \in Seq(1..MaxBytes) /\ read' \in 0..MaxBytes
      BY <1>2, <2>1, <2>2
    <3> QED BY <1>1, <2>1, <3>1, <3>2 DEF UartInv, TypeOK, tx
  <2> QED BY <1>6, <2>6, <2>7, <2>8 DEF UartInv
<1>8. CASE Flush
  <2>1. ring' = <<>> /\ out' = out + Len(ring) /\ stats' = stats /\ before' = before /\ read' = read
    BY <1>8 DEF Flush
  <2>2. Len(ring') = 0 /\ ring' \in Seq(1..MaxBytes)
    BY <2>1
  <2>3. OrderInv'
    BY <1>1, <1>5, <2>1 DEF OrderInv, Rising
  <2>4. CountInv'
    BY <1>1, <1>3, <1>4, <2>1, <2>2 DEF CountInv
  <2>5. TypeOK'
    <3>1. out' \in 0..MaxBytes /\ Len(ring') < RingSize
      BY <1>2, <1>3, <1>4, <2>1, <2>2
    <3> QED BY <1>1, <2>1, <2>2, <3>1 DEF UartInv, TypeOK, tx
  <2> QED BY <1>6, <2>3, <2>4, <2>5 DEF UartInv
<1>9. CASE ClearStats
  <2>1. ring' = ring /\ out' = 0 /\ stats' = Zero /\ before' = Len(ring) /\ read' = read
    BY <1>9 DEF ClearStats, rx
  <2>2. stats' \in [Counters -> Nat] /\ stats'["rxBytes"] = 0
    BY <2>1 DEF Zero, Counters
  <2>3. OrderInv'
    BY <1>1, <1>5, <2>1 DEF OrderInv
  <2>4. CountInv'
    BY <1>1, <1>3, <1>4, <2>1, <2>2 DEF CountInv
  <2>5. TypeOK'
    <3>1. out' \in 0..MaxBytes /\ before' \in 0..(RingSize - 1)
      BY <1>2, <1>3, <2>1
    <3> QED BY <1>1, <2>1, <2>2, <3>1 DEF UartInv, TypeOK, tx
  <2> QED BY <1>6, <2>3, <2>4, <2>5 DEF UartInv
<1> QED BY <1>7, <1>8, <1>9

(***************************************************************************)
(* The theorems.                                                           *)
(***************************************************************************)
\* The invariant holds initially and every step of the interrupt, the line and
\* the loop keeps it.
THEOREM Invariance == Spec => []UartInv
<1>1. ASSUME UartInv, [Next]_vars
      PROVE  UartInv'
  <2>1. CASE Receive
    BY <1>1, <2>1, ReceiveStep
  <2>2. CASE Sent \/ Claim \/ Fill \/ Transmit \/ CountSent
    BY <1>1, <2>2, TransmitterStep
  <2>3. CASE Arrive
    BY <1>1, <2>3, ArriveStep
  <2>4. CASE Abort \/ GiveUp \/ \E then \in {"DEINIT", "INIT"} : DeinitStarts(then)
    BY <1>1, <2>4, StopStep
  <2>5. CASE Start
    BY <1>1, <2>5, StartStep
  <2>6. CASE \E s \in Slots : QueueSlot(s)
    BY <1>1, <2>6, QueueStep
  <2>7. CASE Read \/ Flush \/ ClearStats
    BY <1>1, <2>7, TakeStep
  <2>8. CASE UNCHANGED vars
    <3>1. UNCHANGED <<running, queued, slot, ring, hw, arrived, txBusy, txBuf, sending,
                      stats, call, refusals, missing, read, out, before>>
      BY <2>8 DEF vars, rx, tx, hist
    <3>2. TypeOK' /\ SlotInv'
      BY <1>1, <3>1 DEF UartInv, TypeOK, SlotInv
    <3>3. OrderInv' /\ CountInv' /\ BufferInv'
      BY <1>1, <3>1 DEF UartInv, OrderInv, CountInv, BufferInv
    <3> QED BY <3>2, <3>3 DEF UartInv
  <2> QED BY <1>1, <2>1, <2>2, <2>3, <2>4, <2>5, <2>6, <2>7, <2>8 DEF Next, Interrupt, Loop
<1> QED BY InitInv, <1>1, PTL DEF Spec

\* Whatever is refused, aborted or stopped, and wherever the interrupt falls, the
\* two slots are never queued twice, and a stopped receiver has none queued
\* (rx_callback(), xbee_uart_init() and xbee_uart_deinit()).
THEOREM SlotsStayApart == Spec => []SlotsApart
<1>1. UartInv => SlotsApart
  BY DEF UartInv, SlotInv, SlotsApart, Apart, Aborting, Queueing
<1> QED BY Invariance, <1>1, PTL

\* Bytes reach the loop in the order they arrived, and the interrupt's count of
\* them agrees with what the loop has taken and can still read.
THEOREM BytesInOrder == Spec => []InOrder
<1>1. UartInv => InOrder
  BY DEF UartInv, OrderInv, CountInv, Rising, InOrder
<1> QED BY Invariance, <1>1, PTL

\* No call writes the staging buffer, or takes it for free, while UARTDRV sends
\* from it (xbee_uart_write() and tx_callback()).
THEOREM BufferStaysOwned == Spec => BufferOwned
<1>1. ASSUME UartInv, [Next]_vars
      PROVE  [sending # 0 => txBusy /\ (sending' # 0 => txBuf' = txBuf)]_vars
  <2> SUFFICES ASSUME sending # 0, sending' # 0 PROVE txBusy /\ txBuf' = txBuf
    BY <1>1 DEF UartInv, BufferInv
  <2>1. txBusy /\ call # "FILL"
    BY <1>1 DEF UartInv, BufferInv
  <2> QED BY <1>1, <2>1 DEF Next, Interrupt, Loop, Receive, Sent, Arrive, DeinitStarts, Abort,
             Start, QueueSlot, GiveUp, Claim, Fill, Transmit, CountSent, Read, Flush,
             ClearStats, vars, rx, tx
<1> QED BY Invariance, <1>1, PTL DEF Spec, BufferOwned

(***************************************************************************)
(* The ring itself, ring_buffer.c.                                         *)
(***************************************************************************)

(***************************************************************************)
(* The arithmetic of masked indices, as case distinctions.                 *)
(***************************************************************************)
\* One wrap of an index.
LEMMA MaskedOnce ==
  ASSUME NEW i \in 0..(2 * Capacity - 1)
  PROVE  Masked(i) = IF i < Capacity THEN i ELSE i - Capacity
<1>1. Capacity \in Nat \ {0}
  BY RingAssumption
<1>2. ASSUME NEW C \in Nat \ {0}, NEW j \in 0..(2 * C - 1)
      PROVE  j % C = IF j < C THEN j ELSE j - C
  OBVIOUS
<1> QED BY <1>1, <1>2 DEF Masked

\* How many bytes lie between two indices.
LEMMA HeldIs ==
  ASSUME NEW h \in Places, NEW t \in Places
  PROVE  Held(h, t) = IF t <= h THEN h - t ELSE Capacity + h - t
<1>1. Capacity \in Nat \ {0} /\ Capacity + h - t \in 0..(2 * Capacity - 1)
  BY RingAssumption DEF Places
<1> QED BY <1>1, MaskedOnce DEF Held, Places

\* The k-th slot after t, and where it is seen from t.
LEMMA SlotAfter ==
  ASSUME NEW t \in Places, NEW k \in 0..(Capacity - 1)
  PROVE  /\ Masked(t + k) \in Places
         /\ Masked(t + k) = IF t + k < Capacity THEN t + k ELSE t + k - Capacity
         /\ Held(Masked(t + k), t) = k
<1>1. Capacity \in Nat \ {0} /\ t + k \in 0..(2 * Capacity - 1)
  BY RingAssumption DEF Places
<1>2. /\ Masked(t + k) \in Places
      /\ Masked(t + k) = IF t + k < Capacity THEN t + k ELSE t + k - Capacity
  BY <1>1, MaskedOnce DEF Places
<1> QED BY <1>1, <1>2, HeldIs DEF Places

\* The number of bytes held, and the index it leads back to.
LEMMA HeldType ==
  ASSUME NEW h \in Places, NEW t \in Places
  PROVE  /\ Held(h, t) \in 0..(Capacity - 1)
         /\ Masked(t + Held(h, t)) = h
         /\ Held(h, t) = 0 <=> h = t
<1>1. Capacity \in Nat \ {0}
  BY RingAssumption
<1>2. Held(h, t) \in 0..(Capacity - 1)
  BY <1>1, HeldIs DEF Places
<1>3. Held(h, t) = 0 <=> h = t
  BY <1>1, HeldIs DEF Places
<1>4. Masked(t + Held(h, t)) =
        IF t + Held(h, t) < Capacity THEN t + Held(h, t) ELSE t + Held(h, t) - Capacity
  BY <1>2, SlotAfter
<1>5. Masked(t + Held(h, t)) = h
  BY <1>1, <1>4, HeldIs DEF Places
<1> QED BY <1>2, <1>3, <1>5

\* One more byte, or one byte fewer, in between.
LEMMA HeldSteps ==
  ASSUME NEW h \in Places, NEW t \in Places
  PROVE  /\ Masked(h + 1) \in Places
         /\ Masked(h + 1) # t => Held(Masked(h + 1), t) = Held(h, t) + 1
         /\ Masked(h + 1) = t <=> Held(h, t) = Capacity - 1
<1>1. Capacity \in Nat \ {0, 1}
  BY RingAssumption
<1>2. /\ Masked(h + 1) \in Places
      /\ Masked(h + 1) = IF h + 1 < Capacity THEN h + 1 ELSE 0
  <2>1. h + 1 \in 0..(2 * Capacity - 1)
    BY <1>1 DEF Places
  <2> QED BY <1>1, <2>1, MaskedOnce DEF Places
<1>3. /\ Held(h, t) = IF t <= h THEN h - t ELSE Capacity + h - t
      /\ Held(Masked(h + 1), t) = IF t <= Masked(h + 1) THEN Masked(h + 1) - t
                                  ELSE Capacity + Masked(h + 1) - t
  BY <1>2, HeldIs
<1> QED BY <1>1, <1>2, <1>3 DEF Places

\* Different distances from one index are different slots.
LEMMA SlotsDiffer ==
  ASSUME NEW t \in Places, NEW j \in 0..(Capacity - 1), NEW k \in 0..(Capacity - 1),
         Masked(t + j) = Masked(t + k)
  PROVE  j = k
<1>1. Held(Masked(t + j), t) = j /\ Held(Masked(t + k), t) = k
  BY SlotAfter
<1> QED BY <1>1

\* What is left between the indices when the tail has moved on by n.
LEMMA HeldAdvanced ==
  ASSUME NEW h \in Places, NEW t \in Places, NEW n \in 0..(Capacity - 1), n <= Held(h, t)
  PROVE  Held(h, Masked(t + n)) = Held(h, t) - n
<1>1. Capacity \in Nat \ {0, 1}
  BY RingAssumption
<1>2. /\ Masked(t + n) \in Places
      /\ Masked(t + n) = IF t + n < Capacity THEN t + n ELSE t + n - Capacity
  BY SlotAfter
<1>3. /\ Held(h, t) = IF t <= h THEN h - t ELSE Capacity + h - t
      /\ Held(h, Masked(t + n)) = IF Masked(t + n) <= h THEN h - Masked(t + n)
                                  ELSE Capacity + h - Masked(t + n)
  BY <1>2, HeldIs
<1> QED BY <1>1, <1>2, <1>3 DEF Places

(***************************************************************************)
(* The inductive invariant.                                                *)
(***************************************************************************)
\* A push in progress has found room, and keeps it.
Reserved ==
  /\ producer # "IDLE" => next = Masked(head + 1) /\ next # tail
  /\ producer = "PUBLISH" => storage[head] = byte

\* What a consumer has sampled is still there.
Sampled == consumer # "IDLE" => Held(seen, tail) <= Held(head, tail)

\* A read in progress has copied what follows the tail, and no more than it saw.
Reading ==
  /\ consumer # "READ" => dst = <<>>
  /\ consumer = "READ" =>
       /\ limit # 0 /\ seen # tail
       /\ Len(dst) <= limit /\ Len(dst) <= Held(seen, tail)
       /\ at = Masked(tail + Len(dst))
       /\ \A k \in 1..Len(dst) : dst[k] = storage[Masked(tail + (k - 1))]

RingInv == RingTypeOK /\ Reserved /\ Sampled /\ Reading /\ CountIsSafe

\* The ring starts empty, with nobody in it.
LEMMA RingInitInv == RingInit => RingInv
<1>1. Capacity \in Nat \ {0, 1} /\ MaxRead \in Nat
  BY RingAssumption
<1>2. <<>> \in Seq(Bytes)
  OBVIOUS
<1> QED BY <1>1, <1>2 DEF RingInit, RingInv, RingTypeOK, Reserved, Sampled, Reading, CountIsSafe, Places

\* The producer's steps keep the invariant.
LEMMA ProducerInv ==
  ASSUME RingInv, Producer
  PROVE  RingInv'
<1> USE DEF RingInv
<1>1. ASSUME NEW b \in Bytes, PushStarts(b)
      PROVE  RingInv'
  <2>1. Masked(head + 1) \in Places
    BY HeldSteps DEF RingTypeOK
  <2> QED
    BY <1>1, <2>1 DEF PushStarts, RingTypeOK, Reserved, Sampled, Reading, CountIsSafe,
       ringVars, consumerVars
<1>2. CASE PushStores
  <2>1. UNCHANGED <<head, tail, byte, next, pushed, consumerVars>>
    BY <1>2 DEF PushStores
  <2>2. RingTypeOK' /\ Reserved'
    BY <1>2 DEF PushStores, RingTypeOK, Reserved, consumerVars
  <2>3. Sampled' /\ CountIsSafe'
    BY <2>1 DEF Sampled, CountIsSafe, Held, Masked, consumerVars
  <2>4. ASSUME consumer = "READ", NEW k \in 1..Len(dst)
        PROVE  storage'[Masked(tail + (k - 1))] = storage[Masked(tail + (k - 1))]
    <3>0. /\ Len(dst) \in Nat /\ head \in Places /\ tail \in Places /\ seen \in Places
      BY DEF RingTypeOK
    <3>1. /\ Capacity \in Nat /\ Held(head, tail) \in 0..(Capacity - 1)
          /\ Held(seen, tail) \in 0..(Capacity - 1)
      BY <3>0, HeldType, RingAssumption
    <3>2. Len(dst) <= Held(seen, tail) /\ Held(seen, tail) <= Held(head, tail)
      BY <2>4 DEF Reading, Sampled
    <3>3. k - 1 \in 0..(Capacity - 1) /\ k - 1 # Held(head, tail)
      BY <3>0, <3>1, <3>2
    <3>4. /\ Masked(tail + (k - 1)) \in Places
          /\ Held(Masked(tail + (k - 1)), tail) = k - 1
      BY <3>3, SlotAfter DEF RingTypeOK
    <3> QED BY <1>2, <3>3, <3>4 DEF PushStores, RingTypeOK
  <2>5. Reading'
    BY <2>1, <2>4 DEF Reading, Held, Masked, consumerVars
  <2> QED BY <2>2, <2>3, <2>5
<1>3. CASE PushPublishes
  <2>1. /\ head' = Masked(head + 1) /\ head' # tail /\ head' \in Places
        /\ UNCHANGED <<storage, tail, byte, consumerVars>>
    BY <1>3 DEF PushPublishes, Reserved, RingTypeOK
  <2>2. Held(head', tail) = Held(head, tail) + 1
    BY <2>1, HeldSteps DEF RingTypeOK
  <2>3. next' \in Places
    BY <1>3, RingAssumption DEF PushPublishes, Places
  <2>4. RingTypeOK' /\ Reserved'
    BY <1>3, <2>1, <2>3 DEF PushPublishes, RingTypeOK, Reserved, consumerVars
  <2>5. Sampled'
    <3>1. Held(head', tail') = Held(head, tail) + 1 /\ Held(seen', tail') = Held(seen, tail)
      BY <2>1, <2>2 DEF consumerVars
    <3>2. Held(head, tail) \in Nat /\ Held(seen, tail) \in Nat
      BY HeldType DEF RingTypeOK
    <3> QED BY <2>1, <3>1, <3>2 DEF Sampled, consumerVars
  <2>6. Reading' /\ CountIsSafe'
    BY <2>1 DEF Reading, CountIsSafe, consumerVars
  <2> QED BY <2>4, <2>5, <2>6
<1> QED BY <1>1, <1>2, <1>3 DEF Producer

\* The consumer's steps keep the invariant.
LEMMA ConsumerInv ==
  ASSUME RingInv, Consumer
  PROVE  RingInv'
<1> USE DEF RingInv
<1>0. /\ Capacity \in Nat \ {0, 1} /\ MaxRead \in Nat \ {0} /\ 0 \in Places
      /\ <<>> \in Seq(Bytes) /\ Len(<<>>) = 0
  BY RingAssumption DEF Places
<1>1. ASSUME NEW max \in 1..MaxRead, ReadStarts(max)
      PROVE  RingInv'
  <2>1. UNCHANGED <<storage, head, tail, producer, byte, next, pushed, dst, counted>>
    BY <1>1 DEF ReadStarts, ringVars, producerVars
  <2>2. RingTypeOK'
    <3>1. head \in Places /\ tail \in Places /\ max \in 0..MaxRead /\ limit \in 0..MaxRead
      BY <1>0 DEF RingTypeOK
    <3>2. /\ seen' \in Places /\ at' \in Places /\ limit' \in 0..MaxRead
          /\ taken' \in Seq(Bytes) /\ consumer' \in {"IDLE", "READ", "CLEAR", "COUNT"}
      BY <1>0, <1>1, <3>1 DEF ReadStarts, RingTypeOK
    <3> QED BY <2>1, <3>2 DEF RingTypeOK
  <2>3. Reserved' /\ CountIsSafe'
    BY <2>1 DEF Reserved, CountIsSafe
  <2>4. CASE head = tail
    BY <1>1, <2>1, <2>2, <2>3, <2>4 DEF ReadStarts, Sampled, Reading
  <2>5. CASE head # tail
    <3>1. /\ seen' = head /\ at' = tail /\ limit' = max /\ consumer' = "READ"
          /\ consumer = "IDLE" /\ dst = <<>>
      BY <1>1, <2>5 DEF ReadStarts, Reading
    <3>2. Held(head, tail) \in Nat /\ Held(tail, tail) = 0 /\ Masked(tail + Held(tail, tail)) = tail
      BY <1>0, HeldType DEF RingTypeOK
    <3>3. Sampled'
      BY <2>1, <3>1, <3>2 DEF Sampled
    <3>4. Reading'
      BY <1>0, <2>1, <2>5, <3>1, <3>2 DEF Reading
    <3> QED BY <2>2, <2>3, <3>3, <3>4
  <2> QED BY <2>4, <2>5
<1>2. CASE ReadCopies
  <2>1. /\ UNCHANGED <<ringVars, producerVars, consumer, seen, limit, taken, counted>>
        /\ consumer = "READ" /\ Len(dst) < limit /\ at # seen
        /\ dst' = Append(dst, storage[at]) /\ at' = Masked(at + 1)
    BY <1>2 DEF ReadCopies
  <2>2. storage[at] \in Bytes /\ Masked(at + 1) \in Places
    BY HeldSteps DEF RingTypeOK
  <2>3. /\ dst' \in Seq(Bytes) /\ Len(dst') = Len(dst) + 1 /\ Len(dst) \in Nat
        /\ \A k \in 1..Len(dst) : dst'[k] = dst[k]
        /\ dst'[Len(dst) + 1] = storage[at]
    BY <2>1, <2>2, AppendProperties DEF RingTypeOK
  <2>4. RingTypeOK'
    BY <2>1, <2>2, <2>3 DEF RingTypeOK, ringVars, producerVars
  <2>5. Reserved' /\ Sampled' /\ CountIsSafe'
    BY <2>1 DEF Reserved, Sampled, CountIsSafe, ringVars, producerVars
  <2>6. /\ at = Masked(tail + Len(dst)) /\ Len(dst) <= Held(seen, tail)
        /\ Held(seen, tail) \in 0..(Capacity - 1) /\ Masked(tail + Held(seen, tail)) = seen
    BY <2>1, HeldType DEF Reading, RingTypeOK
  <2>7. Len(dst) # Held(seen, tail)
    BY <2>1, <2>6
  <2>8. Len(dst) + 1 \in 0..(Capacity - 1) /\ Len(dst) \in 0..(Capacity - 1)
    BY <1>0, <2>3, <2>6, <2>7
  <2>9. Masked(at + 1) = Masked(tail + (Len(dst) + 1))
    <3>1. /\ at = IF tail + Len(dst) < Capacity THEN tail + Len(dst)
                  ELSE tail + Len(dst) - Capacity
          /\ Masked(tail + (Len(dst) + 1)) =
               IF tail + (Len(dst) + 1) < Capacity THEN tail + (Len(dst) + 1)
               ELSE tail + (Len(dst) + 1) - Capacity
      BY <2>6, <2>8, SlotAfter DEF RingTypeOK
    <3>2. Masked(at + 1) = IF at + 1 < Capacity THEN at + 1 ELSE at + 1 - Capacity
      BY <1>0, MaskedOnce DEF RingTypeOK, Places
    <3> QED BY <1>0, <2>8, <3>1, <3>2 DEF RingTypeOK, Places
  <2>10. Reading'
    <3>1. UNCHANGED <<storage, tail, seen, limit, consumer>>
      BY <2>1 DEF ringVars
    <3>2. Len(dst') <= limit /\ Len(dst') <= Held(seen, tail)
      BY <1>0, <2>1, <2>3, <2>6, <2>7 DEF RingTypeOK
    <3>3. ASSUME NEW k \in 1..Len(dst')
          PROVE  dst'[k] = storage[Masked(tail + (k - 1))]
      <4>1. CASE k \in 1..Len(dst)
        BY <2>1, <2>3, <4>1 DEF Reading
      <4>2. CASE k = Len(dst) + 1
        <5>1. k - 1 = Len(dst)
          BY <2>3, <4>2
        <5> QED BY <2>3, <2>6, <4>2, <5>1
      <4> QED BY <2>3, <4>1, <4>2
    <3> QED BY <2>1, <2>3, <2>9, <3>1, <3>2, <3>3 DEF Reading
  <2> QED BY <2>4, <2>5, <2>10
<1>3. CASE ReadPublishes
  <2>1. /\ tail' = at /\ taken' = dst /\ Returns
        /\ UNCHANGED <<storage, head, producerVars, counted>>
        /\ consumer = "READ"
    BY <1>3 DEF ReadPublishes
  <2>2. RingTypeOK'
    BY <1>0, <2>1 DEF RingTypeOK, Returns, producerVars
  <2>3. /\ Len(dst) \in Nat /\ Held(head, tail) \in Nat /\ Held(seen, tail) \in Nat
        /\ Len(dst) <= Held(head, tail) /\ Held(head, tail) \in 0..(Capacity - 1)
        /\ at = Masked(tail + Len(dst))
    <3>1. Len(dst) \in Nat /\ Held(head, tail) \in 0..(Capacity - 1)
          /\ Held(seen, tail) \in 0..(Capacity - 1)
      BY HeldType DEF RingTypeOK
    <3>2. /\ Len(dst) <= Held(seen, tail) /\ Held(seen, tail) <= Held(head, tail)
          /\ at = Masked(tail + Len(dst))
      BY <2>1 DEF Reading, Sampled
    <3> QED BY <1>0, <3>1, <3>2
  <2>4. Held(head, at) = Held(head, tail) - Len(dst)
    BY <1>0, <2>3, HeldAdvanced DEF RingTypeOK
  <2>5. Reserved'
    <3>1. CASE producer = "IDLE"
      BY <2>1, <3>1 DEF Reserved, producerVars
    <3>2. CASE producer # "IDLE"
      <4>1. Held(head, tail) # Capacity - 1
        BY <3>2, HeldSteps DEF Reserved, RingTypeOK
      <4>2. Held(head, at) # Capacity - 1
        BY <1>0, <2>3, <2>4, <4>1
      <4>3. next # at
        BY <3>2, <4>2, HeldSteps DEF Reserved, RingTypeOK
      <4> QED BY <2>1, <4>3 DEF Reserved, producerVars
    <3> QED BY <3>1, <3>2
  <2>6. Sampled' /\ Reading' /\ CountIsSafe'
    BY <2>1 DEF Returns, Sampled, Reading, CountIsSafe
  <2> QED BY <2>2, <2>5, <2>6
<1>4. CASE ClearStarts \/ CountStarts
  <2>1. /\ consumer = "IDLE" /\ consumer' \in {"CLEAR", "COUNT"} /\ seen' = head
        /\ UNCHANGED <<ringVars, producerVars, at, limit, dst, taken, counted>>
    BY <1>4 DEF ClearStarts, CountStarts
  <2>2. RingTypeOK' /\ Reserved' /\ Reading' /\ CountIsSafe'
    BY <2>1 DEF RingTypeOK, Reserved, Reading, CountIsSafe, ringVars, producerVars
  <2>3. Sampled'
    <3>1. Held(head, tail) \in Nat
      BY <1>0, HeldType DEF RingTypeOK
    <3> QED BY <2>1, <3>1 DEF Sampled, ringVars
  <2> QED BY <2>2, <2>3
<1>5. CASE ClearPublishes
  <2>1. /\ consumer = "CLEAR" /\ tail' = seen /\ Returns
        /\ UNCHANGED <<storage, head, producerVars, taken, counted>>
    BY <1>5 DEF ClearPublishes
  <2>2. RingTypeOK'
    BY <1>0, <2>1 DEF RingTypeOK, Returns, producerVars
  <2>3. /\ Held(head, tail) \in 0..(Capacity - 1) /\ Held(seen, tail) \in 0..(Capacity - 1)
        /\ Held(seen, tail) <= Held(head, tail) /\ seen = Masked(tail + Held(seen, tail))
    BY <2>1, HeldType DEF Sampled, RingTypeOK
  <2>4. Held(head, seen) = Held(head, tail) - Held(seen, tail)
    BY <1>0, <2>3, HeldAdvanced DEF RingTypeOK
  <2>5. Reserved'
    <3>1. CASE producer = "IDLE"
      BY <2>1, <3>1 DEF Reserved, producerVars
    <3>2. CASE producer # "IDLE"
      <4>1. Held(head, tail) # Capacity - 1
        BY <3>2, HeldSteps DEF Reserved, RingTypeOK
      <4>2. Held(head, seen) # Capacity - 1
        BY <1>0, <2>3, <2>4, <4>1
      <4>3. next # seen
        BY <3>2, <4>2, HeldSteps DEF Reserved, RingTypeOK
      <4> QED BY <2>1, <4>3 DEF Reserved, producerVars
    <3> QED BY <3>1, <3>2
  <2>6. Sampled' /\ Reading' /\ CountIsSafe'
    BY <2>1 DEF Returns, Sampled, Reading, CountIsSafe
  <2> QED BY <2>2, <2>5, <2>6
<1>6. CASE CountEnds
  <2>1. /\ consumer = "COUNT" /\ counted' = [got |-> Held(seen, tail), were |-> Held(head, tail)]
        /\ Returns /\ UNCHANGED <<ringVars, producerVars, taken>>
    BY <1>6 DEF CountEnds
  <2>2. Held(seen, tail) \in 0..Capacity /\ Held(head, tail) \in 0..Capacity
    <3>1. /\ Held(seen, tail) \in 0..(Capacity - 1)
          /\ Held(head, tail) \in 0..(Capacity - 1)
      BY HeldType DEF RingTypeOK
    <3> QED BY <1>0, <3>1
  <2>3. RingTypeOK'
    BY <1>0, <2>1, <2>2 DEF RingTypeOK, Returns, ringVars, producerVars
  <2>4. CountIsSafe'
    <3>1. Held(seen, tail) <= Held(head, tail)
      BY <2>1 DEF Sampled
    <3>2. counted'.got = Held(seen, tail) /\ counted'.were = Held(head, tail)
      BY <2>1
    <3> QED BY <3>1, <3>2 DEF CountIsSafe
  <2>5. Reserved' /\ Sampled' /\ Reading'
    BY <2>1 DEF Returns, Reserved, Sampled, Reading, ringVars, producerVars
  <2> QED BY <2>3, <2>4, <2>5
<1> QED BY <1>1, <1>2, <1>3, <1>4, <1>5, <1>6 DEF Consumer

\* The invariant holds whatever the two sides do.
THEOREM RingInvariance == RingSpec => []RingInv
<1>1. RingInv /\ [RingNext]_bufferVars => RingInv'
  <2>1. CASE UNCHANGED bufferVars
    BY <2>1 DEF RingInv, RingTypeOK, Reserved, Sampled, Reading, CountIsSafe, bufferVars, ringVars,
       producerVars, consumerVars
  <2> QED BY <2>1, ProducerInv, ConsumerInv DEF RingNext
<1> QED BY <1>1, RingInitInv, PTL DEF RingSpec

\* A count never promises more bytes than there are.
THEOREM CountSafety == RingSpec => []CountIsSafe
<1>1. RingInv => CountIsSafe
  BY DEF RingInv
<1> QED BY <1>1, RingInvariance, PTL

\* The producer's slot is never one the consumer is still to copy.
THEOREM SidesStayApart == RingSpec => []SidesApart
<1>1. RingInv => SidesApart
  <2> SUFFICES ASSUME RingInv, producer # "IDLE", consumer = "READ",
                      NEW k \in 0..(Held(seen, at) - 1), head = Masked(at + k)
               PROVE  FALSE
    BY DEF RingInv, SidesApart, Copying
  <2>0. /\ Len(dst) \in Nat
        /\ seen \in Places /\ tail \in Places /\ at \in Places /\ head \in Places
    BY DEF RingInv, RingTypeOK
  <2>1. /\ Capacity \in Nat \ {0, 1}
        /\ Held(seen, tail) \in 0..(Capacity - 1) /\ Held(head, tail) \in 0..(Capacity - 1)
    BY <2>0, HeldType, RingAssumption
  <2>2. /\ Len(dst) <= Held(seen, tail) /\ Held(seen, tail) <= Held(head, tail)
        /\ at = Masked(tail + Len(dst))
    BY DEF RingInv, Reading, Sampled
  <2>3. /\ Held(seen, at) = Held(seen, tail) - Len(dst)
        /\ Held(head, at) = Held(head, tail) - Len(dst)
    BY <2>0, <2>1, <2>2, HeldAdvanced
  <2>4. k \in 0..(Capacity - 1)
    BY <2>0, <2>1, <2>2, <2>3
  <2>5. Held(head, at) = k
    BY <2>0, <2>4, SlotAfter
  <2> QED BY <2>0, <2>1, <2>2, <2>3, <2>5
<1> QED BY <1>1, RingInvariance, PTL
(***************************************************************************)
(* The ring implements the queue.                                          *)
(***************************************************************************)
\* The bytes in a store between two indices: Contents, for any of them.
Between(st, h, t) == [k \in 1..Held(h, t) |-> st[Masked(t + (k - 1))]]

\* They are a sequence.
LEMMA BetweenType ==
  ASSUME NEW st \in [Places -> Bytes], NEW h \in Places, NEW t \in Places
  PROVE  /\ Between(st, h, t) \in Seq(Bytes) /\ Len(Between(st, h, t)) = Held(h, t)
         /\ Held(h, t) \in 0..(Capacity - 1)
         /\ \A k \in 1..Held(h, t) : Between(st, h, t)[k] = st[Masked(t + (k - 1))]
<1>1. Capacity \in Nat \ {0, 1} /\ Held(h, t) \in 0..(Capacity - 1)
  BY HeldType, RingAssumption
<1>2. ASSUME NEW k \in 1..Held(h, t)
      PROVE  st[Masked(t + (k - 1))] \in Bytes
  <2>1. k - 1 \in 0..(Capacity - 1)
    BY <1>1
  <2>2. Masked(t + (k - 1)) \in Places
    BY <2>1, SlotAfter
  <2> QED BY <2>2
<1>3. Between(st, h, t) \in [1..Held(h, t) -> Bytes]
  BY <1>2 DEF Between
<1>4. Between(st, h, t) \in Seq(Bytes)
  BY <1>1, <1>3, SeqDef
<1>5. Len(Between(st, h, t)) = Held(h, t)
  BY <1>1, <1>3, <1>4, LenProperties
<1> QED BY <1>1, <1>4, <1>5 DEF Between

\* A tail that moves on by n takes the first n bytes off.
LEMMA TailMoves ==
  ASSUME NEW st \in [Places -> Bytes], NEW h \in Places, NEW t \in Places,
         NEW n \in 0..Held(h, t)
  PROVE  LET queue == Between(st, h, t)
         IN  Between(st, h, Masked(t + n)) = SubSeq(queue, n + 1, Len(queue))
<1> DEFINE queue == Between(st, h, t)
           rest  == Between(st, h, Masked(t + n))
<1>1. /\ queue \in Seq(Bytes) /\ Len(queue) = Held(h, t)
      /\ Held(h, t) \in 0..(Capacity - 1)
      /\ \A k \in 1..Held(h, t) : queue[k] = st[Masked(t + (k - 1))]
  BY BetweenType
<1>2. Capacity \in Nat \ {0, 1} /\ n \in 0..(Capacity - 1)
  BY <1>1, RingAssumption
<1>3. /\ Masked(t + n) \in Places
      /\ Masked(t + n) = IF t + n < Capacity THEN t + n ELSE t + n - Capacity
      /\ Held(h, Masked(t + n)) = Held(h, t) - n
  BY <1>1, <1>2, SlotAfter, HeldAdvanced
<1>4. /\ rest \in Seq(Bytes) /\ Len(rest) = Held(h, t) - n
      /\ \A k \in 1..(Held(h, t) - n) : rest[k] = st[Masked(Masked(t + n) + (k - 1))]
  <2>1. /\ rest \in Seq(Bytes) /\ Len(rest) = Held(h, Masked(t + n))
        /\ \A k \in 1..Held(h, Masked(t + n)) : rest[k] = st[Masked(Masked(t + n) + (k - 1))]
    BY <1>3, BetweenType
  <2> QED BY <1>3, <2>1
<1>5. /\ SubSeq(queue, n + 1, Len(queue)) \in Seq(Bytes)
      /\ Len(SubSeq(queue, n + 1, Len(queue))) = Held(h, t) - n
      /\ \A k \in 1..(Held(h, t) - n) : SubSeq(queue, n + 1, Len(queue))[k] = queue[n + k]
  <2>1. \A i \in (n + 1)..Len(queue) : queue[i] \in Bytes
    BY <1>1, ElementOfSeq
  <2> HIDE DEF queue
  <2>2. /\ SubSeq(queue, n + 1, Len(queue)) \in Seq(Bytes)
        /\ Len(SubSeq(queue, n + 1, Len(queue))) =
             IF n + 1 <= Len(queue) THEN Len(queue) - (n + 1) + 1 ELSE 0
        /\ \A i \in 1..(Len(queue) - (n + 1) + 1) :
             SubSeq(queue, n + 1, Len(queue))[i] = queue[(n + 1) + i - 1]
    BY <1>1, <1>2, <2>1, SubSeqProperties
  <2>3. ASSUME NEW k \in 1..(Held(h, t) - n)
        PROVE  SubSeq(queue, n + 1, Len(queue))[k] = queue[n + k]
    <3>1. (n + 1) + k - 1 = n + k /\ k \in 1..(Len(queue) - (n + 1) + 1)
      BY <1>1, <1>2
    <3> QED BY <2>2, <3>1
  <2> QED BY <1>1, <1>2, <2>2, <2>3
<1>6. ASSUME NEW k \in 1..(Held(h, t) - n)
      PROVE  rest[k] = SubSeq(queue, n + 1, Len(queue))[k]
  <2>1. n + k \in 1..Held(h, t) /\ k - 1 \in 0..(Capacity - 1) /\ (n + k) - 1 \in 0..(Capacity - 1)
    BY <1>1, <1>2
  <2>2. Masked(Masked(t + n) + (k - 1)) = Masked(t + ((n + k) - 1))
    <3>1. Masked(Masked(t + n) + (k - 1)) =
            IF Masked(t + n) + (k - 1) < Capacity THEN Masked(t + n) + (k - 1)
            ELSE Masked(t + n) + (k - 1) - Capacity
      BY <1>3, <2>1, SlotAfter
    <3>2. Masked(t + ((n + k) - 1)) =
            IF t + ((n + k) - 1) < Capacity THEN t + ((n + k) - 1)
            ELSE t + ((n + k) - 1) - Capacity
      BY <2>1, SlotAfter
    <3> QED BY <1>1, <1>2, <1>3, <2>1, <3>1, <3>2 DEF Places
  <2>3. queue[n + k] = st[Masked(t + ((n + k) - 1))]
    BY <1>1, <2>1
  <2> QED BY <1>4, <1>5, <2>2, <2>3
<1> HIDE DEF queue, rest
<1>7. rest = SubSeq(queue, n + 1, Len(queue))
  BY <1>4, <1>5, <1>6, SeqEqual
<1> QED BY <1>7 DEF queue, rest

\* A head that moves on by one adds the byte in its slot.
LEMMA HeadMoves ==
  ASSUME NEW st \in [Places -> Bytes], NEW h \in Places, NEW t \in Places, Masked(h + 1) # t
  PROVE  Between(st, Masked(h + 1), t) = Append(Between(st, h, t), st[h])
<1> DEFINE queue == Between(st, h, t)
           more  == Between(st, Masked(h + 1), t)
<1>1. /\ queue \in Seq(Bytes) /\ Len(queue) = Held(h, t) /\ Held(h, t) \in 0..(Capacity - 1)
      /\ \A k \in 1..Held(h, t) : queue[k] = st[Masked(t + (k - 1))]
  BY BetweenType
<1>2. Masked(h + 1) \in Places /\ Held(Masked(h + 1), t) = Held(h, t) + 1
  BY HeldSteps
<1>3. /\ more \in Seq(Bytes) /\ Len(more) = Held(h, t) + 1
      /\ \A k \in 1..(Held(h, t) + 1) : more[k] = st[Masked(t + (k - 1))]
  <2>1. /\ more \in Seq(Bytes) /\ Len(more) = Held(Masked(h + 1), t)
        /\ \A k \in 1..Held(Masked(h + 1), t) : more[k] = st[Masked(t + (k - 1))]
    BY <1>2, BetweenType
  <2> QED BY <1>2, <2>1
<1>4. /\ Append(queue, st[h]) \in Seq(Bytes) /\ Len(Append(queue, st[h])) = Held(h, t) + 1
      /\ \A k \in 1..Held(h, t) : Append(queue, st[h])[k] = queue[k]
      /\ Append(queue, st[h])[Held(h, t) + 1] = st[h]
  <2>1. st[h] \in Bytes
    OBVIOUS
  <2> HIDE DEF queue
  <2> QED BY <1>1, <2>1, AppendProperties
<1>5. more[Held(h, t) + 1] = st[h]
  <2>1. (Held(h, t) + 1) - 1 = Held(h, t) /\ Held(h, t) + 1 \in 1..(Held(h, t) + 1)
    BY <1>1
  <2>2. Masked(t + Held(h, t)) = h
    BY HeldType
  <2> QED BY <1>3, <2>1, <2>2
<1>6. ASSUME NEW k \in 1..(Held(h, t) + 1)
      PROVE  more[k] = Append(queue, st[h])[k]
  <2>1. CASE k = Held(h, t) + 1
    BY <1>4, <1>5, <2>1
  <2>2. CASE k \in 1..Held(h, t)
    BY <1>1, <1>3, <1>4, <2>2
  <2> QED BY <1>1, <2>1, <2>2
<1> HIDE DEF queue, more
<1>7. more = Append(queue, st[h])
  BY <1>3, <1>4, <1>6, SeqEqual
<1> QED BY <1>7 DEF queue, more
\* Nothing the ring does to the queue depends on more than its three variables.
LEMMA ContentsIs ==
  /\ Contents = Between(storage, head, tail)
  /\ Contents' = Between(storage', head', tail')
BY DEF Contents, Between, Held, Masked

\* A push takes effect when it publishes the head, and is refused by a full queue.
LEMMA ProducerRefines ==
  ASSUME RingInv, RingInv', Producer
  PROVE  [Fifo!FifoNext]_(Fifo!fifoVars)
<1>0. Capacity \in Nat \ {0, 1}
  BY RingAssumption
<1>1. /\ storage \in [Places -> Bytes] /\ head \in Places /\ tail \in Places
      /\ byte \in Bytes
  BY DEF RingInv, RingTypeOK
<1>2. Len(Contents) = Held(head, tail) /\ Held(head, tail) \in 0..(Capacity - 1)
  BY <1>1, BetweenType, ContentsIs
<1>3. ASSUME NEW b \in Bytes, PushStarts(b)
      PROVE  [Fifo!FifoNext]_(Fifo!fifoVars)
  <2>1. Contents' = Contents /\ taken' = taken
    BY <1>3, ContentsIs DEF PushStarts, ringVars, consumerVars
  <2>2. CASE Masked(head + 1) = tail
    <3>1. Len(Contents) = Capacity - 1
      BY <1>0, <1>1, <1>2, <2>2, HeldSteps
    <3>2. Fifo!Refuse
      BY <1>3, <2>1, <2>2, <3>1 DEF PushStarts, Fifo!Refuse
    <3> QED BY <3>2 DEF Fifo!FifoNext
  <2>3. CASE Masked(head + 1) # tail
    BY <1>3, <2>1, <2>3 DEF PushStarts, Fifo!fifoVars
  <2> QED BY <2>2, <2>3
<1>4. CASE PushStores
  <2>1. /\ storage' = [storage EXCEPT ![head] = byte]
        /\ UNCHANGED <<head, tail, pushed, taken>>
    BY <1>4 DEF PushStores, consumerVars
  <2>2. ASSUME NEW k \in 1..Held(head, tail)
        PROVE  storage'[Masked(tail + (k - 1))] = storage[Masked(tail + (k - 1))]
    <3>1. k - 1 \in 0..(Capacity - 1) /\ k - 1 # Held(head, tail)
      BY <1>0, <1>1, <1>2
    <3>2. /\ Masked(tail + (k - 1)) \in Places
          /\ Held(Masked(tail + (k - 1)), tail) = k - 1
      BY <1>1, <3>1, SlotAfter
    <3> QED BY <1>1, <2>1, <3>1, <3>2
  <2>3. Between(storage', head, tail) = Between(storage, head, tail)
    BY <2>2 DEF Between
  <2>4. Contents' = Contents
    BY <2>1, <2>3, ContentsIs
  <2> QED BY <2>1, <2>4 DEF Fifo!fifoVars
<1>5. CASE PushPublishes
  <2>1. /\ head' = Masked(head + 1) /\ Masked(head + 1) # tail /\ storage[head] = byte
        /\ pushed' = "OK" /\ UNCHANGED <<storage, tail, taken>>
    BY <1>5 DEF PushPublishes, RingInv, Reserved, consumerVars
  <2>2. Contents' = Append(Contents, byte)
    BY <1>1, <2>1, HeadMoves, ContentsIs
  <2>3. Len(Contents) < Capacity - 1
    BY <1>0, <1>1, <1>2, <2>1, HeldSteps
  <2>4. Fifo!Put(byte)
    BY <2>1, <2>2, <2>3 DEF Fifo!Put
  <2> QED BY <1>1, <2>4 DEF Fifo!FifoNext
<1> QED BY <1>3, <1>4, <1>5 DEF Producer

\* A read takes effect when it publishes the tail, a clear likewise; a read that
\* finds the indices equal finds the queue empty.
LEMMA ConsumerRefines ==
  ASSUME RingInv, RingInv', Consumer
  PROVE  [Fifo!FifoNext]_(Fifo!fifoVars)
<1>1. /\ storage \in [Places -> Bytes] /\ head \in Places /\ tail \in Places
      /\ seen \in Places /\ dst \in Seq(Bytes) /\ Len(dst) \in Nat /\ limit \in 0..MaxRead
  BY DEF RingInv, RingTypeOK
<1>0. Capacity \in Nat \ {0, 1} /\ MaxRead \in Nat \ {0}
  BY RingAssumption
<1>2. /\ Contents \in Seq(Bytes) /\ Len(Contents) = Held(head, tail)
      /\ Held(head, tail) \in 0..(Capacity - 1)
      /\ \A k \in 1..Held(head, tail) : Contents[k] = storage[Masked(tail + (k - 1))]
  BY <1>1, BetweenType, ContentsIs
<1>3. ASSUME NEW max \in 1..MaxRead, ReadStarts(max)
      PROVE  [Fifo!FifoNext]_(Fifo!fifoVars)
  <2>1. Contents' = Contents /\ pushed' = pushed
    BY <1>3, ContentsIs DEF ReadStarts, ringVars, producerVars
  <2>2. CASE head = tail
    <3>1. Len(Contents) = 0
      BY <1>1, <1>2, <2>2, HeldType
    <3>2. Contents = <<>>
      BY <1>2, <3>1, EmptySeq
    <3>3. Fifo!FindEmpty
      BY <1>3, <2>1, <2>2, <3>2 DEF ReadStarts, Fifo!FindEmpty
    <3> QED BY <3>3 DEF Fifo!FifoNext
  <2>3. CASE head # tail
    BY <1>3, <2>1, <2>3 DEF ReadStarts, Fifo!fifoVars
  <2> QED BY <2>2, <2>3
<1>4. CASE ReadCopies \/ ClearStarts \/ CountStarts \/ CountEnds
  <2>1. UNCHANGED <<storage, head, tail, pushed, taken>>
    BY <1>4 DEF ReadCopies, ClearStarts, CountStarts, CountEnds, ringVars, producerVars
  <2> QED BY <2>1, ContentsIs DEF Fifo!fifoVars
<1>5. CASE ReadPublishes
  <2> DEFINE n == Len(dst)
  <2>1. /\ consumer = "READ" /\ (n = limit \/ at = seen)
        /\ tail' = at /\ taken' = dst /\ UNCHANGED <<storage, head, pushed>>
    BY <1>5 DEF ReadPublishes, producerVars
  <2>2. /\ limit # 0 /\ seen # tail /\ n <= limit /\ n <= Held(seen, tail)
        /\ at = Masked(tail + n) /\ Held(seen, tail) <= Held(head, tail)
        /\ \A k \in 1..n : dst[k] = storage[Masked(tail + (k - 1))]
    BY <1>5 DEF ReadPublishes, RingInv, Reading, Sampled
  <2>3. Held(seen, tail) \in 0..(Capacity - 1) /\ Held(seen, tail) # 0
    BY <1>1, <2>2, HeldType
  <2>4. n # 0
    <3>1. CASE n = limit
      BY <2>2, <3>1
    <3>2. CASE at = seen
      <4>1. n \in 0..(Capacity - 1)
        BY <1>0, <1>1, <2>2, <2>3
      <4>2. Held(at, tail) = n
        BY <1>1, <2>2, <4>1, SlotAfter
      <4> QED BY <2>3, <3>2, <4>2
    <3> QED BY <2>1, <3>1, <3>2
  <2>5. n \in 1..Held(head, tail) /\ n \in 1..MaxRead /\ n \in 0..Held(head, tail)
    BY <1>0, <1>1, <1>2, <2>2, <2>3, <2>4
  <2>6. Contents' = SubSeq(Contents, n + 1, Len(Contents))
    BY <1>1, <2>1, <2>2, <2>5, TailMoves, ContentsIs
  <2>7. dst = SubSeq(Contents, 1, n)
    <3>1. \A i \in 1..n : Contents[i] \in Bytes
      BY <1>0, <1>1, <1>2, <2>5, ElementOfSeq
    <3>2. /\ SubSeq(Contents, 1, n) \in Seq(Bytes) /\ Len(SubSeq(Contents, 1, n)) = n
          /\ \A i \in 1..n : SubSeq(Contents, 1, n)[i] = Contents[i]
      BY <1>1, <2>5, <3>1, SubSeqProperties
    <3>3. \A i \in 1..n : Contents[i] = dst[i]
      BY <1>1, <1>2, <2>2, <2>5
    <3> QED BY <1>1, <3>2, <3>3, SeqEqual
  <2>8. Fifo!Take(n)
    BY <1>2, <2>1, <2>5, <2>6, <2>7 DEF Fifo!Take
  <2> QED BY <2>5, <2>8 DEF Fifo!FifoNext
<1>6. CASE ClearPublishes
  <2> DEFINE n == Held(seen, tail)
  <2>1. consumer = "CLEAR" /\ tail' = seen /\ UNCHANGED <<storage, head, pushed, taken>>
    BY <1>6 DEF ClearPublishes, producerVars
  <2>2. n \in 0..(Capacity - 1) /\ n <= Held(head, tail) /\ seen = Masked(tail + n)
    BY <1>1, <2>1, HeldType DEF RingInv, Sampled
  <2>3. n \in 0..Held(head, tail)
    BY <1>0, <1>2, <2>2
  <2> HIDE DEF n
  <2>4. Contents' = SubSeq(Contents, n + 1, Len(Contents))
    BY <1>1, <2>1, <2>2, <2>3, TailMoves, ContentsIs
  <2>5. Fifo!Discard(n)
    BY <1>2, <2>1, <2>3, <2>4 DEF Fifo!Discard
  <2> QED BY <2>2, <2>5 DEF Fifo!FifoNext
<1> QED BY <1>3, <1>4, <1>5, <1>6 DEF Consumer

\* The ring is a bounded queue of Capacity - 1 bytes: whatever the interleaving,
\* every step of it is a step of ByteFifo or changes nothing there.
THEOREM RingIsFifo == RingSpec => FifoSpec
<1>1. RingInit => Fifo!FifoInit
  <2> SUFFICES ASSUME RingInit PROVE Fifo!FifoInit
    OBVIOUS
  <2>1. RingInv
    BY RingInitInv
  <2>2. Held(head, tail) = 0
    BY <2>1, HeldType DEF RingInit, RingInv, RingTypeOK
  <2>3. Contents \in Seq(Bytes) /\ Len(Contents) = 0
    BY <2>1, <2>2, BetweenType, ContentsIs DEF RingInv, RingTypeOK
  <2>4. Contents = <<>>
    BY <2>3, EmptySeq
  <2> QED BY <2>4 DEF RingInit, Fifo!FifoInit
<1>2. RingInv /\ RingInv' /\ [RingNext]_bufferVars => [Fifo!FifoNext]_(Fifo!fifoVars)
  <2>1. CASE UNCHANGED bufferVars
    BY <2>1, ContentsIs DEF bufferVars, ringVars, producerVars, consumerVars, Fifo!fifoVars
  <2> QED BY <2>1, ProducerRefines, ConsumerRefines DEF RingNext
<1> QED BY <1>1, <1>2, RingInvariance, PTL DEF RingSpec, FifoSpec, Fifo!FifoSpec
=============================================================================
