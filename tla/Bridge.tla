------------------------------- MODULE Bridge -------------------------------
(***************************************************************************)
(* The transparent bridge, xbee_bridge.c, from the terminal to the module: *)
(* the escape detector that may hold characters back                       *)
(* (xbee_bridge_escape.c), the transmit ring, and the life of a session.   *)
(*                                                                         *)
(* A pass reads at most one byte: one that reads several is that many      *)
(* passes at the same time, with the transmitter busy in all but the last. *)
(* The silence before a byte is the one its reader sees.                   *)
(* Time is discrete, and any number of passes may fit into a unit of it,   *)
(* or none.                                                                *)
(***************************************************************************)
EXTENDS Integers, Sequences

CONSTANTS EscapeCount, \* XBEE_BRIDGE_ESCAPE_COUNT
          Guard,       \* XBEE_BRIDGE_ESCAPE_GUARD_MS, in units of time
          RingSize,    \* XBEE_BRIDGE_TX_RING_SIZE
          Chunk,       \* XBEE_BRIDGE_XBEE_CHUNK
          MaxTyped     \* bound: bytes typed in a session

ASSUME BridgeAssumption ==
  /\ EscapeCount \in Nat \ {0, 1}
  /\ Guard \in Nat \ {0}
  /\ RingSize \in Nat \ {0} /\ Chunk \in Nat \ {0} /\ MaxTyped \in Nat

VARIABLES state,       \* OFF, OPENING (SETTLE or QUIESCE), ACTIVE
          allowEscape, \* params.allow_escape
          held, armed, \* the detector
          since,       \* what guard_elapsed() sees since last_byte_ms
          ring,        \* tx_ring: how many bytes are in it (RingBuffer keeps their order)
          toModule,    \* stats.to_module_bytes
          dropped,     \* stats.dropped_bytes
          \* history of the session, read by the properties only:
          typed,       \* what the terminal sent: the byte, and the silence before it
          forwarded,   \* the bytes handed to queue_for_module()
          written,     \* how many bytes the driver accepted
          silence      \* time since the last byte, up to Guard

detector == <<held, armed>>
history  == <<typed, forwarded, written, silence>>
vars == <<state, allowEscape, detector, since, ring, toModule, dropped, history>>

Escape  == "escape"
Chars   == {Escape, "other"}
\* The millisecond clock has wrapped since the last byte: the signed difference
\* is negative for the next 36 hours.
Wrapped == -1

TypeOK ==
  /\ state \in {"OFF", "OPENING", "ACTIVE"} /\ allowEscape \in BOOLEAN
  /\ held \in 0..EscapeCount /\ armed \in BOOLEAN /\ (armed <=> held = EscapeCount)
  /\ since \in Wrapped..Guard /\ silence \in 0..Guard
  /\ ring \in 0..(RingSize - 1)
  /\ toModule \in Nat /\ dropped \in Nat /\ written \in Nat
  /\ typed \in Seq([char : Chars, after : 0..Guard])
  /\ forwarded \in Seq(Chars)

Init ==
  /\ state = "OFF" /\ allowEscape = FALSE
  /\ held = 0 /\ armed = FALSE /\ since = 0
  /\ ring = 0 /\ toModule = 0 /\ dropped = 0
  /\ typed = <<>> /\ forwarded = <<>> /\ written = 0 /\ silence = 0

(***************************************************************************)
(* The session.                                                            *)
(***************************************************************************)
\* begin_active()
BeginActive ==
  /\ state' = "ACTIVE"
  /\ held' = 0 /\ armed' = FALSE /\ since' = 0
  /\ ring' = 0

\* xbee_bridge_enter(): the console's session waits for Command mode to close,
\* the dedicated build's for the module to boot.
Enter ==
  /\ state = "OFF" /\ allowEscape' \in BOOLEAN
  /\ toModule' = 0 /\ dropped' = 0
  /\ typed' = <<>> /\ forwarded' = <<>> /\ written' = 0 /\ silence' = 0
  /\ \/ state' = "OPENING" /\ ring' = 0 /\ UNCHANGED <<detector, since>>
     \/ BeginActive

Opened ==
  /\ state = "OPENING" /\ BeginActive /\ silence' = 0
  /\ UNCHANGED <<allowEscape, toModule, dropped, typed, forwarded, written>>

(***************************************************************************)
(* The ring and the driver.                                                *)
(***************************************************************************)
Least(a, b) == IF a < b THEN a ELSE b
Escapes(n)  == [k \in 1..n |-> Escape]

\* Mutant: what the driver refused still counts as sent.
CountQueued(queued, lost, refused) ==
  /\ toModule' = toModule + queued - lost /\ dropped' = dropped + lost

\* What becomes of the counters when `lost` of the bytes queued found the ring
\* full, and the driver refused `refused`.
Count(queued, lost, refused) ==
  /\ toModule' = toModule + queued - lost - refused
  /\ dropped' = dropped + lost + refused

\* queue_for_module() for each byte of out and service_module_tx(), which takes
\* nothing or one chunk out of the ring; the driver may refuse the chunk.
\* Bytes read from the terminal are queued before, those the guard releases after.
QueueAndTransmit(out, before) ==
  LET inside == Least(Len(out), RingSize - 1 - ring) IN
  \E n \in 0..Chunk, refused \in BOOLEAN :
    /\ n \in {0, Least(Chunk, IF before THEN ring + inside ELSE ring)}
    /\ LET stored == IF before THEN inside ELSE Least(Len(out), RingSize - 1 - (ring - n))
       IN /\ ring' = ring - n + stored
          /\ Count(Len(out), Len(out) - stored, IF refused THEN n ELSE 0)
    /\ written' = IF refused THEN written ELSE written + n
    /\ forwarded' = forwarded \o out

(***************************************************************************)
(* xbee_bridge_escape_feed() and _idle()                                   *)
(***************************************************************************)
\* Mutant: no silence is asked for.
ElapsedAlways == TRUE

\* guard_elapsed()
Elapsed == since >= Guard

Holds(c) == c = Escape /\ ~armed /\ (held > 0 \/ Elapsed)

\* Mutant: the byte overtakes the ones held back.
ReleaseAfter(c) == <<c>> \o Escapes(held)

Release(c) == Escapes(held) \o <<c>>

Hold == held' = held + 1 /\ armed' = (held + 1 >= EscapeCount)

(***************************************************************************)
(* xbee_bridge_process() in ACTIVE                                         *)
(***************************************************************************)
Active == state = "ACTIVE" /\ UNCHANGED allowEscape

\* A pass that finds a byte; nothing is due in it after that.
TypedByte(c) ==
  /\ Active /\ Len(typed) < MaxTyped
  /\ typed' = Append(typed, [char |-> c, after |-> silence]) /\ silence' = 0
  /\ UNCHANGED state

PassRaw(c) ==
  /\ TypedByte(c) /\ ~allowEscape
  /\ QueueAndTransmit(<<c>>, TRUE) /\ UNCHANGED <<detector, since>>

PassHolds(c) ==
  /\ TypedByte(c) /\ allowEscape /\ Holds(c)
  /\ Hold /\ since' = 0
  /\ QueueAndTransmit(<<>>, TRUE)

PassForwards(c) ==
  /\ TypedByte(c) /\ allowEscape /\ ~Holds(c)
  /\ held' = 0 /\ armed' = FALSE /\ since' = 0
  /\ QueueAndTransmit(Release(c), TRUE)

\* Passes that find none.
Due == allowEscape /\ held > 0 /\ Elapsed

PassWaits ==
  /\ Active /\ ~Due
  /\ QueueAndTransmit(<<>>, FALSE)
  /\ UNCHANGED <<state, detector, since, typed, silence>>

\* Mutant: a shorter run waits for the rest of the sequence.
KeepHolding ==
  /\ Active /\ Due /\ ~armed
  /\ QueueAndTransmit(<<>>, FALSE)
  /\ UNCHANGED <<state, detector, since, typed, silence>>

PassReleases ==
  /\ Active /\ Due /\ ~armed
  /\ held' = 0 /\ UNCHANGED armed
  /\ QueueAndTransmit(Escapes(held), FALSE)
  /\ UNCHANGED <<state, since, typed, silence>>

PassExits ==
  /\ Active /\ Due /\ armed
  /\ held' = 0 /\ armed' = FALSE /\ state' = "OFF"
  /\ QueueAndTransmit(<<>>, FALSE)
  /\ UNCHANGED <<since, typed, silence>>

(***************************************************************************)
(* Time.                                                                   *)
(***************************************************************************)
Tick ==
  /\ Active /\ silence' = Least(silence + 1, Guard)
  /\ since' = IF since = Wrapped THEN Wrapped ELSE Least(since + 1, Guard)
  /\ UNCHANGED <<state, detector, ring, toModule, dropped, typed, forwarded, written>>

\* clock_now_ms() wraps, and what it is compared with does not.
ClockWraps ==
  /\ Active /\ since' = Wrapped
  /\ UNCHANGED <<state, detector, ring, toModule, dropped, history>>

Pass == \/ Opened
        \/ \E c \in Chars : PassRaw(c) \/ PassHolds(c) \/ PassForwards(c)
        \/ PassWaits \/ PassReleases \/ PassExits

Next == Enter \/ Pass \/ Tick \/ ClockWraps

Spec == Init /\ [][Next]_vars

\* The super loop makes another pass, and time goes on.
FairSpec == Spec /\ WF_vars(Pass) /\ WF_vars(Tick)

(***************************************************************************)
(* Properties.                                                             *)
(***************************************************************************)
\* What has been queued for the module, followed by what is held back, is what
\* was typed: in order, each byte once, whichever of the next byte and the end
\* of the guard comes first (xbee_bridge_escape.h: "Nothing is discarded").
InOrder ==
  /\ TypeOK
  /\ state = "ACTIVE" =>
       forwarded \o Escapes(held) = [k \in 1..Len(typed) |-> typed[k].char]

\* Every byte queued is counted once, as sent or as dropped, and what counts as
\* sent is with the driver or still in the ring (xbee_bridge.c:204 corrects the
\* one count by the other).
Counted ==
  /\ toModule = written + ring
  /\ toModule + dropped = Len(forwarded)

\* The bridge is left only by the whole sequence, with nothing else after it
\* and a real silence on both sides, whatever the clock does
\* (xbee_bridge_config.h: the guards keep payload from being mistaken for it).
ExitOnSequence ==
  [][state = "ACTIVE" /\ state' = "OFF" =>
       LET n == Len(typed)
       IN /\ allowEscape /\ silence = Guard /\ n >= EscapeCount
          /\ typed[n - EscapeCount + 1].after = Guard
          /\ \A k \in (n - EscapeCount + 1)..n : typed[k].char = Escape]_vars

\* What is held back goes on its way or ends the session, unless the clock wraps
\* while it is held (xbee_bridge.c:117).
HeldEnds == held > 0 ~> held = 0 \/ since = Wrapped
=============================================================================
