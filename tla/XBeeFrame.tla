----------------------------- MODULE XBeeFrame -----------------------------
(***************************************************************************)
(* The API frame codec of xbee_frame.c: what each documented frame holds   *)
(* and where, how a frame is put on the wire (length, checksum, and the    *)
(* escapes of API mode 2), and the parser that finds frames again one byte *)
(* at a time in a stream that may have lost some.  Frame data is kept to   *)
(* the byte, because the layouts and the escapes are what can go wrong;    *)
(* the length limits are scaled down.                                      *)
(***************************************************************************)
EXTENDS Naturals, FiniteSets, SequencesExt

CONSTANTS MaxData,     \* XBEE_FRAME_MAX_DATA_LEN, the parser's buffer as well
          MaxPayload,  \* XBEE_MAX_PAYLOAD_LEN
          MaxPassword, \* XBEE_SECURE_PASSWORD_MAX
          Tails,       \* lengths of the variable part
          Seeds,       \* which bytes fill a frame; 0 is the *_defaults() frame
          Follow,      \* the types sent after the first frame
          MaxFrames,
          MaxUpsets    \* lost bytes, resets and changes of mode

Longest == 65535  \* a length is sent in two bytes

ASSUME FrameAssumption ==
  /\ {MaxData, MaxPayload, MaxPassword, MaxFrames, MaxUpsets} \subseteq Nat
  /\ 0 < MaxData /\ MaxData <= Longest
  /\ Tails \subseteq Nat /\ \A n \in Tails : n + 20 <= Longest  \* behind the fixed part
  /\ Seeds \subseteq Nat

Start   == 126
EscapeCharacter == 125
Reserved == {Start, EscapeCharacter, 17, 19}  \* with XON and XOFF
Xored(b) == IF (b \div 32) % 2 = 1 THEN b - 32 ELSE b + 32
MaxEncoded == 1 + 2 * (MaxData + 3)
Beyond == 256  \* a byte read outside the frame data

----------------------------------------------------------------------------
(* Layouts *)

Code ==
  [ TX64 |-> 0, TX16 |-> 1, AT |-> 8, AT_QUEUE |-> 9, TX_REQUEST |-> 16,
    EXPLICIT_TX |-> 17, REMOTE_AT |-> 23, BLE_UNLOCK |-> 44, USER_RELAY |-> 45,
    SECURE_CONTROL |-> 46, RX64 |-> 128, RX16 |-> 129, IO64 |-> 130, IO16 |-> 131,
    AT_RESPONSE |-> 136, TX_STATUS |-> 137, MODEM_STATUS |-> 138,
    EXT_TX_STATUS |-> 139, RX |-> 144, EXPLICIT_RX |-> 145, IO_SAMPLE |-> 146,
    REMOTE_AT_RESPONSE |-> 151, EXT_MODEM_STATUS |-> 152,
    BLE_UNLOCK_RESPONSE |-> 172, USER_RELAY_OUTPUT |-> 173, SECURE_RESPONSE |-> 174,
    RAW |-> 85 ]  \* any type the manual does not document

Types == DOMAIN Code
TypeOf(byte) == IF \E t \in Types : Code[t] = byte THEN CHOOSE t \in Types : Code[t] = byte
                                                   ELSE "RAW"
IoTypes == {"IO64", "IO16", "IO_SAMPLE"}

Width(field) ==
  CASE field \in {"dest_addr64", "source_addr64"} -> 8
    [] field \in {"dest_addr16", "source_addr16", "reserved16", "command",
                  "cluster_id", "profile_id", "timeout"} -> 2
    [] OTHER -> 1

\* The fields of what the host sends, in the order write_frame_data() puts them.
Written ==
  [ TX64           |-> <<"frame_id", "dest_addr64", "options">>,
    TX16           |-> <<"frame_id", "dest_addr16", "options">>,
    AT             |-> <<"frame_id", "command">>,
    AT_QUEUE       |-> <<"frame_id", "command">>,
    TX_REQUEST     |-> <<"frame_id", "dest_addr64", "reserved16", "broadcast_radius",
                         "options">>,
    EXPLICIT_TX    |-> <<"frame_id", "dest_addr64", "reserved16", "source_endpoint",
                         "destination_endpoint", "cluster_id", "profile_id",
                         "broadcast_radius", "options">>,
    REMOTE_AT      |-> <<"frame_id", "dest_addr64", "reserved16", "options", "command">>,
    BLE_UNLOCK     |-> <<"step">>,
    USER_RELAY     |-> <<"frame_id", "interface">>,
    SECURE_CONTROL |-> <<"dest_addr64", "options", "timeout">>,
    RAW            |-> <<>> ]

\* The fields of what the module sends, in the order of the structures.
Reported ==
  [ RX64                |-> <<"source_addr64", "rssi", "options">>,
    RX16                |-> <<"source_addr16", "rssi", "options">>,
    IO64                |-> <<"source_addr64", "rssi", "options">>,
    IO16                |-> <<"source_addr16", "rssi", "options">>,
    AT_RESPONSE         |-> <<"frame_id", "command", "status">>,
    TX_STATUS           |-> <<"frame_id", "status">>,
    MODEM_STATUS        |-> <<"status">>,
    EXT_TX_STATUS       |-> <<"frame_id", "reserved16", "retry_count", "status",
                              "discovery_status">>,
    RX                  |-> <<"source_addr64", "source_addr16", "options">>,
    EXPLICIT_RX         |-> <<"source_addr64", "reserved16", "source_endpoint",
                              "destination_endpoint", "cluster_id", "profile_id",
                              "options">>,
    IO_SAMPLE           |-> <<"source_addr64", "reserved16", "options">>,
    REMOTE_AT_RESPONSE  |-> <<"frame_id", "source_addr64", "reserved16", "command",
                              "status">>,
    EXT_MODEM_STATUS    |-> <<"status">>,
    BLE_UNLOCK_RESPONSE |-> <<"step">>,
    USER_RELAY_OUTPUT   |-> <<"interface">>,
    SECURE_RESPONSE     |-> <<"response_type", "source_addr64", "status">> ]

HostTypes == DOMAIN Written
Fields(t) == IF t \in HostTypes THEN Written[t] ELSE Reported[t]

\* The length before the variable part, type byte included, as the host counts it.
FixedLen ==
  [ TX64 |-> 1 + 1 + 8 + 1, TX16 |-> 1 + 1 + 2 + 1, AT |-> 1 + 1 + 2,
    AT_QUEUE |-> 1 + 1 + 2, TX_REQUEST |-> 1 + 1 + 8 + 2 + 1 + 1,
    EXPLICIT_TX |-> 1 + 1 + 8 + 2 + 2 + 2 + 2 + 1 + 1,
    REMOTE_AT |-> 1 + 1 + 8 + 2 + 1 + 2, BLE_UNLOCK |-> 1 + 1,
    USER_RELAY |-> 1 + 1 + 1, SECURE_CONTROL |-> 1 + 8 + 1 + 2, RAW |-> 1 ]

Limit(t) == CASE t \in {"TX64", "TX16", "TX_REQUEST", "EXPLICIT_TX"} -> MaxPayload
              [] t = "SECURE_CONTROL" -> MaxPassword
              [] OTHER -> MaxData

\* What the decoder requires of a frame the host sends, and where it reads.
HostLayout ==
  [ TX64           |-> [min |-> 11, at |-> [frame_id |-> 1, dest_addr64 |-> 2, options |-> 10]],
    TX16           |-> [min |-> 5, at |-> [frame_id |-> 1, dest_addr16 |-> 2, options |-> 4]],
    AT             |-> [min |-> 4, at |-> [frame_id |-> 1, command |-> 2]],
    AT_QUEUE       |-> [min |-> 4, at |-> [frame_id |-> 1, command |-> 2]],
    TX_REQUEST     |-> [min |-> 14, at |-> [frame_id |-> 1, dest_addr64 |-> 2,
                          reserved16 |-> 10, broadcast_radius |-> 12, options |-> 13]],
    EXPLICIT_TX    |-> [min |-> 20, at |-> [frame_id |-> 1, dest_addr64 |-> 2,
                          reserved16 |-> 10, source_endpoint |-> 12,
                          destination_endpoint |-> 13, cluster_id |-> 14,
                          profile_id |-> 16, broadcast_radius |-> 18, options |-> 19]],
    REMOTE_AT      |-> [min |-> 15, at |-> [frame_id |-> 1, dest_addr64 |-> 2,
                          reserved16 |-> 10, options |-> 12, command |-> 13]],
    BLE_UNLOCK     |-> [min |-> 2, at |-> [step |-> 1]],
    USER_RELAY     |-> [min |-> 3, at |-> [frame_id |-> 1, interface |-> 2]],
    SECURE_CONTROL |-> [min |-> 12, at |-> [dest_addr64 |-> 1, options |-> 9, timeout |-> 10]],
    RAW            |-> [min |-> 1, at |-> <<>>] ]

\* The same for what the module sends.
ModuleLayout ==
  [ RX64                |-> [min |-> 11, at |-> [source_addr64 |-> 1, rssi |-> 9, options |-> 10]],
    RX16                |-> [min |-> 5, at |-> [source_addr16 |-> 1, rssi |-> 3, options |-> 4]],
    IO64                |-> [min |-> 11, at |-> [source_addr64 |-> 1, rssi |-> 9, options |-> 10]],
    IO16                |-> [min |-> 5, at |-> [source_addr16 |-> 1, rssi |-> 3, options |-> 4]],
    AT_RESPONSE         |-> [min |-> 5, at |-> [frame_id |-> 1, command |-> 2, status |-> 4]],
    TX_STATUS           |-> [min |-> 3, at |-> [frame_id |-> 1, status |-> 2]],
    MODEM_STATUS        |-> [min |-> 2, at |-> [status |-> 1]],
    EXT_TX_STATUS       |-> [min |-> 7, at |-> [frame_id |-> 1, reserved16 |-> 2,
                               retry_count |-> 4, status |-> 5, discovery_status |-> 6]],
    RX                  |-> [min |-> 12, at |-> [source_addr64 |-> 1, source_addr16 |-> 9,
                               options |-> 11]],
    EXPLICIT_RX         |-> [min |-> 18, at |-> [source_addr64 |-> 1, reserved16 |-> 9,
                               source_endpoint |-> 11, destination_endpoint |-> 12,
                               cluster_id |-> 13, profile_id |-> 15, options |-> 17]],
    IO_SAMPLE           |-> [min |-> 12, at |-> [source_addr64 |-> 1, reserved16 |-> 9,
                               options |-> 11]],
    REMOTE_AT_RESPONSE  |-> [min |-> 15, at |-> [frame_id |-> 1, source_addr64 |-> 2,
                               reserved16 |-> 10, command |-> 12, status |-> 14]],
    EXT_MODEM_STATUS    |-> [min |-> 2, at |-> [status |-> 1]],
    BLE_UNLOCK_RESPONSE |-> [min |-> 2, at |-> [step |-> 1]],
    USER_RELAY_OUTPUT   |-> [min |-> 2, at |-> [interface |-> 1]],
    SECURE_RESPONSE     |-> [min |-> 11, at |-> [response_type |-> 1, source_addr64 |-> 2,
                               status |-> 10]] ]

Layout(t) == IF t \in HostTypes THEN HostLayout[t] ELSE ModuleLayout[t]
Tailless == {"TX_STATUS", "MODEM_STATUS", "EXT_TX_STATUS", "SECURE_RESPONSE"}

HasFrameId(t) ==
  t \in {"TX64", "TX16", "AT", "AT_QUEUE", "TX_REQUEST", "EXPLICIT_TX", "REMOTE_AT",
         "USER_RELAY", "AT_RESPONSE", "TX_STATUS", "EXT_TX_STATUS", "REMOTE_AT_RESPONSE"}

\* xbee_frame_set_frame_id() and _get_frame_id(): no effect on a type without one.
WithFrameId(f, id) == IF HasFrameId(f.type) THEN [f EXCEPT !.fields.frame_id = <<id>>] ELSE f
FrameId(f) == IF HasFrameId(f.type) THEN f.fields.frame_id ELSE <<>>

Broadcast64 == <<0, 0, 0, 0, 0, 0, 255, 255>>
\* What the *_defaults() functions set; the rest of the frame is zero.
Defaults ==
  [ TX64           |-> [frame_id |-> <<1>>, dest_addr64 |-> Broadcast64],
    TX16           |-> [frame_id |-> <<1>>, dest_addr16 |-> <<255, 255>>],
    AT             |-> [frame_id |-> <<1>>],
    AT_QUEUE       |-> [frame_id |-> <<1>>],
    TX_REQUEST     |-> [frame_id |-> <<1>>, dest_addr64 |-> Broadcast64,
                        reserved16 |-> <<255, 254>>],
    EXPLICIT_TX    |-> [frame_id |-> <<1>>, dest_addr64 |-> Broadcast64,
                        reserved16 |-> <<255, 254>>, source_endpoint |-> <<232>>,
                        destination_endpoint |-> <<232>>, cluster_id |-> <<0, 17>>,
                        profile_id |-> <<193, 5>>],
    REMOTE_AT      |-> [frame_id |-> <<1>>, dest_addr64 |-> [i \in 1..8 |-> 255],
                        reserved16 |-> <<255, 254>>, options |-> <<2>>],
    BLE_UNLOCK     |-> [step |-> <<1>>],
    USER_RELAY     |-> [frame_id |-> <<1>>, interface |-> <<0>>],
    SECURE_CONTROL |-> [dest_addr64 |-> Broadcast64, options |-> <<0>>],
    RAW            |-> <<>> ]

----------------------------------------------------------------------------
(* Onto the wire *)

BE16(n) == <<n \div 256, n % 256>>
Checksum(data) ==
  LET sum[n \in 0..Len(data)] == IF n = 0 THEN 0 ELSE (sum[n - 1] + data[n]) % 256
  IN  255 - sum[Len(data)]
FrameData(f) ==
  <<Code[f.type]>> \o FlattenSeq([i \in DOMAIN Fields(f.type) |-> f.fields[Fields(f.type)[i]]])
                   \o f.tail

\* frame_data_len(): what the host may send, and how long it will be.
FrameDataLen(f) ==
  LET total == FixedLen[f.type] + Len(f.tail) IN
    IF Len(f.tail) > Limit(f.type) /\ f.type # "RAW"
      THEN [status |-> "INVALID_PARAMETER", len |-> 0]
    ELSE IF total > MaxData THEN [status |-> "WOULD_OVERFLOW", len |-> 0]
    ELSE [status |-> "OK", len |-> total]

\* writer_put(): neither the order nor the checksum depends on the escapes.
Put(b, escaped) ==
  IF escaped /\ b \in Reserved THEN <<EscapeCharacter, Xored(b)>> ELSE <<b>>

\* Mutant: the checksum takes the length in.
OnWireAllSummed(len, data, escaped) ==
  LET bytes == BE16(len) \o data \o <<Checksum(BE16(len) \o data)>> IN
    <<Start>> \o FlattenSeq([i \in DOMAIN bytes |-> Put(bytes[i], escaped)])

\* The length is escaped like the rest and not summed; the delimiter is neither.
OnWire(len, data, escaped) ==
  LET bytes == BE16(len) \o data \o <<Checksum(data)>> IN
    <<Start>> \o FlattenSeq([i \in DOMAIN bytes |-> Put(bytes[i], escaped)])

----------------------------------------------------------------------------
(* Back from the wire *)

Slice(data, at, n) == [i \in 1..n |-> IF at + i <= Len(data) THEN data[at + i] ELSE Beyond]
Value(bytes) == 256 * bytes[1] + bytes[2]
PopCount(n) == Cardinality({k \in 0..15 : (n \div 2^k) % 2 = 1})
Refused == [status |-> "INVALID_RANGE"]

\* decode_io_sample(): the block at the end of an I/O sample indicator.
DecodeIoSample(data, pos, legacy) ==
  LET masks   == pos + 1
      combined == Value(Slice(data, masks, 2))
      digital == IF legacy THEN combined % 512 ELSE combined
      analog  == IF legacy THEN (combined \div 512) % 16 ELSE Slice(data, masks + 2, 1)[1]
      levels  == masks + (IF legacy THEN 2 ELSE 3)
      samples == levels + (IF digital # 0 THEN 2 ELSE 0)
  IN IF levels > Len(data) \/ samples > Len(data) \/ samples + 2 * PopCount(analog) > Len(data)
       THEN Refused
       ELSE [status |-> "OK", count |-> Slice(data, pos, 1)[1],
             digital |-> digital, analog |-> analog,
             levels |-> Slice(data, levels, samples - levels),
             values |-> Slice(data, samples, 2 * PopCount(analog))]

\* xbee_frame_decode().
Decode(data) ==
  LET type   == TypeOf(data[1])
      min    == Layout(type).min
      at     == Layout(type).at
      fields == [n \in DOMAIN at |-> Slice(data, at[n], Width(n))]
      rest   == IF type \in Tailless THEN <<>> ELSE Slice(data, min, Len(data) - min)
      sample == DecodeIoSample(data, min, type # "IO_SAMPLE")
  IN IF Len(data) < min \/ (type \in IoTypes /\ sample.status # "OK") THEN Refused
     ELSE [status |-> "OK", type |-> type, fields |-> fields,
           tail |-> IF type \in IoTypes THEN sample ELSE rest]

----------------------------------------------------------------------------
(* The stream *)

VARIABLES
  escaped, \* API mode 2, on both sides
  wire,    \* the bytes of the frame on its way, not yet received
  frame,   \* that frame: what it is, its frame data, whether it arrives whole
  parser,  \* xbee_frame_parser_t, without its statistics
  got,     \* what the parser and the decoder last made of a frame since it started
  sent, upsets

vars == <<escaped, wire, frame, parser, got, sent, upsets>>

Idle == [state |-> "WAIT_START", buf |-> <<>>, len |-> 0, expected |-> 0,
         escape_next |-> FALSE, overflowed |-> FALSE]
Nothing == [status |-> "NONE", data |-> <<>>, frame |-> Refused]

\* Bytes that the framing could mistake for its own, and plain ones.
Specials == <<126, 0, 125, 17, 94, 19, 93>>
Fill(seed, k, n) == [i \in 1..n |-> Specials[((seed + 3 * k + i) % 7) + 1]]

FieldOf(t, seed, k) ==
  LET name == Fields(t)[k] IN
    IF seed > 0 THEN Fill(seed, k, Width(name))
    ELSE IF name \in DOMAIN Defaults[t] THEN Defaults[t][name]
    ELSE [i \in 1..Width(name) |-> 0]

\* A frame of type t; t has its defaults, or every byte of it is one of Specials.
Built(t, seed, n) ==
  [ type |-> t, tail |-> Fill(seed, 0, n),
    fields |-> [name \in Range(Fields(t)) |->
                  FieldOf(t, seed, CHOOSE k \in DOMAIN Fields(t) : Fields(t)[k] = name)] ]

\* The sample blocks of the module's indicators: the count, the masks, then what they announce.
Sampled(legacy, digital, analog, seed) ==
  LET levels == IF digital = 0 THEN <<>> ELSE Fill(seed, 1, 2)
      values == Fill(seed, 2, 2 * PopCount(analog))
  IN [ block |-> <<1>> \o (IF legacy THEN BE16(512 * analog + digital)
                                     ELSE BE16(digital) \o <<analog>>) \o levels \o values,
       says  |-> [status |-> "OK", count |-> 1, digital |-> digital, analog |-> analog,
                  levels |-> levels, values |-> values] ]

Init ==
  /\ escaped \in BOOLEAN
  /\ wire = <<>> /\ parser = Idle /\ got = Nothing
  /\ frame = [says |-> Refused, data |-> <<>>, whole |-> FALSE, plain |-> FALSE, encoded |-> 0,
              lossy |-> FALSE]
  /\ sent = 0 /\ upsets = 0

\* Mode 1 marks a delimiter inside the frame in no way, and after an escape
\* character whose second byte was lost mode 2 takes one for data.
OnItsWay(bytes, data, says, lossy) ==
  LET plain == (escaped \/ Start \notin Range(Tail(bytes))) /\ ~parser.escape_next IN
    /\ frame' = [says |-> says, data |-> data, encoded |-> Len(bytes), lossy |-> lossy,
                 plain |-> plain, whole |-> plain]
    /\ wire' = bytes /\ got' = Nothing /\ sent' = sent + 1
    /\ UNCHANGED <<escaped, parser, upsets>>

Said(f) == [status |-> "OK", type |-> f.type, fields |-> f.fields, tail |-> f.tail]
MaySend(t) == wire = <<>> /\ sent < MaxFrames /\ (sent > 0 => t \in Follow)

\* xbee_frame_encode(), after the transport gave the frame its identifier.
HostSends(t, seed, n, id) ==
  LET f    == WithFrameId(Built(t, seed, n), id)
      size == FrameDataLen(f)
      data == FrameData(f)
  IN /\ MaySend(t) /\ size.status = "OK"
     /\ OnItsWay(OnWire(size.len, data, escaped), data, Said(f), FALSE)

\* The module sends any frame it documents, also one cut short at its end.
ModuleSends(t, seed, n, cut) ==
  LET f     == Built(t, seed, IF t \in Tailless THEN 0 ELSE n)
      data  == FrameData(f)
      sends == SubSeq(data, 1, Len(data) - cut)
  IN /\ MaySend(t) /\ (cut > 0 => f.tail = <<>>)
     /\ OnItsWay(OnWire(Len(sends), sends, escaped), sends,
                 IF cut > 0 THEN Refused ELSE Said(f), TRUE)

ModuleSamples(t, seed, digital, analog, cut) ==
  LET sampled == Sampled(t # "IO_SAMPLE", digital, analog, seed)
      f       == Built(t, seed, 0)
      data    == FrameData(f) \o sampled.block
      sends   == SubSeq(data, 1, Len(data) - cut)
  IN /\ MaySend(t)
     /\ OnItsWay(OnWire(Len(sends), sends, escaped), sends,
                 IF cut > 0 THEN Refused ELSE Said([f EXCEPT !.tail = sampled.says]), TRUE)

----------------------------------------------------------------------------
(* xbee_frame_parser_feed() *)

Started == [Idle EXCEPT !.state = "LEN_MSB"]

\* Mutant: an announced length that does not fit the buffer is not noticed.
CollectedAnyway(p, byte) ==
  CASE p.state = "LEN_MSB" -> [p EXCEPT !.expected = 256 * byte, !.state = "LEN_LSB"]
    [] p.state = "LEN_LSB" ->
         IF p.expected + byte = 0 THEN [p EXCEPT !.state = "WAIT_START"]
         ELSE [p EXCEPT !.expected = @ + byte, !.state = "DATA"]
    [] p.state = "DATA" ->
         [p EXCEPT !.buf = Append(@, byte), !.len = @ + 1,
                   !.state = IF p.len + 1 >= p.expected THEN "CHECKSUM" ELSE @]
    [] OTHER -> [p EXCEPT !.state = "WAIT_START"]

\* A byte of the frame, its escape already taken off.
Collected(p, byte) ==
  CASE p.state = "LEN_MSB" -> [p EXCEPT !.expected = 256 * byte, !.state = "LEN_LSB"]
    [] p.state = "LEN_LSB" ->
         IF p.expected + byte = 0 THEN [p EXCEPT !.state = "WAIT_START"]
         ELSE [p EXCEPT !.expected = @ + byte, !.overflowed = (p.expected + byte > MaxData),
                        !.state = "DATA"]
    [] p.state = "DATA" ->
         [p EXCEPT !.buf = IF p.overflowed THEN @ ELSE Append(@, byte), !.len = @ + 1,
                   !.state = IF p.len + 1 >= p.expected THEN "CHECKSUM" ELSE @]
    [] OTHER -> [p EXCEPT !.state = "WAIT_START"]

\* Mutant: a frame is handed up without looking at its checksum.
VerdictUnchecked(p, byte) ==
  IF p.overflowed THEN [Nothing EXCEPT !.status = "WOULD_OVERFLOW"]
  ELSE [status |-> "OK", data |-> p.buf, frame |-> Decode(p.buf)]

\* What the last byte of a frame decides; the transport decodes a good one at once.
Verdict(p, byte) ==
  IF p.overflowed THEN [Nothing EXCEPT !.status = "WOULD_OVERFLOW"]
  ELSE IF Checksum(p.buf) # byte THEN [Nothing EXCEPT !.status = "INVALID_SIGNATURE"]
  ELSE [status |-> "OK", data |-> p.buf, frame |-> Decode(p.buf)]

Feed ==
  /\ wire # <<>>
  /\ wire' = Tail(wire)
  /\ LET b     == Head(wire)
         plain == IF parser.escape_next THEN Xored(b) ELSE b
         p     == [parser EXCEPT !.escape_next = FALSE]
     IN \/ /\ b = Start /\ ~parser.escape_next
           /\ parser' = Started /\ UNCHANGED got
        \/ /\ b # Start /\ parser.state = "WAIT_START"
           /\ UNCHANGED <<parser, got>>
        \/ /\ b = EscapeCharacter /\ escaped /\ ~parser.escape_next
           /\ parser.state # "WAIT_START"
           /\ parser' = [parser EXCEPT !.escape_next = TRUE] /\ UNCHANGED got
        \/ /\ parser.state # "WAIT_START" /\ (b = Start => parser.escape_next)
           /\ ~(b = EscapeCharacter /\ escaped /\ ~parser.escape_next)
           /\ parser' = Collected(p, plain)
           /\ got' = IF parser.state = "CHECKSUM" THEN Verdict(p, plain) ELSE got
  /\ UNCHANGED <<escaped, frame, sent, upsets>>

\* Whether the framing notices that the next byte is lost.  Behind an escape
\* character the next one takes its place.  A frame whose delimiter is lost can
\* end another, cut short before it.  A byte of the data or the checksum leaves
\* the frame one short, and an escape character one byte wrong, where two could
\* balance in the sum.  A length that loses a byte, or its escape, announces more
\* than a short frame holds, but less than a long one may.
Noticed ==
  /\ ~parser.escape_next
  /\ \/ parser.state = "WAIT_START"
     \/ /\ Len(wire) < frame.encoded
        /\ \/ parser.state \in {"DATA", "CHECKSUM"} /\ (~escaped \/ frame.whole)
           \/ /\ parser.state \in {"LEN_MSB", "LEN_LSB"} /\ frame.whole
              /\ Len(frame.data) < EscapeCharacter

\* The receive ring was full.
Lose ==
  /\ wire # <<>> /\ frame.lossy /\ upsets < MaxUpsets
  /\ wire' = Tail(wire) /\ upsets' = upsets + 1
  /\ frame' = [frame EXCEPT !.whole = FALSE, !.plain = @ /\ Noticed]
  /\ UNCHANGED <<escaped, parser, got, sent>>

\* xbee_frame_parser_reset(), when the transport is restarted.
Reset ==
  /\ upsets < MaxUpsets /\ upsets' = upsets + 1
  /\ parser' = Idle
  /\ frame' = [frame EXCEPT !.whole = @ /\ wire = <<>>]
  /\ UNCHANGED <<escaped, wire, got, sent>>

\* xbee_frame_parser_set_escaped(); the module changes mode between two frames.
SetEscaped ==
  /\ wire = <<>> /\ upsets < MaxUpsets /\ upsets' = upsets + 1
  /\ escaped' = ~escaped /\ parser' = Idle
  /\ UNCHANGED <<wire, frame, got, sent>>

\* Done when there is nothing left to send.
Done == wire = <<>> /\ sent = MaxFrames /\ UNCHANGED vars

Next ==
  \/ \E t \in HostTypes, s \in Seeds, n \in Tails, id \in {1, Start} : HostSends(t, s, n, id)
  \/ \E t \in Types \ (HostTypes \cup IoTypes), s \in Seeds \ {0}, n \in Tails, cut \in {0, 1} :
       ModuleSends(t, s, n, cut)
  \/ \E t \in IoTypes, s \in Seeds \ {0}, digital \in {0, 17, 256}, analog \in {0, 1, 10},
        cut \in {0, 1} :
       ModuleSamples(t, s, digital, analog, cut)
  \/ Feed
  \/ Lose
  \/ Reset
  \/ SetEscaped
  \/ Done

Spec == Init /\ [][Next]_vars

----------------------------------------------------------------------------
(* Properties *)

\* What must come of a frame none of whose bytes was lost.
Due == IF Len(frame.data) > MaxData THEN [Nothing EXCEPT !.status = "WOULD_OVERFLOW"]
       ELSE [status |-> "OK", data |-> frame.data, frame |-> frame.says]

\* A frame that arrives whole is handed up with every field as it was sent,
\* whatever was lost before it: writer, lengths, escapes, checksum, parser and
\* decoder agree on every layout and in both modes (xbee_frame_encode(),
\* xbee_frame_parser_feed(), xbee_frame_decode()).  One too long for the buffer
\* is reported, and one too short for its type is refused.
Delivered ==
  wire = <<>> /\ frame.whole =>
    /\ got = Due
    /\ got.frame.status = "OK" =>
         (HasFrameId(got.frame.type) <=> "frame_id" \in DOMAIN got.frame.fields)

\* Losing bytes never produces a frame: whatever the parser hands up as good is
\* the frame that was sent, to the byte (xbee_frame_parser_feed(); bytes are
\* lost when the receive ring is full).  That is so of the losses the framing can
\* notice, Noticed; the others do escape it.  In mode 1 a frame may hold a start
\* delimiter, and in mode 2 the byte an escape character announces may be lost,
\* where 7D 5D 7D 33 less its second byte reads as 5D 33, of the same sum as 7D 13.
NothingForged ==
  got.status = "OK" /\ frame.plain => got.data = frame.data

\* Nothing is written or read outside its buffer: the encoder stays inside a
\* transmit buffer of XBEE_FRAME_MAX_ENCODED_LEN, the parser inside its own
\* whatever length a frame announces, and the decoder reads no byte past the
\* frame data it was given (writer_put(), xbee_frame_parser_feed(),
\* xbee_frame_decode()).
InBounds ==
  /\ ~frame.lossy => frame.encoded <= MaxEncoded /\ Len(frame.data) <= MaxData
  /\ Len(parser.buf) <= MaxData
  /\ parser.overflowed \/ parser.len = Len(parser.buf)
  /\ got.frame.status = "OK" =>
       \A n \in DOMAIN got.frame.fields : Beyond \notin Range(got.frame.fields[n])
=============================================================================
