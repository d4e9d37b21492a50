-------------------------- MODULE XBeeFrameProofs --------------------------
(***************************************************************************)
(* Proofs about the codec of API frames, for every size of the buffer,     *)
(* every set of seeds and every set of tail lengths the assumption allows: *)
(* the buffers hold, a frame none of whose bytes is lost arrives as it was *)
(* sent, in both modes, and of one that lost bytes nothing else is handed  *)
(* up as long as the losses are ones the parser can notice.                *)
(*                                                                         *)
(* The argument has two halves.  What is sent: the data of a frame follow  *)
(* the layout of its type, so that decoding them says what was encoded, and *)
(* the wire carries them behind a delimiter that nothing else on it looks  *)
(* like.  What is fed: between two bytes the parser is always at a known   *)
(* part of the frame, one part or one escape further with every byte.      *)
(***************************************************************************)
EXTENDS XBeeFrame, FiniteSetTheorems, TLAPS

(***************************************************************************)
(* Induction over the naturals, and sequences put together.                *)
(***************************************************************************)

\* A set of naturals that holds 0 and, with any number, the next, holds them all:
\* the least number outside it would have one before it, outside it as well.
LEMMA SetInduction ==
  ASSUME NEW S, 0 \in S, \A n \in Nat : n \in S => n + 1 \in S
  PROVE  Nat \subseteq S
<1> SUFFICES ASSUME NEW n \in Nat, n \notin S PROVE FALSE
  OBVIOUS
<1> DEFINE T == {m \in 0..n : m \notin S}
<1> DEFINE f == [m \in T |-> m - 1]
<1>1. IsFiniteSet(T) /\ n \in T
  <2>1. IsFiniteSet(0..n) BY FS_Interval
  <2> QED BY <2>1, FS_Subset
<1>2. \A m \in T : m # 0 /\ m - 1 \in T
  <2>1. ASSUME NEW m \in T, m-1 \in S PROVE FALSE
    <3>1. m # 0 /\ m - 1 \in Nat /\ m \notin S
      OBVIOUS
    <3>2. (m-1)+1 \in S
      BY <2>1, <3>1
    <3> QED BY <3>1, <3>2
  <2>2. \A m \in T : m # 0
   OBVIOUS
  <2> QED BY <2>1, <2>2
<1>3. f \in Injection(T, T)
  BY <1>2 DEF Injection, IsInjective
<1>4. f \in Surjection(T, T)
  <2> HIDE DEF f, T
  <2> QED BY <1>1, <1>3, FS_Injection
<1>5. \E m \in T : f[m] = n
  BY <1>1, <1>4 DEF Surjection
<1> QED BY <1>5

\* g[i] is the first i sequences of s, one behind the other: the function FlattenSeq
\* chooses, for the first n of them.
Join(s, n, g) == g = [i \in 1..n |-> IF i = 1 THEN s[i] ELSE g[i - 1] \o s[i]]

\* That function exists for every length.
LEMMA JoinExists ==
  ASSUME NEW s, NEW n \in Nat
  PROVE  \E g : Join(s, n, g)
<1> DEFINE S == {m \in Nat : \E g : Join(s, m, g)}
<1>1. 0 \in S
  <2> DEFINE g == [i \in 1..0 |-> s[i]]
  <2>1. Join(s, 0, g)
    BY DEF Join
  <2> QED BY <2>1
<1>2. ASSUME NEW m \in Nat, m \in S PROVE m + 1 \in S
  <2>1. PICK g : Join(s, m, g)
    BY <1>2
  <2> DEFINE last == IF m + 1 = 1 THEN s[m + 1] ELSE g[m] \o s[m + 1]
             h == [i \in 1..(m + 1) |-> IF i = m + 1 THEN last ELSE g[i]]
  <2>2. ASSUME NEW i \in 1..(m + 1) PROVE h[i] = IF i = 1 THEN s[i] ELSE h[i - 1] \o s[i]
    <3>1. CASE i = m + 1
      BY <3>1
    <3>2. CASE i # m + 1
      <4>1. i \in 1..m /\ h[i] = g[i] /\ (i # 1 => i - 1 \in 1..m /\ h[i-1] = g[i-1])
        BY <3>2
      <4>2. g[i] = IF i = 1 THEN s[i] ELSE g[i - 1] \o s[i]
        BY <2>1, <4>1 DEF Join
      <4> QED BY <4>1, <4>2
    <3> QED BY <3>1, <3>2
  <2>3. h = [i \in 1..(m + 1) |-> h[i]]
    OBVIOUS
  <2> HIDE DEF h
  <2>4. Join(s, m + 1, h)
    BY <2>2, <2>3 DEF Join
  <2> QED BY <2>4
<1> HIDE DEF S
<1>3. n \in S
  BY <1>1, <1>2, SetInduction
<1> QED BY <1>3 DEF S

\* FlattenSeq is the last value of such a function.
LEMMA FlattenJoins ==
  ASSUME NEW s, Len(s) \in Nat, Len(s) # 0
  PROVE  \E g : Join(s, Len(s), g) /\ FlattenSeq(s) = g[Len(s)]
<1> DEFINE f == CHOOSE g : g = [i \in 1..Len(s) |-> IF i = 1 THEN s[i] ELSE g[i - 1] \o s[i]]
<1>1. FlattenSeq(s) = f[Len(s)]
  BY DEF FlattenSeq
<1>2. Join(s, Len(s), f)
  BY JoinExists DEF Join
<1> QED BY <1>1, <1>2

\* Where each part of a sequence of sequences begins once they are joined: behind
\* the one before.
Adjoin(s, at) == \A k \in 1..Len(s) : at[k + 1] = at[k] + Len(s[k])

\* The first begins at 0.
Offsets(s, at) ==
  /\ at[1] = 0 /\ \A k \in 1..Len(s) : at[k] \in Nat
  /\ Adjoin(s, at)

\* The first m parts of s, joined, are whole: part k is in it from at[k] on.
Holds(whole, s, at, m) ==
  /\ Len(whole) = at[m + 1]
  /\ \A k \in 1..m : at[k] \in Nat /\ at[k] + Len(s[k]) <= Len(whole)
  /\ \A k \in 1..m : \A j \in 1..Len(s[k]) : whole[at[k] + j] = s[k][j]

\* Two sequences of V, one behind the other.
Joined(V, p, q) ==
  /\ p \o q \in Seq(V) /\ Len(p \o q) = Len(p) + Len(q)
  /\ Len(p) \in Nat /\ Len(q) \in Nat
  /\ \A i \in 1..Len(p) : (p \o q)[i] = p[i]
  /\ \A i \in 1..Len(q) : (p \o q)[Len(p) + i] = q[i]

\* What joining two sequences gives.
LEMMA Joins ==
  ASSUME NEW V, NEW p \in Seq(V), NEW q \in Seq(V)
  PROVE  Joined(V, p, q)
BY DEF Joined

\* One part is joined already.
LEMMA HoldsOne ==
  ASSUME NEW V, NEW s, NEW p \in Seq(V), s[1] = p, NEW at, at[1] = 0, at[2] = Len(p)
  PROVE  Holds(p, s, at, 1)
<1>1. Len(p) \in Nat
  OBVIOUS
<1>2. \A k \in 1..1 : k = 1
  OBVIOUS
<1>3. 1 + 1 = 2 /\ \A j \in 1..Len(p) : 0 + j = j
  BY <1>1
<1> QED BY <1>1, <1>2, <1>3 DEF Holds

\* Joining one part more leaves the others where they are.
LEMMA HoldsMore ==
  ASSUME NEW V, NEW s, NEW m \in Nat, NEW p \in Seq(V), NEW q \in Seq(V), s[m + 1] = q,
         NEW at, Holds(p, s, at, m), at[m + 2] = at[m + 1] + Len(q),
         \A k \in 1..m : Len(s[k]) \in Nat
  PROVE  Holds(p \o q, s, at, m + 1)
<1>1. /\ Len(p \o q) = Len(p) + Len(q) /\ Len(p) \in Nat /\ Len(q) \in Nat
      /\ \A i \in 1..Len(p) : (p \o q)[i] = p[i]
      /\ \A i \in 1..Len(q) : (p \o q)[Len(p) + i] = q[i]
  <2>1. Joined(V, p, q)
    BY Joins
  <2> QED BY <2>1 DEF Joined
<1>2. /\ Len(p) = at[m + 1] /\ (m + 1) + 1 = m + 2
      /\ \A k \in 1..m : at[k] \in Nat /\ at[k] + Len(s[k]) <= Len(p)
      /\ \A k \in 1..m : \A j \in 1..Len(s[k]) : p[at[k] + j] = s[k][j]
  BY DEF Holds
<1>3. ASSUME NEW k \in 1..(m + 1)
      PROVE  at[k] \in Nat /\ at[k] + Len(s[k]) <= Len(p \o q)
  <2>1. CASE k = m + 1
    BY <1>1, <1>2, <2>1
  <2>2. CASE k # m + 1
    <3>1. k \in 1..m
      BY <2>2
    <3> QED BY <1>1, <1>2, <3>1, SMTT(40)
  <2> QED BY <2>1, <2>2
<1>4. ASSUME NEW k \in 1..(m + 1), NEW j \in 1..Len(s[k])
      PROVE  (p \o q)[at[k] + j] = s[k][j]
  <2>1. CASE k = m + 1
    BY <1>1, <1>2, <2>1
  <2>2. CASE k # m + 1
    <3>1. k \in 1..m
      BY <2>2
    <3>2. at[k] \in Nat /\ at[k] + Len(s[k]) <= Len(p) /\ Len(s[k]) \in Nat
      BY <1>2, <3>1
    <3>3. p[at[k] + j] = s[k][j]
      BY <1>2, <3>1
    <3>4. at[k] + j \in 1..Len(p)
      BY <1>1, <3>2, SMTT(40)
    <3> QED BY <1>1, <3>3, <3>4
  <2> QED BY <2>1, <2>2
<1>5. Len(p \o q) = at[(m + 1) + 1]
  BY <1>1, <1>2
<1>6. /\ \A k \in 1..(m + 1) : at[k] \in Nat /\ at[k] + Len(s[k]) <= Len(p \o q)
      /\ \A k \in 1..(m + 1) : \A j \in 1..Len(s[k]) : (p \o q)[at[k] + j] = s[k][j]
  BY <1>3, <1>4
<1> QED BY ONLY <1>5, <1>6, Zenon DEF Holds

\* The first m parts, joined by g, are where at says.
Placed(V, s, g, at, m) == g[m] \in Seq(V) /\ at[m] \in Nat /\ Holds(g[m], s, at, m)

\* Flattening a sequence of sequences puts every part where the lengths of those
\* before it lead.
LEMMA Flattened ==
  ASSUME NEW V, NEW s \in Seq(Seq(V)), Len(s) # 0
  PROVE  /\ FlattenSeq(s) \in Seq(V)
         /\ \E at : Offsets(s, at) /\ Holds(FlattenSeq(s), s, at, Len(s))
<1>1. Len(s) \in Nat \ {0} /\ \A k \in 1..Len(s) : s[k] \in Seq(V) /\ Len(s[k]) \in Nat
  OBVIOUS
<1>2. PICK g : Join(s, Len(s), g) /\ FlattenSeq(s) = g[Len(s)]
  BY <1>1, FlattenJoins
<1>3. \A i \in 1..Len(s) : g[i] = IF i = 1 THEN s[i] ELSE g[i - 1] \o s[i]
  BY <1>1, <1>2 DEF Join
<1> DEFINE at == [k \in 1..(Len(s) + 1) |-> IF k = 1 THEN 0 ELSE Len(g[k - 1])]
           S == {m \in Nat : m \in 1..Len(s) => Placed(V, s, g, at, m)}
<1>0. at[1] = 0 /\ \A k \in 1..Len(s) : at[k + 1] = Len(g[k])
  BY <1>1
<1> HIDE DEF at
<1>4. 0 \in S
  OBVIOUS
<1>5. ASSUME NEW m \in Nat, m \in S, m + 1 \in 1..Len(s) PROVE Placed(V, s, g, at, m + 1)
  <2>1. CASE m = 0
    <3>1. g[1] = s[1] /\ s[1] \in Seq(V) /\ at[2] = Len(s[1]) /\ m + 1 = 1
      <4>1. 1 \in 1..Len(s) /\ 1 + 1 = 2
        BY <1>1
      <4> QED BY <1>1, <1>3, <1>0, <4>1, <2>1
    <3>2. Holds(g[1], s, at, 1)
      BY <1>0, <3>1, HoldsOne
    <3> QED BY <1>0, <3>1, <3>2 DEF Placed
  <2>2. CASE m # 0
    <3>1. m \in 1..Len(s) /\ s[m + 1] \in Seq(V) /\ m + 1 # 1 /\ (m + 1) - 1 = m /\ (m+1)+1 = m+2
      BY <1>1, <1>5, <2>2
    <3>2. g[m + 1] = g[m] \o s[m + 1] /\ at[m + 1] = Len(g[m]) /\ at[m + 2] = Len(g[m + 1])
      BY <1>3, <1>0, <1>5, <3>1
    <3>3. g[m] \in Seq(V) /\ Holds(g[m], s, at, m)
      BY <1>5, <3>1 DEF Placed
    <3>4. Len(g[m + 1]) = Len(g[m]) + Len(s[m + 1]) /\ g[m + 1] \in Seq(V) /\ Len(g[m]) \in Nat
      <4>1. Joined(V, g[m], s[m + 1])
        BY <3>1, <3>3, Joins
      <4> QED BY <3>2, <4>1 DEF Joined
    <3>5. \A k \in 1..m : Len(s[k]) \in Nat
      BY <1>1, <3>1
    <3>6. Holds(g[m + 1], s, at, m + 1)
      BY <3>1, <3>2, <3>3, <3>4, <3>5, HoldsMore
    <3> QED BY <3>2, <3>4, <3>6 DEF Placed
  <2> QED BY <2>1, <2>2
<1>6. \A m \in Nat : m \in S
  <2>1. \A m \in Nat : m \in S => m + 1 \in S
    BY <1>5
  <2> HIDE DEF S
  <2> QED BY <1>4, <2>1, SetInduction
<1>7. \A m \in 1..Len(s) : Placed(V, s, g, at, m)
  BY <1>1, <1>6
<1>8. Offsets(s, at)
  <2>1. ASSUME NEW k \in 1..Len(s) PROVE at[k + 1] = at[k] + Len(s[k])
    <3>1. CASE k = 1
      BY <1>1, <1>3, <1>0, <3>1
    <3>2. CASE k # 1
      <4>1. k - 1 \in 1..Len(s) /\ (k - 1) + 1 = k
        BY <1>1, <3>2
      <4>2. g[k] = g[k - 1] \o s[k] /\ at[k] = Len(g[k - 1]) /\ at[k + 1] = Len(g[k])
        BY <1>3, <1>0, <3>2, <4>1
      <4>3. g[k - 1] \in Seq(V) /\ s[k] \in Seq(V)
        BY <1>1, <1>7, <4>1 DEF Placed
      <4>4. Joined(V, g[k - 1], s[k])
        BY <4>3, Joins
      <4> QED BY <4>2, <4>4 DEF Joined
    <3> QED BY <3>1, <3>2
  <2>2. \A k \in 1..Len(s) : at[k] \in Nat
    BY <1>7 DEF Placed
  <2> QED BY <1>0, <2>1, <2>2 DEF Offsets, Adjoin
<1>9. Placed(V, s, g, at, Len(s))
  BY <1>1, <1>7
<1> QED BY <1>2, <1>8, <1>9 DEF Placed

(***************************************************************************)
(* Types, codes and layouts.                                               *)
(***************************************************************************)

\* An octet.
Byte == {b \in Nat : b < 256}

\* Type codes are octets, no two types share one, and the module's have bit 7 set.
LEMMA Codes ==
  /\ \A t \in Types : Code[t] \in Byte
  /\ \A t, u \in Types : Code[t] = Code[u] => t = u
  /\ \A t \in Types \ HostTypes : Code[t] >= 128
BY DEF Types, Code, HostTypes, Written, Byte

\* A type is found again by its code, as the switch of xbee_frame_decode() does.
LEMMA TypeOfCode ==
  /\ \A t \in Types : TypeOf(Code[t]) = t
  /\ \A b : TypeOf(b) \in Types
<1>1. "RAW" \in Types
  BY DEF Types, Code
<1>2. ASSUME NEW t \in Types PROVE TypeOf(Code[t]) = t
  <2>1. \A u \in Types : Code[u] = Code[t] => u = t
    BY Codes
  <2>2. (CHOOSE u \in Types : Code[u] = Code[t]) = t
    BY <2>1
  <2> QED BY <2>2 DEF TypeOf
<1> QED BY <1>1, <1>2 DEF TypeOf

\* The size of each field in octets.
LEMMA Widths ==
  ASSUME NEW n
  PROVE  Width(n) = IF n \in {"dest_addr64", "source_addr64"} THEN 8
                    ELSE IF n \in {"dest_addr16", "source_addr16", "reserved16", "command",
                                   "cluster_id", "profile_id", "timeout"} THEN 2 ELSE 1
<1>1. CASE n \in {"dest_addr64", "source_addr64"}
  BY <1>1, Zenon DEF Width
<1>2. CASE n \in {"dest_addr16", "source_addr16", "reserved16", "command",
                  "cluster_id", "profile_id", "timeout"}
  <2>1. n \notin {"dest_addr64", "source_addr64"}
    BY <1>2
  <2> QED BY <1>2, <2>1, Zenon DEF Width
<1>3. CASE n \notin {"dest_addr64", "source_addr64"} /\ n \notin {"dest_addr16", "source_addr16",
                                                                  "reserved16", "command",
                  "cluster_id", "profile_id", "timeout"}
  BY <1>3, Zenon DEF Width
<1> QED BY <1>1, <1>2, <1>3, Zenon

\* A layout has the fields one behind the other, up to the fixed part's end.
Links(F, layout) ==
  \A k \in 1..Len(F) :
    layout.at[F[k]] + Width(F[k]) = IF k = Len(F) THEN layout.min ELSE layout.at[F[k + 1]]

\* A layout the decoder's offsets make up: fields F follow the type octet without a
\* gap, and the minimum length is where the last one ends.
Chain(F, layout) ==
  /\ Len(F) \in Nat /\ DOMAIN F = 1..Len(F)
  /\ layout.min \in Nat /\ 1 <= layout.min /\ layout.min <= 20
  /\ \A k \in 1..Len(F) : layout.at[F[k]] \in Nat
  /\ F # <<>> => layout.at[F[1]] = 1
  /\ Links(F, layout)
  /\ F = <<>> => layout.min = 1
  /\ DOMAIN layout.at = {F[k] : k \in 1..Len(F)}

\* The offsets xbee_frame_encode() and xbee_frame_decode() use are such a layout, for
\* every type, and only types with a frame identifier have a field of that name.
LEMMA Chains ==
  ASSUME NEW t \in Types
  PROVE  Chain(Fields(t), Layout(t)) /\ (HasFrameId(t) <=> "frame_id" \in DOMAIN Layout(t).at)
<1>1. /\ Chain(Written.TX64, HostLayout.TX64)
      /\ (HasFrameId("TX64") <=> "frame_id" \in DOMAIN HostLayout.TX64.at)
  <2>1. Written.TX64 = <<"frame_id", "dest_addr64", "options">>
    BY DEF Written
  <2>2. HostLayout.TX64 = [min |-> 11, at |-> [frame_id |-> 1, dest_addr64 |-> 2, options |-> 10]]
    BY DEF HostLayout
  <2> QED BY <2>1, <2>2, Widths DEF Chain, Links, HasFrameId
<1>2. /\ Chain(Written.TX16, HostLayout.TX16)
      /\ (HasFrameId("TX16") <=> "frame_id" \in DOMAIN HostLayout.TX16.at)
  <2>1. Written.TX16 = <<"frame_id", "dest_addr16", "options">>
    BY DEF Written
  <2>2. HostLayout.TX16 = [min |-> 5, at |-> [frame_id |-> 1, dest_addr16 |-> 2, options |-> 4]]
    BY DEF HostLayout
  <2> QED BY <2>1, <2>2, Widths DEF Chain, Links, HasFrameId
<1>3. /\ Chain(Written.AT, HostLayout.AT)
      /\ (HasFrameId("AT") <=> "frame_id" \in DOMAIN HostLayout.AT.at)
  <2>1. Written.AT = <<"frame_id", "command">>
    BY DEF Written
  <2>2. HostLayout.AT = [min |-> 4, at |-> [frame_id |-> 1, command |-> 2]]
    BY DEF HostLayout
  <2> QED BY <2>1, <2>2, Widths DEF Chain, Links, HasFrameId
<1>4. /\ Chain(Written.AT_QUEUE, HostLayout.AT_QUEUE)
      /\ (HasFrameId("AT_QUEUE") <=> "frame_id" \in DOMAIN HostLayout.AT_QUEUE.at)
  <2>1. Written.AT_QUEUE = <<"frame_id", "command">>
    BY DEF Written
  <2>2. HostLayout.AT_QUEUE = [min |-> 4, at |-> [frame_id |-> 1, command |-> 2]]
    BY DEF HostLayout
  <2> QED BY <2>1, <2>2, Widths DEF Chain, Links, HasFrameId
<1>5. /\ Chain(Written.TX_REQUEST, HostLayout.TX_REQUEST)
      /\ (HasFrameId("TX_REQUEST") <=> "frame_id" \in DOMAIN HostLayout.TX_REQUEST.at)
  <2>1. Written.TX_REQUEST = <<"frame_id", "dest_addr64", "reserved16", "broadcast_radius",
        "options">>
    BY DEF Written
  <2>2. HostLayout.TX_REQUEST = [min |-> 14, at |-> [frame_id |-> 1, dest_addr64 |-> 2,
                                                     reserved16 |-> 10, broadcast_radius |-> 12,
                                                     options |-> 13]]
    BY DEF HostLayout
  <2> QED BY <2>1, <2>2, Widths DEF Chain, Links, HasFrameId
<1>6. /\ Chain(Written.EXPLICIT_TX, HostLayout.EXPLICIT_TX)
      /\ (HasFrameId("EXPLICIT_TX") <=> "frame_id" \in DOMAIN HostLayout.EXPLICIT_TX.at)
  <2>1. Written.EXPLICIT_TX = <<"frame_id", "dest_addr64", "reserved16", "source_endpoint",
        "destination_endpoint", "cluster_id", "profile_id", "broadcast_radius", "options">>
    BY DEF Written
  <2>2. HostLayout.EXPLICIT_TX = [min |-> 20, at |-> [frame_id |-> 1, dest_addr64 |-> 2,
                                                      reserved16 |-> 10, source_endpoint |-> 12,
                                                      destination_endpoint |-> 13,
                                                      cluster_id |-> 14, profile_id |-> 16,
                                                      broadcast_radius |-> 18, options |-> 19]]
    BY DEF HostLayout
  <2> QED BY <2>1, <2>2, Widths DEF Chain, Links, HasFrameId
<1>7. /\ Chain(Written.REMOTE_AT, HostLayout.REMOTE_AT)
      /\ (HasFrameId("REMOTE_AT") <=> "frame_id" \in DOMAIN HostLayout.REMOTE_AT.at)
  <2>1. Written.REMOTE_AT = <<"frame_id", "dest_addr64", "reserved16", "options", "command">>
    BY DEF Written
  <2>2. HostLayout.REMOTE_AT = [min |-> 15, at |-> [frame_id |-> 1, dest_addr64 |-> 2,
                                                    reserved16 |-> 10, options |-> 12,
                                                    command |-> 13]]
    BY DEF HostLayout
  <2> QED BY <2>1, <2>2, Widths DEF Chain, Links, HasFrameId
<1>8. /\ Chain(Written.BLE_UNLOCK, HostLayout.BLE_UNLOCK)
      /\ (HasFrameId("BLE_UNLOCK") <=> "frame_id" \in DOMAIN HostLayout.BLE_UNLOCK.at)
  <2>1. Written.BLE_UNLOCK = <<"step">>
    BY DEF Written
  <2>2. HostLayout.BLE_UNLOCK = [min |-> 2, at |-> [step |-> 1]]
    BY DEF HostLayout
  <2> QED BY <2>1, <2>2, Widths DEF Chain, Links, HasFrameId
<1>9. /\ Chain(Written.USER_RELAY, HostLayout.USER_RELAY)
      /\ (HasFrameId("USER_RELAY") <=> "frame_id" \in DOMAIN HostLayout.USER_RELAY.at)
  <2>1. Written.USER_RELAY = <<"frame_id", "interface">>
    BY DEF Written
  <2>2. HostLayout.USER_RELAY = [min |-> 3, at |-> [frame_id |-> 1, interface |-> 2]]
    BY DEF HostLayout
  <2> QED BY <2>1, <2>2, Widths DEF Chain, Links, HasFrameId
<1>10. /\ Chain(Written.SECURE_CONTROL, HostLayout.SECURE_CONTROL)
       /\ (HasFrameId("SECURE_CONTROL") <=> "frame_id" \in DOMAIN HostLayout.SECURE_CONTROL.at)
  <2>1. Written.SECURE_CONTROL = <<"dest_addr64", "options", "timeout">>
    BY DEF Written
  <2>2. HostLayout.SECURE_CONTROL = [min |-> 12, at |-> [dest_addr64 |-> 1, options |-> 9,
                                                         timeout |-> 10]]
    BY DEF HostLayout
  <2> QED BY <2>1, <2>2, Widths DEF Chain, Links, HasFrameId
<1>11. /\ Chain(Written.RAW, HostLayout.RAW)
       /\ (HasFrameId("RAW") <=> "frame_id" \in DOMAIN HostLayout.RAW.at)
  <2>1. Written.RAW = <<>>
    BY DEF Written
  <2>2. HostLayout.RAW = [min |-> 1, at |-> <<>>]
    BY DEF HostLayout
  <2> QED BY <2>1, <2>2, Widths DEF Chain, Links, HasFrameId
<1>12. /\ Chain(Reported.RX64, ModuleLayout.RX64)
       /\ (HasFrameId("RX64") <=> "frame_id" \in DOMAIN ModuleLayout.RX64.at)
  <2>1. Reported.RX64 = <<"source_addr64", "rssi", "options">>
    BY DEF Reported
  <2>2. ModuleLayout.RX64 = [min |-> 11, at |-> [source_addr64 |-> 1, rssi |-> 9, options |-> 10]]
    BY DEF ModuleLayout
  <2> QED BY <2>1, <2>2, Widths DEF Chain, Links, HasFrameId
<1>13. /\ Chain(Reported.RX16, ModuleLayout.RX16)
       /\ (HasFrameId("RX16") <=> "frame_id" \in DOMAIN ModuleLayout.RX16.at)
  <2>1. Reported.RX16 = <<"source_addr16", "rssi", "options">>
    BY DEF Reported
  <2>2. ModuleLayout.RX16 = [min |-> 5, at |-> [source_addr16 |-> 1, rssi |-> 3, options |-> 4]]
    BY DEF ModuleLayout
  <2> QED BY <2>1, <2>2, Widths DEF Chain, Links, HasFrameId
<1>14. /\ Chain(Reported.IO64, ModuleLayout.IO64)
       /\ (HasFrameId("IO64") <=> "frame_id" \in DOMAIN ModuleLayout.IO64.at)
  <2>1. Reported.IO64 = <<"source_addr64", "rssi", "options">>
    BY DEF Reported
  <2>2. ModuleLayout.IO64 = [min |-> 11, at |-> [source_addr64 |-> 1, rssi |-> 9, options |-> 10]]
    BY DEF ModuleLayout
  <2> QED BY <2>1, <2>2, Widths DEF Chain, Links, HasFrameId
<1>15. /\ Chain(Reported.IO16, ModuleLayout.IO16)
       /\ (HasFrameId("IO16") <=> "frame_id" \in DOMAIN ModuleLayout.IO16.at)
  <2>1. Reported.IO16 = <<"source_addr16", "rssi", "options">>
    BY DEF Reported
  <2>2. ModuleLayout.IO16 = [min |-> 5, at |-> [source_addr16 |-> 1, rssi |-> 3, options |-> 4]]
    BY DEF ModuleLayout
  <2> QED BY <2>1, <2>2, Widths DEF Chain, Links, HasFrameId
<1>16. /\ Chain(Reported.AT_RESPONSE, ModuleLayout.AT_RESPONSE)
       /\ (HasFrameId("AT_RESPONSE") <=> "frame_id" \in DOMAIN ModuleLayout.AT_RESPONSE.at)
  <2>1. Reported.AT_RESPONSE = <<"frame_id", "command", "status">>
    BY DEF Reported
  <2>2. ModuleLayout.AT_RESPONSE = [min |-> 5, at |-> [frame_id |-> 1, command |-> 2, status |-> 4]]
    BY DEF ModuleLayout
  <2> QED BY <2>1, <2>2, Widths DEF Chain, Links, HasFrameId
<1>17. /\ Chain(Reported.TX_STATUS, ModuleLayout.TX_STATUS)
       /\ (HasFrameId("TX_STATUS") <=> "frame_id" \in DOMAIN ModuleLayout.TX_STATUS.at)
  <2>1. Reported.TX_STATUS = <<"frame_id", "status">>
    BY DEF Reported
  <2>2. ModuleLayout.TX_STATUS = [min |-> 3, at |-> [frame_id |-> 1, status |-> 2]]
    BY DEF ModuleLayout
  <2> QED BY <2>1, <2>2, Widths DEF Chain, Links, HasFrameId
<1>18. /\ Chain(Reported.MODEM_STATUS, ModuleLayout.MODEM_STATUS)
       /\ (HasFrameId("MODEM_STATUS") <=> "frame_id" \in DOMAIN ModuleLayout.MODEM_STATUS.at)
  <2>1. Reported.MODEM_STATUS = <<"status">>
    BY DEF Reported
  <2>2. ModuleLayout.MODEM_STATUS = [min |-> 2, at |-> [status |-> 1]]
    BY DEF ModuleLayout
  <2> QED BY <2>1, <2>2, Widths DEF Chain, Links, HasFrameId
<1>19. /\ Chain(Reported.EXT_TX_STATUS, ModuleLayout.EXT_TX_STATUS)
       /\ (HasFrameId("EXT_TX_STATUS") <=> "frame_id" \in DOMAIN ModuleLayout.EXT_TX_STATUS.at)
  <2>1. Reported.EXT_TX_STATUS = <<"frame_id", "reserved16", "retry_count", "status",
        "discovery_status">>
    BY DEF Reported
  <2>2. ModuleLayout.EXT_TX_STATUS = [min |-> 7, at |-> [frame_id |-> 1, reserved16 |-> 2,
                                                         retry_count |-> 4, status |-> 5,
                                                         discovery_status |-> 6]]
    BY DEF ModuleLayout
  <2> QED BY <2>1, <2>2, Widths DEF Chain, Links, HasFrameId
<1>20. /\ Chain(Reported.RX, ModuleLayout.RX)
       /\ (HasFrameId("RX") <=> "frame_id" \in DOMAIN ModuleLayout.RX.at)
  <2>1. Reported.RX = <<"source_addr64", "source_addr16", "options">>
    BY DEF Reported
  <2>2. ModuleLayout.RX = [min |-> 12, at |-> [source_addr64 |-> 1, source_addr16 |-> 9,
                                               options |-> 11]]
    BY DEF ModuleLayout
  <2> QED BY <2>1, <2>2, Widths DEF Chain, Links, HasFrameId
<1>21. /\ Chain(Reported.EXPLICIT_RX, ModuleLayout.EXPLICIT_RX)
       /\ (HasFrameId("EXPLICIT_RX") <=> "frame_id" \in DOMAIN ModuleLayout.EXPLICIT_RX.at)
  <2>1. Reported.EXPLICIT_RX = <<"source_addr64", "reserved16", "source_endpoint",
        "destination_endpoint", "cluster_id", "profile_id", "options">>
    BY DEF Reported
  <2>2. ModuleLayout.EXPLICIT_RX = [min |-> 18, at |-> [source_addr64 |-> 1, reserved16 |-> 9,
                                                        source_endpoint |-> 11,
                                                        destination_endpoint |-> 12,
                                                        cluster_id |-> 13, profile_id |-> 15,
                                                        options |-> 17]]
    BY DEF ModuleLayout
  <2> QED BY <2>1, <2>2, Widths DEF Chain, Links, HasFrameId
<1>22. /\ Chain(Reported.IO_SAMPLE, ModuleLayout.IO_SAMPLE)
       /\ (HasFrameId("IO_SAMPLE") <=> "frame_id" \in DOMAIN ModuleLayout.IO_SAMPLE.at)
  <2>1. Reported.IO_SAMPLE = <<"source_addr64", "reserved16", "options">>
    BY DEF Reported
  <2>2. ModuleLayout.IO_SAMPLE = [min |-> 12, at |-> [source_addr64 |-> 1, reserved16 |-> 9,
                                                      options |-> 11]]
    BY DEF ModuleLayout
  <2> QED BY <2>1, <2>2, Widths DEF Chain, Links, HasFrameId
<1>23. /\ Chain(Reported.REMOTE_AT_RESPONSE, ModuleLayout.REMOTE_AT_RESPONSE)
       /\ (HasFrameId("REMOTE_AT_RESPONSE") <=> "frame_id" \in DOMAIN ModuleLayout.REMOTE_AT_RESPONSE.at)
  <2>1. Reported.REMOTE_AT_RESPONSE = <<"frame_id", "source_addr64", "reserved16", "command",
        "status">>
    BY DEF Reported
  <2>2. ModuleLayout.REMOTE_AT_RESPONSE = [min |-> 15, at |-> [frame_id |-> 1,
                                                               source_addr64 |-> 2,
                                                               reserved16 |-> 10, command |-> 12,
                                                               status |-> 14]]
    BY DEF ModuleLayout
  <2> QED BY <2>1, <2>2, Widths DEF Chain, Links, HasFrameId
<1>24. /\ Chain(Reported.EXT_MODEM_STATUS, ModuleLayout.EXT_MODEM_STATUS)
       /\ (HasFrameId("EXT_MODEM_STATUS") <=> "frame_id" \in DOMAIN ModuleLayout.EXT_MODEM_STATUS.at)
  <2>1. Reported.EXT_MODEM_STATUS = <<"status">>
    BY DEF Reported
  <2>2. ModuleLayout.EXT_MODEM_STATUS = [min |-> 2, at |-> [status |-> 1]]
    BY DEF ModuleLayout
  <2> QED BY <2>1, <2>2, Widths DEF Chain, Links, HasFrameId
<1>25. /\ Chain(Reported.BLE_UNLOCK_RESPONSE, ModuleLayout.BLE_UNLOCK_RESPONSE)
       /\ (HasFrameId("BLE_UNLOCK_RESPONSE") <=> "frame_id" \in DOMAIN ModuleLayout.BLE_UNLOCK_RESPONSE.at)
  <2>1. Reported.BLE_UNLOCK_RESPONSE = <<"step">>
    BY DEF Reported
  <2>2. ModuleLayout.BLE_UNLOCK_RESPONSE = [min |-> 2, at |-> [step |-> 1]]
    BY DEF ModuleLayout
  <2> QED BY <2>1, <2>2, Widths DEF Chain, Links, HasFrameId
<1>26. /\ Chain(Reported.USER_RELAY_OUTPUT, ModuleLayout.USER_RELAY_OUTPUT)
       /\ (HasFrameId("USER_RELAY_OUTPUT") <=> "frame_id" \in DOMAIN ModuleLayout.USER_RELAY_OUTPUT.at)
  <2>1. Reported.USER_RELAY_OUTPUT = <<"interface">>
    BY DEF Reported
  <2>2. ModuleLayout.USER_RELAY_OUTPUT = [min |-> 2, at |-> [interface |-> 1]]
    BY DEF ModuleLayout
  <2> QED BY <2>1, <2>2, Widths DEF Chain, Links, HasFrameId
<1>27. /\ Chain(Reported.SECURE_RESPONSE, ModuleLayout.SECURE_RESPONSE)
       /\ (HasFrameId("SECURE_RESPONSE") <=> "frame_id" \in DOMAIN ModuleLayout.SECURE_RESPONSE.at)
  <2>1. Reported.SECURE_RESPONSE = <<"response_type", "source_addr64", "status">>
    BY DEF Reported
  <2>2. ModuleLayout.SECURE_RESPONSE = [min |-> 11, at |-> [response_type |-> 1,
                                                            source_addr64 |-> 2, status |-> 10]]
    BY DEF ModuleLayout
  <2> QED BY <2>1, <2>2, Widths DEF Chain, Links, HasFrameId
<1>28. HostTypes = {"TX64", "TX16", "AT", "AT_QUEUE", "TX_REQUEST", "EXPLICIT_TX", "REMOTE_AT",
                   "BLE_UNLOCK", "USER_RELAY", "SECURE_CONTROL", "RAW"}
  BY DEF HostTypes, Written
<1>29. Types \ HostTypes = {"RX64", "RX16", "IO64", "IO16", "AT_RESPONSE", "TX_STATUS",
                           "MODEM_STATUS", "EXT_TX_STATUS", "RX", "EXPLICIT_RX", "IO_SAMPLE",
                           "REMOTE_AT_RESPONSE", "EXT_MODEM_STATUS", "BLE_UNLOCK_RESPONSE",
                           "USER_RELAY_OUTPUT", "SECURE_RESPONSE"}
  BY <1>28 DEF Types, Code
<1>30. CASE t \in HostTypes
  BY <1>28, <1>30, <1>1, <1>2, <1>3, <1>4, <1>5, <1>6, <1>7, <1>8, <1>9, <1>10, <1>11 DEF Fields,
     Layout
<1>31. CASE t \notin HostTypes
  BY <1>29, <1>31, <1>12, <1>13, <1>14, <1>15, <1>16, <1>17, <1>18, <1>19, <1>20, <1>21, <1>22,
     <1>23, <1>24, <1>25, <1>26, <1>27 DEF Fields, Layout
<1> QED BY <1>30, <1>31

(***************************************************************************)
(* The frame data a send is built from.                                    *)
(***************************************************************************)

\* The parts of the frame data begin where the layout says.
Agree(F, layout, at) ==
  /\ \A k \in 1..Len(F) : at[k] + 1 = layout.at[F[k]]
  /\ at[Len(F) + 1] + 1 = layout.min

\* The parts of a frame follow the layout once they are joined.
LEMMA Follows ==
  ASSUME NEW F, NEW layout, Chain(F, layout), F # <<>>, Len(F) # 0,
         NEW s \in Seq(Seq(Byte)), Len(s) = Len(F), \A k \in 1..Len(F) : Len(s[k]) = Width(F[k]),
         NEW at, Offsets(s, at)
  PROVE  Agree(F, layout, at)
<1>1. /\ Len(F) \in Nat \ {0} /\ layout.min \in Nat
      /\ \A k \in 1..Len(F) : layout.at[F[k]] \in Nat /\ Width(F[k]) \in Nat /\ at[k] \in Nat
  BY DEF Chain, Offsets
<1>2. at[1] = 0 /\ layout.at[F[1]] = 1
  BY DEF Chain, Offsets
<1>0. ASSUME NEW k \in 1..Len(F)
      PROVE  /\ at[k + 1] = at[k] + Width(F[k])
             /\ layout.at[F[k]] + Width(F[k]) = IF k = Len(F) THEN layout.min ELSE layout.at[F[k + 1]]
  <2>1. Adjoin(s, at) /\ Links(F, layout)
    BY DEF Chain, Offsets
  <2> QED BY <2>1 DEF Adjoin, Links
<1> DEFINE S == {m \in Nat : m \in 1..Len(F) => at[m] + 1 = layout.at[F[m]]}
<1>3. 0 \in S
  OBVIOUS
<1>4. ASSUME NEW m \in Nat, m \in S PROVE m + 1 \in S
  <2>1. CASE m = 0
    BY <1>2, <2>1
  <2>2. CASE m # 0 /\ m + 1 \in 1..Len(F)
    <3>1. m \in 1..Len(F) /\ m # Len(F) /\ at[m] + 1 = layout.at[F[m]]
      BY <1>4, <2>2
    <3>2. layout.at[F[m]] + Width(F[m]) = layout.at[F[m + 1]] /\ at[m + 1] = at[m] + Width(F[m])
      BY <1>0, <3>1
    <3>3. at[m] \in Nat /\ Width(F[m]) \in Nat
      BY <1>1, <3>1
    <3> QED BY <3>1, <3>2, <3>3, SMTT(40)
  <2>3. CASE m + 1 \notin 1..Len(F)
    BY <2>3
  <2> QED BY <2>1, <2>2, <2>3
<1>5. \A m \in Nat : m \in S
  <2> HIDE DEF S
  <2> QED BY <1>3, <1>4, SetInduction
<1>6. \A k \in 1..Len(F) : at[k] + 1 = layout.at[F[k]]
  BY <1>1, <1>5
<1> DEFINE n == Len(F)
<1>7. n \in 1..n /\ at[n] + 1 = layout.at[F[n]] /\ layout.at[F[n]] + Width(F[n]) = layout.min
  BY <1>1, <1>0, <1>6
<1>8. at[n] \in Nat /\ Width(F[n]) \in Nat /\ at[n + 1] = at[n] + Width(F[n])
  BY <1>1, <1>0, <1>7
<1> QED BY <1>6, <1>7, <1>8 DEF Agree

\* Frame f is one of type t: its fields have the sizes of the layout.
Fits(f, t) ==
  /\ f.type = t /\ f.tail \in Seq(Byte)
  /\ \A k \in 1..Len(Fields(t)) : /\ f.fields[Fields(t)[k]] \in Seq(Byte)
                                  /\ Len(f.fields[Fields(t)[k]]) = Width(Fields(t)[k])

\* At the layout's offsets the data have the fields, and the tail behind them.
Reads(data, fields, tail, layout) ==
  /\ data \in Seq(Byte) /\ Len(data) = layout.min + Len(tail)
  /\ \A n \in DOMAIN layout.at : \A i \in 1..Width(n) :
        /\ layout.at[n] + i \in 1..layout.min
        /\ data[layout.at[n] + i] = fields[n][i]
  /\ \A i \in 1..Len(tail) : data[layout.min + i] = tail[i]

\* What xbee_frame_encode() puts together starts with the type's code and reads back
\* by the layout.
LEMMA Data ==
  ASSUME NEW t \in Types, Chain(Fields(t), Layout(t)), Code[t] \in Byte, NEW f, Fits(f, t)
  PROVE  FrameData(f)[1] = Code[t] /\ Reads(FrameData(f), f.fields, f.tail, Layout(t))
<1> DEFINE F == Fields(t)
           layout == Layout(t)
           s == [k \in DOMAIN F |-> f.fields[F[k]]]
           body == FlattenSeq(s)
           head == <<Code[t]>>
<1> HIDE DEF F, layout
<1>1. DOMAIN F = 1..Len(F) /\ Len(F) \in Nat /\ layout.min \in Nat /\ Chain(F, layout)
  BY DEF Chain, F, layout
<1>2. FrameData(f) = (head \o body) \o f.tail /\ f.tail \in Seq(Byte)
  BY DEF FrameData, Fits, F
<1>3. \A k \in 1..Len(F) : f.fields[F[k]] \in Seq(Byte) /\ Len(f.fields[F[k]]) = Width(F[k])
  BY DEF Fits, F
<1>4. s \in Seq(Seq(Byte)) /\ Len(s) = Len(F) /\ \A k \in 1..Len(F) : s[k] = f.fields[F[k]]
  <2>1. s = [k \in 1..Len(F) |-> f.fields[F[k]]]
    BY <1>1
  <2> HIDE DEF s
  <2> QED BY <1>1, <1>3, <2>1
<1>5. head \in Seq(Byte) /\ Len(head) = 1 /\ head[1] = Code[t]
  OBVIOUS
<1> HIDE DEF s, head
<1>6. CASE Len(F) = 0
  <2>1. s = <<>> /\ F = <<>>
    BY <1>1, <1>4, <1>6
  <2>2. body = <<>>
    BY <2>1 DEF FlattenSeq
  <2>3. FrameData(f) = head \o f.tail
    BY <1>2, <1>5, <2>2
  <2>4. layout.min = 1 /\ DOMAIN layout.at = {}
    BY <1>1, <1>6, <2>1 DEF Chain
  <2>5. /\ FrameData(f) \in Seq(Byte) /\ Len(FrameData(f)) = 1 + Len(f.tail)
        /\ FrameData(f)[1] = Code[t]
        /\ \A i \in 1..Len(f.tail) : FrameData(f)[1 + i] = f.tail[i]
    <3>1. Joined(Byte, head, f.tail)
      BY <1>2, <1>5, Joins
    <3> QED BY ONLY <1>5, <2>3, <3>1 DEF Joined
  <2> QED BY <2>4, <2>5 DEF Reads, layout
<1>7. CASE Len(F) # 0
  <2>1. F # <<>>
    BY <1>7
  <2>2. body \in Seq(Byte) /\ \E at : Offsets(s, at) /\ Holds(body, s, at, Len(s))
    BY <1>4, <1>7, Flattened
  <2>3. PICK at : Offsets(s, at) /\ Holds(body, s, at, Len(F))
    BY <1>4, <2>2
  <2>4. \A k \in 1..Len(F) : Len(s[k]) = Width(F[k])
    BY <1>3, <1>4
  <2>5. /\ \A k \in 1..Len(F) : at[k] + 1 = layout.at[F[k]]
        /\ at[Len(F) + 1] + 1 = layout.min
    <3>1. Agree(F, layout, at)
      BY <1>1, <1>4, <1>7, <2>1, <2>3, <2>4, Follows
    <3> QED BY <3>1 DEF Agree
  <2> DEFINE front == head \o body
  <2>6. /\ Len(body) \in Nat /\ Len(body) + 1 = layout.min
        /\ \A k \in 1..Len(F) : at[k] \in Nat /\ at[k] + Width(F[k]) <= Len(body)
        /\ \A k \in 1..Len(F) : \A j \in 1..Width(F[k]) : body[at[k] + j] = f.fields[F[k]][j]
    <3>1. Len(body) \in Nat
      BY <2>2
    <3>2. /\ Len(body) = at[Len(F) + 1]
          /\ \A k \in 1..Len(F) : at[k] \in Nat /\ at[k] + Len(s[k]) <= Len(body)
          /\ \A k \in 1..Len(F) : \A j \in 1..Len(s[k]) : body[at[k] + j] = s[k][j]
      BY <2>3 DEF Holds
    <3>3. \A k \in 1..Len(F) : at[k] + Width(F[k]) <= Len(body)
      BY ONLY <2>4, <3>2
    <3>4. \A k \in 1..Len(F) : \A j \in 1..Width(F[k]) : body[at[k] + j] = f.fields[F[k]][j]
      BY ONLY <1>4, <2>4, <3>2
    <3>5. Len(body) + 1 = layout.min
      BY ONLY <2>5, <3>2
    <3> QED BY ONLY <3>1, <3>2, <3>3, <3>4, <3>5
  <2> HIDE DEF body
  <2>7. /\ front \in Seq(Byte) /\ Len(front) = layout.min /\ front[1] = Code[t]
        /\ \A i \in 1..Len(body) : front[1 + i] = body[i]
    <3>1. Joined(Byte, head, body)
      BY <1>5, <2>2, Joins
    <3> QED BY <1>5, <2>6, <3>1 DEF Joined
  <2> HIDE DEF front
  <2>8. /\ FrameData(f) \in Seq(Byte) /\ Len(FrameData(f)) = layout.min + Len(f.tail)
        /\ \A i \in 1..layout.min : FrameData(f)[i] = front[i]
        /\ \A i \in 1..Len(f.tail) : FrameData(f)[layout.min + i] = f.tail[i]
    <3>1. FrameData(f) = front \o f.tail
      BY <1>2 DEF front
    <3>2. Joined(Byte, front, f.tail)
      BY <1>2, <2>7, Joins
    <3> QED BY <2>7, <3>1, <3>2 DEF Joined
  <2>9. ASSUME NEW n \in DOMAIN layout.at, NEW i \in 1..Width(n)
        PROVE  /\ layout.at[n] + i \in 1..layout.min
               /\ FrameData(f)[layout.at[n] + i] = f.fields[n][i]
    <3>1. PICK k \in 1..Len(F) : n = F[k]
      BY <1>1 DEF Chain
    <3>2. at[k] \in Nat /\ at[k] + Width(F[k]) <= Len(body) /\ body[at[k] + i] = f.fields[n][i]
          /\ Width(F[k]) \in Nat
      BY <1>3, <2>6, <3>1
    <3>3. layout.at[n] = at[k] + 1 /\ at[k] + i \in 1..Len(body)
      BY <2>5, <2>6, <3>1, <3>2, SMTT(40)
    <3>4. layout.at[n] + i = 1 + (at[k] + i) /\ layout.at[n] + i \in 1..layout.min
      <4>1. i \in Nat /\ i >= 1
        BY <3>1, <3>2
      <4>2. Len(body) \in Nat /\ Len(body) + 1 = layout.min
        BY <2>6
      <4>3. at[k] \in Nat
        BY <3>2
      <4>4. layout.at[n] + i = 1 + (at[k] + i)
        BY ONLY <3>3, <4>1, <4>3
      <4>5. 1 + (at[k] + i) \in 1..layout.min
        BY ONLY <3>3, <4>1, <4>2, <4>3
      <4> QED BY ONLY <4>4, <4>5
    <3>5. front[1 + (at[k] + i)] = body[at[k] + i]
      BY <2>7, <3>3
    <3>6. FrameData(f)[layout.at[n] + i] = front[layout.at[n] + i]
      BY <2>8, <3>4
    <3>7. front[layout.at[n] + i] = front[1 + (at[k] + i)]
      BY ONLY <3>4
    <3>8. FrameData(f)[layout.at[n] + i] = f.fields[n][i]
      BY ONLY <3>2, <3>5, <3>6, <3>7
    <3> QED BY ONLY <3>4, <3>8
  <2>10. FrameData(f)[1] = Code[t]
    BY <1>1, <2>6, <2>7, <2>8, SMTT(40)
  <2> QED BY <2>8, <2>9, <2>10 DEF Reads, layout
<1> QED BY <1>1, <1>6, <1>7

\* Test data are octets, as many as asked for.
LEMMA Fills ==
  ASSUME NEW seed \in Nat, NEW k \in Nat, NEW n \in Nat
  PROVE  Fill(seed, k, n) \in Seq(Byte) /\ Len(Fill(seed, k, n)) = n
<1>1. \A j \in 1..7 : Specials[j] \in Byte
  BY DEF Specials, Byte
<1>2. ASSUME NEW i \in 1..n PROVE ((seed + 3 * k + i) % 7) + 1 \in 1..7
  <2>1. (seed + 3 * k + i) \in Nat
    OBVIOUS
  <2> HIDE DEF Byte
  <2> QED BY <2>1
<1>3. \A i \in 1..n : Specials[((seed + 3 * k + i) % 7) + 1] \in Byte
  BY <1>1, <1>2
<1> QED BY <1>3 DEF Fill

\* What the host fills a field with has the field's size.
LEMMA DefaultFields ==
  ASSUME NEW t \in HostTypes, NEW n \in DOMAIN Defaults[t]
  PROVE  Defaults[t][n] \in Seq(Byte) /\ Len(Defaults[t][n]) = Width(n)
<1> DEFINE Is(v, w) == v \in Seq(Byte) /\ Len(v) = w
<1>1. Is(Broadcast64, 8)
  BY DEF Broadcast64, Byte
<1>2. Is([i \in 1..8 |-> 255], 8)
  BY DEF Byte
<1>3. Is(<<0>>, 1) /\ Is(<< 1 >>, 1) /\ Is(<<2>>, 1) /\ Is(<<232>>, 1)
  BY DEF Byte
<1>4. Is(<<255, 255>>, 2) /\ Is(<<255, 254>>, 2) /\ Is(<<0, 17>>, 2) /\ Is(<<193, 5>>, 2)
  BY DEF Byte
<1>5. /\ Width("dest_addr64") = 8
      /\ \A m \in {"frame_id", "options", "source_endpoint", "destination_endpoint", "step",
                   "interface"} : Width(m) = 1
      /\ \A m \in {"dest_addr16", "reserved16", "cluster_id", "profile_id"} : Width(m) = 2
  BY Widths
<1> HIDE DEF Is
<1> DEFINE Good(d) == \A m \in DOMAIN d : Is(d[m], Width(m))
<1>7. Good([frame_id |-> << 1 >>, dest_addr64 |-> Broadcast64])
  BY <1>1, <1>3, <1>5
<1>8. Good([frame_id |-> << 1 >>, dest_addr16 |-> <<255, 255>>])
  BY <1>3, <1>4, <1>5
<1>9. Good([frame_id |-> << 1 >>])
  BY <1>3, <1>5
<1>10. Good([frame_id |-> << 1 >>, dest_addr64 |-> Broadcast64, reserved16 |-> <<255, 254>>])
  BY <1>1, <1>3, <1>4, <1>5
<1>11. Good([frame_id |-> << 1 >>, dest_addr64 |-> Broadcast64,
             reserved16 |-> <<255, 254>>, source_endpoint |-> <<232>>,
             destination_endpoint |-> <<232>>, cluster_id |-> <<0, 17>>,
             profile_id |-> <<193, 5>>])
  BY <1>1, <1>3, <1>4, <1>5
<1>12. Good([frame_id |-> << 1 >>, dest_addr64 |-> [i \in 1..8 |-> 255],
                        reserved16 |-> <<255, 254>>, options |-> <<2>>])
  <2> DEFINE ones == [i \in 1..8 |-> 255]
  <2>1. Is(ones, 8)
    BY <1>2
  <2> HIDE DEF ones
  <2>2. Good([frame_id |-> << 1 >>, dest_addr64 |-> ones,
                        reserved16 |-> <<255, 254>>, options |-> <<2>>])
    BY <2>1, <1>3, <1>4, <1>5
  <2> QED BY <2>2 DEF ones
<1>13. Good([step |-> << 1 >>])
  BY <1>3, <1>5
<1>14. Good([frame_id |-> << 1 >>, interface |-> <<0>>])
  BY <1>3, <1>5
<1>15. Good([dest_addr64 |-> Broadcast64, options |-> <<0>>])
  BY <1>1, <1>3, <1>5
<1>16. Good(<<>>)
  OBVIOUS
<1>17. HostTypes = {"TX64", "TX16", "AT", "AT_QUEUE", "TX_REQUEST", "EXPLICIT_TX", "REMOTE_AT",
                    "BLE_UNLOCK", "USER_RELAY", "SECURE_CONTROL", "RAW"}
  BY DEF HostTypes, Written
<1>18. Good(Defaults[t])
  <2> HIDE DEF Good
  <2>1. /\ Good(Defaults.TX64) /\ Good(Defaults.TX16) /\ Good(Defaults.AT) /\ Good(Defaults.AT_QUEUE)
        /\ Good(Defaults.TX_REQUEST) /\ Good(Defaults.EXPLICIT_TX) 
        /\ Good(Defaults.BLE_UNLOCK) /\ Good(Defaults.USER_RELAY) /\ Good(Defaults.SECURE_CONTROL)
        /\ Good(Defaults.RAW)
    BY <1>7, <1>8, <1>9, <1>10, <1>11, <1>13, <1>14, <1>15, <1>16 DEF Defaults
  <2>2. Good(Defaults.REMOTE_AT)
    BY <1>12 DEF Defaults
  <2> QED BY <1>17, <2>1, <2>2
<1> QED BY <1>18 DEF Is

\* A frame as the callers build it is one of its type.
LEMMA BuiltFits ==
  ASSUME NEW t \in Types, Chain(Fields(t), Layout(t)), NEW seed \in Nat,
         seed = 0 => t \in HostTypes,
         NEW n \in Nat
  PROVE  /\ Fits(Built(t, seed, n), t) /\ Len(Built(t, seed, n).tail) = n
         /\ Built(t, seed, n).tail = Fill(seed, 0, n)
         /\ DOMAIN Built(t, seed, n).fields = DOMAIN Layout(t).at
         /\ Built(t, seed, n).fields = [m \in DOMAIN Layout(t).at |-> Built(t, seed, n).fields[m]]
<1> DEFINE F == Fields(t)
           f == Built(t, seed, n)
<1>1. Len(F) \in Nat /\ DOMAIN F = 1..Len(F) /\ DOMAIN Layout(t).at = {F[k] : k \in 1..Len(F)}
  BY DEF Chain
<1>2. Range(F) = DOMAIN Layout(t).at
  BY <1>1 DEF Range
<1>3. ASSUME NEW k \in 1..Len(F)
      PROVE  FieldOf(t, seed, k) \in Seq(Byte) /\ Len(FieldOf(t, seed, k)) = Width(F[k])
  <2>1. Width(F[k]) \in Nat /\ k \in Nat
    BY <1>1, Widths
  <2>2. CASE seed > 0
    BY <2>1, <2>2, Fills DEF FieldOf
  <2>3. CASE seed = 0 /\ F[k] \in DOMAIN Defaults[t]
    <3>1. FieldOf(t, seed, k) = Defaults[t][F[k]]
      BY <2>3 DEF FieldOf
    <3> QED BY <2>3, <3>1, DefaultFields
  <2>4. CASE seed = 0 /\ F[k] \notin DOMAIN Defaults[t]
    <3>1. FieldOf(t, seed, k) = [i \in 1..Width(F[k]) |-> 0]
      BY <2>4 DEF FieldOf
    <3> QED BY <2>1, <3>1 DEF Byte
  <2> QED BY <2>2, <2>3, <2>4
<1>4. f.type = t /\ f.tail = Fill(seed, 0, n) 
      /\ f.fields = [name \in Range(F) |-> FieldOf(t, seed, CHOOSE k \in DOMAIN F : F[k] = name)]
  BY DEF Built
<1> HIDE DEF F, f
<1>5. ASSUME NEW name \in Range(F)
      PROVE  f.fields[name] \in Seq(Byte) /\ Len(f.fields[name]) = Width(name)
  <2>1. \E k \in DOMAIN F : F[k] = name
    BY DEF Range
  <2> DEFINE k == CHOOSE k \in DOMAIN F : F[k] = name
  <2>2. k \in 1..Len(F) /\ F[k] = name
    BY <1>1, <2>1
  <2>3. f.fields[name] = FieldOf(t, seed, k)
    BY <1>4
  <2> HIDE DEF k
  <2> QED BY <1>3, <2>2, <2>3
<1>6. f.tail \in Seq(Byte) /\ Len(f.tail) = n
  BY <1>4, Fills
<1>7. \A k \in 1..Len(F) : F[k] \in Range(F)
  BY <1>1, <1>2
<1> QED BY <1>1, <1>2, <1>4, <1>5, <1>6, <1>7 DEF Fits, F, f

(***************************************************************************)
(* What xbee_frame_decode() reads.                                         *)
(***************************************************************************)

\* No layout is longer than 20 octets.
LEMMA Minimum ==
  ASSUME NEW F, NEW layout, Chain(F, layout)
  PROVE  layout.min \in Nat /\ 1 <= layout.min /\ layout.min <= 20
BY DEF Chain

\* A slice of the data that has p from its offset on is p.
LEMMA Sliced ==
  ASSUME NEW data, NEW at \in Nat, NEW p \in Seq(Byte), Len(data) \in Nat, at + Len(p) <= Len(data),
         \A i \in 1..Len(p) : data[at + i] = p[i]
  PROVE  Slice(data, at, Len(p)) = p
<1>1. Slice(data, at, Len(p)) = [i \in 1..Len(p) |-> p[i]]
  BY DEF Slice
<1> QED BY <1>1

\* What the decoder makes of a frame's fields.
LEMMA FieldsRead ==
  ASSUME NEW t \in Types, Chain(Fields(t), Layout(t)), NEW f, Fits(f, t),
         NEW data, NEW tail, Reads(data, f.fields, tail, Layout(t)),
         Len(data) >= Layout(t).min
  PROVE  \A n \in DOMAIN Layout(t).at :
            Slice(data, Layout(t).at[n], Width(n)) = f.fields[n]
<1> DEFINE layout == Layout(t)
<1>1. ASSUME NEW n \in DOMAIN layout.at PROVE Slice(data, layout.at[n], Width(n)) = f.fields[n]
  <2>1. PICK k \in 1..Len(Fields(t)) : n = Fields(t)[k]
    BY DEF Chain
  <2>2. f.fields[n] \in Seq(Byte) /\ Len(f.fields[n]) = Width(n) /\ layout.at[n] \in Nat
    <3>1. f.fields[n] \in Seq(Byte) /\ Len(f.fields[n]) = Width(n)
      BY <2>1 DEF Fits
    <3>2. layout.at[n] \in Nat
      BY <2>1 DEF Chain
    <3> QED BY <3>1, <3>2
  <2>3. /\ data \in Seq(Byte) /\ layout.min \in Nat
        /\ \A i \in 1..Width(n) : layout.at[n] + i \in 1..layout.min /\ data[layout.at[n] + i] = f.fields[n][i]
    <3>1. layout.min \in Nat
      BY Minimum
    <3>2. /\ data \in Seq(Byte)
          /\ \A i \in 1..Width(n) : layout.at[n] + i \in 1..layout.min
          /\ \A i \in 1..Width(n) : data[layout.at[n] + i] = f.fields[n][i]
      BY DEF Reads
    <3> QED BY <3>1, <3>2
  <2> HIDE DEF layout
  <2>4. Width(n) \in 1..8
    BY Widths
  <2>5. layout.at[n] + Width(n) <= Len(data) /\ Len(data) \in Nat
    <3>1. Width(n) \in 1..Width(n) /\ Len(data) >= layout.min /\ Len(data) \in Nat
      BY <2>3, <2>4 DEF layout
    <3>2. layout.at[n] + Width(n) \in 1..layout.min
      BY ONLY <2>3, <3>1
    <3> QED BY ONLY <2>2, <2>3, <2>4, <3>1, <3>2
  <2>6. Slice(data, layout.at[n], Len(f.fields[n])) = f.fields[n]
    <3>1. layout.at[n] + Len(f.fields[n]) <= Len(data)
      BY <2>2, <2>5
    <3>2. \A i \in 1..Len(f.fields[n]) : data[layout.at[n] + i] = f.fields[n][i]
      BY <2>2, <2>3
    <3> QED BY <2>2, <2>5, <3>1, <3>2, Sliced
  <2> QED BY <2>2, <2>6
<1> QED BY <1>1

\* The data of a frame, read by its layout, decode to what the frame says.
LEMMA DecodesPlain ==
  ASSUME NEW t \in Types \ IoTypes, Chain(Fields(t), Layout(t)), NEW f, Fits(f, t),
         f.fields = [m \in DOMAIN Layout(t).at |-> f.fields[m]], t \in Tailless => f.tail = <<>>,
         NEW data, Reads(data, f.fields, f.tail, Layout(t)), data[1] = Code[t]
  PROVE  Decode(data) = Said(f)
<1> DEFINE layout == Layout(t)
<1>1. TypeOf(data[1]) = t /\ f.type = t /\ f.tail \in Seq(Byte)
  BY TypeOfCode DEF Fits
<1>2. /\ data \in Seq(Byte) /\ Len(data) = layout.min + Len(f.tail) /\ layout.min \in Nat
      /\ \A i \in 1..Len(f.tail) : data[layout.min + i] = f.tail[i]
  <2>1. layout.min \in Nat
    BY Minimum
  <2> QED BY <2>1 DEF Reads
<1>4. Len(f.tail) \in Nat /\ Len(data) >= layout.min
  BY <1>1, <1>2
<1>5. [n \in DOMAIN layout.at |-> Slice(data, layout.at[n], Width(n))] = f.fields
  <2>1. \A n \in DOMAIN layout.at : Slice(data, layout.at[n], Width(n)) = f.fields[n]
    <3>1. /\ t \in Types /\ Chain(Fields(t), Layout(t)) /\ Fits(f, t)
          /\ Reads(data, f.fields, f.tail, Layout(t)) /\ Len(data) >= Layout(t).min
      BY <1>4
    <3> QED BY ONLY <3>1, FieldsRead, ZenonT(60)
  <2> QED BY <2>1
<1>6. Slice(data, layout.min, Len(data) - layout.min) = f.tail
  <2>1. Len(data) - layout.min = Len(f.tail)
    BY <1>2, <1>4
  <2>2. Slice(data, layout.min, Len(f.tail)) = f.tail
    <3>1. layout.min + Len(f.tail) <= Len(data) /\ Len(data) \in Nat
      BY <1>2, <1>4
    <3> HIDE DEF layout
    <3> QED BY <1>1, <1>2, <3>1, Sliced
  <2> QED BY <2>1, <2>2
<1>7. ~(Len(data) < layout.min)
  BY <1>2, <1>4
<1> QED BY <1>1, <1>5, <1>6, <1>7, Zenon DEF Decode, Said

\* A frame cut short of what its type needs is refused: require() in
\* xbee_frame_decode().
LEMMA RefusesShort ==
  ASSUME NEW t \in Types, NEW data, data[1] = Code[t], Len(data) < Layout(t).min
  PROVE  Decode(data) = Refused
<1>1. TypeOf(data[1]) = t
  BY TypeOfCode
<1> QED BY <1>1, Zenon DEF Decode

(***************************************************************************)
(* Sample blocks, decode_io_sample().                                      *)
(***************************************************************************)

\* A set of numbers up to top has at most top + 1 of them.
LEMMA UpTo ==
  ASSUME NEW top \in Nat, NEW K, K \subseteq 0..top
  PROVE  Cardinality(K) \in Nat /\ Cardinality(K) <= top + 1
<1>1. IsFiniteSet(0..top) /\ Cardinality(0..top) = IF 0 > top THEN 0 ELSE top - 0 + 1
  BY FS_Interval
<1>2. IsFiniteSet(K) /\ Cardinality(K) <= Cardinality(0..top)
  BY <1>1, FS_Subset
<1>3. Cardinality(K) \in Nat
  BY <1>2, FS_CardinalityType
<1> QED BY <1>1, <1>2, <1>3

\* No mask has more than 16 bits.
LEMMA PopCounts ==
  ASSUME NEW n
  PROVE  PopCount(n) \in Nat /\ PopCount(n) <= 16
<1> DEFINE top == 15
<1>1. top \in Nat /\ top + 1 = 16
  OBVIOUS
<1>2. {k \in 0..top : (n \div 2^k) % 2 = 1} \subseteq 0..top
  OBVIOUS
<1> DEFINE K == {k \in 0..top : (n \div 2^k) % 2 = 1}
<1>3. PopCount(n) = Cardinality(K)
  BY DEF PopCount
<1> HIDE DEF K, top
<1>4. Cardinality(K) \in Nat /\ Cardinality(K) <= top + 1
  BY <1>1, <1>2, UpTo DEF K
<1> QED BY <1>1, <1>3, <1>4

\* The octets of the count and the masks.
Masks(legacy) == IF legacy THEN 3 ELSE 4   \* the count and the masks

\* The octets of the digital levels: none when no line is sampled.
Levels(digital) == IF digital # 0 THEN 2 ELSE 0

\* The sample block laid out: masks, levels, values, one after the other.
Block(b, masks, levels, values) ==
  /\ b \in Seq(Byte) /\ Len(b) = masks + Len(levels) + Len(values)
  /\ levels \in Seq(Byte) /\ values \in Seq(Byte)
  /\ \A i \in 1..Len(levels) : b[masks + i] = levels[i]
  /\ \A i \in 1..Len(values) : b[masks + Len(levels) + i] = values[i]

\* The value of the two octets behind the count: the legacy indicators have both
\* masks in them.
Combined(legacy, digital, analog) == IF legacy THEN 512 * analog + digital ELSE digital

\* The count and the masks a block carries.
Announces(b, legacy, digital, analog) ==
  /\ b[1] = 1
  /\ 256 * b[2] + b[3] = Combined(legacy, digital, analog)
  /\ ~legacy => b[4] = analog

\* Three parts joined are a block.
LEMMA BlockOf ==
  ASSUME NEW front \in Seq(Byte), NEW levels \in Seq(Byte), NEW values \in Seq(Byte)
  PROVE  /\ Block((front \o levels) \o values, Len(front), levels, values)
         /\ \A i \in 1..Len(front) : ((front \o levels) \o values)[i] = front[i]
<1> DEFINE mid == front \o levels
           b == mid \o values
<1>1. Joined(Byte, front, levels)
  BY Joins
<1>2. mid \in Seq(Byte) /\ Len(mid) = Len(front) + Len(levels) /\ Len(front) \in Nat
      /\ Len(levels) \in Nat
  BY <1>1 DEF Joined
<1>3. Joined(Byte, mid, values)
  BY <1>2, Joins
<1>4. /\ \A i \in 1..Len(front) : mid[i] = front[i]
      /\ \A i \in 1..Len(levels) : mid[Len(front) + i] = levels[i]
  BY <1>1 DEF Joined
<1> HIDE DEF mid
<1>5. /\ b \in Seq(Byte) /\ Len(b) = Len(mid) + Len(values) /\ Len(values) \in Nat
      /\ \A i \in 1..Len(mid) : b[i] = mid[i]
      /\ \A i \in 1..Len(values) : b[Len(mid) + i] = values[i]
  BY <1>3 DEF Joined
<1> HIDE DEF b
<1>6. \A i \in 1..Len(front) : i \in 1..Len(mid)
  BY ONLY <1>2
<1>7. \A i \in 1..Len(levels) : Len(front) + i \in 1..Len(mid)
  BY ONLY <1>2
<1>8. \A i \in 1..Len(front) : b[i] = front[i]
  BY ONLY <1>4, <1>5, <1>6
<1>9. \A i \in 1..Len(levels) : b[Len(front) + i] = levels[i]
  BY ONLY <1>4, <1>5, <1>7
<1>10. Block(b, Len(front), levels, values)
  BY <1>2, <1>5, <1>9 DEF Block
<1> QED BY <1>8, <1>10 DEF b, mid

\* A number below 2^16 is its two octets put together again.
LEMMA TwoBytes ==
  ASSUME NEW n \in Nat, n < 65536
  PROVE  n \div 256 \in Byte /\ n % 256 \in Byte /\ 256 * (n \div 256) + (n % 256) = n
BY DEF Byte

\* The masks of a legacy indicator fit two octets.
LEMMA CombinedFits ==
  ASSUME NEW legacy \in BOOLEAN, NEW digital \in Nat, digital < 512, NEW analog \in Nat, analog < 16
  PROVE  Combined(legacy, digital, analog) \in Nat /\ Combined(legacy, digital, analog) < 65536
<1>1. CASE legacy
  <2>1. Combined(legacy, digital, analog) = 512 * analog + digital
    BY <1>1 DEF Combined
  <2> QED BY <2>1
<1>2. CASE ~legacy
  <2>1. Combined(legacy, digital, analog) = digital
    BY <1>2 DEF Combined
  <2> QED BY <2>1
<1> QED BY <1>1, <1>2

\* The count and the mask of a legacy block.
LEMMA HeadedLegacy ==
  ASSUME NEW a \in Byte, NEW b \in Byte, NEW front, front = << 1 >> \o <<a, b>>
  PROVE  front \in Seq(Byte) /\ Len(front) = 3 /\ front[1] = 1 /\ front[2] = a /\ front[3] = b
<1>1. 1 \in Byte
  BY DEF Byte
<1> QED BY <1>1

\* The count and the two masks of a block.
LEMMA Headed ==
  ASSUME NEW a \in Byte, NEW b \in Byte, NEW c \in Byte,
         NEW front, front = << 1 >> \o (<<a, b>> \o <<c>>)
  PROVE  /\ front \in Seq(Byte) /\ Len(front) = 4 /\ front[1] = 1 /\ front[2] = a /\ front[3] = b
         /\ front[4] = c
<1> DEFINE s == <<a, b>> \o <<c>>
           one == << 1 >>
<1>1. one \in Seq(Byte) /\ Len(one) = 1
  BY DEF Byte
<1>2. s \in Seq(Byte) /\ Len(s) = 3 /\ s[1] = a /\ s[2] = b /\ s[3] = c
  OBVIOUS
<1> HIDE DEF s, one
<1>3. Joined(Byte, one, s) /\ front = one \o s
  BY <1>1, <1>2, Joins DEF one, s
<1>4. front \in Seq(Byte) /\ Len(front) = 4 /\ \A i \in 1..3 : front[1 + i] = s[i]
  <2>1. /\ front \in Seq(Byte) /\ Len(front) = Len(one) + Len(s)
        /\ \A i \in 1..Len(s) : front[Len(one) + i] = s[i]
    BY <1>3 DEF Joined
  <2> QED BY ONLY <1>1, <1>2, <2>1
<1>5. front[1 + 1] = s[1] /\ front[1 + 2] = s[2] /\ front[1 + 3] = s[3]
  BY <1>4
<1> QED BY <1>2, <1>4, <1>5

\* The block the module sends is laid out as its masks announce.
LEMMA Blocks ==
  ASSUME NEW legacy \in BOOLEAN, NEW digital \in Nat, digital < 512,
         NEW analog \in Nat, analog < 16, NEW seed \in Nat
  PROVE  LET s == Sampled(legacy, digital, analog, seed)
         IN  /\ Block(s.block, Masks(legacy), s.says.levels, s.says.values)
             /\ Announces(s.block, legacy, digital, analog)
             /\ Len(s.says.levels) = Levels(digital)
             /\ Len(s.says.values) = 2 * PopCount(analog)
             /\ s.says = [status |-> "OK", count |-> 1, digital |-> digital, analog |-> analog,
                          levels |-> s.says.levels, values |-> s.says.values]
<1> DEFINE s == Sampled(legacy, digital, analog, seed)
           levels == IF digital = 0 THEN <<>> ELSE Fill(seed, 1, 2)
           values == Fill(seed, 2, 2 * PopCount(analog))
           n == Combined(legacy, digital, analog)
           front == << 1 >> \o (IF legacy THEN BE16(512 * analog + digital)
                                     ELSE BE16(digital) \o <<analog>>)
<1> HIDE DEF levels, values, n, front, s
<1>1. /\ s.block = (front \o levels) \o values
      /\ s.says = [status |-> "OK", count |-> 1, digital |-> digital, analog |-> analog,
                   levels |-> levels, values |-> values]
  BY DEF Sampled, s, front, levels, values
<1>2. levels \in Seq(Byte) /\ Len(levels) = Levels(digital)
  <2>1. Fill(seed, 1, 2) \in Seq(Byte) /\ Len(Fill(seed, 1, 2)) = 2
    BY Fills
  <2>2. CASE digital = 0
    BY <2>2 DEF levels, Levels
  <2>3. CASE digital # 0
    BY <2>1, <2>3 DEF levels, Levels
  <2> QED BY <2>2, <2>3
<1>3. values \in Seq(Byte) /\ Len(values) = 2 * PopCount(analog)
  <2>1. PopCount(analog) \in Nat
    BY PopCounts
  <2>2. 2 * PopCount(analog) \in Nat
    BY <2>1
  <2> QED BY <2>2, Fills DEF values
<1> DEFINE hi == n \div 256
           lo == n % 256
<1>5. hi \in Byte /\ lo \in Byte /\ 256 * hi + lo = n /\ analog \in Byte
  <2>1. n \in Nat /\ n < 65536
    BY CombinedFits DEF n
  <2>2. analog \in Byte
    BY DEF Byte
  <2> QED BY <2>1, <2>2, TwoBytes
<1>6. /\ front \in Seq(Byte) /\ Len(front) = Masks(legacy) /\ front[1] = 1
      /\ 256 * front[2] + front[3] = n /\ (~legacy => front[4] = analog)
  <2>1. CASE legacy
    <3>1. front = << 1 >> \o <<hi, lo>>
      BY <2>1 DEF BE16, n, front, Combined
    <3> HIDE DEF hi, lo
    <3>2. front \in Seq(Byte) /\ Len(front) = 3 /\ front[1] = 1 /\ front[2] = hi /\ front[3] = lo
      BY ONLY <1>5, <3>1, HeadedLegacy
    <3> QED BY ONLY <1>5, <2>1, <3>2 DEF Masks
  <2>2. CASE ~legacy
    <3>1. front = << 1 >> \o (<<hi, lo>> \o <<analog>>)
      BY <2>2 DEF BE16, n, front, Combined
    <3> HIDE DEF hi, lo
    <3>2. front \in Seq(Byte) /\ Len(front) = 4 /\ front[1] = 1 /\ front[2] = hi /\ front[3] = lo
          /\ front[4] = analog
      BY ONLY <1>5, <3>1, Headed, SMTT(40)
    <3> QED BY ONLY <1>5, <2>2, <3>2 DEF Masks
  <2> QED BY <2>1, <2>2
<1>7. /\ Block(s.block, Len(front), levels, values)
      /\ \A i \in 1..Len(front) : s.block[i] = front[i]
  BY <1>1, <1>2, <1>3, <1>6, BlockOf
<1>8. s.block[1] = front[1] /\ s.block[2] = front[2] /\ s.block[3] = front[3] /\ (~legacy => s.block[4] = front[4])
  <2>1. 1 \in 1..Len(front) /\ 2 \in 1..Len(front) /\ 3 \in 1..Len(front) /\ (~legacy => 4 \in 1..Len(front))
    BY <1>6 DEF Masks
  <2> QED BY <1>7, <2>1
<1>9. Announces(s.block, legacy, digital, analog)
  BY <1>6, <1>8 DEF Announces, n
<1> QED BY <1>1, <1>2, <1>3, <1>6, <1>7, <1>9 DEF s

\* The legacy masks come apart again: nine digital lines, four analog ones above.
LEMMA Apart ==
  ASSUME NEW digital \in Nat, digital < 512, NEW analog \in Nat, analog < 16
  PROVE  (512 * analog + digital) % 512 = digital
         /\ ((512 * analog + digital) \div 512) % 16 = analog
<1>1. (512 * analog + digital) \div 512 = analog /\ (512 * analog + digital) % 512 = digital
  OBVIOUS
<1>2. analog % 16 = analog
  OBVIOUS
<1> QED BY <1>1, <1>2

\* The data have the first n octets of b behind pos.
Sees(data, pos, b, n) == \A i \in 1..n : data[pos + i] = b[i]

\* The digital mask as decode_io_sample() reads it.
DigitalMask(data, masks, legacy) ==
  LET combined == Value(Slice(data, masks, 2)) IN IF legacy THEN combined % 512 ELSE combined

\* And the analog mask.
AnalogMask(data, masks, legacy) ==
  LET combined == Value(Slice(data, masks, 2))
  IN  IF legacy THEN (combined \div 512) % 16 ELSE Slice(data, masks + 2, 1)[1]

\* decode_io_sample() reads the masks the block announces.
LEMMA MasksRead ==
  ASSUME NEW legacy \in BOOLEAN, NEW digital \in Nat, digital < 512, NEW analog \in Nat,
         analog < 16,
         NEW b, Announces(b, legacy, digital, analog),
         NEW data, NEW pos \in Nat, NEW n \in Nat, Len(data) = pos + n,
         Sees(data, pos, b, n), n >= Masks(legacy)
  PROVE  /\ DigitalMask(data, pos + 1, legacy) = digital
         /\ AnalogMask(data, pos + 1, legacy) = analog
<1>1. n >= 3 /\ (~legacy => n >= 4)
  BY DEF Masks
<1> DEFINE two == Slice(data, pos + 1, 2)
           one == Slice(data, (pos + 1) + 2, 1)
<1>2. two[1] = b[2] /\ two[2] = b[3]
  <2>1. /\ 1 \in 1..2 /\ 2 \in 1..2 /\ (pos + 1) + 1 = pos + 2 /\ (pos + 1) + 2 = pos + 3
        /\ pos + 2 <= Len(data) /\ pos + 3 <= Len(data) /\ 2 \in 1..n /\ 3 \in 1..n
    BY <1>1
  <2>2. data[pos + 2] = b[2] /\ data[pos + 3] = b[3]
    BY ONLY <2>1, Sees(data, pos, b, n) DEF Sees
  <2>3. two[1] = data[pos + 2] /\ two[2] = data[pos + 3]
    BY ONLY <2>1 DEF Slice
  <2> QED BY <2>2, <2>3
<1>3. ~legacy => one[1] = analog
  <2> SUFFICES ASSUME ~legacy PROVE one[1] = analog
    OBVIOUS
  <2>1. 1 \in 1..1 /\ (pos + 1) + 2 + 1 = pos + 4 /\ pos + 4 <= Len(data) /\ 4 \in 1..n
    BY <1>1
  <2>2. data[pos + 4] = b[4] /\ b[4] = analog
    BY <2>1 DEF Sees, Announces
  <2>3. one[1] = data[pos + 4]
    BY ONLY <2>1 DEF Slice
  <2> QED BY <2>2, <2>3
<1> HIDE DEF two, one
<1>4. Value(two) = Combined(legacy, digital, analog)
  BY <1>2 DEF Value, Announces
<1>5. CASE legacy
  <2>1. Value(two) = 512 * analog + digital
    BY <1>4, <1>5 DEF Combined
  <2>2. Value(two) % 512 = digital /\ (Value(two) \div 512) % 16 = analog
    BY <2>1, Apart
  <2> QED BY <1>5, <2>2 DEF DigitalMask, AnalogMask, two
<1>6. CASE ~legacy
  <2>1. Value(two) = digital
    BY <1>4, <1>6 DEF Combined
  <2> QED BY <1>3, <1>6, <2>1 DEF DigitalMask, AnalogMask, two, one
<1> QED BY <1>5, <1>6

\* And the count.
LEMMA CountRead ==
  ASSUME NEW legacy, NEW digital, NEW analog, NEW b, Announces(b, legacy, digital, analog),
         NEW data, NEW pos \in Nat, NEW n \in Nat, Len(data) = pos + n,
         Sees(data, pos, b, n), n >= 1
  PROVE  Slice(data, pos, 1)[1] = 1
<1>1. 1 \in 1..1 /\ pos + 1 <= Len(data) /\ 1 \in 1..n
  OBVIOUS
<1>2. data[pos + 1] = b[1] /\ b[1] = 1
  BY <1>1 DEF Sees, Announces
<1>3. Slice(data, pos, 1)[1] = data[pos + 1]
  BY ONLY <1>1 DEF Slice
<1> QED BY <1>2, <1>3

\* decode_io_sample() by its parts.
LEMMA SampleIs ==
  ASSUME NEW data, NEW pos, NEW legacy
  PROVE  LET digital == DigitalMask(data, pos + 1, legacy)
             analog  == AnalogMask(data, pos + 1, legacy)
             levels  == (pos + 1) + (IF legacy THEN 2 ELSE 3)
             samples == levels + (IF digital # 0 THEN 2 ELSE 0)
         IN DecodeIoSample(data, pos, legacy) =
              IF levels > Len(data) \/ samples > Len(data)
                 \/ samples + 2 * PopCount(analog) > Len(data)
              THEN Refused
              ELSE [status |-> "OK", count |-> Slice(data, pos, 1)[1],
                    digital |-> digital, analog |-> analog,
                    levels |-> Slice(data, levels, samples - levels),
                    values |-> Slice(data, samples, 2 * PopCount(analog))]
BY Zenon DEF DecodeIoSample, DigitalMask, AnalogMask

\* The slice at an offset is p.
ReadAt(data, at, p) == Slice(data, at, Len(p)) = p

\* The data end with the first n octets of b.
EndsWith(data, pos, b, n) == Len(data) = pos + n /\ Sees(data, pos, b, n)

\* A part of what was sent, read back.
LEMMA PartRead ==
  ASSUME NEW b, NEW data, NEW pos \in Nat, NEW n \in Nat, EndsWith(data, pos, b, n),
         NEW p \in Seq(Byte), NEW off \in Nat, off + Len(p) <= n,
         Sees(b, off, p, Len(p))
  PROVE  ReadAt(data, pos + off, p)
<1>4. Len(data) = pos + n /\ Sees(data, pos, b, n)
  BY DEF EndsWith
<1>1. Len(p) \in Nat /\ \A i \in 1..Len(p) : b[off + i] = p[i]
  BY DEF Sees
<1>2. ASSUME NEW i \in 1..Len(p) PROVE data[(pos + off) + i] = p[i]
  <2>1. off + i \in 1..n /\ (pos + off) + i = pos + (off + i)
    BY <1>1
  <2>2. data[pos + (off + i)] = b[off + i]
    BY ONLY <1>4, <2>1 DEF Sees
  <2> QED BY <1>1, <2>1, <2>2
<1>3. (pos + off) + Len(p) <= Len(data) /\ Len(data) \in Nat /\ pos + off \in Nat
  BY <1>1, <1>4
<1>5. Slice(data, pos + off, Len(p)) = p
  BY <1>2, <1>3, Sliced
<1> QED BY <1>5 DEF ReadAt

\* A whole block decodes to what was sampled.
LEMMA SampleDecodes ==
  ASSUME NEW legacy \in BOOLEAN, NEW digital \in Nat, digital < 512, NEW analog \in Nat,
         analog < 16,
         NEW b, Announces(b, legacy, digital, analog),
         NEW l, NEW v, Block(b, Masks(legacy), l, v), Len(l) = Levels(digital),
         Len(v) = 2 * PopCount(analog),
         NEW data, NEW pos \in Nat, Len(data) = pos + Len(b), Sees(data, pos, b, Len(b))
  PROVE  DecodeIoSample(data, pos, legacy) =
           [status |-> "OK", count |-> 1, digital |-> digital, analog |-> analog,
            levels |-> l, values |-> v]
<1> DEFINE levels  == (pos + 1) + (IF legacy THEN 2 ELSE 3)
           samples == levels + (IF digital # 0 THEN 2 ELSE 0)
           masks == Masks(legacy)
<1>1. PopCount(analog) \in Nat
  BY PopCounts
<1>2. masks \in Nat /\ masks >= 3 /\ levels = pos + masks
  BY DEF Masks
<1>3. Len(l) \in Nat /\ Len(v) \in Nat /\ samples = levels + Len(l)
  <2>1. Len(l) \in Nat /\ samples = levels + Len(l)
    BY DEF Levels
  <2> QED BY <1>1, <2>1
<1>4. Len(b) = masks + Len(l) + Len(v) /\ l \in Seq(Byte) /\ v \in Seq(Byte)
  BY DEF Block
<1>5. /\ \A i \in 1..Len(l) : b[masks + i] = l[i]
      /\ \A i \in 1..Len(v) : b[(masks + Len(l)) + i] = v[i]
  BY DEF Block
<1> HIDE DEF masks, levels, samples
<1>6. Len(b) \in Nat /\ Len(b) >= masks
  BY ONLY <1>2, <1>3, <1>4
<1>7. DigitalMask(data, pos + 1, legacy) = digital /\ AnalogMask(data, pos + 1, legacy) = analog
  BY <1>6, MasksRead DEF masks
<1>12. Slice(data, pos, 1)[1] = 1
  <2>1. Len(b) >= 1
    BY ONLY <1>2, <1>6
  <2> QED BY <1>6, <2>1, CountRead
<1>8. Slice(data, pos + masks, Len(l)) = l
  <2>1. masks + Len(l) <= Len(b) /\ Len(b) \in Nat /\ masks \in Nat /\ l \in Seq(Byte)
    BY ONLY <1>2, <1>3, <1>4, <1>6
  <2>2. Sees(b, masks, l, Len(l))
    BY <1>5 DEF Sees
  <2>3. EndsWith(data, pos, b, Len(b))
    BY DEF EndsWith
  <2>4. ReadAt(data, pos + masks, l)
    BY ONLY <2>1, <2>2, <2>3, PartRead, pos \in Nat
  <2> QED BY <2>4 DEF ReadAt
<1>9. Slice(data, pos + (masks + Len(l)), Len(v)) = v
  <2> DEFINE off == masks + Len(l)
  <2>1. off + Len(v) <= Len(b) /\ off \in Nat /\ Len(b) \in Nat /\ v \in Seq(Byte)
    BY ONLY <1>2, <1>3, <1>4, <1>6
  <2>2. Sees(b, off, v, Len(v))
    BY <1>5 DEF Sees
  <2> HIDE DEF off
  <2>4. EndsWith(data, pos, b, Len(b))
    BY DEF EndsWith
  <2>3. ReadAt(data, pos + off, v)
    BY ONLY <2>1, <2>2, <2>4, PartRead, pos \in Nat
  <2> QED BY <2>3 DEF ReadAt, off
<1>10. /\ levels = pos + masks /\ samples = pos + (masks + Len(l))
       /\ samples - levels = Len(l) /\ samples + Len(v) = Len(data)
       /\ ~(levels > Len(data)) /\ ~(samples > Len(data)) /\ ~(samples + Len(v) > Len(data))
  BY ONLY <1>2, <1>3, <1>4, pos \in Nat, Len(data) = pos + Len(b)
<1>11. DecodeIoSample(data, pos, legacy) =
        [status |-> "OK", count |-> 1, digital |-> digital, analog |-> analog,
         levels |-> Slice(data, levels, samples - levels),
         values |-> Slice(data, samples, Len(v))]
  <2>1. DecodeIoSample(data, pos, legacy) =
              IF levels > Len(data) \/ samples > Len(data)
                 \/ samples + 2 * PopCount(analog) > Len(data)
              THEN Refused
              ELSE [status |-> "OK", count |-> 1, digital |-> digital, analog |-> analog,
                    levels |-> Slice(data, levels, samples - levels),
                    values |-> Slice(data, samples, 2 * PopCount(analog))]
    BY <1>7, <1>12, SampleIs, Zenon DEF levels, samples
  <2> QED BY <1>10, <2>1, Zenon
<1> QED BY <1>8, <1>9, <1>10, <1>11, ZenonT(60)

\* A block without its last octet is refused: a value would be read behind the data.
LEMMA SampleRefused ==
  ASSUME NEW legacy \in BOOLEAN, NEW digital \in Nat, digital < 512, NEW analog \in Nat,
         analog < 16,
         NEW b, Announces(b, legacy, digital, analog),
         NEW l, NEW v, Block(b, Masks(legacy), l, v), Len(l) = Levels(digital),
         Len(v) = 2 * PopCount(analog),
         NEW data, NEW pos \in Nat, Len(data) = pos + (Len(b) - 1), Sees(data, pos, b, Len(b) - 1)
  PROVE  DecodeIoSample(data, pos, legacy) = Refused
<1> DEFINE levels  == (pos + 1) + (IF legacy THEN 2 ELSE 3)
           D == DigitalMask(data, pos + 1, legacy)
           A == AnalogMask(data, pos + 1, legacy)
           samples == levels + (IF D # 0 THEN 2 ELSE 0)
           masks == Masks(legacy)
<1>1. PopCount(analog) \in Nat
  BY PopCounts
<1>2. masks \in Nat /\ masks >= 3 /\ levels = pos + masks
  BY DEF Masks
<1>3. Len(l) \in Nat /\ Len(v) \in Nat /\ Len(l) = IF digital # 0 THEN 2 ELSE 0
  <2>1. Len(l) \in Nat /\ Len(l) = IF digital # 0 THEN 2 ELSE 0
    BY DEF Levels
  <2> QED BY <1>1, <2>1
<1>4. Len(b) = masks + Len(l) + Len(v)
  BY DEF Block
<1> HIDE DEF masks, levels, D, A
<1>5. levels > Len(data) \/ samples > Len(data) \/ samples + 2 * PopCount(A) > Len(data)
  <2>1. CASE Len(l) = 0 /\ Len(v) = 0
    BY <1>2, <1>4, <2>1, SMTT(40)
  <2>2. CASE Len(l) + Len(v) > 0
    <3>1. Len(b) - 1 \in Nat /\ Len(b) - 1 >= masks
      BY ONLY <1>2, <1>3, <1>4, <2>2
    <3>2. D = digital /\ A = analog
      <4> DEFINE n == Len(b) - 1
      <4>1. n \in Nat /\ n >= Masks(legacy) /\ Len(data) = pos + n /\ Sees(data, pos, b, n)
        BY <3>1 DEF masks
      <4> HIDE DEF n
      <4> QED BY <4>1, MasksRead DEF D, A
    <3>3. samples = levels + Len(l)
      BY <1>3, <3>2
    <3>4. samples + 2 * PopCount(A) = Len(data) + 1 /\ Len(data) \in Nat
      <4> HIDE DEF samples
      <4>1. 2 * PopCount(A) = Len(v)
        BY <3>2
      <4> QED BY ONLY <1>2, <1>3, <1>4, <3>1, <3>3, <4>1, pos \in Nat,
                      Len(data) = pos + (Len(b) - 1)
    <3> HIDE DEF samples
    <3> QED BY ONLY <3>4
  <2> QED BY <1>3, <2>1, <2>2
<1> QED BY <1>5, SampleIs, Zenon DEF levels, D, A

(***************************************************************************)
(* What a send puts on the wire.                                           *)
(***************************************************************************)

\* The kinds of type: what the host sends, and what carries a sample block.
LEMMA Sorts ==
  /\ HostTypes \subseteq Types /\ IoTypes \subseteq Types \ HostTypes
  /\ \A t \in HostTypes : t \notin Tailless
  /\ \A t \in IoTypes : t \notin Tailless
BY DEF HostTypes, Written, Types, Code, IoTypes, Tailless

\* The fixed lengths of frame_data_len() are those of the layouts, and no frame of
\* the module is without a field.
LEMMA Minima ==
  /\ \A t \in HostTypes : FixedLen[t] = Layout(t).min
  /\ \A t \in Types \ HostTypes : Layout(t).min >= 2
<1>1. HostTypes = {"TX64", "TX16", "AT", "AT_QUEUE", "TX_REQUEST", "EXPLICIT_TX", "REMOTE_AT",
                   "BLE_UNLOCK", "USER_RELAY", "SECURE_CONTROL", "RAW"}
  BY DEF HostTypes, Written
<1>2. \A t \in HostTypes : FixedLen[t] = HostLayout[t].min
  BY <1>1 DEF FixedLen, HostLayout
<1>3. \A t \in Types \ HostTypes : ModuleLayout[t].min >= 2
  BY <1>1 DEF Types, Code, ModuleLayout
<1> QED BY <1>2, <1>3 DEF Layout

\* The longest frame data are what two octets of length can say.
LEMMA LongestIs == Longest \in Nat /\ 100 <= Longest
BY SMT DEF Longest

\* What is known of the frame data a send puts on the wire.
Sendable(data, says, lossy) ==
  /\ data \in Seq(Byte) /\ Len(data) >= 1 /\ Len(data) <= Longest
  /\ Decode(data) = says
  /\ lossy => data[1] >= 128
  /\ ~lossy => Len(data) <= MaxData
  /\ says.status = "OK" =>
       (HasFrameId(says.type) <=> "frame_id" \in DOMAIN says.fields)

\* A frame with its identifier set is still one of its type.
LEMMA Identified ==
  ASSUME NEW t \in Types, Chain(Fields(t), Layout(t)),
         HasFrameId(t) <=> "frame_id" \in DOMAIN Layout(t).at,
         NEW f, Fits(f, t), DOMAIN f.fields = DOMAIN Layout(t).at, f = [type |-> f.type,
                                                                        tail |-> f.tail,
                                                                        fields |-> f.fields],
         f.fields = [m \in DOMAIN Layout(t).at |-> f.fields[m]], NEW id \in Byte
  PROVE  LET g == WithFrameId(f, id)
         IN  /\ Fits(g, t) /\ g.tail = f.tail
             /\ g.fields = [m \in DOMAIN Layout(t).at |-> g.fields[m]]
<1> DEFINE g == WithFrameId(f, id)
<1>1. CASE ~HasFrameId(t)
  <2>1. g = f
    BY <1>1 DEF WithFrameId, Fits
  <2> QED BY <2>1
<1>2. CASE HasFrameId(t)
  <2> DEFINE new == [f.fields EXCEPT !["frame_id"] = <<id>>]
  <2>1. g = [f EXCEPT !.fields.frame_id = <<id>>]
    BY <1>2 DEF WithFrameId, Fits
  <2>2. g.type = f.type /\ g.tail = f.tail /\ g.fields = new
    BY <2>1
  <2>3. DOMAIN new = DOMAIN Layout(t).at /\ new["frame_id"] = <<id>>
        /\ \A m \in DOMAIN Layout(t).at : m # "frame_id" => new[m] = f.fields[m]
    BY <1>2
  <2>4. new = [m \in DOMAIN Layout(t).at |-> new[m]]
    BY <2>3
  <2> HIDE DEF new
  <2>5. Width("frame_id") = 1 /\ <<id>> \in Seq(Byte) /\ Len(<<id>>) = 1
    BY Widths
  <2>6. \A k \in 1..Len(Fields(t)) : Fields(t)[k] \in DOMAIN Layout(t).at
    BY DEF Chain
  <2>7. ASSUME NEW k \in 1..Len(Fields(t))
        PROVE  new[Fields(t)[k]] \in Seq(Byte) /\ Len(new[Fields(t)[k]]) = Width(Fields(t)[k])
    <3>1. CASE Fields(t)[k] = "frame_id"
      BY <2>3, <2>5, <3>1
    <3>2. CASE Fields(t)[k] # "frame_id"
      <4>1. new[Fields(t)[k]] = f.fields[Fields(t)[k]]
        BY <2>3, <2>6, <3>2
      <4> QED BY <4>1 DEF Fits
    <3> QED BY <3>1, <3>2
  <2> HIDE DEF g
  <2>8. Fits(g, t)
    BY <2>2, <2>7 DEF Fits
  <2> QED BY <2>2, <2>4, <2>8 DEF g
<1> QED BY <1>1, <1>2

\* What the proofs need of a type the host sends.
LEMMA HostFacts ==
  ASSUME NEW t \in HostTypes
  PROVE  /\ t \in Types /\ t \notin IoTypes /\ t \notin Tailless /\ Code[t] \in Byte
         /\ Chain(Fields(t), Layout(t))
         /\ (HasFrameId(t) <=> "frame_id" \in DOMAIN Layout(t).at)
<1>1. t \in Types /\ t \notin IoTypes /\ t \notin Tailless
  BY Sorts
<1> QED BY <1>1, Chains, Codes, Zenon

\* What the proofs need of a type the module sends.
LEMMA ModuleFacts ==
  ASSUME NEW t \in Types \ HostTypes
  PROVE  /\ Code[t] \in Byte /\ Code[t] >= 128
         /\ Chain(Fields(t), Layout(t))
         /\ (HasFrameId(t) <=> "frame_id" \in DOMAIN Layout(t).at)
         /\ Layout(t).min >= 2 /\ Layout(t).min \in Nat /\ 1 <= Layout(t).min /\ Layout(t).min <= 20
<1>1. /\ Chain(Fields(t), Layout(t))
      /\ (HasFrameId(t) <=> "frame_id" \in DOMAIN Layout(t).at)
  BY Chains
<1>2. Layout(t).min \in Nat /\ 1 <= Layout(t).min /\ Layout(t).min <= 20
  BY <1>1, Minimum
<1> QED BY <1>1, <1>2, Codes, Minima, Zenon

\* What a host frame puts on the wire: frame_data_len() says its length, and it
\* decodes to what was asked for.
LEMMA HostData ==
  ASSUME NEW t \in HostTypes, NEW seed \in Nat, NEW n \in Nat, n + 20 <= Longest, NEW id \in Byte,
         NEW b, b = Built(t, seed, n), NEW f, f = WithFrameId(b, id),
         FrameDataLen(f).status = "OK"
  PROVE  /\ FrameDataLen(f).len = Len(FrameData(f))
         /\ Sendable(FrameData(f), Said(f), FALSE)
<1> DEFINE layout == Layout(t)
<1> HIDE DEF layout
<1>1. /\ t \in Types /\ t \notin IoTypes /\ t \notin Tailless /\ Code[t] \in Byte
      /\ Chain(Fields(t), layout) /\ (HasFrameId(t) <=> "frame_id" \in DOMAIN layout.at)
  BY HostFacts, Zenon DEF layout
<1>2. /\ Fits(b, t) /\ Len(b.tail) = n /\ DOMAIN b.fields = DOMAIN layout.at
      /\ b.fields = [m \in DOMAIN layout.at |-> b.fields[m]]
  BY <1>1, BuiltFits DEF layout
<1>3. b = [type |-> b.type, tail |-> b.tail, fields |-> b.fields]
  BY DEF Built
<1>4. /\ Fits(f, t) /\ f.tail = b.tail
      /\ f.fields = [m \in DOMAIN layout.at |-> f.fields[m]]
  BY <1>1, <1>2, <1>3, Identified, SMTT(40) DEF layout
<1>5. FrameData(f)[1] = Code[t] /\ Reads(FrameData(f), f.fields, f.tail, layout)
  BY <1>1, <1>4, Data DEF layout
<1>6. Decode(FrameData(f)) = Said(f)
  BY <1>1, <1>4, <1>5, DecodesPlain DEF layout
<1>7. /\ FrameData(f) \in Seq(Byte) /\ Len(FrameData(f)) = layout.min + n
      /\ layout.min \in Nat /\ 1 <= layout.min /\ layout.min <= 20
  BY <1>1, <1>2, <1>4, <1>5, Minimum DEF Reads
<1>8. FrameDataLen(f).len = layout.min + n /\ layout.min + n <= MaxData
  <2>1. f.type = t /\ Len(f.tail) = n /\ FixedLen[t] = layout.min
    BY <1>2, <1>4, Minima DEF Fits, layout
  <2>2. FrameDataLen(f).status = "OK"
    OBVIOUS
  <2>3. FrameDataLen(f) = IF Len(f.tail) > Limit(f.type) /\ f.type # "RAW"
                            THEN [status |-> "INVALID_PARAMETER", len |-> 0]
                          ELSE IF FixedLen[f.type] + Len(f.tail) > MaxData
                            THEN [status |-> "WOULD_OVERFLOW", len |-> 0]
                          ELSE [status |-> "OK", len |-> FixedLen[f.type] + Len(f.tail)]
    BY DEF FrameDataLen
  <2>4. ~(layout.min + n > MaxData) /\ FrameDataLen(f) = [status |-> "OK", len |-> layout.min + n]
    BY ONLY <2>1, <2>2, <2>3
  <2>5. MaxData \in Nat
    BY FrameAssumption
  <2> QED BY <1>7, <2>4, <2>5
<1>9. Len(FrameData(f)) >= 1 /\ Len(FrameData(f)) <= Longest
  <2>1. MaxData \in Nat /\ MaxData <= Longest /\ Longest \in Nat
    BY FrameAssumption, LongestIs
  <2> QED BY ONLY <1>7, <1>8, <2>1
<1>10. /\ Said(f).status = "OK" /\ Said(f).type = t
       /\ (HasFrameId(t) <=> "frame_id" \in DOMAIN Said(f).fields)
  <2>1. DOMAIN f.fields = DOMAIN layout.at
    BY <1>4
  <2>2. f.type = t
    BY <1>4 DEF Fits
  <2> QED BY <1>1, <2>1, <2>2 DEF Said
<1>11. Sendable(FrameData(f), Said(f), FALSE)
  BY <1>6, <1>7, <1>8, <1>9, <1>10 DEF Sendable
<1> QED BY <1>7, <1>8, <1>11

\* All but the last byte of some frame data.
LEMMA CutShort ==
  ASSUME NEW data \in Seq(Byte), Len(data) >= 2
  PROVE  /\ SubSeq(data, 1, Len(data) - 1) \in Seq(Byte)
         /\ Len(SubSeq(data, 1, Len(data) - 1)) = Len(data) - 1
         /\ \A i \in 1..(Len(data) - 1) : SubSeq(data, 1, Len(data) - 1)[i] = data[i]
OBVIOUS

\* Nothing cut off leaves the data as they are.
LEMMA Uncut ==
  ASSUME NEW data \in Seq(Byte)
  PROVE  SubSeq(data, 1, Len(data) - 0) = data
OBVIOUS

\* What a module's frame puts on the wire, whole or cut short.
LEMMA ModuleData ==
  ASSUME NEW t \in Types \ (HostTypes \cup IoTypes), NEW seed \in Nat \ {0}, NEW n \in Nat,
         n + 20 <= Longest,
         NEW cut \in {0, 1},
         NEW m, m = IF t \in Tailless THEN 0 ELSE n, NEW f, f = Built(t, seed, m),
         cut > 0 => f.tail = <<>>, NEW data, data = FrameData(f)
  PROVE  Sendable(SubSeq(data, 1, Len(data) - cut), IF cut > 0 THEN Refused ELSE Said(f), TRUE)
<1> DEFINE layout == Layout(t)
<1> HIDE DEF layout
<1>1. /\ t \in Types /\ t \notin IoTypes /\ t \notin HostTypes
      /\ Code[t] \in Byte /\ Code[t] >= 128
      /\ Chain(Fields(t), layout) /\ (HasFrameId(t) <=> "frame_id" \in DOMAIN layout.at)
      /\ layout.min >= 2 /\ layout.min \in Nat /\ 1 <= layout.min /\ layout.min <= 20
  <2>1. t \in Types \ HostTypes /\ t \notin IoTypes
    OBVIOUS
  <2> QED BY <2>1, ModuleFacts, Zenon DEF layout
<1>2. m \in Nat /\ m + 20 <= Longest /\ (t \in Tailless => m = 0)
  <2>1. CASE t \in Tailless
    <3>1. m = 0
      BY <2>1
    <3> QED BY <3>1, LongestIs
  <2>2. CASE t \notin Tailless
    <3>1. m = n
      BY <2>2
    <3> QED BY <2>2, <3>1
  <2> QED BY <2>1, <2>2
<1>3. /\ Fits(f, t) /\ Len(f.tail) = m /\ f.fields = [k \in DOMAIN layout.at |-> f.fields[k]]
      /\ f.tail \in Seq(Byte)
  <2>1. seed = 0 => t \in HostTypes
    OBVIOUS
  <2>2. seed \in Nat
    OBVIOUS
  <2>3. Fits(f, t) /\ Len(f.tail) = m /\ f.fields = [k \in DOMAIN layout.at |-> f.fields[k]]
    BY <1>1, <1>2, <2>1, <2>2, BuiltFits, SMTT(40) DEF layout
  <2> QED BY <2>3 DEF Fits
<1>4. cut > 0 => f.tail = <<>>
  OBVIOUS
<1>5. data[1] = Code[t] /\ Reads(data, f.fields, f.tail, layout)
  BY <1>1, <1>3, Data DEF layout
<1>6. data \in Seq(Byte) /\ Len(data) = layout.min + m
  BY <1>3, <1>5 DEF Reads
<1>7. CASE cut = 0
  <2>1. SubSeq(data, 1, Len(data) - cut) = data
    BY <1>6, <1>7, Uncut
  <2>2. t \in Tailless => f.tail = <<>>
    BY <1>2, <1>3
  <2>3. Decode(data) = Said(f)
    BY <1>1, <1>3, <1>5, <2>2, DecodesPlain DEF layout
  <2>4. /\ Said(f).status = "OK" /\ Said(f).type = t
       /\ (HasFrameId(t) <=> "frame_id" \in DOMAIN Said(f).fields)
    <3>1. DOMAIN f.fields = DOMAIN layout.at
      BY <1>3
    <3>2. f.type = t
      BY <1>3 DEF Fits
    <3> QED BY <1>1, <3>1, <3>2 DEF Said
  <2>5. Len(data) >= 1 /\ Len(data) <= Longest
    BY <1>1, <1>2, <1>6, LongestIs
  <2>6. Sendable(data, Said(f), TRUE)
    BY <1>1, <1>5, <1>6, <2>3, <2>4, <2>5 DEF Sendable
  <2>7. (IF cut > 0 THEN Refused ELSE Said(f)) = Said(f)
    BY <1>7
  <2> QED BY <2>1, <2>6, <2>7
<1>8. CASE cut = 1
  <2> DEFINE sends == SubSeq(data, 1, Len(data) - 1)
  <2>1. Len(data) = layout.min
    <3>1. Len(f.tail) = 0
      BY <1>4, <1>8
    <3> QED BY <1>1, <1>3, <1>6, <3>1
  <2>2. sends \in Seq(Byte) /\ Len(sends) = layout.min - 1 /\ sends[1] = Code[t]
    <3>1. 1 \in 1..(Len(data) - 1)
      BY <1>1, <2>1
    <3> QED BY <1>1, <1>5, <1>6, <2>1, <3>1, CutShort
  <2> HIDE DEF sends
  <2>3. Decode(sends) = Refused
    <3>1. Len(sends) < Layout(t).min
      BY <1>1, <2>2 DEF layout
    <3> QED BY <1>1, <2>2, <3>1, RefusesShort
  <2>4. Len(sends) >= 1 /\ Len(sends) <= Longest
    BY <1>1, <2>2, LongestIs
  <2>5. Refused.status # "OK"
    BY DEF Refused
  <2>6. Sendable(sends, Refused, TRUE)
    BY <1>1, <2>2, <2>3, <2>4, <2>5 DEF Sendable
  <2>7. (IF cut > 0 THEN Refused ELSE Said(f)) = Refused /\ SubSeq(data, 1, Len(data) - cut) = sends
    BY <1>8 DEF sends
  <2> QED BY <2>6, <2>7
<1> QED BY <1>7, <1>8

\* What the frame data of a sample must be, cut short or not.
Samples(data, cut, f, s) ==
  Sendable(SubSeq(data, 1, Len(data) - cut),
           IF cut > 0 THEN Refused ELSE Said([f EXCEPT !.tail = s.says]), TRUE)

\* The masks an indicator announces fit their bits.
Masked(digital, analog) == digital < 512 /\ analog < 16

\* What an I/O indicator puts on the wire, whole or cut short.
LEMMA SampleData ==
  ASSUME NEW t \in IoTypes, NEW seed \in Nat \ {0},
         NEW digital \in Nat, NEW analog \in Nat, Masked(digital, analog), NEW cut \in {0, 1},
         NEW legacy \in BOOLEAN, legacy <=> t # "IO_SAMPLE", NEW s, s = Sampled(legacy, digital,
                                                                                analog, seed),
         NEW f, f = Built(t, seed, 0), NEW data, data = FrameData(f) \o s.block
  PROVE  Samples(data, cut, f, s)
<1> SUFFICES Sendable(SubSeq(data, 1, Len(data) - cut),
                      IF cut > 0 THEN Refused ELSE Said([f EXCEPT !.tail = s.says]), TRUE)
  BY DEF Samples
<1>11. digital < 512 /\ analog < 16
  BY DEF Masked
<1> DEFINE layout == Layout(t)
<1> HIDE DEF layout
<1>1. /\ t \in Types /\ t \notin HostTypes /\ Code[t] \in Byte /\ Code[t] >= 128
      /\ Chain(Fields(t), layout) /\ (HasFrameId(t) <=> "frame_id" \in DOMAIN layout.at)
      /\ layout.min \in Nat /\ 1 <= layout.min /\ layout.min <= 20
  <2>1. t \in Types \ HostTypes
    BY Sorts
  <2> QED BY <2>1, ModuleFacts, Zenon DEF layout
<1> DEFINE b == s.block  l == s.says.levels  v == s.says.values
<1>2. /\ legacy \in BOOLEAN
      /\ Block(b, Masks(legacy), l, v) /\ Announces(b, legacy, digital, analog)
      /\ Len(l) = Levels(digital) /\ Len(v) = 2 * PopCount(analog)
      /\ s.says = [status |-> "OK", count |-> 1, digital |-> digital, analog |-> analog,
                   levels |-> l, values |-> v]
  <2>1. legacy \in BOOLEAN /\ seed \in Nat
    OBVIOUS
  <2>2. LET q == Sampled(legacy, digital, analog, seed)
        IN  /\ Block(q.block, Masks(legacy), q.says.levels, q.says.values)
            /\ Announces(q.block, legacy, digital, analog)
            /\ Len(q.says.levels) = Levels(digital)
            /\ Len(q.says.values) = 2 * PopCount(analog)
            /\ q.says = [status |-> "OK", count |-> 1, digital |-> digital, analog |-> analog,
                         levels |-> q.says.levels, values |-> q.says.values]
    BY ONLY <2>1, Blocks, <1>11, digital \in Nat, analog \in Nat, ZenonT(60)
  <2> QED BY <2>1, <2>2, Zenon DEF b, l, v
<1> HIDE DEF b, l, v
<1>3. b \in Seq(Byte) /\ Len(b) = Masks(legacy) + Len(l) + Len(v)
  BY <1>2 DEF Block
<1>4. Len(b) \in Nat /\ 3 <= Len(b) /\ Len(b) <= 40
  <2>1. Masks(legacy) \in {3, 4} /\ Levels(digital) \in {0, 2}
    BY DEF Masks, Levels
  <2>2. PopCount(analog) \in Nat /\ PopCount(analog) <= 16
    BY PopCounts
  <2> QED BY <1>2, <1>3, <2>1, <2>2, SMTT(40)
<1>5. /\ data \in Seq(Byte) /\ Len(data) = layout.min + Len(b)
      /\ data[1] = Code[t] /\ Fits(f, t)
      /\ Reads(data, f.fields, b, layout) /\ Sees(data, layout.min, b, Len(b))
  <2>1. Fits(f, t) /\ Len(f.tail) = 0
    <3>1. 0 \in Nat /\ seed \in Nat /\ ~(seed = 0) /\ f = Built(t, seed, 0)
      OBVIOUS
    <3>2. t \in Types /\ Chain(Fields(t), Layout(t))
      BY <1>1 DEF layout
    <3> QED BY ONLY <3>1, <3>2, BuiltFits, ZenonT(60)
  <2> DEFINE fixed == FrameData(f)
  <2>2. data = fixed \o b
    BY DEF b
  <2> HIDE DEF fixed
  <2>3. fixed[1] = Code[t] /\ Reads(fixed, f.fields, f.tail, layout)
    BY <1>1, <2>1, Data DEF layout, fixed
  <2>4. fixed \in Seq(Byte) /\ Len(fixed) = layout.min
    BY <1>1, <2>1, <2>3 DEF Reads
  <2>5. Joined(Byte, fixed, b)
    BY <1>3, <2>4, Joins
  <2>6. data \in Seq(Byte) /\ Len(data) = layout.min + Len(b)
    BY <2>2, <2>4, <2>5 DEF Joined
  <2>7. \A i \in 1..layout.min : data[i] = fixed[i]
    BY <2>2, <2>4, <2>5 DEF Joined
  <2>8. \A i \in 1..Len(b) : data[layout.min + i] = b[i]
    BY <2>2, <2>4, <2>5 DEF Joined
  <2>9. data[1] = Code[t]
    <3>1. 1 \in 1..layout.min
      BY <1>1
    <3> QED BY <2>3, <2>7, <3>1
  <2>10. Reads(data, f.fields, b, layout)
    <3>1. ASSUME NEW m \in DOMAIN layout.at, NEW i \in 1..Width(m)
          PROVE  layout.at[m] + i \in 1..layout.min /\ data[layout.at[m] + i] = f.fields[m][i]
      <4>1. layout.at[m] + i \in 1..layout.min /\ fixed[layout.at[m] + i] = f.fields[m][i]
        BY <2>3 DEF Reads
      <4> QED BY <2>7, <4>1
    <3> QED BY <2>6, <2>8, <3>1 DEF Reads
  <2>11. Sees(data, layout.min, b, Len(b))
    BY <2>8, Zenon DEF Sees
  <2> QED BY <2>1, <2>6, <2>9, <2>10, <2>11, Zenon
<1>8. data \in Seq(Byte) /\ Len(data) = layout.min + Len(b)
  BY <1>5, Zenon
<1>9. layout.min \in Nat /\ 1 <= layout.min /\ layout.min <= 20
  BY <1>1, Zenon
<1>6. CASE cut = 0
  <2>1. SubSeq(data, 1, Len(data) - cut) = data
    BY <1>5, <1>6, Uncut
  <2>2. DecodeIoSample(data, layout.min, legacy) = s.says
    <3>1. Len(data) = layout.min + Len(b) /\ Sees(data, layout.min, b, Len(b)) /\ layout.min \in Nat
      BY <1>5, <1>9, Zenon
    <3>2. DecodeIoSample(data, layout.min, legacy) =
            [status |-> "OK", count |-> 1, digital |-> digital, analog |-> analog,
            levels |-> l, values |-> v]
      BY ONLY <1>2, <3>1, SampleDecodes, <1>11, digital \in Nat, analog \in Nat
    <3> QED BY <1>2, <3>2, Zenon
  <2>3. ~(Len(data) < layout.min)
    BY <1>1, <1>4, <1>5, SMTT(40)
  <2>4. [n \in DOMAIN layout.at |-> Slice(data, layout.at[n], Width(n))] = f.fields
    <3>1. Len(data) >= layout.min
      BY ONLY <1>4, <1>8, <1>9
    <3>2. t \in Types /\ Chain(Fields(t), Layout(t)) /\ Fits(f, t) /\ Reads(data, f.fields, b,
                                                                            Layout(t))
          /\ Len(data) >= Layout(t).min
      BY <1>1, <1>5, <3>1, Zenon DEF layout
    <3>3. \A n \in DOMAIN Layout(t).at : Slice(data, Layout(t).at[n], Width(n)) = f.fields[n]
      BY ONLY <3>2, FieldsRead
    <3>4. f.fields = [k \in DOMAIN Layout(t).at |-> f.fields[k]]
      <4>1. seed \in Nat /\ 0 \in Nat /\ seed # 0
        OBVIOUS
      <4>2. t \in Types /\ Chain(Fields(t), Layout(t))
        BY <1>1 DEF layout
      <4>3. f = Built(t, seed, 0) /\ (seed = 0 => t \in HostTypes)
        BY <4>1
      <4> QED BY ONLY <4>1, <4>2, <4>3, BuiltFits
    <3> QED BY ONLY <3>3, <3>4 DEF layout
  <2> DEFINE g == [f EXCEPT !.tail = s.says]
  <2>5. Said(g) = [status |-> "OK", type |-> t, fields |-> f.fields, tail |-> s.says]
    <3>1. f = [type |-> f.type, tail |-> f.tail, fields |-> f.fields] /\ f.type = t
      BY <1>5 DEF Built, Fits
    <3> QED BY <3>1 DEF Said
  <2>6. s.says.status = "OK"
    BY <1>2
  <2>7. TypeOf(data[1]) = t
    BY <1>1, <1>5, TypeOfCode
  <2>8. Decode(data) = Said(g)
    <3> HIDE DEF g
    <3>1. Decode(data) =
            IF Len(data) < layout.min \/ (t \in IoTypes /\ DecodeIoSample(data, layout.min,
                                                                          legacy).status # "OK")
              THEN Refused
            ELSE [status |-> "OK", type |-> t,
                  fields |-> [n \in DOMAIN layout.at |-> Slice(data, layout.at[n], Width(n))],
                  tail |-> IF t \in IoTypes THEN DecodeIoSample(data, layout.min, legacy)
                           ELSE IF t \in Tailless THEN <<>>
                           ELSE Slice(data, layout.min, Len(data) - layout.min)]
      <4>1. legacy = (t # "IO_SAMPLE")
        OBVIOUS
      <4> QED BY ONLY <2>7, <4>1, Zenon DEF Decode, layout
    <3> QED BY <2>2, <2>3, <2>4, <2>5, <2>6, <3>1
  <2>9. /\ Said(g).status = "OK" /\ Said(g).type = t
        /\ (HasFrameId(t) <=> "frame_id" \in DOMAIN Said(g).fields)
    <3>1. DOMAIN f.fields = DOMAIN layout.at
      BY <2>4
    <3> QED BY <1>1, <2>5, <3>1
  <2>10. Len(data) >= 1 /\ Len(data) <= Longest
    BY ONLY <1>8, <1>9, <1>4, LongestIs
  <2> HIDE DEF g
  <2>11. Sendable(data, Said(g), TRUE)
    BY <1>1, <1>5, <2>8, <2>9, <2>10 DEF Sendable
  <2>12. (IF cut > 0 THEN Refused ELSE Said([f EXCEPT !.tail = s.says])) = Said(g)
    BY <1>6 DEF g
  <2> QED BY <2>1, <2>11, <2>12
<1>7. CASE cut = 1
  <2> DEFINE sends == SubSeq(data, 1, Len(data) - 1)
  <2>1. Len(data) >= 4 /\ Len(data) - 1 = layout.min + (Len(b) - 1)
    BY ONLY <1>4, <1>8, <1>9
  <2>2. /\ sends \in Seq(Byte) /\ Len(sends) = layout.min + (Len(b) - 1)
        /\ \A i \in 1..(Len(data) - 1) : sends[i] = data[i]
    <3>1. Len(data) >= 2
      BY ONLY <1>8, <2>1, <1>4, <1>9
    <3> HIDE DEF sends
    <3>2. /\ sends \in Seq(Byte) /\ Len(sends) = Len(data) - 1
          /\ \A i \in 1..(Len(data) - 1) : sends[i] = data[i]
      BY <1>8, <3>1, CutShort, Zenon DEF sends
    <3> QED BY <2>1, <3>2, Zenon
  <2> HIDE DEF sends
  <2>3. sends[1] = Code[t]
    <3>1. 1 \in 1..(Len(data) - 1)
      BY <1>5, <2>1
    <3> QED BY <1>5, <2>2, <3>1
  <2>4. Sees(sends, layout.min, b, Len(b) - 1)
    <3>1. ASSUME NEW i \in 1..(Len(b) - 1) PROVE sends[layout.min + i] = b[i]
      <4>1. layout.min + i \in 1..(Len(data) - 1) /\ i \in 1..Len(b)
        BY ONLY <1>4, <1>8, <1>9, i \in 1..(Len(b) - 1)
      <4>2. data[layout.min + i] = b[i]
        BY <1>5, <4>1 DEF Sees
      <4> QED BY <2>2, <4>1, <4>2
    <3> QED BY <3>1 DEF Sees
  <2>5. DecodeIoSample(sends, layout.min, legacy) = Refused
    BY ONLY <1>2, <1>9, <2>2, <2>4, SampleRefused, <1>11, digital \in Nat, analog \in Nat, SMTT(40)
  <2>6. Refused.status # "OK" /\ TypeOf(sends[1]) = t
    BY <1>1, <2>3, TypeOfCode DEF Refused
  <2>7. Decode(sends) = Refused
    <3>1. t \in IoTypes /\ DecodeIoSample(sends, layout.min, t # "IO_SAMPLE").status # "OK"
      BY <2>5, <2>6
    <3>2. TypeOf(sends[1]) \in IoTypes
          /\ DecodeIoSample(sends, Layout(TypeOf(sends[1])).min,
                            TypeOf(sends[1]) # "IO_SAMPLE").status # "OK"
      BY <2>6, <3>1 DEF layout
    <3> QED BY <3>2, Zenon DEF Decode
  <2>8. Len(sends) >= 1 /\ Len(sends) <= Longest
    BY <1>1, <1>4, <2>2, LongestIs, SMTT(40)
  <2>9. Sendable(sends, Refused, TRUE)
    BY <1>1, <2>2, <2>3, <2>6, <2>7, <2>8 DEF Sendable
  <2>10. (IF cut > 0 THEN Refused ELSE Said([f EXCEPT !.tail = s.says])) = Refused
         /\ SubSeq(data, 1, Len(data) - cut) = sends
    BY <1>7 DEF sends
  <2> QED BY <2>9, <2>10
<1> QED BY <1>6, <1>7

(***************************************************************************)
(* The wire: escapes, checksum and framing.                                *)
(***************************************************************************)

\* A sequence whose length is none is empty.
LEMMA NoneLeft ==
  ASSUME NEW V, NEW s \in Seq(V), NEW at \in Nat, NEW n, Len(s) + at = n, n = at
  PROVE  s = <<>>
OBVIOUS

\* What is left of a joined sequence once h elements of its part u are taken.
Ahead(rest, units, u, h) ==
  \E at : /\ Offsets(units, at) /\ Holds(FlattenSeq(units), units, at, Len(units))
          /\ rest \in Seq(Byte) /\ u \in 1..Len(units) /\ h \in 0..(Len(units[u]) - 1)
          /\ Len(rest) + (at[u] + h) = Len(FlattenSeq(units))
          /\ \A i \in 1..Len(rest) : rest[i] = FlattenSeq(units)[(at[u] + h) + i]

\* Part u is gone: what is left begins with the next one, or nothing is left.
MovesOn(rest, units, u) ==
  IF u < Len(units) THEN Ahead(rest, units, u + 1, 0) ELSE rest = <<>>

\* Parts to be joined, none of them empty.
Parts(units) ==
  /\ units \in Seq(Seq(Byte)) /\ Len(units) # 0
  /\ \A u \in 1..Len(units) : units[u] # <<>>

\* Before anything is taken, everything is left.
LEMMA AheadStarts ==
  ASSUME NEW units, Parts(units), NEW rest \in Seq(Byte), Len(rest) = Len(FlattenSeq(units)),
         \A i \in 1..Len(rest) : rest[i] = FlattenSeq(units)[i]
  PROVE  Ahead(rest, units, 1, 0)
<1> DEFINE joined == FlattenSeq(units)
<1> HIDE DEF joined
<1>1. units \in Seq(Seq(Byte)) /\ Len(units) # 0 /\ Len(units) \in Nat
  BY DEF Parts
<1>2. PICK at : Offsets(units, at) /\ Holds(joined, units, at, Len(units))
  BY <1>1, Flattened DEF joined
<1>3. 1 \in 1..Len(units) /\ units[1] \in Seq(Byte) /\ units[1] # <<>>
  BY <1>1 DEF Parts
<1>4. 0 \in 0..(Len(units[1]) - 1)
  BY ONLY <1>3
<1>5. at[1] = 0
  BY <1>2 DEF Offsets
<1>6. at[1] + 0 = 0 /\ Len(rest) + (at[1] + 0) = Len(joined)
  BY <1>5 DEF joined
<1>7. \A i \in 1..Len(rest) : rest[i] = joined[(at[1] + 0) + i]
  BY <1>6 DEF joined
<1> QED BY <1>2, <1>3, <1>4, <1>6, <1>7, Zenon DEF Ahead, joined

\* Taking one octet of what is left: the next octet of the part, or the first of the
\* part behind it.
LEMMA AheadMoves ==
  ASSUME NEW units, Parts(units), NEW rest, NEW u, NEW h, Ahead(rest, units, u, h)
  PROVE  /\ rest \in Seq(Byte) /\ rest # <<>> /\ u \in 1..Len(units)
         /\ h \in 0..(Len(units[u]) - 1)
         /\ Head(rest) = units[u][h + 1]
         /\ h + 1 # Len(units[u]) => Ahead(Tail(rest), units, u, h + 1)
         /\ h + 1 = Len(units[u]) => MovesOn(Tail(rest), units, u)
<1> DEFINE joined == FlattenSeq(units)
<1> HIDE DEF joined
<1>1. PICK at :
          /\ Offsets(units, at) /\ Holds(joined, units, at, Len(units))
          /\ rest \in Seq(Byte) /\ u \in 1..Len(units) /\ h \in 0..(Len(units[u]) - 1)
          /\ Len(rest) + (at[u] + h) = Len(joined)
          /\ \A i \in 1..Len(rest) : rest[i] = joined[(at[u] + h) + i]
  BY Zenon DEF Ahead, joined
<1>2. units \in Seq(Seq(Byte)) /\ Len(units) \in Nat /\ \A v \in 1..Len(units) : units[v] # <<>>
  BY DEF Parts
<1>3. /\ at[u] \in Nat /\ at[u] + Len(units[u]) <= Len(joined)
      /\ \A j \in 1..Len(units[u]) : joined[at[u] + j] = units[u][j]
  BY <1>1 DEF Holds
<1>4. at[u + 1] = at[u] + Len(units[u])
  BY <1>1 DEF Offsets, Adjoin
<1>5. Len(joined) = at[Len(units) + 1]
  BY <1>1 DEF Holds
<1>6. units[u] \in Seq(Byte) /\ Len(units[u]) \in Nat /\ Len(rest) \in Nat /\ u \in Nat /\ h \in Nat
  BY <1>1, <1>2
<1> DEFINE here == at[u] + h
<1>7. here \in Nat /\ Len(rest) + here = Len(joined) /\ h < Len(units[u]) /\ here < Len(joined)
  BY <1>1, <1>3, <1>6, SMTT(40)
<1>0. /\ at[u] \in Nat /\ h \in Nat /\ Len(units[u]) \in Nat /\ h < Len(units[u])
      /\ Len(Tail(rest)) \in Nat \/ rest = <<>>
  BY <1>1, <1>3, <1>6, <1>7
<1>8. rest # <<>> /\ Len(rest) >= 1
  BY <1>1, <1>6, <1>7
<1>9. Head(rest) = units[u][h + 1]
  <2>1. 1 \in 1..Len(rest) /\ Head(rest) = rest[1]
    BY <1>1, <1>8
  <2>2. rest[1] = joined[here + 1]
    BY <1>1, <2>1
  <2>3. h + 1 \in 1..Len(units[u]) /\ here + 1 = at[u] + (h + 1)
    BY ONLY <1>0
  <2> QED BY <1>3, <2>1, <2>2, <2>3
<1>10. /\ Tail(rest) \in Seq(Byte) /\ Len(Tail(rest)) + (here + 1) = Len(joined)
       /\ \A i \in 1..Len(Tail(rest)) : Tail(rest)[i] = joined[(here + 1) + i]
  <2>1. /\ Tail(rest) \in Seq(Byte) /\ Len(Tail(rest)) = Len(rest) - 1
        /\ \A i \in 1..Len(Tail(rest)) : Tail(rest)[i] = rest[i + 1] /\ i + 1 \in 1..Len(rest)
    BY <1>1, <1>8
  <2>2. ASSUME NEW i \in 1..Len(Tail(rest)) PROVE Tail(rest)[i] = joined[(here + 1) + i]
    <3>1. Tail(rest)[i] = joined[here + (i + 1)]
      BY <1>1, <2>1
    <3>2. here + (i + 1) = (here + 1) + i
      BY <1>7
    <3> QED BY <3>1, <3>2
  <2> QED BY <1>6, <1>7, <2>1, <2>2
<1>11. ASSUME h + 1 # Len(units[u]) PROVE Ahead(Tail(rest), units, u, h + 1)
  <2>1. h + 1 \in 0..(Len(units[u]) - 1) /\ here + 1 = at[u] + (h + 1)
    BY ONLY <1>0, <1>11
  <2>2. /\ Len(Tail(rest)) + (at[u] + (h + 1)) = Len(joined)
        /\ \A i \in 1..Len(Tail(rest)) : Tail(rest)[i] = joined[(at[u] + (h + 1)) + i]
    BY <1>10, <2>1
  <2> QED BY <1>1, <1>10, <2>1, <2>2, Zenon DEF Ahead, joined
<1>12. ASSUME h + 1 = Len(units[u]) PROVE MovesOn(Tail(rest), units, u)
  <2>1. here + 1 = at[u + 1]
    BY ONLY <1>0, <1>4, <1>12
  <2>2. CASE u < Len(units)
    <3>1. u + 1 \in 1..Len(units)
      BY <1>2, <1>6, <2>2
    <3>2. 0 \in 0..(Len(units[u + 1]) - 1)
      <4>1. units[u + 1] \in Seq(Byte) /\ units[u + 1] # <<>>
        BY <1>2, <3>1
      <4> QED BY ONLY <4>1
    <3>3. at[u + 1] + 0 = here + 1
      BY <1>7, <2>1
    <3>4. /\ Len(Tail(rest)) + (at[u + 1] + 0) = Len(joined)
          /\ \A i \in 1..Len(Tail(rest)) : Tail(rest)[i] = joined[(at[u + 1] + 0) + i]
      BY <1>10, <3>3
    <3>5. Ahead(Tail(rest), units, u + 1, 0)
      BY <1>1, <1>10, <3>1, <3>2, <3>4, Zenon DEF Ahead, joined
    <3> QED BY <2>2, <3>5 DEF MovesOn
  <2>3. CASE ~(u < Len(units))
    <3>1. u = Len(units)
      BY <1>1, <1>2, <1>6, <2>3
    <3>2. Len(Tail(rest)) + (here + 1) = Len(joined) /\ Len(joined) = here + 1 /\ here + 1 \in Nat
      BY <1>5, <1>7, <1>10, <2>1, <3>1
    <3>3. Tail(rest) = <<>>
      <4>1. Tail(rest) \in Seq(Byte)
        BY <1>10
      <4> HIDE DEF here
      <4> QED BY <3>2, <4>1, NoneLeft, Zenon
    <3> QED BY <2>3, <3>3 DEF MovesOn
  <2> QED BY <2>2, <2>3
<1> QED BY <1>1, <1>8, <1>9, <1>11, <1>12

\* The octets 7E, 7D, 11 and 13 with bit 5 turned over, and back.
LEMMA XoredIs ==
  /\ Xored(126) = 94 /\ Xored(125) = 93 /\ Xored(17) = 49 /\ Xored(19) = 51
  /\ Xored(94) = 126 /\ Xored(93) = 125 /\ Xored(49) = 17 /\ Xored(51) = 19
BY DEF Xored

\* Turning bit 5 over leaves an octet.
LEMMA XoredByte ==
  ASSUME NEW b \in Byte
  PROVE  Xored(b) \in Byte
BY DEF Xored, Byte

\* An escaped octet is no reserved one, and is found again by turning bit 5 over.
LEMMA ReservedIs ==
  ASSUME NEW b \in Reserved
  PROVE  /\ b \in Byte /\ b < 128 /\ Xored(b) \in Byte /\ Xored(Xored(b)) = b
         /\ Xored(b) \notin Reserved /\ Xored(b) # b
<1>1. b \in {126, 125, 17, 19}
  BY DEF Reserved, Start, EscapeCharacter
<1>2. CASE b = 126
  BY <1>2, XoredIs DEF Byte, Reserved, Start, EscapeCharacter
<1>3. CASE b = 125
  BY <1>3, XoredIs DEF Byte, Reserved, Start, EscapeCharacter
<1>4. CASE b = 17
  BY <1>4, XoredIs DEF Byte, Reserved, Start, EscapeCharacter
<1>5. CASE b = 19
  BY <1>5, XoredIs DEF Byte, Reserved, Start, EscapeCharacter
<1> QED BY <1>1, <1>2, <1>3, <1>4, <1>5

\* What writer_put() makes of each octet.
Puts(bytes, mode) == [i \in DOMAIN bytes |-> Put(bytes[i], mode)]

\* An octet writer_put() escapes.
Escaping(b, mode) == mode /\ b \in Reserved

\* writer_put() writes an octet as it is or as two, none of them a delimiter.
LEMMA PutIs ==
  ASSUME NEW b \in Byte, NEW mode
  PROVE  /\ Put(b, mode) = IF Escaping(b, mode) THEN <<125, Xored(b)>> ELSE <<b>>
         /\ Put(b, mode) \in Seq(Byte) /\ Put(b, mode) # <<>>
         /\ Len(Put(b, mode)) = IF Escaping(b, mode) THEN 2 ELSE 1
         /\ mode => Put(b, mode) \in Seq(Byte \ {Start})
<1>1. CASE Escaping(b, mode)
  <2>1. Put(b, mode) = <<125, Xored(b)>>
    BY <1>1 DEF Put, Escaping, EscapeCharacter
  <2>2. Xored(b) \in Byte \ {Start} /\ 125 \in Byte \ {Start}
    <3>1. b \in Reserved
      BY <1>1 DEF Escaping
    <3>2. Xored(b) \in Byte /\ Xored(b) \notin Reserved
      BY <3>1, ReservedIs
    <3> QED BY <3>2 DEF Byte, Start, Reserved
  <2> QED BY <1>1, <2>1, <2>2
<1>2. CASE ~Escaping(b, mode)
  <2>1. Put(b, mode) = <<b>>
    BY <1>2 DEF Put, Escaping
  <2>2. mode => b # Start
    BY <1>2 DEF Escaping, Reserved
  <2> QED BY <1>2, <2>1, <2>2
<1> QED BY <1>1, <1>2

\* What is written for each octet is a part of the wire.
LEMMA PutsParts ==
  ASSUME NEW bytes \in Seq(Byte), bytes # <<>>, NEW mode
  PROVE  /\ Parts(Puts(bytes, mode)) /\ Len(Puts(bytes, mode)) = Len(bytes)
         /\ \A u \in 1..Len(bytes) : Puts(bytes, mode)[u] = Put(bytes[u], mode)
<1>1. Len(bytes) \in Nat /\ Len(bytes) # 0 /\ DOMAIN bytes = 1..Len(bytes)
  OBVIOUS
<1>2. \A u \in 1..Len(bytes) : Put(bytes[u], mode) \in Seq(Byte) /\ Put(bytes[u], mode) # <<>>
  BY PutIs
<1>3. Puts(bytes, mode) = [u \in 1..Len(bytes) |-> Put(bytes[u], mode)]
  BY <1>1 DEF Puts
<1>4. /\ Puts(bytes, mode) \in Seq(Seq(Byte)) /\ Len(Puts(bytes, mode)) = Len(bytes)
      /\ \A u \in 1..Len(bytes) : Puts(bytes, mode)[u] = Put(bytes[u], mode)
  BY <1>1, <1>2, <1>3
<1> QED BY <1>1, <1>2, <1>4 DEF Parts

\* The next byte of a frame on its way, and what is left behind it.
LEMMA NextByte ==
  ASSUME NEW bytes \in Seq(Byte), bytes # <<>>, NEW mode, NEW rest, NEW u, NEW h,
         Ahead(rest, Puts(bytes, mode), u, h)
  PROVE  /\ rest \in Seq(Byte) /\ rest # <<>> /\ u \in 1..Len(bytes) /\ bytes[u] \in Byte
         /\ \/ /\ h = 0 /\ ~Escaping(bytes[u], mode)
               /\ Head(rest) = bytes[u] /\ MovesOn(Tail(rest), Puts(bytes, mode), u)
            \/ /\ h = 0 /\ Escaping(bytes[u], mode)
               /\ Head(rest) = 125 /\ Ahead(Tail(rest), Puts(bytes, mode), u, 1)
            \/ /\ h = 1 /\ Escaping(bytes[u], mode)
               /\ Head(rest) = Xored(bytes[u]) /\ MovesOn(Tail(rest), Puts(bytes, mode), u)
<1> DEFINE units == Puts(bytes, mode)
<1> HIDE DEF units
<1>1. /\ Parts(units) /\ Len(units) = Len(bytes)
      /\ \A v \in 1..Len(bytes) : units[v] = Put(bytes[v], mode)
  BY PutsParts DEF units
<1>2. /\ rest \in Seq(Byte) /\ rest # <<>> /\ u \in 1..Len(units)
      /\ h \in 0..(Len(units[u]) - 1)
      /\ Head(rest) = units[u][h + 1]
      /\ h + 1 # Len(units[u]) => Ahead(Tail(rest), units, u, h + 1)
      /\ h + 1 = Len(units[u]) => MovesOn(Tail(rest), units, u)
  BY <1>1, AheadMoves DEF units
<1>3. u \in 1..Len(bytes) /\ units[u] = Put(bytes[u], mode) /\ bytes[u] \in Byte
  BY <1>1, <1>2
<1>4. CASE Escaping(bytes[u], mode)
  <2>1. units[u] = <<125, Xored(bytes[u])>> /\ Len(units[u]) = 2
    BY <1>3, <1>4, PutIs
  <2>2. h = 0 \/ h = 1
    BY <1>2, <2>1
  <2>3. CASE h = 0
    <3>1. Head(rest) = 125 /\ Ahead(Tail(rest), units, u, 1)
      BY <1>2, <2>1, <2>3
    <3> QED BY <1>2, <1>3, <1>4, <2>3, <3>1 DEF units
  <2>4. CASE h = 1
    <3>1. Head(rest) = Xored(bytes[u]) /\ MovesOn(Tail(rest), units, u)
      BY <1>2, <2>1, <2>4
    <3> QED BY <1>2, <1>3, <1>4, <2>4, <3>1 DEF units
  <2> QED BY <2>2, <2>3, <2>4
<1>5. CASE ~Escaping(bytes[u], mode)
  <2>1. units[u] = <<bytes[u]>> /\ Len(units[u]) = 1
    BY <1>3, <1>5, PutIs
  <2>2. h = 0
    BY <1>2, <2>1
  <2>3. Head(rest) = bytes[u] /\ MovesOn(Tail(rest), units, u)
    BY <1>2, <2>1, <2>2
  <2> QED BY <1>2, <1>3, <1>5, <2>2, <2>3 DEF units
<1> QED BY <1>4, <1>5

\* sum[i] is the sum of the first i octets, modulo 256.
Adds(data, sum, n) == /\ sum[0] = 0
                      /\ \A i \in 1..n : sum[i] = (sum[i - 1] + data[i]) % 256
                      /\ \A i \in 0..n : sum[i] \in Byte

\* Adding one octet to a sum modulo 256.
LEMMA ModAdd ==
  ASSUME NEW a \in Byte, NEW b \in Byte
  PROVE  (a + b) % 256 = (IF a + b < 256 THEN a + b ELSE a + b - 256) /\ (a + b) % 256 \in Byte
BY DEF Byte

\* The same as a function, the one Checksum folds with.
Summed(data, n, sum) == sum = [i \in 0..n |-> IF i = 0 THEN 0 ELSE (sum[i - 1] + data[i]) % 256]

\* It exists for every length.
LEMMA SumExists ==
  ASSUME NEW data, NEW n \in Nat
  PROVE  \E sum : Summed(data, n, sum)
<1> DEFINE S == {m \in Nat : \E g : Summed(data, m, g)}
<1>1. 0 \in S
  <2> DEFINE g == [i \in 0..0 |-> 0]
  <2>1. Summed(data, 0, g)
    BY DEF Summed
  <2> QED BY <2>1
<1>2. ASSUME NEW m \in Nat, m \in S PROVE m + 1 \in S
  <2>1. PICK g : Summed(data, m, g)
    BY <1>2
  <2> DEFINE h == [i \in 0..(m + 1) |-> IF i = m + 1 THEN (g[m] + data[m + 1]) % 256 ELSE g[i]]
  <2>2. ASSUME NEW i \in 0..(m + 1) PROVE h[i] = IF i = 0 THEN 0 ELSE (h[i - 1] + data[i]) % 256
    <3>1. CASE i = m + 1
      BY <3>1
    <3>2. CASE i # m + 1
      <4>1. i \in 0..m /\ h[i] = g[i] /\ (i # 0 => i - 1 \in 0..m /\ h[i - 1] = g[i - 1])
        BY <3>2
      <4>2. g[i] = IF i = 0 THEN 0 ELSE (g[i - 1] + data[i]) % 256
        BY <2>1, <4>1 DEF Summed
      <4> QED BY <4>1, <4>2
    <3> QED BY <3>1, <3>2
  <2>3. h = [i \in 0..(m + 1) |-> h[i]]
    OBVIOUS
  <2> HIDE DEF h
  <2>4. Summed(data, m + 1, h)
    BY <2>2, <2>3 DEF Summed
  <2> QED BY <2>4
<1> HIDE DEF S
<1>3. n \in S
  BY <1>1, <1>2, SetInduction
<1> QED BY <1>3 DEF S

\* The checksum is 255 less the sum of the data.
LEMMA ChecksumIs ==
  ASSUME NEW data \in Seq(Byte)
  PROVE  \E sum : Adds(data, sum, Len(data)) /\ Checksum(data) = 255 - sum[Len(data)]
<1> DEFINE n == Len(data)
           sum == CHOOSE sum : Summed(data, n, sum)
<1>1. Checksum(data) = 255 - sum[n]
  BY Zenon DEF Checksum, Summed
<1> HIDE DEF sum
<1>2. Summed(data, n, sum) /\ n \in Nat
  <2>1. n \in Nat
    OBVIOUS
  <2>2. \E s : Summed(data, n, s)
    BY <2>1, SumExists
  <2>3. Summed(data, n, CHOOSE s : Summed(data, n, s))
    BY <2>2, Zenon
  <2> QED BY <2>1, <2>3, Zenon DEF sum
<1>3. sum[0] = 0 /\ \A i \in 1..n : sum[i] = (sum[i - 1] + data[i]) % 256
  BY <1>2 DEF Summed
<1> DEFINE S == {m \in Nat : m <= n => sum[m] \in Byte}
<1>4. 0 \in S
  BY <1>3 DEF Byte
<1>5. ASSUME NEW m \in Nat, m \in S PROVE m + 1 \in S
  <2>1. CASE m + 1 <= n
    <3>1. m <= n /\ m + 1 \in 1..n /\ (m + 1) - 1 = m
      BY <1>2, <2>1
    <3>2. sum[m] \in Byte /\ data[m + 1] \in Byte
      BY <1>5, <3>1
    <3>3. sum[m + 1] = (sum[m] + data[m + 1]) % 256
      BY <1>3, <3>1
    <3>4. sum[m + 1] \in Byte
      BY <3>2, <3>3, ModAdd
    <3> QED BY <3>4
  <2>2. CASE ~(m + 1 <= n)
    BY <2>2
  <2> QED BY <2>1, <2>2
<1> HIDE DEF S
<1>6. Nat \subseteq S
  BY <1>4, <1>5, SetInduction
<1>7. \A i \in 0..n : sum[i] \in Byte
  BY <1>2, <1>6 DEF S
<1> QED BY <1>1, <1>3, <1>7 DEF Adds

\* The checksum is an octet.
LEMMA ChecksumByte ==
  ASSUME NEW data \in Seq(Byte)
  PROVE  Checksum(data) \in Byte
<1>1. PICK sum : Adds(data, sum, Len(data)) /\ Checksum(data) = 255 - sum[Len(data)]
  BY ChecksumIs
<1>2. Len(data) \in Nat /\ sum[Len(data)] \in Byte
  BY <1>1 DEF Adds
<1> QED BY <1>1, <1>2 DEF Byte

\* Two sums that differ still differ when the same octet is added, and two that are
\* the same do when different ones are.
LEMMA SameSum ==
  ASSUME NEW a \in Byte, NEW b \in Byte, NEW c \in Byte, NEW d \in Byte,
         (a # b /\ c = d) \/ (a = b /\ c # d)
  PROVE  (a + c) % 256 # (b + d) % 256
<1>1. /\ (a + c) % 256 = IF a + c < 256 THEN a + c ELSE a + c - 256
      /\ (b + d) % 256 = IF b + d < 256 THEN b + d ELSE b + d - 256
  BY ModAdd
<1> QED BY <1>1 DEF Byte

\* One byte altered shows in the checksum.
LEMMA Altered ==
  ASSUME NEW data \in Seq(Byte), NEW other \in Seq(Byte), Len(other) = Len(data),
         NEW j \in 1..Len(data), other[j] # data[j],
         \A i \in 1..Len(data) : i # j => other[i] = data[i]
  PROVE  Checksum(other) # Checksum(data)
<1> DEFINE n == Len(data)
<1>1. PICK f : Adds(data, f, n) /\ Checksum(data) = 255 - f[n]
  BY ChecksumIs
<1>2. PICK g : Adds(other, g, n) /\ Checksum(other) = 255 - g[n]
  BY ChecksumIs
<1>3. n \in Nat /\ \A i \in 1..n : data[i] \in Byte /\ other[i] \in Byte
  OBVIOUS
<1>4. /\ f[0] = 0 /\ g[0] = 0
      /\ \A i \in 1..n : f[i] = (f[i - 1] + data[i]) % 256 /\ g[i] = (g[i - 1] + other[i]) % 256
      /\ \A i \in 0..n : f[i] \in Byte /\ g[i] \in Byte
  BY <1>1, <1>2 DEF Adds
<1> DEFINE S == {m \in Nat : m <= n => (f[m] = g[m] <=> m < j)}
<1>5. 0 \in S
  BY <1>4
<1>6. ASSUME NEW m \in Nat, m \in S PROVE m + 1 \in S
  <2>1. CASE m + 1 <= n
    <3>1. m <= n /\ m \in 0..n /\ m + 1 \in 1..n /\ (m + 1) - 1 = m
      BY <1>3, <2>1
    <3> DEFINE k == m + 1
    <3>2. /\ f[k] = (f[m] + data[k]) % 256 /\ g[k] = (g[m] + other[k]) % 256
          /\ f[m] \in Byte /\ g[m] \in Byte /\ data[k] \in Byte /\ other[k] \in Byte
          /\ (f[m] = g[m] <=> m < j)
      BY <1>3, <1>4, <1>6, <3>1
    <3>3. k # j => other[k] = data[k]
      BY <3>1
    <3>4. (k = j => m < j) /\ (k < j => m < j) /\ (k > j => ~(m < j)) /\ j \in Nat /\ k \in Nat
      BY <3>1
    <3>6. f[k] = g[k] <=> k < j
      <4> HIDE DEF k
      <4>1. CASE k < j
        BY <3>2, <3>3, <3>4, <4>1
      <4>2. CASE k = j
        BY <3>2, <3>4, <4>2, SameSum
      <4>3. CASE k > j
        BY <3>2, <3>3, <3>4, <4>3, SameSum
      <4> QED BY <3>4, <4>1, <4>2, <4>3
    <3> QED BY <3>6
  <2>2. CASE ~(m + 1 <= n)
    BY <2>2
  <2> QED BY <2>1, <2>2
<1> HIDE DEF S
<1>7. n \in S
  BY <1>3, <1>5, <1>6, SetInduction
<1>8. f[n] # g[n] /\ f[n] \in Byte /\ g[n] \in Byte
  BY <1>3, <1>4, <1>7 DEF S
<1> HIDE DEF n
<1>9. \A x, y \in Byte : x # y => 255 - x # 255 - y
  BY SMT DEF Byte
<1> QED BY ONLY <1>1, <1>2, <1>8, <1>9

\* What a frame is sent as, before the escapes.
Framed(data) == BE16(Len(data)) \o data \o <<Checksum(data)>>

\* Length, data and checksum, at their places.
LEMMA FramedIs ==
  ASSUME NEW data \in Seq(Byte), Len(data) <= Longest
  PROVE  /\ Framed(data) \in Seq(Byte) /\ Len(Framed(data)) = Len(data) + 3
         /\ Framed(data)[1] = Len(data) \div 256 /\ Framed(data)[2] = Len(data) % 256
         /\ \A i \in 1..Len(data) : Framed(data)[i + 2] = data[i]
         /\ Framed(data)[Len(data) + 3] = Checksum(data)
<1> DEFINE size == BE16(Len(data))  sum == <<Checksum(data)>>
<1>1. Len(data) \in Nat /\ Len(data) < 65536
  BY SMT DEF Longest
<1>2. Len(data) \div 256 \in Byte /\ Len(data) % 256 \in Byte
  BY ONLY <1>1, SMT DEF Byte
<1>3. size \in Seq(Byte) /\ Len(size) = 2 /\ size[1] = Len(data) \div 256 /\ size[2] = Len(data) % 256
  BY ONLY <1>2, SMT DEF BE16
<1>4. sum \in Seq(Byte) /\ Len(sum) = 1 /\ sum[1] = Checksum(data)
  BY ChecksumByte
<1> HIDE DEF size, sum
<1> DEFINE most == size \o data
<1>5. Joined(Byte, size, data)
  BY <1>3, Joins
<1>6. /\ most \in Seq(Byte) /\ Len(most) = 2 + Len(data)
      /\ most[1] = Len(data) \div 256 /\ most[2] = Len(data) % 256
      /\ \A i \in 1..Len(data) : most[2 + i] = data[i]
  <2>1. 1 \in 1..Len(size) /\ 2 \in 1..Len(size)
    BY ONLY <1>3
  <2> QED BY <1>3, <1>5, <2>1 DEF Joined
<1> HIDE DEF most
<1>7. Joined(Byte, most, sum)
  BY <1>4, <1>6, Joins
<1>8. Framed(data) = most \o sum
  BY DEF Framed, most, size, sum
<1>9. Framed(data) \in Seq(Byte) /\ Len(Framed(data)) = (2 + Len(data)) + 1
  BY <1>4, <1>6, <1>7, <1>8 DEF Joined
<1>10. \A i \in 1..(2 + Len(data)) : Framed(data)[i] = most[i]
  BY <1>6, <1>7, <1>8 DEF Joined
<1>11. Framed(data)[(2 + Len(data)) + 1] = Checksum(data)
  <2>1. 1 \in 1..Len(sum)
    BY ONLY <1>4
  <2> QED BY <1>4, <1>6, <1>7, <1>8, <2>1 DEF Joined
<1>12. 1 \in 1..(2 + Len(data)) /\ 2 \in 1..(2 + Len(data)) /\ (2 + Len(data)) + 1 = Len(data) + 3
  BY ONLY <1>1
<1>13. \A i \in 1..Len(data) : i + 2 \in 1..(2 + Len(data)) /\ i + 2 = 2 + i
  BY ONLY <1>1
<1> QED BY <1>6, <1>9, <1>10, <1>11, <1>12, <1>13

\* Escapes at most double what is sent, which is what XBEE_FRAME_MAX_ENCODED_LEN
\* rests on.
LEMMA FlattenLength ==
  ASSUME NEW units \in Seq(Seq(Byte)), Len(units) # 0,
         \A u \in 1..Len(units) : Len(units[u]) <= 2
  PROVE  Len(FlattenSeq(units)) <= 2 * Len(units)
<1> DEFINE n == Len(units)
<1>1. PICK at : Offsets(units, at) /\ Holds(FlattenSeq(units), units, at, n)
  BY Flattened
<1>2. n \in Nat /\ \A u \in 1..n : Len(units[u]) \in Nat /\ Len(units[u]) <= 2
  OBVIOUS
<1>3. at[1] = 0 /\ \A u \in 1..n : at[u] \in Nat /\ at[u + 1] = at[u] + Len(units[u])
  BY <1>1 DEF Offsets, Adjoin
<1> DEFINE S == {m \in Nat : m <= n => at[m + 1] \in Nat /\ at[m + 1] <= 2 * m}
<1>4. 0 \in S
  BY <1>3
<1>5. ASSUME NEW m \in Nat, m \in S PROVE m + 1 \in S
  <2>1. CASE m + 1 <= n
    <3>1. m <= n /\ m + 1 \in 1..n
      BY <1>2, <2>1
    <3>2. at[m + 1] \in Nat /\ at[m + 1] <= 2 * m
      BY <1>5, <3>1
    <3>3. at[(m + 1) + 1] = at[m + 1] + Len(units[m + 1]) /\ Len(units[m + 1]) \in Nat
          /\ Len(units[m + 1]) <= 2
      BY <1>2, <1>3, <3>1
    <3>4. at[(m + 1) + 1] \in Nat /\ at[(m + 1) + 1] <= 2 * (m + 1)
      BY ONLY <3>2, <3>3, m \in Nat
    <3> QED BY <3>4
  <2>2. CASE ~(m + 1 <= n)
    BY <2>2
  <2> QED BY <2>1, <2>2
<1> HIDE DEF S
<1>6. n \in S
  BY <1>2, <1>4, <1>5, SetInduction
<1>7. at[n + 1] <= 2 * n
  BY <1>2, <1>6 DEF S
<1> QED BY <1>1, <1>7 DEF Holds

\* A sequence with one element put in front.
LEMMA Behind ==
  ASSUME NEW V, NEW x \in V, NEW s \in Seq(V)
  PROVE  /\ <<x>> \o s \in Seq(V) /\ <<x>> \o s # <<>> /\ Head(<<x>> \o s) = x
         /\ Len(<<x>> \o s) = 1 + Len(s)
         /\ Tail(<<x>> \o s) \in Seq(V) /\ Len(Tail(<<x>> \o s)) = Len(s)
         /\ \A i \in 1..Len(s) : Tail(<<x>> \o s)[i] = s[i]
<1> DEFINE p == <<x>>  q == p \o s
<1>1. p \in Seq(V) /\ Len(p) = 1 /\ p[1] = x /\ Len(s) \in Nat
  OBVIOUS
<1> HIDE DEF p
<1>2. Joined(V, p, s)
  BY <1>1, Joins
<1>3. q \in Seq(V) /\ Len(q) = 1 + Len(s)
  BY <1>1, <1>2 DEF Joined
<1>4. q[1] = x
  <2>1. 1 \in 1..Len(p)
    BY <1>1
  <2> QED BY <1>1, <1>2, <2>1 DEF Joined
<1>5. \A i \in 1..Len(s) : q[i + 1] = s[i]
  <2>1. \A i \in 1..Len(s) : q[1 + i] = s[i] /\ i + 1 = 1 + i
    BY <1>1, <1>2 DEF Joined
  <2> QED BY <2>1
<1> HIDE DEF q
<1>6. q # <<>> /\ Head(q) = x /\ Tail(q) \in Seq(V) /\ Len(Tail(q)) = Len(s)
  BY <1>1, <1>3, <1>4
<1>7. \A i \in 1..Len(s) : Tail(q)[i] = q[i + 1]
  BY <1>1, <1>3
<1> QED BY <1>3, <1>5, <1>6, <1>7 DEF q, p

\* A sequence of elements of V is a sequence of V.
LEMMA OfSort ==
  ASSUME NEW U, NEW V, NEW s \in Seq(U), \A i \in 1..Len(s) : s[i] \in V
  PROVE  s \in Seq(V)
OBVIOUS

\* No octet of what is left looks like a delimiter.
NoStart(rest) == \A i \in 1..Len(rest) : rest[i] # Start

\* What xbee_frame_encode() writes: a delimiter, then the octets of the frame, each
\* as writer_put() writes it; with escapes no other delimiter among them.
LEMMA OnWireIs ==
  ASSUME NEW data \in Seq(Byte), Len(data) <= Longest, NEW mode,
         NEW bytes, bytes = OnWire(Len(data), data, mode)
  PROVE  /\ bytes \in Seq(Byte) /\ bytes # <<>> /\ Head(bytes) = Start
         /\ Len(bytes) <= 1 + 2 * (Len(data) + 3)
         /\ Ahead(Tail(bytes), Puts(Framed(data), mode), 1, 0)
         /\ mode => NoStart(Tail(bytes))
<1> DEFINE units == Puts(Framed(data), mode)  joined == FlattenSeq(units)
<1>1. /\ Framed(data) \in Seq(Byte) /\ Len(Framed(data)) = Len(data) + 3 /\ Framed(data) # <<>>
      /\ Len(data) \in Nat
  <2>1. Framed(data) \in Seq(Byte) /\ Len(Framed(data)) = Len(data) + 3 /\ Len(data) \in Nat
    BY FramedIs
  <2> QED BY <2>1
<1>2. /\ Parts(units) /\ Len(units) = Len(data) + 3
      /\ \A u \in 1..Len(units) : Framed(data)[u] \in Byte /\ units[u] = Put(Framed(data)[u], mode)
  <2>1. /\ Parts(units) /\ Len(units) = Len(Framed(data))
        /\ \A u \in 1..Len(Framed(data)) : units[u] = Put(Framed(data)[u], mode)
    BY <1>1, PutsParts
  <2> HIDE DEF units
  <2> QED BY <1>1, <2>1
<1>3. bytes = <<Start>> \o joined
  BY Zenon DEF OnWire, Puts, Framed
<1> HIDE DEF units
<1>4. units \in Seq(Seq(Byte)) /\ Len(units) # 0 /\ Len(units) \in Nat
  BY <1>2 DEF Parts
<1>5. joined \in Seq(Byte)
  BY <1>4, Flattened
<1>6. Len(joined) <= 2 * Len(units) /\ Len(joined) \in Nat
  <2>1. \A u \in 1..Len(units) : Len(units[u]) <= 2
    <3>1. ASSUME NEW u \in 1..Len(units) PROVE Len(units[u]) <= 2
      <4>1. Len(units[u]) = IF Escaping(Framed(data)[u], mode) THEN 2 ELSE 1
        BY <1>2, PutIs, Zenon
      <4> QED BY <4>1
    <3> QED BY <3>1
  <2>2. Len(joined) <= 2 * Len(units)
    BY <1>4, <2>1, FlattenLength
  <2> QED BY <1>5, <2>2
<1>7. mode => joined \in Seq(Byte \ {Start})
  <2> SUFFICES ASSUME mode PROVE joined \in Seq(Byte \ {Start})
    OBVIOUS
  <2>1. \A u \in 1..Len(units) : units[u] \in Seq(Byte \ {Start})
    BY <1>2, PutIs
  <2>2. units \in Seq(Seq(Byte \ {Start}))
    BY <1>4, <2>1, OfSort, Zenon
  <2> QED BY <1>4, <2>2, Flattened
<1> HIDE DEF joined
<1>8. Start \in Byte
  BY DEF Start, Byte
<1>9. /\ bytes \in Seq(Byte) /\ bytes # <<>> /\ Head(bytes) = Start
      /\ Len(bytes) = 1 + Len(joined)
      /\ Tail(bytes) \in Seq(Byte) /\ Len(Tail(bytes)) = Len(joined)
      /\ \A i \in 1..Len(joined) : Tail(bytes)[i] = joined[i]
  BY <1>3, <1>5, <1>8, Behind
<1>10. Ahead(Tail(bytes), units, 1, 0)
  <2>1. \A i \in 1..Len(Tail(bytes)) : Tail(bytes)[i] = joined[i]
    BY <1>9
  <2> QED BY <1>2, <1>9, <2>1, AheadStarts DEF joined
<1>11. mode => NoStart(Tail(bytes))
  <2> SUFFICES ASSUME mode, NEW i \in 1..Len(Tail(bytes)) PROVE Tail(bytes)[i] # Start
    BY DEF NoStart
  <2>1. i \in 1..Len(joined) /\ Tail(bytes)[i] = joined[i]
    BY <1>9
  <2>2. joined \in Seq(Byte \ {Start})
    BY <1>7
  <2>3. joined[i] \in Byte \ {Start}
    BY ONLY <2>1, <2>2
  <2> QED BY <2>1, <2>3
<1>12. Len(bytes) <= 1 + 2 * (Len(data) + 3)
  BY <1>1, <1>2, <1>6, <1>9
<1> QED BY <1>9, <1>10, <1>11, <1>12 DEF units

\* A byte behind the first in the wire is not a start delimiter once the framing
\* cannot mistake it.
LEMMA NoStartRange ==
  ASSUME NEW s \in Seq(Byte), Start \notin Range(s)
  PROVE  NoStart(s)
BY DEF Range, NoStart

\* Taking an octet that is no delimiter leaves none behind it.
LEMMA NoStartTail ==
  ASSUME NEW s \in Seq(Byte), s # <<>>, NoStart(s)
  PROVE  Head(s) # Start /\ NoStart(Tail(s)) /\ Tail(s) \in Seq(Byte)
         /\ Len(Tail(s)) < Len(s)
<1>1. Len(s) \in Nat \ {0} /\ Head(s) = s[1] /\ 1 \in 1..Len(s)
  OBVIOUS
<1>2. \A i \in 1..Len(Tail(s)) : Tail(s)[i] = s[i + 1] /\ i + 1 \in 1..Len(s)
  OBVIOUS
<1>3. Tail(s) \in Seq(Byte) /\ Len(Tail(s)) = Len(s) - 1
  OBVIOUS
<1> QED BY <1>1, <1>2, <1>3 DEF NoStart

(***************************************************************************)
(* The inductive invariant.                                                *)
(***************************************************************************)

\* The parser's states, xbee_frame_parser_state_t.
States == {"WAIT_START", "LEN_MSB", "LEN_LSB", "DATA", "CHECKSUM"}

\* The parser, xbee_frame_parser_t.
Parsers == [state : States, buf : Seq(Byte), len : Nat, expected : Nat,
            escape_next : BOOLEAN, overflowed : BOOLEAN]

\* The parser never counts on more than its buffer holds: what it has counted is
\* there, and what it expects fits, unless the frame is being skipped as too long.
Buffered(p) ==
  /\ p \in Parsers /\ Len(p.buf) <= MaxData
  /\ ~p.overflowed => p.len = Len(p.buf)
  /\ p.state \in {"LEN_MSB", "LEN_LSB"} => ~p.overflowed /\ p.len = 0 /\ p.buf = <<>>
  /\ p.state = "DATA" => p.len < p.expected /\ (~p.overflowed => p.expected <= MaxData)

\* What is decoded was read inside the frame data.
Inside(decoded) ==
  decoded.status = "OK" =>
    \A n \in DOMAIN decoded.fields : Beyond \notin Range(decoded.fields[n])

\* What is sent is known, and what came of it so far is well formed.
Traffic ==
  /\ escaped \in BOOLEAN /\ wire \in Seq(Byte)
  /\ frame = [says |-> frame.says, data |-> frame.data, encoded |-> frame.encoded,
              lossy |-> frame.lossy, plain |-> frame.plain, whole |-> frame.whole]
  /\ frame.encoded \in Nat
  /\ frame.lossy \in BOOLEAN /\ frame.plain \in BOOLEAN /\ frame.whole \in BOOLEAN
  /\ ~frame.lossy => frame.encoded <= MaxEncoded /\ Len(frame.data) <= MaxData
  /\ frame.whole => frame.plain
  /\ frame.plain => Sendable(frame.data, frame.says, frame.lossy)
  /\ Inside(got.frame)

\* What is left of frame f on the wire w: h bytes of its part u are gone.
Left(w, f, mode, u, h) == Ahead(w, Puts(Framed(f.data), mode), u, h)

\* None of the frame was fed yet.
Fresh(w, p, f, mode) ==
  /\ w = OnWire(Len(f.data), f.data, mode) /\ f.encoded = Len(w)
  /\ NoStart(Tail(w)) /\ ~p.escape_next

\* The parser has what was sent before part u of the frame.
Tracks(p, seen, u) ==
  /\ u = 1 => p.state = "LEN_MSB"
  /\ u = 2 => p.state = "LEN_LSB" /\ p.expected = 256 * (Len(seen) \div 256)
  /\ u > 2 => /\ p.state = IF u < Len(seen) + 3 THEN "DATA" ELSE "CHECKSUM"
              /\ p.expected = Len(seen) /\ p.len + 3 = u
              /\ p.overflowed = (Len(seen) > MaxData)
              /\ ~p.overflowed => \A i \in 1..p.len : p.buf[i] = seen[i]

\* What the parser takes for the data: the frame's, or one whose sum is another.
Seen(seen, f, mode, u) ==
  /\ seen \in Seq(Byte) /\ Len(seen) = Len(f.data)
  /\ seen # f.data => ~f.whole /\ mode /\ u > 2 /\ Checksum(seen) # Checksum(f.data)
  /\ \A i \in 1..Len(seen) : i + 2 >= u => seen[i] = f.data[i]

\* The parser is at part u of the frame, h octets of which are gone.
FollowsAs(w, p, f, mode, u, h, seen) ==
  /\ Left(w, f, mode, u, h) /\ h \in {0, 1} /\ (p.escape_next <=> h = 1)
  /\ Tracks(p, seen, u) /\ Seen(seen, f, mode, u)

\* The parser is in step with the wire.
Collecting(w, p, f, mode) == \E u, h, seen : FollowsAs(w, p, f, mode, u, h, seen)

\* An escape character was lost, and the byte it announced is next.
Bare(w, p, f, mode) ==
  \E u : /\ u > 2 /\ Left(w, f, mode, u, 1) /\ Tracks(p, f.data, u)
         /\ mode /\ ~p.escape_next /\ ~f.whole

\* The length lost a byte, or the escape of one.
Misled(w, p, f, mode) ==
  /\ Len(f.data) < EscapeCharacter /\ f.lossy /\ ~f.whole
  /\ \/ /\ p.state = "LEN_MSB"
        /\ \E h \in {0, 1} : Left(w, f, mode, 2, h) /\ (p.escape_next <=> h = 1)
     \/ p.state = "LEN_LSB" /\ ~p.escape_next /\ Left(w, f, mode, 3, 0)
     \/ /\ p.state = "LEN_LSB" /\ ~p.escape_next /\ Left(w, f, mode, 2, 1)
        /\ p.expected = 0

\* The parser waits for more than is left.
Lagging(w, p, f, mode) ==
  /\ p.state = "DATA" /\ ~f.whole
  /\ \E u, h : /\ Left(w, f, mode, u, h) /\ h \in {0, 1} /\ (p.escape_next <=> h = 1)
               /\ p.expected + u > Len(f.data) + 3 + p.len

\* Its delimiter was lost: the parser waits for the next one.
Skipping(p, f) == p.state = "WAIT_START" /\ ~p.escape_next /\ ~f.whole

\* What a plain frame can be at once its delimiter is fed or lost.
UnderWay(w, p, f, mode) ==
  /\ NoStart(w) /\ Len(w) < f.encoded
  /\ \/ Skipping(p, f)
     \/ Collecting(w, p, f, mode) \/ Bare(w, p, f, mode)
     \/ Misled(w, p, f, mode) \/ Lagging(w, p, f, mode)

\* A plain frame is fresh or under way as long as bytes of it are left, with no
\* verdict yet; and once they are gone the verdict is the one it deserves.
Progress ==
  /\ frame.plain /\ wire # <<>> =>
       /\ got = Nothing
       /\ Fresh(wire, parser, frame, escaped) \/ UnderWay(wire, parser, frame, escaped)
  /\ wire = <<>> /\ frame.whole => got = Due
  /\ wire = <<>> /\ frame.plain /\ got.status = "OK" => got.data = frame.data

\* The inductive invariant.
IInv == Buffered(parser) /\ Traffic /\ Progress

\* The first octet of the length.
LEMMA CollectsMsb ==
  ASSUME NEW p \in Parsers, NEW byte \in Byte, p.state = "LEN_MSB", NEW q, q = Collected(p, byte)
  PROVE  /\ q \in Parsers /\ q.escape_next = p.escape_next
         /\ q.state = "LEN_LSB" /\ q.expected = 256 * byte
         /\ q.buf = p.buf /\ q.len = p.len /\ q.overflowed = p.overflowed
<1>1. q = [p EXCEPT !.expected = 256 * byte, !.state = "LEN_LSB"]
  BY Zenon DEF Collected
<1>2. byte \in Nat /\ "LEN_LSB" \in States
  BY DEF Byte, States
<1>3. 256 * byte \in Nat
  BY ONLY <1>2
<1> QED BY ONLY <1>1, <1>2, <1>3, p \in Parsers, ZenonT(60) DEF Parsers

\* The second: an empty frame is dropped, one that does not fit is only counted.
LEMMA CollectsLsb ==
  ASSUME NEW p \in Parsers, NEW byte \in Byte, p.state = "LEN_LSB", NEW q, q = Collected(p, byte)
  PROVE  /\ q \in Parsers /\ q.escape_next = p.escape_next
         /\ q.buf = p.buf /\ q.len = p.len
         /\ \/ /\ p.expected + byte = 0
               /\ q.state = "WAIT_START" /\ q.overflowed = p.overflowed
            \/ /\ p.expected + byte # 0 /\ q.state = "DATA" /\ q.expected = p.expected + byte
               /\ q.overflowed = (p.expected + byte > MaxData)
<1>1. q = IF p.expected + byte = 0 THEN [p EXCEPT !.state = "WAIT_START"]
          ELSE [p EXCEPT !.expected = @ + byte, !.state = "DATA",
                         !.overflowed = (p.expected + byte > MaxData)]
  BY Zenon DEF Collected
<1>2. byte \in Nat /\ "WAIT_START" \in States /\ "DATA" \in States /\ p.expected \in Nat
  BY DEF Byte, States, Parsers
<1>3. p.expected + byte \in Nat
  BY ONLY <1>2
<1>4. CASE p.expected + byte = 0
  <2>1. q = [p EXCEPT !.state = "WAIT_START"]
    BY <1>1, <1>4, Zenon
  <2> QED BY ONLY <1>2, <1>4, <2>1, p \in Parsers DEF Parsers
<1>5. CASE p.expected + byte # 0
  <2> DEFINE x == p.expected + byte  o == (x > MaxData)
  <2>1. q = [p EXCEPT !.expected = x, !.state = "DATA", !.overflowed = o]
    BY <1>1, <1>5, Zenon
  <2>2. o \in BOOLEAN /\ x \in Nat /\ x # 0
    BY <1>3, <1>5
  <2> HIDE DEF o
  <2>3. /\ q \in Parsers /\ q.escape_next = p.escape_next /\ q.buf = p.buf /\ q.len = p.len
        /\ q.state = "DATA" /\ q.expected = x /\ q.overflowed = o
    BY ONLY <1>2, <2>1, <2>2, p \in Parsers DEF Parsers
  <2> QED BY <1>5, <2>3, Zenon DEF o
<1> QED BY <1>4, <1>5, Zenon

\* An octet of the data.
LEMMA CollectsData ==
  ASSUME NEW p \in Parsers, NEW byte \in Byte, p.state = "DATA", NEW q, q = Collected(p, byte)
  PROVE  /\ q \in Parsers /\ q.escape_next = p.escape_next
         /\ q.len = p.len + 1 /\ q.expected = p.expected /\ q.overflowed = p.overflowed
         /\ q.buf = IF p.overflowed THEN p.buf ELSE Append(p.buf, byte)
         /\ q.state = IF p.len + 1 >= p.expected THEN "CHECKSUM" ELSE "DATA"
<1>1. q = [p EXCEPT !.buf = IF p.overflowed THEN @ ELSE Append(@, byte), !.len = @ + 1,
                    !.state = IF p.len + 1 >= p.expected THEN "CHECKSUM" ELSE @]
  BY Zenon DEF Collected
<1> DEFINE b2 == IF p.overflowed THEN p.buf ELSE Append(p.buf, byte)
           s2 == IF p.len + 1 >= p.expected THEN "CHECKSUM" ELSE "DATA"
           l2 == p.len + 1
<1>2. b2 \in Seq(Byte) /\ s2 \in States /\ l2 \in Nat
  BY DEF States, Parsers
<1>3. q = [p EXCEPT !.buf = b2, !.len = l2, !.state = s2]
  <2>1. p.state = "DATA"
    OBVIOUS
  <2> QED BY <1>1, <2>1, Zenon
<1> HIDE DEF b2, s2, l2
<1>4. /\ q \in Parsers /\ q.escape_next = p.escape_next /\ q.len = l2
      /\ q.expected = p.expected /\ q.overflowed = p.overflowed /\ q.buf = b2 /\ q.state = s2
  BY ONLY <1>2, <1>3, p \in Parsers DEF Parsers
<1> QED BY <1>4, Zenon DEF b2, s2, l2

\* The octet behind them ends the frame.
LEMMA CollectsLast ==
  ASSUME NEW p \in Parsers, NEW byte \in Byte, p.state \notin {"LEN_MSB", "LEN_LSB", "DATA"},
         NEW q, q = Collected(p, byte)
  PROVE  /\ q \in Parsers /\ q.escape_next = p.escape_next /\ q.state = "WAIT_START"
         /\ q.buf = p.buf /\ q.len = p.len /\ q.overflowed = p.overflowed
<1>1. q = [p EXCEPT !.state = "WAIT_START"]
  BY Zenon DEF Collected
<1>2. "WAIT_START" \in States
  BY DEF States
<1> QED BY ONLY <1>1, <1>2, p \in Parsers DEF Parsers

\* The buffer has room, and no more than two octets of length can ask for.
LEMMA MaxDataNat == MaxData \in Nat /\ 0 < MaxData /\ MaxData <= Longest
BY FrameAssumption

\* Collecting a byte keeps the parser inside its buffer.
LEMMA CollectedBuffered ==
  ASSUME NEW p, Buffered(p), NEW byte \in Byte
  PROVE  Buffered(Collected(p, byte))
<1> DEFINE q == Collected(p, byte)
<1> SUFFICES Buffered(q)
  OBVIOUS
<1>1. p \in Parsers
  BY DEF Buffered
<1>3. byte \in Nat /\ p.expected \in Nat /\ p.len \in Nat /\ p.buf \in Seq(Byte) /\ Len(p.buf) \in Nat
      /\ p.overflowed \in BOOLEAN /\ MaxData \in Nat
  BY <1>1, MaxDataNat DEF Parsers, Byte
<1>4. /\ Len(p.buf) <= MaxData
      /\ ~p.overflowed => p.len = Len(p.buf)
      /\ p.state \in {"LEN_MSB", "LEN_LSB"} => ~p.overflowed /\ p.len = 0 /\ p.buf = <<>>
      /\ p.state = "DATA" => p.len < p.expected /\ (~p.overflowed => p.expected <= MaxData)
  BY Zenon DEF Buffered
<1>5. CASE p.state = "LEN_MSB"
  <2>1. /\ q \in Parsers /\ q.state = "LEN_LSB"
        /\ q.buf = p.buf /\ q.len = p.len /\ q.overflowed = p.overflowed
    BY <1>1, <1>5, CollectsMsb
  <2> HIDE DEF q
  <2> QED BY ONLY <1>4, <1>5, <2>1 DEF Buffered
<1>6. CASE p.state = "LEN_LSB"
  <2>1. /\ q \in Parsers /\ q.buf = p.buf /\ q.len = p.len
        /\ \/ /\ p.expected + byte = 0
              /\ q.state = "WAIT_START" /\ q.overflowed = p.overflowed
           \/ /\ p.expected + byte # 0 /\ q.state = "DATA" /\ q.expected = p.expected + byte
              /\ q.overflowed = (p.expected + byte > MaxData)
    BY <1>1, <1>6, CollectsLsb
  <2> HIDE DEF q
  <2>2. ~p.overflowed /\ p.len = 0 /\ p.buf = <<>>
    BY ONLY <1>4, <1>6
  <2>3. CASE q.state = "WAIT_START"
    <3>1. q.overflowed = p.overflowed
      BY <2>1, <2>3
    <3> QED BY ONLY <1>4, <2>1, <2>2, <2>3, <3>1 DEF Buffered
  <2>4. CASE q.state = "DATA"
    <3>1. q.expected = p.expected + byte /\ p.expected + byte # 0
          /\ q.overflowed = (p.expected + byte > MaxData)
      BY <2>1, <2>4
    <3>2. q.len < q.expected /\ (~q.overflowed => q.expected <= MaxData)
      <4>1. q.len < q.expected
        <5>1. q.len = 0 /\ q.expected = p.expected + byte /\ p.expected + byte # 0
          BY <2>1, <2>2, <3>1
        <5> QED BY ONLY <1>3, <5>1
      <4>2. ~(p.expected + byte > MaxData) => p.expected + byte <= MaxData
        BY ONLY <1>3
      <4> QED BY <3>1, <4>1, <4>2, Zenon
    <3>3. q.len = Len(q.buf) /\ Len(q.buf) <= MaxData
      BY ONLY <1>4, <2>1, <2>2
    <3> QED BY ONLY <2>1, <2>4, <3>2, <3>3 DEF Buffered
  <2> QED BY <2>1, <2>3, <2>4
<1>7. CASE p.state = "DATA"
  <2>1. /\ q \in Parsers /\ q.len = p.len + 1 /\ q.expected = p.expected /\ q.overflowed = p.overflowed
        /\ q.buf = IF p.overflowed THEN p.buf ELSE Append(p.buf, byte)
        /\ q.state = IF p.len + 1 >= p.expected THEN "CHECKSUM" ELSE "DATA"
    BY <1>1, <1>7, CollectsData
  <2> HIDE DEF q
  <2>2. Len(Append(p.buf, byte)) = Len(p.buf) + 1
    BY <1>3
  <2>3. Len(q.buf) <= MaxData /\ (~q.overflowed => q.len = Len(q.buf))
    <3>1. CASE p.overflowed
      BY ONLY <1>3, <1>4, <2>1, <3>1
    <3>2. CASE ~p.overflowed
      <4>1. Len(q.buf) = Len(p.buf) + 1 /\ q.len = p.len + 1
        BY ONLY <2>1, <2>2, <3>2
      <4> QED BY ONLY <1>3, <1>4, <1>7, <3>2, <4>1
    <3> QED BY <3>1, <3>2
  <2>4. q.state \notin {"LEN_MSB", "LEN_LSB"}
    BY ONLY <2>1
  <2>5. q.state = "DATA" => q.len < q.expected /\ (~q.overflowed => q.expected <= MaxData)
    BY ONLY <1>3, <1>4, <1>7, <2>1
  <2> QED BY ONLY <2>1, <2>3, <2>4, <2>5 DEF Buffered
<1>8. CASE p.state \notin {"LEN_MSB", "LEN_LSB", "DATA"}
  <2>1. /\ q \in Parsers /\ q.state = "WAIT_START" /\ q.buf = p.buf /\ q.len = p.len
        /\ q.overflowed = p.overflowed
    BY <1>1, <1>8, CollectsLast
  <2> HIDE DEF q
  <2> QED BY ONLY <1>4, <2>1 DEF Buffered
<1> QED BY <1>5, <1>6, <1>7, <1>8, Zenon

\* A reset parser and one that has seen a delimiter.
LEMMA StartedBuffered ==
  /\ Buffered(Idle) /\ Idle.state = "WAIT_START" /\ ~Idle.escape_next
  /\ Buffered(Started) /\ Started.state = "LEN_MSB" /\ ~Started.escape_next
<1>1. <<>> \in Seq(Byte) /\ Len(<<>>) = 0 /\ 0 <= MaxData
  BY MaxDataNat
<1> QED BY <1>1 DEF Started, Idle, Buffered, Parsers, States

\* An escape character changes nothing else.
LEMMA EscapeBuffered ==
  ASSUME NEW p, Buffered(p), NEW e \in BOOLEAN
  PROVE  LET q == [p EXCEPT !.escape_next = e]
         IN  /\ Buffered(q) /\ q.escape_next = e /\ q.state = p.state /\ q.buf = p.buf /\ q.len = p.len
             /\ q.expected = p.expected /\ q.overflowed = p.overflowed
<1> DEFINE q == [p EXCEPT !.escape_next = e]
<1>1. p \in Parsers
  BY DEF Buffered
<1>2. q \in Parsers /\ q.escape_next = e /\ q.state = p.state /\ q.buf = p.buf /\ q.len = p.len
      /\ q.expected = p.expected /\ q.overflowed = p.overflowed
  BY <1>1 DEF Parsers
<1> HIDE DEF q
<1>3. Buffered(q)
  BY <1>2 DEF Buffered
<1> QED BY <1>2, <1>3 DEF q

\* No field ends behind the fixed part.
LEMMA Ends ==
  ASSUME NEW F, NEW layout, Chain(F, layout), NEW k \in 1..Len(F)
  PROVE  layout.at[F[k]] + Width(F[k]) <= layout.min
<1>1. /\ Len(F) \in Nat /\ layout.min \in Nat
      /\ \A j \in 1..Len(F) : layout.at[F[j]] \in Nat /\ Width(F[j]) \in Nat
  BY Widths, SMTT(40) DEF Chain
<1>2. \A j \in 1..Len(F) :
         layout.at[F[j]] + Width(F[j]) = IF j = Len(F) THEN layout.min ELSE layout.at[F[j + 1]]
  BY DEF Chain, Links
<1> DEFINE S == {m \in Nat : m < Len(F) =>
                   layout.at[F[Len(F) - m]] + Width(F[Len(F) - m]) <= layout.min}
<1>3. 0 \in S
  <2>1. CASE Len(F) = 0
    BY <2>1
  <2>2. CASE Len(F) # 0
    <3>1. Len(F) - 0 = Len(F) /\ Len(F) \in 1..Len(F)
      BY <1>1, <2>2, SMTT(40)
    <3>2. layout.at[F[Len(F)]] + Width(F[Len(F)]) = layout.min
      BY <1>2, <3>1
    <3> QED BY <1>1, <3>1, <3>2
  <2> QED BY <2>1, <2>2
<1>4. ASSUME NEW m \in Nat, m \in S PROVE m + 1 \in S
  <2> SUFFICES ASSUME m + 1 < Len(F)
               PROVE  layout.at[F[Len(F) - (m + 1)]] + Width(F[Len(F) - (m + 1)]) <= layout.min
    OBVIOUS
  <2> DEFINE j == Len(F) - (m + 1)
  <2>1. j \in 1..Len(F) /\ j # Len(F) /\ j + 1 \in 1..Len(F) /\ j + 1 = Len(F) - m /\ m < Len(F)
    BY <1>1
  <2>2. layout.at[F[j + 1]] + Width(F[j + 1]) <= layout.min
    BY <1>4, <2>1
  <2> HIDE DEF j
  <2>3. layout.at[F[j]] + Width(F[j]) = layout.at[F[j + 1]]
    BY <1>2, <2>1
  <2>4. layout.at[F[j + 1]] \in Nat /\ Width(F[j + 1]) \in Nat
    BY <1>1, <2>1
  <2>5. layout.at[F[j]] + Width(F[j]) <= layout.min
    BY ONLY <1>1, <2>2, <2>3, <2>4
  <2> QED BY <2>5 DEF j
<1> HIDE DEF S
<1>5. Nat \subseteq S
  BY <1>3, <1>4, SetInduction
<1>6. Len(F) - k \in S /\ Len(F) - k \in Nat /\ Len(F) - k < Len(F) /\ Len(F) - (Len(F) - k) = k
  BY <1>1, <1>5
<1> QED BY <1>6 DEF S

\* The decoder reads nothing outside the frame data.
LEMMA DecodesInside ==
  ASSUME NEW data \in Seq(Byte)
  PROVE  Inside(Decode(data))
<1> DEFINE t == TypeOf(data[1])  layout == Layout(t)
<1>1. t \in Types
  BY TypeOfCode
<1> HIDE DEF t
<1>2. Chain(Fields(t), layout)
  BY <1>1, Chains
<1> HIDE DEF layout
<1>3. SUFFICES ASSUME Decode(data).status = "OK", NEW n \in DOMAIN Decode(data).fields
               PROVE  Beyond \notin Range(Decode(data).fields[n])
  BY DEF Inside
<1> DEFINE fields == [m \in DOMAIN layout.at |-> Slice(data, layout.at[m], Width(m))]
<1>4. ~(Len(data) < layout.min) /\ Decode(data).fields = fields
  <2>1. Refused.status # "OK"
    BY DEF Refused
  <2>2. \/ Decode(data) = Refused
        \/ ~(Len(data) < layout.min) /\ \E tail : Decode(data) =
             [status |-> "OK", type |-> t, fields |-> fields, tail |-> tail]
    BY Zenon DEF Decode, t, layout
  <2> QED BY <1>3, <2>1, <2>2
<1>5. n \in DOMAIN layout.at /\ fields[n] = Slice(data, layout.at[n], Width(n))
  BY <1>3, <1>4
<1>6. PICK k \in 1..Len(Fields(t)) : n = Fields(t)[k]
  BY <1>2, <1>5 DEF Chain
<1>7. layout.at[n] \in Nat /\ layout.min \in Nat
  BY <1>2, <1>6 DEF Chain
<1>8. Width(n) \in Nat /\ Len(data) \in Nat
  BY Widths
<1>9. layout.at[n] + Width(n) <= layout.min
  BY <1>2, <1>6, Ends
<1>10. ASSUME NEW i \in 1..Width(n) PROVE fields[n][i] # Beyond
  <2>1. layout.at[n] + i \in 1..Len(data)
    BY <1>4, <1>7, <1>8, <1>9
  <2>2. fields[n][i] = data[layout.at[n] + i]
    BY <1>5, <1>8, <2>1 DEF Slice
  <2>3. data[layout.at[n] + i] \in Byte
    BY <2>1
  <2> QED BY <2>2, <2>3 DEF Byte, Beyond
<1>11. DOMAIN fields[n] = 1..Width(n)
  BY <1>5 DEF Slice
<1> HIDE DEF fields
<1> QED BY <1>4, <1>10, <1>11 DEF Range

(***************************************************************************)
(* A byte fed, xbee_frame_parser_feed().                                   *)
(***************************************************************************)

\* The parser with its pending escape taken.
Unescaped(p) == [p EXCEPT !.escape_next = FALSE]

\* The parser takes an octet for a part of the frame.
Takes(p, byte, g, p2, g2) ==
  /\ p2 = Collected(Unescaped(p), byte)
  /\ g2 = IF p.state = "CHECKSUM" THEN Verdict(Unescaped(p), byte) ELSE g

\* Feed as a relation: what is left w, the parser p and the verdict g become w2, p2
\* and g2.
Fed(w, p, mode, g, w2, p2, g2) ==
  /\ w # <<>> /\ w2 = Tail(w)
  /\ \/ Head(w) = Start /\ ~p.escape_next /\ p2 = Started /\ g2 = g
     \/ Head(w) # Start /\ p.state = "WAIT_START" /\ p2 = p /\ g2 = g
     \/ /\ Head(w) = 125 /\ mode /\ ~p.escape_next /\ p.state # "WAIT_START"
        /\ p2 = [p EXCEPT !.escape_next = TRUE] /\ g2 = g
     \/ /\ p.state # "WAIT_START" /\ (Head(w) = Start => p.escape_next)
        /\ ~(Head(w) = 125 /\ mode /\ ~p.escape_next)
        /\ Takes(p, IF p.escape_next THEN Xored(Head(w)) ELSE Head(w), g, p2, g2)

\* Feed is that relation.
LEMMA FeedIs ==
  ASSUME Feed
  PROVE  /\ Fed(wire, parser, escaped, got, wire', parser', got')
         /\ escaped' = escaped /\ frame' = frame
BY Zenon DEF Feed, Fed, Takes, Unescaped, EscapeCharacter

\* What every step on a frame may count on.
Sent(f) ==
  /\ f.data \in Seq(Byte) /\ Len(f.data) >= 1 /\ Len(f.data) <= Longest
  /\ f.lossy => f.data[1] >= 128

\* What the next octet of a frame on its way is, and what it leaves.
LEMMA NextPart ==
  ASSUME NEW f, Sent(f), NEW mode, NEW w, NEW u, NEW h, Left(w, f, mode, u, h)
  PROVE  LET part == Framed(f.data)[u]
             units == Puts(Framed(f.data), mode)
         IN  /\ w \in Seq(Byte) /\ w # <<>> /\ u \in 1..(Len(f.data) + 3) /\ part \in Byte
             /\ u < Len(f.data) + 3 => u + 1 \in 1..(Len(f.data) + 3)
             /\ \/ /\ h = 0 /\ ~Escaping(part, mode) /\ Head(w) = part
                   /\ IF u < Len(f.data) + 3 THEN Left(Tail(w), f, mode, u + 1,
                                                       0) ELSE Tail(w) = <<>>
                \/ h = 0 /\ Escaping(part, mode) /\ Head(w) = 125 /\ Left(Tail(w), f, mode, u, 1)
                \/ /\ h = 1 /\ Escaping(part, mode) /\ Head(w) = Xored(part)
                   /\ IF u < Len(f.data) + 3 THEN Left(Tail(w), f, mode, u + 1,
                                                       0) ELSE Tail(w) = <<>>
<1> DEFINE bytes == Framed(f.data)  units == Puts(bytes, mode)
<1>1. bytes \in Seq(Byte) /\ Len(bytes) = Len(f.data) + 3 /\ Len(f.data) \in Nat
  BY FramedIs DEF Sent
<1>2. bytes # <<>>
  BY <1>1
<1> HIDE DEF bytes
<1>3. Len(units) = Len(bytes)
  BY <1>1, <1>2, PutsParts
<1>4. Ahead(w, units, u, h)
  BY DEF Left, bytes
<1> HIDE DEF units
<1>5. /\ w \in Seq(Byte) /\ w # <<>> /\ u \in 1..Len(bytes) /\ bytes[u] \in Byte
      /\ \/ /\ h = 0 /\ ~Escaping(bytes[u], mode)
            /\ Head(w) = bytes[u] /\ MovesOn(Tail(w), units, u)
         \/ /\ h = 0 /\ Escaping(bytes[u], mode)
            /\ Head(w) = 125 /\ Ahead(Tail(w), units, u, 1)
         \/ /\ h = 1 /\ Escaping(bytes[u], mode)
            /\ Head(w) = Xored(bytes[u]) /\ MovesOn(Tail(w), units, u)
  BY <1>1, <1>2, <1>4, NextByte DEF units
<1>6. MovesOn(Tail(w), units, u) <=>
        IF u < Len(f.data) + 3 THEN Left(Tail(w), f, mode, u + 1, 0) ELSE Tail(w) = <<>>
  BY <1>1, <1>3, Zenon DEF MovesOn, Left, units, bytes
<1>7. Ahead(Tail(w), units, u, 1) <=> Left(Tail(w), f, mode, u, 1)
  BY Zenon DEF Left, units, bytes
<1>8. u \in 1..(Len(f.data) + 3) /\ (u < Len(f.data) + 3 => u + 1 \in 1..(Len(f.data) + 3))
  BY <1>1, <1>5
<1> QED BY <1>5, <1>6, <1>7, <1>8, Zenon DEF bytes

\* The parser in step with the wire takes the next part, or its escape.
LEMMA FedInStep ==
  ASSUME NEW f, Sent(f), NEW mode, NEW w, NEW u, NEW h, Left(w, f, mode, u, h), NoStart(w),
         NEW p, Buffered(p), p.state # "WAIT_START", p.escape_next <=> h = 1,
         NEW g, NEW w2, NEW p2, NEW g2, Fed(w, p, mode, g, w2, p2, g2)
  PROVE  LET part == Framed(f.data)[u]
         IN  /\ part \in Byte /\ u \in 1..(Len(f.data) + 3)
             /\ \/ /\ h = 0 /\ p2 = [p EXCEPT !.escape_next = TRUE] /\ g2 = g
                   /\ Left(w2, f, mode, u, 1)
                \/ /\ Takes(p, part, g, p2, g2)
                   /\ IF u < Len(f.data) + 3 THEN Left(w2, f, mode, u + 1, 0) ELSE w2 = <<>>
<1> DEFINE part == Framed(f.data)[u]
<1>1. /\ w \in Seq(Byte) /\ w # <<>> /\ u \in 1..(Len(f.data) + 3) /\ part \in Byte
      /\ \/ /\ h = 0 /\ ~Escaping(part, mode) /\ Head(w) = part
            /\ IF u < Len(f.data) + 3 THEN Left(Tail(w), f, mode, u + 1, 0) ELSE Tail(w) = <<>>
         \/ h = 0 /\ Escaping(part, mode) /\ Head(w) = 125 /\ Left(Tail(w), f, mode, u, 1)
         \/ /\ h = 1 /\ Escaping(part, mode) /\ Head(w) = Xored(part)
            /\ IF u < Len(f.data) + 3 THEN Left(Tail(w), f, mode, u + 1, 0) ELSE Tail(w) = <<>>
  BY NextPart
<1> HIDE DEF part
<1>2. Head(w) # Start
  BY <1>1, NoStartTail
<1>3. w2 = Tail(w)
  BY DEF Fed
<1>4. \/ /\ Head(w) = 125 /\ mode /\ ~p.escape_next /\ p2 = [p EXCEPT !.escape_next = TRUE] /\ g2 = g
      \/ /\ ~(Head(w) = 125 /\ mode /\ ~p.escape_next)
         /\ Takes(p, IF p.escape_next THEN Xored(Head(w)) ELSE Head(w), g, p2, g2)
  BY <1>2 DEF Fed
<1>5. Escaping(125, mode) <=> mode
  BY DEF Escaping, Reserved, EscapeCharacter
<1>6. CASE h = 0 /\ ~Escaping(part, mode)
  <2>1. ~p.escape_next /\ Head(w) = part /\ ~(Head(w) = 125 /\ mode)
    BY <1>1, <1>5, <1>6
  <2>2. Takes(p, part, g, p2, g2)
    BY <1>4, <2>1
  <2> QED BY <1>1, <1>3, <1>6, <2>2 DEF part
<1>7. CASE h = 0 /\ Escaping(part, mode)
  <2>1. ~p.escape_next /\ Head(w) = 125 /\ mode /\ Left(Tail(w), f, mode, u, 1)
    <3>1. ~p.escape_next /\ h # 1
      BY <1>7
    <3>2. mode
      BY <1>7 DEF Escaping
    <3> QED BY <1>1, <1>7, <3>1, <3>2
  <2>2. p2 = [p EXCEPT !.escape_next = TRUE] /\ g2 = g
    BY <1>4, <2>1
  <2> QED BY <1>1, <1>3, <1>7, <2>1, <2>2 DEF part
<1>8. CASE h = 1
  <2>1. p.escape_next /\ Head(w) = Xored(part) /\ part \in Reserved
    BY <1>1, <1>8 DEF Escaping
  <2>2. Xored(Head(w)) = part
    BY <2>1, ReservedIs
  <2>3. Takes(p, part, g, p2, g2)
    BY <1>4, <2>1, <2>2
  <2> QED BY <1>1, <1>3, <1>8, <2>3 DEF part
<1> QED BY <1>1, <1>6, <1>7, <1>8

\* The parser that missed an escape character takes the byte it announced as it is.
LEMMA FedBare ==
  ASSUME NEW f, Sent(f), NEW mode, NEW w, NEW u, Left(w, f, mode, u, 1), NoStart(w),
         NEW p, Buffered(p), p.state # "WAIT_START", ~p.escape_next,
         NEW g, NEW w2, NEW p2, NEW g2, Fed(w, p, mode, g, w2, p2, g2)
  PROVE  LET part == Framed(f.data)[u]
         IN  /\ part \in Reserved /\ u \in 1..(Len(f.data) + 3) /\ mode
             /\ Takes(p, Xored(part), g, p2, g2)
             /\ IF u < Len(f.data) + 3 THEN Left(w2, f, mode, u + 1, 0) ELSE w2 = <<>>
<1> DEFINE part == Framed(f.data)[u]
<1>1. /\ w \in Seq(Byte) /\ w # <<>> /\ u \in 1..(Len(f.data) + 3)
      /\ Escaping(part, mode) /\ Head(w) = Xored(part)
      /\ IF u < Len(f.data) + 3 THEN Left(Tail(w), f, mode, u + 1, 0) ELSE Tail(w) = <<>>
  BY NextPart
<1> HIDE DEF part
<1>2. part \in Reserved /\ mode
  BY <1>1 DEF Escaping
<1>3. Head(w) \notin Reserved
  BY <1>1, <1>2, ReservedIs
<1>4. Head(w) # Start /\ Head(w) # 125
  BY <1>3 DEF Reserved, EscapeCharacter
<1>5. Takes(p, Head(w), g, p2, g2) /\ w2 = Tail(w)
  BY <1>4 DEF Fed
<1> QED BY <1>1, <1>2, <1>5 DEF part

\* What a unit of the frame is.
Part(seen, u) == IF u = 1 THEN Len(seen) \div 256
                 ELSE IF u = 2 THEN Len(seen) % 256
                 ELSE IF u < Len(seen) + 3 THEN seen[u - 2] ELSE Checksum(seen)

\* The parts of a frame as Framed has them.
LEMMA PartIs ==
  ASSUME NEW data \in Seq(Byte), Len(data) >= 1, Len(data) <= Longest,
         NEW u \in 1..(Len(data) + 3)
  PROVE  Framed(data)[u] = Part(data, u)
<1>1. /\ Framed(data)[1] = Len(data) \div 256 /\ Framed(data)[2] = Len(data) % 256
      /\ \A i \in 1..Len(data) : Framed(data)[i + 2] = data[i]
      /\ Framed(data)[Len(data) + 3] = Checksum(data)
  BY FramedIs
<1>2. Len(data) \in Nat
  OBVIOUS
<1>3. CASE u = 1
  BY <1>1, <1>3 DEF Part
<1>4. CASE u = 2
  BY <1>1, <1>4 DEF Part
<1>5. CASE u > 2 /\ u < Len(data) + 3
  <2>1. u - 2 \in 1..Len(data) /\ (u - 2) + 2 = u /\ u # 1 /\ u # 2
    BY ONLY <1>2, <1>5, u \in 1..(Len(data) + 3)
  <2>2. Framed(data)[(u - 2) + 2] = data[u - 2]
    BY <1>1, <2>1
  <2> QED BY <1>5, <2>1, <2>2 DEF Part
<1>6. CASE u = Len(data) + 3
  <2>1. u # 1 /\ u # 2 /\ ~(u < Len(data) + 3)
    BY ONLY <1>2, <1>6
  <2> QED BY <1>1, <1>6, <2>1 DEF Part
<1>7. u = 1 \/ u = 2 \/ (u > 2 /\ u < Len(data) + 3) \/ u = Len(data) + 3
  BY ONLY <1>2, u \in 1..(Len(data) + 3)
<1> QED BY <1>3, <1>4, <1>5, <1>6, <1>7

\* Taking the pending escape changes nothing else.
LEMMA UnescapedIs ==
  ASSUME NEW p, Buffered(p)
  PROVE  /\ Buffered(Unescaped(p)) /\ Unescaped(p) \in Parsers /\ ~Unescaped(p).escape_next
         /\ Unescaped(p).state = p.state /\ Unescaped(p).buf = p.buf /\ Unescaped(p).len = p.len
         /\ Unescaped(p).expected = p.expected /\ Unescaped(p).overflowed = p.overflowed
<1>1. FALSE \in BOOLEAN
  OBVIOUS
<1>2. LET q == [p EXCEPT !.escape_next = FALSE]
      IN  /\ Buffered(q) /\ q.escape_next = FALSE /\ q.state = p.state /\ q.buf = p.buf /\ q.len = p.len
          /\ q.expected = p.expected /\ q.overflowed = p.overflowed
  BY <1>1, EscapeBuffered
<1> QED BY <1>2 DEF Unescaped, Buffered

\* Where the parser is in a frame does not depend on the pending escape.
LEMMA TracksSame ==
  ASSUME NEW p, NEW q, NEW seen, NEW u, Tracks(p, seen, u), q.state = p.state, q.buf = p.buf,
         q.len = p.len, q.expected = p.expected, q.overflowed = p.overflowed
  PROVE  Tracks(q, seen, u)
BY DEF Tracks

\* A length is its two bytes put together again.
LEMMA LengthSplit ==
  ASSUME NEW n \in Nat, n <= Longest
  PROVE  256 * (n \div 256) + (n % 256) = n /\ n \div 256 \in Byte /\ n % 256 \in Byte
<1>1. n < 65536
  BY SMT DEF Longest
<1> QED BY ONLY <1>1, n \in Nat, SMT DEF Byte

\* The parser that has the parts before u, fed part u, has those before u + 1.
LEMMA TracksMore ==
  ASSUME NEW seen \in Seq(Byte), Len(seen) >= 1, Len(seen) <= Longest,
         NEW u \in 1..(Len(seen) + 2), NEW p, Buffered(p), Tracks(p, seen, u),
         NEW q, q = Collected(p, Part(seen, u))
  PROVE  /\ Tracks(q, seen, u + 1) /\ q.escape_next = p.escape_next
         /\ p.state # "CHECKSUM" /\ p.state # "WAIT_START"
<1> DEFINE n == Len(seen)
<1>1. n \in Nat /\ n >= 1 /\ n <= Longest /\ MaxData \in Nat /\ p \in Parsers
  BY MaxDataNat DEF Buffered
<1>2. /\ 256 * (n \div 256) + (n % 256) = n /\ n \div 256 \in Byte /\ n % 256 \in Byte
      /\ n \div 256 \in Nat /\ n % 256 \in Nat
  <2>1. 256 * (n \div 256) + (n % 256) = n /\ n \div 256 \in Byte /\ n % 256 \in Byte
    BY <1>1, LengthSplit, Zenon
  <2> QED BY <2>1 DEF Byte
<1>3. CASE u = 1
  <2>1. p.state = "LEN_MSB" /\ Part(seen, u) = n \div 256
    BY <1>3 DEF Tracks, Part
  <2>2. q.state = "LEN_LSB" /\ q.expected = 256 * (n \div 256) /\ q.escape_next = p.escape_next
    <3>1. q = Collected(p,
                        n \div 256) /\ n \div 256 \in Byte /\ p \in Parsers /\ p.state = "LEN_MSB"
      BY <1>1, <1>2, <2>1
    <3> QED BY ONLY <3>1, CollectsMsb
  <2>3. u + 1 = 2
    BY <1>3
  <2>4. Tracks(q, seen, 2)
    BY <2>2 DEF Tracks
  <2> QED BY <2>1, <2>2, <2>3, <2>4
<1>4. CASE u = 2
  <2>1. p.state = "LEN_LSB" /\ Part(seen, u) = n % 256 /\ p.expected = 256 * (n \div 256)
    BY <1>4 DEF Tracks, Part
  <2>2. ~p.overflowed /\ p.len = 0 /\ p.buf = <<>>
    BY <2>1 DEF Buffered
  <2>3. p.expected + (n % 256) = n /\ n # 0
    BY <1>1, <1>2, <2>1
  <2>4. /\ q.buf = p.buf /\ q.len = p.len /\ q.escape_next = p.escape_next
        /\ q.state = "DATA" /\ q.expected = n /\ q.overflowed = (n > MaxData)
    <3>1. /\ q.escape_next = p.escape_next /\ q.buf = p.buf /\ q.len = p.len
          /\ \/ /\ p.expected + (n % 256) = 0
                /\ q.state = "WAIT_START" /\ q.overflowed = p.overflowed
             \/ /\ p.expected + (n % 256) # 0 /\ q.state = "DATA" /\ q.expected = p.expected + (n % 256)
                /\ q.overflowed = (p.expected + (n % 256) > MaxData)
      <4>1. q = Collected(p, n % 256) /\ n % 256 \in Byte /\ p \in Parsers /\ p.state = "LEN_LSB"
        BY <1>1, <1>2, <2>1
      <4> DEFINE x == n % 256
      <4> HIDE DEF x
      <4>2. q = Collected(p, x) /\ x \in Byte /\ p \in Parsers /\ p.state = "LEN_LSB"
        BY <4>1 DEF x
      <4>3. /\ q.escape_next = p.escape_next /\ q.buf = p.buf /\ q.len = p.len
            /\ \/ /\ p.expected + x = 0
                  /\ q.state = "WAIT_START" /\ q.overflowed = p.overflowed
               \/ /\ p.expected + x # 0 /\ q.state = "DATA" /\ q.expected = p.expected + x
                  /\ q.overflowed = (p.expected + x > MaxData)
        BY ONLY <4>2, CollectsLsb
      <4> QED BY ONLY <4>3 DEF x
    <3> QED BY <2>3, <3>1, Zenon
  <2>5. u + 1 = 3
    BY <1>4
  <2>6. Tracks(q, seen, 3)
    <3>1. 3 < n + 3 /\ q.len + 3 = 3 /\ ~(3 = 1) /\ ~(3 = 2)
      BY ONLY <1>1, <2>2, <2>4
    <3>2. \A i \in 1..q.len : FALSE
      BY ONLY <2>2, <2>4
    <3> HIDE DEF n
    <3>3. q.state = IF 3 < n + 3 THEN "DATA" ELSE "CHECKSUM"
      BY <2>4, <3>1, Zenon
    <3>4. Tracks(q, seen, 3) <=>
            /\ q.state = IF 3 < n + 3 THEN "DATA" ELSE "CHECKSUM"
            /\ q.expected = n /\ q.len + 3 = 3
            /\ q.overflowed = (n > MaxData)
            /\ ~q.overflowed => \A i \in 1..q.len : q.buf[i] = seen[i]
      BY DEF Tracks, n
    <3> QED BY <2>4, <3>1, <3>2, <3>3, <3>4, Zenon
  <2> QED BY <2>1, <2>4, <2>5, <2>6
<1>5. CASE u > 2
  <2>1. u < n + 3 /\ u # 1 /\ u # 2 /\ u \in Nat /\ u - 2 \in 1..n
    BY ONLY <1>1, <1>5, u \in 1..(Len(seen) + 2)
  <2>2. /\ p.state = "DATA" /\ p.expected = n /\ p.len + 3 = u
        /\ p.overflowed = (n > MaxData)
        /\ ~p.overflowed => \A i \in 1..p.len : p.buf[i] = seen[i]
    BY <1>5, <2>1 DEF Tracks
  <2>3. Part(seen, u) = seen[u - 2] /\ seen[u - 2] \in Byte
    BY <2>1 DEF Part
  <2>4. /\ q.escape_next = p.escape_next
        /\ q.len = p.len + 1 /\ q.expected = p.expected /\ q.overflowed = p.overflowed
        /\ q.buf = IF p.overflowed THEN p.buf ELSE Append(p.buf, seen[u - 2])
        /\ q.state = IF p.len + 1 >= p.expected THEN "CHECKSUM" ELSE "DATA"
    <3>1. q = Collected(p, seen[u - 2]) /\ seen[u - 2] \in Byte /\ p \in Parsers /\ p.state = "DATA"
      BY <1>1, <2>2, <2>3
    <3> QED BY ONLY <3>1, CollectsData
  <2>5. p.len \in Nat /\ p.buf \in Seq(Byte)
    BY <1>1 DEF Parsers
  <2>6. /\ q.len + 3 = u + 1 /\ u + 1 > 2 /\ u + 1 # 1 /\ u + 1 # 2
        /\ (p.len + 1 >= n <=> ~(u + 1 < n + 3))
    BY ONLY <1>1, <2>1, <2>2, <2>4, <2>5, SMTT(40)
  <2>7. q.state = IF u + 1 < n + 3 THEN "DATA" ELSE "CHECKSUM"
    BY <2>2, <2>4, <2>6, Zenon
  <2>8. ASSUME ~q.overflowed, NEW i \in 1..q.len PROVE q.buf[i] = seen[i]
    <3>1. ~p.overflowed /\ q.buf = Append(p.buf, seen[u - 2]) /\ p.len = Len(p.buf)
      BY <2>4, <2>8 DEF Buffered
    <3>2. CASE i = p.len + 1
      <4>1. i = Len(p.buf) + 1 /\ i = u - 2
        BY ONLY <2>1, <2>2, <2>5, <3>1, <3>2
      <4> QED BY <2>5, <3>1, <4>1
    <3>3. CASE i # p.len + 1
      <4>1. i \in 1..p.len /\ i \in 1..Len(p.buf)
        BY ONLY <2>4, <2>5, <3>1, <3>3, i \in 1..q.len
      <4>2. q.buf[i] = p.buf[i]
        <5>1. seen[u - 2] \in Byte
          BY <2>3
        <5> QED BY ONLY <2>5, <3>1, <4>1, <5>1
      <4> QED BY <2>2, <3>1, <4>1, <4>2
    <3> QED BY <3>2, <3>3
  <2>9. Tracks(q, seen, u + 1)
    <3>1. q.expected = n /\ q.overflowed = (n > MaxData)
      BY <2>2, <2>4
    <3> QED BY <2>6, <2>7, <2>8, <3>1 DEF Tracks
  <2> QED BY <2>2, <2>4, <2>9
<1> QED BY <1>3, <1>4, <1>5

\* What the last part decides.
LEMMA VerdictIs ==
  ASSUME NEW seen \in Seq(Byte), Len(seen) >= 1, NEW p, Buffered(p),
         Tracks(p, seen, Len(seen) + 3), NEW byte
  PROVE  /\ p.state = "CHECKSUM"
         /\ Verdict(p, byte) =
              IF Len(seen) > MaxData THEN [Nothing EXCEPT !.status = "WOULD_OVERFLOW"]
              ELSE IF Checksum(seen) # byte THEN [Nothing EXCEPT !.status = "INVALID_SIGNATURE"]
              ELSE [status |-> "OK", data |-> seen, frame |-> Decode(seen)]
<1> DEFINE n == Len(seen)
<1>1. n \in Nat /\ n >= 1 /\ n + 3 > 2 /\ ~(n + 3 < n + 3)
  OBVIOUS
<1>2. /\ p.state = "CHECKSUM" /\ p.len + 3 = n + 3
      /\ p.overflowed = (n > MaxData)
      /\ ~p.overflowed => \A i \in 1..p.len : p.buf[i] = seen[i]
  BY <1>1 DEF Tracks
<1>3. p.len \in Nat /\ p.buf \in Seq(Byte)
  BY DEF Buffered, Parsers
<1>4. p.len = n
  BY ONLY <1>1, <1>2, <1>3
<1>5. ASSUME ~p.overflowed PROVE p.buf = seen
  <2>1. Len(p.buf) = n /\ \A i \in 1..n : p.buf[i] = seen[i]
    BY <1>2, <1>4, <1>5 DEF Buffered
  <2> QED BY <1>1, <1>3, <2>1
<1> HIDE DEF n
<1>6. CASE p.overflowed
  BY <1>2, <1>6, Zenon DEF Verdict, n
<1>7. CASE ~p.overflowed
  BY <1>2, <1>5, <1>7, Zenon DEF Verdict, n
<1> QED BY <1>6, <1>7

\* Due for frame f.
DueOf(f) == IF Len(f.data) > MaxData THEN [Nothing EXCEPT !.status = "WOULD_OVERFLOW"]
            ELSE [status |-> "OK", data |-> f.data, frame |-> f.says]

\* The verdict a frame deserves: what was sent if all of it arrived, and nothing else
\* in any case.
Settled(f, g) == (f.whole => g = DueOf(f)) /\ (g.status = "OK" => g.data = f.data)

\* The parts a frame on its way can be at.
LEMMA LeftRange ==
  ASSUME NEW f, Sent(f), NEW mode, NEW w, NEW u, NEW h, Left(w, f, mode, u, h)
  PROVE  /\ u \in 1..(Len(f.data) + 3) /\ u \in Nat /\ Len(f.data) \in Nat /\ h \in {0, 1}
         /\ w \in Seq(Byte) /\ w # <<>>
         /\ Framed(f.data)[u] = Part(f.data, u)
<1>1. u \in 1..(Len(f.data) + 3) /\ w \in Seq(Byte) /\ w # <<>> /\ h \in {0, 1}
  BY NextPart
<1>2. f.data \in Seq(Byte) /\ Len(f.data) >= 1 /\ Len(f.data) <= Longest
  BY DEF Sent
<1>3. Framed(f.data)[u] = Part(f.data, u)
  BY <1>1, <1>2, PartIs
<1> QED BY <1>1, <1>2, <1>3

\* A parser at a part of the frame is not waiting for a delimiter.
LEMMA TracksStates ==
  ASSUME NEW p, NEW seen, NEW u \in Nat, u >= 1, Tracks(p, seen, u)
  PROVE  p.state # "WAIT_START"
<1>1. u = 1 \/ u = 2 \/ u > 2
  OBVIOUS
<1> QED BY <1>1 DEF Tracks

\* What the parser has taken for the data agrees with the frame on what is still to
\* come.
LEMMA SamePart ==
  ASSUME NEW f, Sent(f), NEW mode, NEW u \in 1..(Len(f.data) + 2), NEW seen, Seen(seen, f, mode, u)
  PROVE  Part(seen, u) = Part(f.data, u)
<1>1. Len(seen) = Len(f.data) /\ Len(f.data) \in Nat
      /\ \A i \in 1..Len(seen) : i + 2 >= u => seen[i] = f.data[i]
  BY DEF Seen, Sent
<1>2. CASE u > 2
  <2>1. u - 2 \in 1..Len(seen) /\ (u - 2) + 2 >= u /\ u # 1 /\ u # 2 /\ u < Len(f.data) + 3
    BY ONLY <1>1, <1>2, u \in 1..(Len(f.data) + 2)
  <2>2. seen[u - 2] = f.data[u - 2]
    BY <1>1, <2>1
  <2> QED BY <1>1, <2>1, <2>2 DEF Part
<1>3. CASE ~(u > 2)
  <2>1. u = 1 \/ u = 2
    BY ONLY <1>1, <1>3, u \in 1..(Len(f.data) + 2)
  <2> QED BY <1>1, <2>1, ZenonT(60) DEF Part
<1> QED BY <1>2, <1>3

\* And goes on to.
LEMMA SeenLater ==
  ASSUME NEW f, NEW mode, NEW u \in Nat, NEW seen, Seen(seen, f, mode, u), Len(seen) \in Nat
  PROVE  Seen(seen, f, mode, u + 1)
<1>1. \A i \in 1..Len(seen) : i + 2 >= u + 1 => seen[i] = f.data[i]
  BY DEF Seen
<1>2. u > 2 => u + 1 > 2
  OBVIOUS
<1> QED BY <1>1, <1>2 DEF Seen

\* A parser fed the part it is at is at the next one.
LEMMA Taken ==
  ASSUME NEW p, Buffered(p), NEW byte, NEW g, NEW p2, NEW g2, Takes(p, byte, g, p2, g2),
         p.state # "CHECKSUM", NEW seen \in Seq(Byte), Len(seen) >= 1, Len(seen) <= Longest,
         NEW u \in 1..(Len(seen) + 2), Tracks(p, seen, u), byte = Part(seen, u)
  PROVE  g2 = g /\ Tracks(p2, seen, u + 1) /\ ~p2.escape_next
<1> DEFINE q == Unescaped(p)
<1>1. /\ Buffered(q) /\ ~q.escape_next
      /\ q.state = p.state /\ q.buf = p.buf /\ q.len = p.len
      /\ q.expected = p.expected /\ q.overflowed = p.overflowed
  BY UnescapedIs
<1>2. p2 = Collected(q, Part(seen, u)) /\ g2 = g
  BY DEF Takes
<1> HIDE DEF q
<1>3. Tracks(q, seen, u)
  BY <1>1, TracksSame
<1>4. Tracks(p2, seen, u + 1) /\ p2.escape_next = q.escape_next
  BY ONLY <1>1, <1>2, <1>3, TracksMore, seen \in Seq(Byte), Len(seen) >= 1, Len(seen) <= Longest,
     u \in 1..(Len(seen) + 2)
<1> QED BY <1>1, <1>2, <1>4

\* The checksum is expected only behind the data.
LEMMA StateBefore ==
  ASSUME NEW seen \in Seq(Byte), NEW u \in 1..(Len(seen) + 2), NEW p, Tracks(p, seen, u)
  PROVE  p.state # "CHECKSUM"
<1>1. Len(seen) \in Nat /\ u < Len(seen) + 3 /\ (u = 1 \/ u = 2 \/ u > 2)
  OBVIOUS
<1> QED BY <1>1 DEF Tracks

\* The checksum settles the frame: what was mistaken for the data has another one.
LEMMA LastTaken ==
  ASSUME NEW f, Sent(f), Decode(f.data) = f.says, NEW p, Buffered(p),
         NEW seen \in Seq(Byte), Len(seen) = Len(f.data), Tracks(p, seen, Len(f.data) + 3),
         seen # f.data => ~f.whole /\ Checksum(seen) # Checksum(f.data),
         NEW g, NEW p2, NEW g2, Takes(p, Checksum(f.data), g, p2, g2)
  PROVE  Settled(f, g2)
<1> DEFINE q == Unescaped(p)  n == Len(f.data)
<1>1. /\ Buffered(q)
      /\ q.state = p.state /\ q.buf = p.buf /\ q.len = p.len
      /\ q.expected = p.expected /\ q.overflowed = p.overflowed
  BY UnescapedIs
<1>2. Len(seen) >= 1
  BY DEF Sent
<1> HIDE DEF q
<1>3. Tracks(q, seen, Len(seen) + 3)
  BY <1>1, TracksSame
<1>4. /\ q.state = "CHECKSUM"
      /\ Verdict(q, Checksum(f.data)) =
           IF Len(seen) > MaxData THEN [Nothing EXCEPT !.status = "WOULD_OVERFLOW"]
           ELSE IF Checksum(seen) # Checksum(f.data) THEN [Nothing EXCEPT !.status = "INVALID_SIGNATURE"]
           ELSE [status |-> "OK", data |-> seen, frame |-> Decode(seen)]
  <2>1. Buffered(q)
    BY <1>1
  <2> QED BY ONLY <1>2, <1>3, <2>1, VerdictIs, seen \in Seq(Byte)
<1>5. g2 = Verdict(q, Checksum(f.data))
  BY <1>1, <1>4 DEF Takes, q
<1>6. CASE n > MaxData
  <2>1. g2 = [Nothing EXCEPT !.status = "WOULD_OVERFLOW"]
    BY <1>4, <1>5, <1>6
  <2>2. g2 = DueOf(f)
    BY <1>6, <2>1 DEF DueOf
  <2>3. g2.status # "OK"
    BY <2>1 DEF Nothing
  <2> QED BY <2>2, <2>3 DEF Settled
<1>7. CASE ~(n > MaxData) /\ seen = f.data
  <2>1. g2 = [status |-> "OK", data |-> f.data, frame |-> f.says]
    BY <1>4, <1>5, <1>7
  <2>2. g2 = DueOf(f)
    BY <1>7, <2>1 DEF DueOf
  <2> QED BY <2>1, <2>2 DEF Settled
<1>8. CASE ~(n > MaxData) /\ seen # f.data
  <2>1. g2 = [Nothing EXCEPT !.status = "INVALID_SIGNATURE"]
    BY <1>4, <1>5, <1>8
  <2>2. g2.status # "OK"
    BY <2>1 DEF Nothing
  <2> QED BY <1>8, <2>2 DEF Settled
<1> QED BY <1>6, <1>7, <1>8

\* A parser in step with the wire stays in step until the verdict.
LEMMA FedCollecting ==
  ASSUME NEW f, Sent(f), Decode(f.data) = f.says, NEW mode, NEW w, NoStart(w), NEW p, Buffered(p),
         Collecting(w, p, f, mode), NEW g, NEW w2, NEW p2, NEW g2, Fed(w, p, mode, g, w2, p2, g2)
  PROVE  \/ g2 = g /\ Collecting(w2, p2, f, mode)
         \/ w2 = <<>> /\ Settled(f, g2)
<1>1. PICK u, h, seen : FollowsAs(w, p, f, mode, u, h, seen)
  BY Zenon DEF Collecting
<1>2. /\ Left(w, f, mode, u, h) /\ h \in {0, 1} /\ (p.escape_next <=> h = 1)
      /\ Tracks(p, seen, u) /\ Seen(seen, f, mode, u)
  BY <1>1, Zenon DEF FollowsAs
<1>3. u \in 1..(Len(f.data) + 3) /\ u \in Nat /\ u >= 1 /\ Len(f.data) \in Nat
      /\ Framed(f.data)[u] = Part(f.data, u)
  BY <1>2, LeftRange
<1>4. p.state # "WAIT_START"
  BY <1>2, <1>3, TracksStates
<1>5. /\ seen \in Seq(Byte) /\ Len(seen) = Len(f.data) /\ Len(seen) >= 1 /\ Len(seen) <= Longest
      /\ seen # f.data => ~f.whole /\ Checksum(seen) # Checksum(f.data)
  BY <1>2 DEF Seen, Sent
<1>6. \/ /\ h = 0 /\ p2 = [p EXCEPT !.escape_next = TRUE] /\ g2 = g
         /\ Left(w2, f, mode, u, 1)
      \/ /\ Takes(p, Part(f.data, u), g, p2, g2)
         /\ IF u < Len(f.data) + 3 THEN Left(w2, f, mode, u + 1, 0) ELSE w2 = <<>>
  BY <1>2, <1>3, <1>4, FedInStep
<1>7. CASE p2 = [p EXCEPT !.escape_next = TRUE] /\ g2 = g /\ Left(w2, f, mode, u, 1)
  <2>1. /\ p2.escape_next = TRUE /\ p2.state = p.state /\ p2.buf = p.buf /\ p2.len = p.len
        /\ p2.expected = p.expected /\ p2.overflowed = p.overflowed
    BY <1>7, EscapeBuffered
  <2>2. Tracks(p2, seen, u)
    BY <1>2, <2>1, TracksSame
  <2>3. FollowsAs(w2, p2, f, mode, u, 1, seen)
    BY <1>2, <1>7, <2>1, <2>2 DEF FollowsAs
  <2> QED BY <1>7, <2>3, Zenon DEF Collecting
<1>8. CASE /\ Takes(p, Part(f.data, u), g, p2, g2) /\ u < Len(f.data) + 3
           /\ Left(w2, f, mode, u + 1, 0)
  <2>1. u \in 1..(Len(f.data) + 2) /\ u \in 1..(Len(seen) + 2)
    BY ONLY <1>3, <1>5, <1>8
  <2>2. Part(seen, u) = Part(f.data, u)
    BY <1>2, <2>1, SamePart
  <2>3. p.state # "CHECKSUM"
    BY <1>2, <1>5, <2>1, StateBefore
  <2>4. g2 = g /\ Tracks(p2, seen, u + 1) /\ ~p2.escape_next
    BY <1>2, <1>5, <1>8, <2>1, <2>2, <2>3, Taken
  <2>5. Seen(seen, f, mode, u + 1)
    BY <1>2, <1>3, <1>5, SeenLater
  <2>6. FollowsAs(w2, p2, f, mode, u + 1, 0, seen)
    BY <1>8, <2>4, <2>5 DEF FollowsAs
  <2> QED BY <2>4, <2>6, Zenon DEF Collecting
<1>9. CASE /\ Takes(p, Part(f.data, u), g, p2, g2) /\ ~(u < Len(f.data) + 3)
           /\ w2 = <<>>
  <2>1. u = Len(f.data) + 3 /\ u # 1 /\ u # 2
    BY ONLY <1>3, <1>5, <1>9
  <2>2. Part(f.data, u) = Checksum(f.data)
    BY <1>9, <2>1 DEF Part
  <2>3. Settled(f, g2)
    BY <1>2, <1>5, <1>9, <2>1, <2>2, LastTaken
  <2> QED BY <1>9, <2>3
<1> QED BY <1>6, <1>7, <1>8, <1>9

\* A parser that missed an escape character takes the octet behind it as it is: the
\* data now have another sum, or the checksum itself is wrong.
LEMMA FedBareNext ==
  ASSUME NEW f, Sent(f), Decode(f.data) = f.says, NEW mode, NEW w, NoStart(w), NEW p, Buffered(p),
         Bare(w, p, f, mode), NEW g, NEW w2, NEW p2, NEW g2, Fed(w, p, mode, g, w2, p2, g2)
  PROVE  \/ g2 = g /\ Collecting(w2, p2, f, mode)
         \/ w2 = <<>> /\ Settled(f, g2)
<1>1. PICK u : /\ u > 2 /\ Left(w, f, mode, u, 1) /\ Tracks(p, f.data, u)
               /\ mode /\ ~p.escape_next /\ ~f.whole
  BY Zenon DEF Bare
<1>2. u \in 1..(Len(f.data) + 3) /\ u \in Nat /\ u >= 1 /\ Len(f.data) \in Nat
      /\ Framed(f.data)[u] = Part(f.data, u)
  <2>1. Left(w, f, mode, u, 1)
    BY <1>1
  <2>2. u \in 1..(Len(f.data) + 3) /\ u \in Nat /\ Len(f.data) \in Nat
        /\ Framed(f.data)[u] = Part(f.data, u)
    BY ONLY <2>1, LeftRange, Sent(f)
  <2> QED BY ONLY <2>2
<1>3. p.state # "WAIT_START"
  BY <1>1, <1>2, TracksStates
<1>4. f.data \in Seq(Byte) /\ Len(f.data) >= 1 /\ Len(f.data) <= Longest
  BY DEF Sent
<1> DEFINE part == Part(f.data, u)
<1>5. /\ part \in Reserved /\ Takes(p, Xored(part), g, p2, g2)
      /\ IF u < Len(f.data) + 3 THEN Left(w2, f, mode, u + 1, 0) ELSE w2 = <<>>
  <2>1. Left(w, f, mode, u, 1) /\ ~p.escape_next
    BY <1>1
  <2>2. /\ Framed(f.data)[u] \in Reserved /\ Takes(p, Xored(Framed(f.data)[u]), g, p2, g2)
        /\ IF u < Len(f.data) + 3 THEN Left(w2, f, mode, u + 1, 0) ELSE w2 = <<>>
    BY ONLY <1>3, <2>1, FedBare, Sent(f), NoStart(w), Buffered(p), Fed(w, p, mode, g, w2, p2, g2)
  <2> QED BY ONLY <1>2, <2>2, Zenon
<1>6. Xored(part) # part /\ Xored(part) \in Byte /\ part \in Byte
  BY <1>5, ReservedIs
<1> HIDE DEF part
<1>7. CASE u < Len(f.data) + 3
  <2> DEFINE j == u - 2
             seen == [f.data EXCEPT ![j] = Xored(part)]
  <2>1. j \in 1..Len(f.data) /\ j + 2 = u /\ u # 1 /\ u # 2 /\ u \in 1..(Len(f.data) + 2)
    BY ONLY <1>1, <1>2, <1>7
  <2>2. part = f.data[j]
    BY <1>7, <2>1 DEF Part, part
  <2>3. /\ seen \in Seq(Byte) /\ Len(seen) = Len(f.data) /\ seen[j] = Xored(part)
        /\ \A i \in 1..Len(f.data) : i # j => seen[i] = f.data[i]
    BY <1>4, <1>6, <2>1
  <2> HIDE DEF seen
  <2>4. Checksum(seen) # Checksum(f.data)
    BY <1>4, <1>6, <2>1, <2>2, <2>3, Altered
  <2>5. Seen(seen, f, mode, u + 1)
    <3>1. \A i \in 1..Len(seen) : i + 2 >= u + 1 => seen[i] = f.data[i]
      <4>1. ASSUME NEW i \in 1..Len(seen), i + 2 >= u + 1 PROVE seen[i] = f.data[i]
        <5>1. i \in 1..Len(f.data) /\ i # j
          BY <2>1, <2>3, <4>1, <1>2
        <5> QED BY <2>3, <5>1
      <4> QED BY <4>1
    <3>2. u + 1 > 2
      BY <1>1, <1>2
    <3> QED BY <1>1, <2>3, <2>4, <3>1, <3>2 DEF Seen
  <2>6. Tracks(p, seen, u)
    <3>1. /\ p.state = IF u < Len(f.data) + 3 THEN "DATA" ELSE "CHECKSUM"
          /\ p.expected = Len(f.data) /\ p.len + 3 = u
          /\ p.overflowed = (Len(f.data) > MaxData)
          /\ ~p.overflowed => \A i \in 1..p.len : p.buf[i] = f.data[i]
      BY <1>1 DEF Tracks
    <3>2. \A i \in 1..p.len : seen[i] = f.data[i]
      <4>1. p.len \in Nat
        BY DEF Buffered, Parsers
      <4>2. ASSUME NEW i \in 1..p.len PROVE i \in 1..Len(f.data) /\ i # j
        BY ONLY <1>2, <2>1, <3>1, <4>1, i \in 1..p.len
      <4> QED BY <2>3, <4>2
    <3> QED BY <2>1, <2>3, <3>1, <3>2 DEF Tracks
  <2>7. p.state # "CHECKSUM"
    BY <1>1, <1>4, <2>1, StateBefore
  <2>8. Xored(part) = Part(seen, u)
    BY <1>7, <2>1, <2>3 DEF Part
  <2>9. g2 = g /\ Tracks(p2, seen, u + 1) /\ ~p2.escape_next
    <3>1. Len(seen) >= 1 /\ Len(seen) <= Longest /\ u \in 1..(Len(seen) + 2)
      BY <1>4, <2>1, <2>3
    <3> QED BY <1>5, <2>3, <2>6, <2>7, <2>8, <3>1, Taken
  <2>10. FollowsAs(w2, p2, f, mode, u + 1, 0, seen)
    BY <1>5, <1>7, <2>5, <2>9 DEF FollowsAs
  <2> QED BY <2>9, <2>10, Zenon DEF Collecting
<1>8. CASE ~(u < Len(f.data) + 3)
  <2>1. u = Len(f.data) + 3 /\ u # 1 /\ u # 2 /\ w2 = <<>>
    BY <1>2, <1>5, <1>8
  <2>2. part = Checksum(f.data)
    BY <1>8, <2>1 DEF Part, part
  <2> DEFINE q == Unescaped(p)
  <2>3. /\ Buffered(q)
        /\ q.state = p.state /\ q.buf = p.buf /\ q.len = p.len
        /\ q.expected = p.expected /\ q.overflowed = p.overflowed
    BY UnescapedIs
  <2> HIDE DEF q
  <2>4. Tracks(q, f.data, Len(f.data) + 3)
    BY <1>1, <2>1, <2>3, TracksSame
  <2>5. /\ q.state = "CHECKSUM"
        /\ Verdict(q, Xored(part)) =
             IF Len(f.data) > MaxData THEN [Nothing EXCEPT !.status = "WOULD_OVERFLOW"]
             ELSE IF Checksum(f.data) # Xored(part) THEN [Nothing EXCEPT !.status = "INVALID_SIGNATURE"]
             ELSE [status |-> "OK", data |-> f.data, frame |-> Decode(f.data)]
    <3>1. Buffered(q)
      BY <2>3
    <3> QED BY ONLY <1>4, <2>4, <3>1, VerdictIs
  <2>6. g2 = Verdict(q, Xored(part))
    BY <1>5, <2>3, <2>5 DEF Takes, q
  <2>7. g2.status # "OK"
    BY <1>6, <2>2, <2>5, <2>6 DEF Nothing
  <2> QED BY <1>1, <2>1, <2>7 DEF Settled
<1> QED BY <1>7, <1>8

\* The parser that counts on more than is left never comes to a verdict.
LEMMA FedLagging ==
  ASSUME NEW f, Sent(f), NEW mode, NEW w, NoStart(w), NEW p, Buffered(p),
         Lagging(w, p, f, mode), NEW g, NEW w2, NEW p2, NEW g2, Fed(w, p, mode, g, w2, p2, g2)
  PROVE  g2 = g /\ (w2 = <<>> \/ Lagging(w2, p2, f, mode))
<1>1. PICK u, h : /\ Left(w, f, mode, u, h) /\ h \in {0, 1} /\ (p.escape_next <=> h = 1)
                  /\ p.expected + u > Len(f.data) + 3 + p.len
  BY Zenon DEF Lagging
<1>2. p.state = "DATA" /\ ~f.whole
  BY Zenon DEF Lagging
<1>3. u \in 1..(Len(f.data) + 3) /\ u \in Nat /\ u >= 1 /\ Len(f.data) \in Nat
      /\ Framed(f.data)[u] = Part(f.data, u)
  BY <1>1, LeftRange
<1> DEFINE part == Part(f.data, u)
<1>4. /\ part \in Byte
      /\ \/ /\ h = 0 /\ p2 = [p EXCEPT !.escape_next = TRUE] /\ g2 = g
            /\ Left(w2, f, mode, u, 1)
         \/ /\ Takes(p, part, g, p2, g2)
            /\ IF u < Len(f.data) + 3 THEN Left(w2, f, mode, u + 1, 0) ELSE w2 = <<>>
  <2>1. p.state # "WAIT_START"
    BY <1>2
  <2> QED BY <1>1, <1>3, <2>1, FedInStep
<1> HIDE DEF part
<1>5. CASE p2 = [p EXCEPT !.escape_next = TRUE] /\ g2 = g /\ Left(w2, f, mode, u, 1)
  <2>1. /\ p2.escape_next = TRUE /\ p2.state = p.state /\ p2.len = p.len
        /\ p2.expected = p.expected
    BY <1>5, EscapeBuffered
  <2>2. p2.expected + u > Len(f.data) + 3 + p2.len
    BY <1>1, <2>1
  <2> QED BY <1>2, <1>5, <2>1, <2>2 DEF Lagging
<1>6. CASE /\ Takes(p, part, g, p2, g2)
           /\ IF u < Len(f.data) + 3 THEN Left(w2, f, mode, u + 1, 0) ELSE w2 = <<>>
  <2> DEFINE q == Unescaped(p)
  <2>1. /\ q \in Parsers /\ ~q.escape_next /\ q.state = p.state /\ q.len = p.len /\ q.expected = p.expected
    BY UnescapedIs
  <2>2. p2 = Collected(q, part) /\ g2 = g
    BY <1>2, <1>6 DEF Takes
  <2> HIDE DEF q
  <2>3. /\ p2.escape_next = q.escape_next
        /\ p2.len = q.len + 1 /\ p2.expected = q.expected
        /\ p2.state = IF q.len + 1 >= q.expected THEN "CHECKSUM" ELSE "DATA"
    BY ONLY <1>2, <1>4, <2>1, <2>2, CollectsData
  <2>4. CASE u < Len(f.data) + 3
    <3>1. p.len \in Nat /\ p.expected \in Nat
      BY DEF Buffered, Parsers
    <3>2. p2.expected + (u + 1) > Len(f.data) + 3 + p2.len /\ ~(q.len + 1 >= q.expected)
      BY ONLY <1>1, <1>3, <2>1, <2>3, <2>4, <3>1, SMTT(40)
    <3>3. p2.state = "DATA" /\ ~p2.escape_next
      BY <2>1, <2>3, <3>2
    <3>4. Left(w2, f, mode, u + 1, 0)
      BY <1>6, <2>4
    <3>5. Lagging(w2, p2, f, mode)
      BY <1>2, <3>2, <3>3, <3>4 DEF Lagging
    <3> QED BY <2>2, <3>5
  <2>5. CASE ~(u < Len(f.data) + 3)
    BY <1>6, <2>2, <2>5
  <2> QED BY <2>4, <2>5
<1> QED BY <1>4, <1>5, <1>6

\* A length that lost a byte, or the escape of one, makes the parser wait too long.
LEMMA FedMisled ==
  ASSUME NEW f, Sent(f), NEW mode, NEW w, NoStart(w), NEW p, Buffered(p),
         Misled(w, p, f, mode), NEW g, NEW w2, NEW p2, NEW g2, Fed(w, p, mode, g, w2, p2, g2)
  PROVE  g2 = g /\ w2 # <<>> /\ (Misled(w2, p2, f, mode) \/ Lagging(w2, p2, f, mode))
<1> DEFINE n == Len(f.data)
<1>1. /\ f.data \in Seq(Byte) /\ n \in Nat /\ n >= 1 /\ n <= Longest
      /\ n < EscapeCharacter /\ f.lossy /\ ~f.whole /\ f.data[1] >= 128
  BY DEF Misled, Sent
<1>2. n < 125
  BY <1>1 DEF EscapeCharacter
<1>3. Part(f.data, 2) = n /\ Part(f.data, 3) = f.data[1] /\ f.data[1] \in Byte
  <2>1. \A k \in Nat : k < 125 => k % 256 = k /\ k \div 256 = 0
    BY SMT
  <2>4. n % 256 = n
    BY ONLY <1>1, <1>2, <2>1
  <2>2. 3 < n + 3 /\ 3 - 2 = 1 /\ 1 \in 1..n
    BY ONLY <1>1, SMT
  <2>3. f.data[1] \in Byte
    BY <1>1, <2>2
  <2>5. 2 # 1 /\ 3 # 1 /\ 3 # 2
    OBVIOUS
  <2>6. Part(f.data, 2) = n
    BY <2>4, <2>5 DEF Part
  <2>7. Part(f.data, 3) = f.data[1]
    <3> HIDE DEF n
    <3> QED BY <2>2, <2>5, Zenon DEF Part, n
  <2> QED BY <2>3, <2>6, <2>7
<1>4. n \in Byte
  BY <1>1, <1>2 DEF Byte
<1>5. p.len \in Nat /\ p.expected \in Nat
  BY DEF Buffered, Parsers
<1>6. /\ Unescaped(p) \in Parsers /\ ~Unescaped(p).escape_next
      /\ Unescaped(p).state = p.state /\ Unescaped(p).len = p.len
      /\ Unescaped(p).expected = p.expected
  BY UnescapedIs
<1>7. CASE p.state = "LEN_MSB" /\ \E h \in {0, 1} : Left(w, f, mode, 2,
                                                         h) /\ (p.escape_next <=> h = 1)
  <2>1. PICK h \in {0, 1} : Left(w, f, mode, 2, h) /\ (p.escape_next <=> h = 1)
    BY <1>7
  <2>2. p.state # "WAIT_START" /\ p.state # "CHECKSUM"
    BY <1>7
  <2>3. Framed(f.data)[2] = n
    <3>1. Framed(f.data)[2] = Part(f.data, 2)
      BY ONLY <2>1, LeftRange, Sent(f)
    <3> QED BY ONLY <1>3, <3>1
  <2>4. \/ p2 = [p EXCEPT !.escape_next = TRUE] /\ g2 = g /\ Left(w2, f, mode, 2, 1)
        \/ /\ Takes(p, Framed(f.data)[2], g, p2, g2)
           /\ IF 2 < n + 3 THEN Left(w2, f, mode, 2 + 1, 0) ELSE w2 = <<>>
    BY ONLY <2>1, <2>2, FedInStep, Sent(f), NoStart(w), Buffered(p), Fed(w, p, mode, g, w2, p2, g2)
  <2>5. CASE p2 = [p EXCEPT !.escape_next = TRUE] /\ g2 = g /\ Left(w2, f, mode, 2, 1)
    <3>1. p2.escape_next = TRUE /\ p2.state = p.state
      BY <2>5, EscapeBuffered
    <3>2. w2 # <<>>
      <4>1. Left(w2, f, mode, 2, 1)
        BY <2>5
      <4> QED BY ONLY <4>1, LeftRange, Sent(f)
    <3>3. Misled(w2, p2, f, mode)
      BY <1>1, <1>7, <2>5, <3>1 DEF Misled
    <3> QED BY <2>5, <3>2, <3>3
  <2>6. CASE /\ Takes(p, Framed(f.data)[2], g, p2, g2)
             /\ IF 2 < n + 3 THEN Left(w2, f, mode, 2 + 1, 0) ELSE w2 = <<>>
    <3>1. 2 < n + 3 /\ 2 + 1 = 3
      BY ONLY <1>1, SMT
    <3>2. Left(w2, f, mode, 3, 0)
      BY ONLY <2>6, <3>1
    <3>3. p2 = Collected(Unescaped(p), n) /\ g2 = g
      BY <2>2, <2>3, <2>6 DEF Takes
    <3>4. Unescaped(p).state = "LEN_MSB"
      BY <1>6, <1>7
    <3>5. p2.state = "LEN_LSB" /\ p2.escape_next = Unescaped(p).escape_next
      BY ONLY <1>4, <1>6, <3>3, <3>4, CollectsMsb
    <3>6. w2 # <<>>
      BY ONLY <3>2, LeftRange, Sent(f)
    <3>7. Misled(w2, p2, f, mode)
      BY <1>1, <1>6, <3>2, <3>5 DEF Misled
    <3> QED BY <3>3, <3>6, <3>7
  <2> QED BY <2>4, <2>5, <2>6
<1>8. CASE p.state = "LEN_LSB" /\ ~p.escape_next /\ Left(w, f, mode, 3, 0)
  <2>1. p.state # "WAIT_START" /\ p.state # "CHECKSUM" /\ (p.escape_next <=> 0 = 1) /\ p.len = 0
    BY <1>8 DEF Buffered
  <2>2. Framed(f.data)[3] = f.data[1]
    <3>1. Left(w, f, mode, 3, 0)
      BY <1>8
    <3>2. Framed(f.data)[3] = Part(f.data, 3)
      BY ONLY <3>1, LeftRange, Sent(f)
    <3> QED BY ONLY <1>3, <3>2
  <2>3. \/ Left(w2, f, mode, 3, 1)
        \/ /\ Takes(p, Framed(f.data)[3], g, p2, g2)
           /\ IF 3 < n + 3 THEN Left(w2, f, mode, 3 + 1, 0) ELSE w2 = <<>>
    <3>1. Left(w, f, mode, 3, 0)
      BY <1>8
    <3> QED BY ONLY <2>1, <3>1, FedInStep, Sent(f), NoStart(w), Buffered(p), Fed(w, p, mode, g,
                                                                                 w2, p2, g2)
  <2>4. ~Left(w2, f, mode, 3, 1)
    <3> SUFFICES ASSUME Left(w2, f, mode, 3, 1) PROVE FALSE
      OBVIOUS
    <3>1. \/ 1 = 0 \/ Escaping(Framed(f.data)[3], mode)
      BY ONLY Left(w2, f, mode, 3, 1), Sent(f), NextPart
    <3>2. 1 # 0
      OBVIOUS
    <3>3. f.data[1] \in Reserved
      BY ONLY <2>2, <3>1, <3>2 DEF Escaping
    <3>4. f.data[1] < 128
      BY ONLY <3>3, ReservedIs
    <3> QED BY ONLY <1>1, <1>3, <3>4 DEF Byte
  <2>5. Takes(p, f.data[1], g, p2, g2) /\ Left(w2, f, mode, 4, 0)
    <3>1. 3 < n + 3 /\ 3 + 1 = 4
      BY ONLY <1>1, SMT
    <3> QED BY ONLY <2>2, <2>3, <2>4, <3>1
  <2>6. p2 = Collected(Unescaped(p), f.data[1]) /\ g2 = g
    BY ONLY <2>1, <2>5 DEF Takes
  <2>7. p.expected + f.data[1] # 0 /\ p.expected + f.data[1] + 4 > n + 3 + 0
    BY ONLY <1>1, <1>2, <1>3, <1>5, SMTT(40) DEF Byte
  <2>8. /\ p2.state = "DATA" /\ p2.expected = p.expected + f.data[1] /\ p2.len = p.len
        /\ p2.escape_next = Unescaped(p).escape_next
    <3>1. Unescaped(p).state = "LEN_LSB" /\ f.data[1] \in Byte
      BY <1>3, <1>6, <1>8
    <3>2. /\ p2.escape_next = Unescaped(p).escape_next /\ p2.len = Unescaped(p).len
          /\ \/ Unescaped(p).expected + f.data[1] = 0
             \/ p2.state = "DATA" /\ p2.expected = Unescaped(p).expected + f.data[1]
      BY ONLY <1>6, <2>6, <3>1, CollectsLsb
    <3> QED BY ONLY <1>6, <2>7, <3>2
  <2>9. p2.expected + 4 > n + 3 + p2.len /\ (p2.escape_next <=> 0 = 1)
    BY <1>6, <2>1, <2>7, <2>8
  <2>10. Lagging(w2, p2, f, mode)
    BY <1>1, <2>5, <2>8, <2>9 DEF Lagging
  <2>11. w2 # <<>>
    <3>1. Left(w2, f, mode, 4, 0)
      BY <2>5
    <3> QED BY ONLY <3>1, LeftRange, Sent(f)
  <2> QED BY <2>6, <2>10, <2>11
<1>9. CASE p.state = "LEN_LSB" /\ ~p.escape_next /\ Left(w, f, mode, 2, 1) /\ p.expected = 0
  <2>1. p.state # "WAIT_START" /\ p.state # "CHECKSUM" /\ p.len = 0
    BY <1>9 DEF Buffered
  <2>2. Left(w, f, mode, 2, 1) /\ ~p.escape_next
    BY <1>9
  <2>3. Framed(f.data)[2] = n
    <3>1. Framed(f.data)[2] = Part(f.data, 2)
      BY ONLY <2>2, LeftRange, Sent(f)
    <3> QED BY ONLY <1>3, <3>1
  <2>4. /\ Framed(f.data)[2] \in Reserved /\ Takes(p, Xored(Framed(f.data)[2]), g, p2, g2)
        /\ IF 2 < n + 3 THEN Left(w2, f, mode, 2 + 1, 0) ELSE w2 = <<>>
    BY ONLY <2>1, <2>2, FedBare, Sent(f), NoStart(w), Buffered(p), Fed(w, p, mode, g, w2, p2, g2)
  <2>5. n \in Reserved /\ Takes(p, Xored(n), g, p2, g2)
    BY ONLY <2>3, <2>4
  <2>6. Left(w2, f, mode, 3, 0)
    <3>1. 2 < n + 3 /\ 2 + 1 = 3
      BY ONLY <1>1, SMT
    <3> QED BY ONLY <2>4, <3>1
  <2>7. Xored(n) \in Byte /\ Xored(n) > n
    <3>1. n = 17 \/ n = 19
      <4>1. n \in Reserved /\ n < 125 /\ n \in Nat
        BY <1>1, <1>2, <2>5
      <4> HIDE DEF n
      <4> QED BY ONLY <4>1, SMT DEF Reserved, Start, EscapeCharacter
    <3>2. Xored(17) = 49 /\ Xored(19) = 51
      BY SMT DEF Xored
    <3> HIDE DEF n
    <3> QED BY ONLY <3>1, <3>2, SMT DEF Byte
  <2>8. p2 = Collected(Unescaped(p), Xored(n)) /\ g2 = g
    BY ONLY <2>1, <2>5 DEF Takes
  <2>9. /\ p2.state = "DATA" /\ p2.expected = Xored(n) /\ p2.len = p.len
        /\ p2.escape_next = Unescaped(p).escape_next
    <3>1. Unescaped(p).state = "LEN_LSB" /\ Unescaped(p).expected = 0
      BY <1>6, <1>9
    <3>2. 0 + Xored(n) = Xored(n) /\ Xored(n) # 0
      BY ONLY <1>1, <2>7, SMT DEF Byte
    <3>3. /\ p2.escape_next = Unescaped(p).escape_next /\ p2.len = Unescaped(p).len
          /\ \/ Unescaped(p).expected + Xored(n) = 0
             \/ p2.state = "DATA" /\ p2.expected = Unescaped(p).expected + Xored(n)
      BY ONLY <1>6, <2>7, <2>8, <3>1, CollectsLsb
    <3> QED BY ONLY <1>6, <3>1, <3>2, <3>3
  <2>10. p2.expected + 3 > n + 3 + p2.len /\ (p2.escape_next <=> 0 = 1)
    <3>1. Xored(n) \in Nat
      BY <2>7 DEF Byte
    <3> HIDE DEF n
    <3> QED BY <1>1, <1>6, <2>1, <2>7, <2>9, <3>1
  <2>11. Lagging(w2, p2, f, mode)
    BY <1>1, <2>6, <2>9, <2>10 DEF Lagging
  <2>12. w2 # <<>>
    BY ONLY <2>6, LeftRange, Sent(f)
  <2> QED BY <2>8, <2>11, <2>12
<1> QED BY <1>7, <1>8, <1>9 DEF Misled

\* The delimiter of a frame starts the parser over.
LEMMA FedFresh ==
  ASSUME NEW f, Sent(f), NEW mode, NEW w, NEW p, Fresh(w, p, f, mode), NEW g, NEW w2, NEW p2,
         NEW g2,
         Fed(w, p, mode, g, w2, p2, g2)
  PROVE  /\ g2 = g /\ w2 # <<>> /\ w2 \in Seq(Byte) /\ NoStart(w2) /\ Len(w2) < f.encoded
         /\ Collecting(w2, p2, f, mode)
<1>1. /\ w = OnWire(Len(f.data), f.data, mode) /\ f.encoded = Len(w)
      /\ NoStart(Tail(w)) /\ ~p.escape_next
  BY DEF Fresh
<1>2. f.data \in Seq(Byte) /\ Len(f.data) <= Longest
  BY DEF Sent
<1>3. /\ w \in Seq(Byte) /\ w # <<>> /\ Head(w) = Start
      /\ Ahead(Tail(w), Puts(Framed(f.data), mode), 1, 0)
  BY ONLY <1>1, <1>2, OnWireIs, Zenon
<1>4. w2 = Tail(w) /\ p2 = Started /\ g2 = g
  <2>1. Start # 125
    BY DEF Start
  <2> QED BY <1>1, <1>3, <2>1 DEF Fed
<1>5. Left(w2, f, mode, 1, 0)
  BY <1>3, <1>4 DEF Left
<1>6. p2.state = "LEN_MSB" /\ ~p2.escape_next
  BY <1>4, StartedBuffered
<1>7. Tracks(p2, f.data, 1)
  BY <1>6 DEF Tracks
<1>8. Seen(f.data, f, mode, 1)
  BY <1>2 DEF Seen
<1>9. FollowsAs(w2, p2, f, mode, 1, 0, f.data)
  BY <1>5, <1>6, <1>7, <1>8 DEF FollowsAs
<1>10. Collecting(w2, p2, f, mode)
  BY <1>9, Zenon DEF Collecting
<1>11. w2 # <<>>
  BY ONLY <1>5, LeftRange, Sent(f)
<1>12. w2 \in Seq(Byte) /\ Len(w2) < Len(w)
  BY <1>3, <1>4
<1> QED BY <1>1, <1>4, <1>10, <1>11, <1>12

\* A parser without a frame waits for a delimiter.
LEMMA FedSkipping ==
  ASSUME NEW f, NEW w \in Seq(Byte), w # <<>>, NoStart(w), NEW p, Skipping(p, f), NEW mode, NEW g,
         NEW w2, NEW p2, NEW g2, Fed(w, p, mode, g, w2, p2, g2)
  PROVE  g2 = g /\ p2 = p /\ Skipping(p2, f)
<1>1. Head(w) # Start
  BY NoStartTail
<1> QED BY <1>1 DEF Fed, Skipping

\* A fed byte of a plain frame: the frame is under way, or it is over and settled.
LEMMA FedUnderWay ==
  ASSUME NEW f, Sent(f), Decode(f.data) = f.says, NEW mode, NEW w \in Seq(Byte), NEW p,
         Buffered(p), f.encoded \in Nat,
         Fresh(w, p, f, mode) \/ UnderWay(w, p, f, mode), NEW w2, NEW p2, NEW g2,
         Fed(w, p, mode, Nothing, w2, p2, g2)
  PROVE  \/ g2 = Nothing /\ UnderWay(w2, p2, f, mode)
         \/ w2 = <<>> /\ Settled(f, g2)
<1> DEFINE g == Nothing
<1>1. g.status # "OK"
  BY DEF Nothing
<1>2. ASSUME ~f.whole PROVE Settled(f, g)
  BY <1>1, <1>2 DEF Settled
<1> HIDE DEF g
<1>3. Fed(w, p, mode, g, w2, p2, g2)
  BY DEF g
<1>4. CASE Fresh(w, p, f, mode)
  <2>1. /\ g2 = g /\ NoStart(w2) /\ Len(w2) < f.encoded
        /\ Collecting(w2, p2, f, mode)
    BY ONLY <1>3, <1>4, FedFresh, Sent(f)
  <2> QED BY <2>1 DEF UnderWay, g
<1>5. CASE UnderWay(w, p, f, mode)
  <2>1. NoStart(w) /\ Len(w) < f.encoded
    BY <1>5 DEF UnderWay
  <2>2. w # <<>> /\ w2 = Tail(w)
    BY <1>3 DEF Fed
  <2>3. NoStart(w2) /\ Len(w2) < f.encoded
    <3>1. NoStart(w2) /\ Len(w2) < Len(w) /\ w2 \in Seq(Byte)
      BY <2>1, <2>2, NoStartTail
    <3>2. Len(w2) \in Nat /\ Len(w) \in Nat
      BY <3>1
    <3> QED BY ONLY <2>1, <3>1, <3>2, f.encoded \in Nat
  <2>4. CASE Skipping(p, f)
    <3>1. g2 = g /\ Skipping(p2, f)
      BY ONLY <1>3, <2>1, <2>2, <2>4, FedSkipping, w \in Seq(Byte)
    <3> QED BY <2>3, <3>1 DEF UnderWay, g
  <2>5. CASE Collecting(w, p, f, mode)
    <3>1. \/ g2 = g /\ Collecting(w2, p2, f, mode)
          \/ w2 = <<>> /\ Settled(f, g2)
      BY ONLY <1>3, <2>1, <2>5, FedCollecting, Sent(f), Decode(f.data) = f.says, Buffered(p)
    <3> QED BY <2>3, <3>1 DEF UnderWay, g
  <2>6. CASE Bare(w, p, f, mode)
    <3>1. \/ g2 = g /\ Collecting(w2, p2, f, mode)
          \/ w2 = <<>> /\ Settled(f, g2)
      BY ONLY <1>3, <2>1, <2>6, FedBareNext, Sent(f), Decode(f.data) = f.says, Buffered(p)
    <3> QED BY <2>3, <3>1 DEF UnderWay, g
  <2>7. CASE Misled(w, p, f, mode)
    <3>1. g2 = g /\ (Misled(w2, p2, f, mode) \/ Lagging(w2, p2, f, mode))
      BY ONLY <1>3, <2>1, <2>7, FedMisled, Sent(f), Buffered(p)
    <3> QED BY <2>3, <3>1 DEF UnderWay, g
  <2>8. CASE Lagging(w, p, f, mode)
    <3>1. g2 = g /\ (w2 = <<>> \/ Lagging(w2, p2, f, mode))
      BY ONLY <1>3, <2>1, <2>8, FedLagging, Sent(f), Buffered(p)
    <3>2. ~f.whole
      BY <2>8 DEF Lagging
    <3> QED BY <1>2, <2>3, <3>1, <3>2 DEF UnderWay, g
  <2> QED BY <1>5, <2>4, <2>5, <2>6, <2>7, <2>8 DEF UnderWay
<1> QED BY <1>4, <1>5

(***************************************************************************)
(* A byte lost.                                                            *)
(***************************************************************************)

\* Losing the next byte: f2 is the frame that no longer arrives whole.
NoticedIn(w, p, f, mode) ==
  /\ ~p.escape_next
  /\ \/ p.state = "WAIT_START"
     \/ /\ Len(w) < f.encoded
        /\ \/ p.state \in {"DATA", "CHECKSUM"} /\ (~mode \/ f.whole)
           \/ /\ p.state \in {"LEN_MSB", "LEN_LSB"} /\ f.whole
              /\ Len(f.data) < EscapeCharacter

\* What is left of a frame depends only on its data.
LEMMA LeftSame ==
  ASSUME NEW f, NEW f2, f2.data = f.data, NEW w, NEW mode, NEW u, NEW h
  PROVE  Left(w, f2, mode, u, h) = Left(w, f, mode, u, h)
BY DEF Left

\* An octet of the data or the checksum lost: the parser waits for one more, or has
\* missed an escape character.
LEMMA LostData ==
  ASSUME NEW f, Sent(f), NEW f2, f2.data = f.data, ~f2.whole, NEW mode, NEW w, NEW p, Buffered(p),
         Collecting(w, p, f, mode), ~p.escape_next, p.state \in {"DATA", "CHECKSUM"},
         ~mode \/ f.whole
  PROVE  Tail(w) = <<>> \/ Bare(Tail(w), p, f2, mode) \/ Lagging(Tail(w), p, f2, mode)
<1>1. PICK u, h, seen : FollowsAs(w, p, f, mode, u, h, seen)
  BY Zenon DEF Collecting
<1>2. Left(w, f, mode, u, h) /\ h = 0 /\ Tracks(p, seen, u) /\ Seen(seen, f, mode, u)
  BY <1>1 DEF FollowsAs
<1>3. seen = f.data
  BY <1>2 DEF Seen
<1>4. u \in Nat /\ u >= 1 /\ Len(f.data) \in Nat /\ u \in 1..(Len(f.data) + 3)
  BY <1>2, LeftRange
<1>5. u > 2
  <2>1. u # 1 /\ u # 2
    BY <1>2 DEF Tracks
  <2> QED BY ONLY <1>4, <2>1
<1>6. /\ p.state = IF u < Len(f.data) + 3 THEN "DATA" ELSE "CHECKSUM"
      /\ p.expected = Len(f.data) /\ p.len + 3 = u
  BY <1>2, <1>3, <1>5 DEF Tracks
<1> DEFINE part == Framed(f.data)[u]
<1>7. \/ IF u < Len(f.data) + 3 THEN Left(Tail(w), f, mode, u + 1, 0) ELSE Tail(w) = <<>>
      \/ Escaping(part, mode) /\ Left(Tail(w), f, mode, u, 1)
  <2>1. \/ IF u < Len(f.data) + 3 THEN Left(Tail(w), f, mode, u + 1, 0) ELSE Tail(w) = <<>>
        \/ Escaping(Framed(f.data)[u], mode) /\ Left(Tail(w), f, mode, u, 1)
    BY ONLY <1>2, NextPart, Sent(f)
  <2> QED BY <2>1
<1> HIDE DEF part
<1>8. CASE Escaping(part, mode) /\ Left(Tail(w), f, mode, u, 1)
  <2>1. mode
    BY <1>8 DEF Escaping
  <2>2. Left(Tail(w), f2, mode, u, 1)
    BY <1>8, LeftSame
  <2>3. Tracks(p, f2.data, u)
    BY <1>2, <1>3
  <2> QED BY <1>5, <2>1, <2>2, <2>3 DEF Bare
<1>9. CASE u < Len(f.data) + 3 /\ Left(Tail(w), f, mode, u + 1, 0)
  <2>1. Left(Tail(w), f2, mode, u + 1, 0)
    BY <1>9, LeftSame
  <2>2. p.state = "DATA" /\ (p.escape_next <=> 0 = 1)
    BY <1>6, <1>9
  <2>3. p.expected + (u + 1) > Len(f2.data) + 3 + p.len
    <3>1. p.len \in Nat
      BY DEF Buffered, Parsers
    <3>2. p.expected + (u + 1) > Len(f.data) + 3 + p.len
      <4>1. p.expected = Len(f.data) /\ p.len + 3 = u
        BY <1>6
      <4>2. u \in Nat /\ Len(f.data) \in Nat
        BY <1>4
      <4> DEFINE n == Len(f.data)  k == p.len  e == p.expected
      <4>3. n \in Nat /\ k \in Nat /\ e = n /\ k + 3 = u
        BY <3>1, <4>1, <4>2
      <4> HIDE DEF n, k, e
      <4>4. e + (u + 1) > n + 3 + k
        BY ONLY <4>3
      <4> QED BY ONLY <4>4 DEF n, k, e
    <3> QED BY ONLY <3>2, f2.data = f.data
  <2> QED BY <2>1, <2>2, <2>3 DEF Lagging
<1> QED BY <1>7, <1>8, <1>9

\* Losing more leaves it waiting.
LEMMA LostLagging ==
  ASSUME NEW f, Sent(f), NEW f2, f2.data = f.data, ~f2.whole, NEW mode, ~mode, NEW w,
         NEW p, Buffered(p), Lagging(w, p, f, mode), ~p.escape_next
  PROVE  Tail(w) = <<>> \/ Lagging(Tail(w), p, f2, mode)
<1>1. PICK u, h : /\ Left(w, f, mode, u, h) /\ h \in {0, 1} /\ (p.escape_next <=> h = 1)
                  /\ p.expected + u > Len(f.data) + 3 + p.len
  BY Zenon DEF Lagging
<1>2. Left(w, f, mode, u, h) /\ h = 0 /\ p.state = "DATA"
  BY <1>1 DEF Lagging
<1>3. u \in Nat /\ Len(f.data) \in Nat
  BY <1>2, LeftRange
<1>4. IF u < Len(f.data) + 3 THEN Left(Tail(w), f, mode, u + 1, 0) ELSE Tail(w) = <<>>
  <2>1. \/ IF u < Len(f.data) + 3 THEN Left(Tail(w), f, mode, u + 1, 0) ELSE Tail(w) = <<>>
        \/ Escaping(Framed(f.data)[u], mode)
    BY ONLY <1>2, NextPart, Sent(f)
  <2>2. ~Escaping(Framed(f.data)[u], mode)
    BY DEF Escaping
  <2> QED BY <2>1, <2>2
<1>5. CASE u < Len(f.data) + 3
  <2>1. Left(Tail(w), f2, mode, u + 1, 0)
    BY <1>4, <1>5, LeftSame
  <2>2. p.expected + (u + 1) > Len(f2.data) + 3 + p.len
    <3>1. p.len \in Nat /\ p.expected \in Nat
      BY DEF Buffered, Parsers
    <3> QED BY <1>1, <1>3, <3>1
  <2>3. p.escape_next <=> 0 = 1
    OBVIOUS
  <2> QED BY <1>2, <2>1, <2>2, <2>3 DEF Lagging
<1> QED BY <1>4, <1>5

\* An octet of the length lost: the next is taken for it, which asks for more than
\* there is.
LEMMA LostLength ==
  ASSUME NEW f, Sent(f), f.whole, f.lossy, Len(f.data) < EscapeCharacter,
         NEW f2, f2.data = f.data, f2.lossy = f.lossy, ~f2.whole, NEW mode, NEW w,
         NEW p, Buffered(p), Collecting(w, p, f, mode), ~p.escape_next, p.state \in {"LEN_MSB",
                                                                                     "LEN_LSB"}
  PROVE  Misled(Tail(w), p, f2, mode)
<1>1. PICK u, h, seen : FollowsAs(w, p, f, mode, u, h, seen)
  BY Zenon DEF Collecting
<1>2. Left(w, f, mode, u, h) /\ h = 0 /\ Tracks(p, seen, u) /\ Seen(seen, f, mode, u)
  BY <1>1 DEF FollowsAs
<1>3. seen = f.data
  BY <1>2 DEF Seen
<1>4. u \in Nat /\ u >= 1 /\ Len(f.data) \in Nat /\ Framed(f.data)[u] = Part(f.data, u)
  BY <1>2, LeftRange
<1>5. u = 1 \/ u = 2
  <2>1. ~(u > 2)
    BY <1>2 DEF Tracks
  <2> QED BY ONLY <1>4, <2>1
<1>6. Len(f.data) \div 256 = 0 /\ 256 * 0 = 0
  <2> DEFINE n == Len(f.data)
  <2>1. n < 125
    BY DEF EscapeCharacter
  <2> HIDE DEF n
  <2>2. n \in Nat
    BY <1>4 DEF n
  <2>3. n \div 256 = 0
    BY ONLY <2>1, <2>2, SMT
  <2>4. 256 * 0 = 0
    BY SMT
  <2> QED BY ONLY <2>3, <2>4 DEF n
<1>7. 1 < Len(f.data) + 3 /\ 2 < Len(f.data) + 3
  BY ONLY <1>4, SMT
<1>8. \/ IF u < Len(f.data) + 3 THEN Left(Tail(w), f, mode, u + 1, 0) ELSE Tail(w) = <<>>
      \/ Escaping(Framed(f.data)[u], mode) /\ Left(Tail(w), f, mode, u, 1)
  BY ONLY <1>2, NextPart, Sent(f)
<1>9. CASE u = 1
  <2>1. ~Escaping(Framed(f.data)[u], mode)
    <3>1. Framed(f.data)[u] = 0
      BY <1>4, <1>6, <1>9 DEF Part
    <3> QED BY <3>1 DEF Escaping, Reserved, Start, EscapeCharacter
  <2>2. 1 + 1 = 2
    OBVIOUS
  <2>3. Left(Tail(w), f2, mode, 2, 0)
    BY <1>7, <1>8, <1>9, <2>1, <2>2, LeftSame
  <2>4. p.state = "LEN_MSB"
    BY <1>2, <1>9 DEF Tracks
  <2>5. p.escape_next <=> 0 = 1
    OBVIOUS
  <2>6. \E k \in {0, 1} : Left(Tail(w), f2, mode, 2, k) /\ (p.escape_next <=> k = 1)
    BY <2>3, <2>5
  <2> QED BY <2>4, <2>6 DEF Misled
<1>10. CASE u = 2
  <2>1. p.state = "LEN_LSB" /\ p.expected = 0
    <3>1. Tracks(p, f.data, 2)
      BY <1>2, <1>3, <1>10
    <3>2. p.state = "LEN_LSB" /\ p.expected = 256 * (Len(f.data) \div 256)
      BY ONLY <3>1 DEF Tracks
    <3> QED BY ONLY <1>6, <3>2
  <2>2. 2 + 1 = 3
    OBVIOUS
  <2>3. Left(Tail(w), f2, mode, 3, 0) \/ Left(Tail(w), f2, mode, 2, 1)
    BY <1>7, <1>8, <1>10, <2>2, LeftSame
  <2> QED BY <2>1, <2>3 DEF Misled
<1> QED BY <1>5, <1>9, <1>10

\* A loss the parser can notice leaves the frame under way, as one that is not whole.
LEMMA LostUnderWay ==
  ASSUME NEW f, Sent(f), f.encoded \in Nat, f.lossy,
         NEW f2, f2.data = f.data, f2.lossy = f.lossy, f2.encoded = f.encoded, ~f2.whole,
         NEW mode, NEW w \in Seq(Byte), w # <<>>, NEW p, Buffered(p), NoticedIn(w, p, f, mode),
         Fresh(w, p, f, mode) \/ UnderWay(w, p, f, mode)
  PROVE  Tail(w) = <<>> \/ UnderWay(Tail(w), p, f2, mode)
<1>1. ~p.escape_next
  BY DEF NoticedIn
<1>2. NoStart(Tail(w)) /\ Len(Tail(w)) < f2.encoded
  <2>1. CASE Fresh(w, p, f, mode)
    BY <2>1 DEF Fresh
  <2>2. CASE UnderWay(w, p, f, mode)
    <3>1. NoStart(w) /\ Len(w) < f.encoded
      BY <2>2 DEF UnderWay
    <3>2. NoStart(Tail(w))
      BY <3>1, NoStartTail
    <3>3. Len(Tail(w)) = Len(w) - 1 /\ Len(w) \in Nat
      OBVIOUS
    <3> QED BY <3>1, <3>2, <3>3
  <2> QED BY <2>1, <2>2
<1>3. CASE p.state = "WAIT_START"
  BY <1>1, <1>2, <1>3 DEF UnderWay, Skipping
<1>4. CASE p.state # "WAIT_START"
  <2>1. /\ Len(w) < f.encoded
        /\ \/ p.state \in {"DATA", "CHECKSUM"} /\ (~mode \/ f.whole)
           \/ /\ p.state \in {"LEN_MSB", "LEN_LSB"} /\ f.whole
              /\ Len(f.data) < EscapeCharacter
    BY <1>4 DEF NoticedIn
  <2>2. UnderWay(w, p, f, mode)
    <3>1. Len(w) \in Nat
      OBVIOUS
    <3> QED BY <2>1, <3>1 DEF Fresh
  <2>3. \/ Collecting(w, p, f, mode) \/ Bare(w, p, f, mode)
        \/ Misled(w, p, f, mode) \/ Lagging(w, p, f, mode)
    BY <1>4, <2>2 DEF UnderWay, Skipping
  <2>4. CASE p.state \in {"DATA", "CHECKSUM"} /\ (~mode \/ f.whole)
    <3>1. ~Bare(w, p, f, mode) /\ ~Misled(w, p, f, mode)
      BY <2>4 DEF Bare, Misled
    <3>2. Lagging(w, p, f, mode) => ~mode
      BY <2>4 DEF Lagging
    <3>3. Tail(w) = <<>> \/ Bare(Tail(w), p, f2, mode) \/ Lagging(Tail(w), p, f2, mode)
      <4>1. CASE Collecting(w, p, f, mode)
        BY <1>1, <2>4, <4>1, LostData
      <4>2. CASE Lagging(w, p, f, mode)
        BY <1>1, <3>2, <4>2, LostLagging
      <4> QED BY <2>3, <3>1, <4>1, <4>2
    <3> QED BY <1>2, <3>3 DEF UnderWay
  <2>5. CASE /\ p.state \in {"LEN_MSB", "LEN_LSB"} /\ f.whole
             /\ Len(f.data) < EscapeCharacter
    <3>1. Collecting(w, p, f, mode)
      BY <2>3, <2>5 DEF Bare, Misled, Lagging
    <3>2. Misled(Tail(w), p, f2, mode)
      BY <1>1, <2>5, <3>1, LostLength
    <3> QED BY <1>2, <3>2 DEF UnderWay
  <2> QED BY <2>1, <2>4, <2>5
<1> QED BY <1>3, <1>4

(***************************************************************************)
(* The steps of Next.                                                      *)
(***************************************************************************)

\* What the invariant says of the frame is what these lemmas assume of it.
LEMMA SentIs ==
  ASSUME NEW f, Sendable(f.data, f.says, f.lossy)
  PROVE  Sent(f) /\ Decode(f.data) = f.says
BY DEF Sendable, Sent

\* At first there is no frame.
LEMMA InitInv == Init => IInv
<1> SUFFICES ASSUME Init PROVE IInv
  OBVIOUS
<1>1. Buffered(parser)
  BY StartedBuffered DEF Init
<1>2. /\ frame.encoded = 0 /\ frame.lossy = FALSE /\ frame.plain = FALSE /\ frame.whole = FALSE
      /\ frame.data = <<>> /\ wire = <<>> /\ escaped \in BOOLEAN /\ got = Nothing
  BY DEF Init
<1>3. /\ frame = [says |-> frame.says, data |-> frame.data, encoded |-> frame.encoded,
                  lossy |-> frame.lossy, plain |-> frame.plain, whole |-> frame.whole]
  BY DEF Init
<1>4. 0 <= MaxEncoded /\ Len(<<>>) <= MaxData
  BY MaxDataNat DEF MaxEncoded
<1>5. Inside(got.frame)
  BY <1>2 DEF Inside, Nothing, Refused
<1>6. Traffic
  <2>1. wire \in Seq(Byte) /\ frame.encoded \in Nat
    BY <1>2
  <2>2. frame.encoded <= MaxEncoded /\ Len(frame.data) <= MaxData
    BY ONLY <1>2, <1>4
  <2> QED BY <1>2, <1>3, <1>5, <2>1, <2>2 DEF Traffic
<1>7. got.status # "OK"
  BY <1>2 DEF Nothing
<1>8. Progress
  BY <1>2, <1>7 DEF Progress
<1> QED BY <1>1, <1>6, <1>8 DEF IInv

\* A frame put on the wire is fresh.
LEMMA SendInv ==
  ASSUME IInv, NEW data, NEW says, NEW lossy \in BOOLEAN, Sendable(data, says, lossy),
         OnItsWay(OnWire(Len(data), data, escaped), data, says, lossy)
  PROVE  IInv'
<1> DEFINE bytes == OnWire(Len(data), data, escaped)
           plain == (escaped \/ Start \notin Range(Tail(bytes))) /\ ~parser.escape_next
<1>1. /\ frame' = [says |-> says, data |-> data, encoded |-> Len(bytes), lossy |-> lossy,
                   plain |-> plain, whole |-> plain]
      /\ wire' = bytes /\ got' = Nothing /\ escaped' = escaped /\ parser' = parser
  BY DEF OnItsWay
<1>2. data \in Seq(Byte) /\ Len(data) <= Longest /\ (~lossy => Len(data) <= MaxData) /\ Len(data) \in Nat
  BY DEF Sendable
<1>3. /\ bytes \in Seq(Byte) /\ bytes # <<>>
      /\ Len(bytes) <= 1 + 2 * (Len(data) + 3)
      /\ escaped => NoStart(Tail(bytes))
  BY ONLY <1>2, OnWireIs
<1>4. plain \in BOOLEAN
  OBVIOUS
<1>5. plain => NoStart(Tail(bytes)) /\ ~parser.escape_next
  <2>1. Tail(bytes) \in Seq(Byte)
    BY <1>3
  <2>2. Start \notin Range(Tail(bytes)) => NoStart(Tail(bytes))
    BY <2>1, NoStartRange
  <2> QED BY <1>3, <2>2
<1> HIDE DEF plain, bytes
<1>6. /\ frame'.says = says /\ frame'.data = data /\ frame'.encoded = Len(bytes)
      /\ frame'.lossy = lossy /\ frame'.plain = plain /\ frame'.whole = plain
      /\ frame' = [says |-> frame'.says, data |-> frame'.data, encoded |-> frame'.encoded,
                   lossy |-> frame'.lossy, plain |-> frame'.plain, whole |-> frame'.whole]
  BY <1>1
<1>7. Buffered(parser')
  BY <1>1 DEF IInv
<1>8. Inside(got'.frame)
  BY <1>1 DEF Inside, Nothing, Refused
<1>9. Len(bytes) \in Nat /\ (~lossy => Len(bytes) <= MaxEncoded)
  BY <1>2, <1>3, MaxDataNat DEF MaxEncoded
<1>10. Traffic'
  <2>1. escaped' \in BOOLEAN /\ wire' \in Seq(Byte)
    BY <1>1, <1>3 DEF IInv, Traffic
  <2> QED BY <1>2, <1>4, <1>6, <1>8, <1>9, <2>1 DEF Traffic
<1>11. frame'.plain => Fresh(wire', parser', frame', escaped')
  BY <1>1, <1>5, <1>6 DEF Fresh, bytes
<1>12. Progress'
  BY <1>1, <1>3, <1>11 DEF Progress
<1> QED BY <1>7, <1>10, <1>12 DEF IInv

\* xbee_frame_encode() keeps the invariant.
LEMMA HostSendsInv ==
  ASSUME IInv, NEW t \in HostTypes, NEW s \in Seeds, NEW n \in Tails, NEW id \in {1, Start},
         HostSends(t, s, n, id)
  PROVE  IInv'
<1> DEFINE b == Built(t, s, n)  f == WithFrameId(b, id)  data == FrameData(f)
<1>1. /\ FrameDataLen(f).status = "OK"
      /\ OnItsWay(OnWire(FrameDataLen(f).len, data, escaped), data, Said(f), FALSE)
  BY DEF HostSends
<1>2. s \in Nat /\ n \in Nat /\ n + 20 <= Longest /\ id \in Byte
  <2>1. id \in Byte
    BY DEF Start, Byte
  <2> QED BY <2>1, FrameAssumption
<1>3. FrameDataLen(f).len = Len(data) /\ Sendable(data, Said(f), FALSE)
  <2> DEFINE fd == f
  <2>1. fd = WithFrameId(b, id) /\ b = Built(t, s, n) /\ FrameDataLen(fd).status = "OK"
    BY <1>1
  <2> HIDE DEF fd, b
  <2>2. FrameDataLen(fd).len = Len(FrameData(fd)) /\ Sendable(FrameData(fd), Said(fd), FALSE)
    BY ONLY <1>2, <2>1, HostData, t \in HostTypes, ZenonT(60)
  <2> QED BY <2>2 DEF fd
<1> HIDE DEF f, data
<1>4. OnItsWay(OnWire(Len(data), data, escaped), data, Said(f), FALSE)
  BY <1>1, <1>3
<1>5. FALSE \in BOOLEAN
  OBVIOUS
<1> QED BY <1>3, <1>4, <1>5, SendInv

\* A frame of the module's keeps it.
LEMMA ModuleSendsInv ==
  ASSUME IInv, NEW t \in Types \ (HostTypes \cup IoTypes), NEW s \in Seeds \ {0}, NEW n \in Tails,
         NEW cut \in {0, 1}, ModuleSends(t, s, n, cut)
  PROVE  IInv'
<1> DEFINE m == IF t \in Tailless THEN 0 ELSE n
           f == Built(t, s, m)  data == FrameData(f)
           sends == SubSeq(data, 1, Len(data) - cut)
           says == IF cut > 0 THEN Refused ELSE Said(f)
<1>1. /\ cut > 0 => f.tail = <<>>
      /\ OnItsWay(OnWire(Len(sends), sends, escaped), sends, says, TRUE)
  BY DEF ModuleSends
<1>2. s \in Nat \ {0} /\ n \in Nat /\ n + 20 <= Longest
  BY FrameAssumption
<1>3. Sendable(sends, says, TRUE)
  <2> DEFINE mm == m  ff == f  dd == data
  <2>1. /\ mm = (IF t \in Tailless THEN 0 ELSE n) /\ ff = Built(t, s, mm) /\ dd = FrameData(ff)
        /\ cut > 0 => ff.tail = <<>>
    BY <1>1
  <2> HIDE DEF mm, ff, dd
  <2>2. Sendable(SubSeq(dd, 1, Len(dd) - cut), IF cut > 0 THEN Refused ELSE Said(ff), TRUE)
    BY ONLY <1>2, <2>1, ModuleData, t \in Types \ (HostTypes \cup IoTypes), cut \in {0, 1},
            ZenonT(60)
  <2> QED BY <2>2 DEF mm, ff, dd
<1> HIDE DEF sends, says
<1>4. TRUE \in BOOLEAN
  OBVIOUS
<1> QED BY <1>1, <1>3, <1>4, SendInv

\* So does an I/O indicator.
LEMMA ModuleSamplesInv ==
  ASSUME IInv, NEW t \in IoTypes, NEW s \in Seeds \ {0}, NEW digital \in Nat, NEW analog \in Nat,
         Masked(digital, analog), NEW cut \in {0, 1}, ModuleSamples(t, s, digital, analog, cut)
  PROVE  IInv'
<1> DEFINE legacy == (t # "IO_SAMPLE")
           sampled == Sampled(legacy, digital, analog, s)
           f == Built(t, s, 0)  data == FrameData(f) \o sampled.block
           sends == SubSeq(data, 1, Len(data) - cut)
           says == IF cut > 0 THEN Refused ELSE Said([f EXCEPT !.tail = sampled.says])
<1>1. OnItsWay(OnWire(Len(sends), sends, escaped), sends, says, TRUE)
  BY DEF ModuleSamples
<1>2. s \in Nat \ {0}
  BY FrameAssumption
<1>3. Sendable(sends, says, TRUE)
  <2> DEFINE ll == legacy  ss == sampled  ff == f  dd == data
  <2>1. /\ ll \in BOOLEAN /\ (ll <=> t # "IO_SAMPLE") /\ ss = Sampled(ll, digital, analog, s)
        /\ ff = Built(t, s, 0) /\ dd = FrameData(ff) \o ss.block
    OBVIOUS
  <2> HIDE DEF ll, ss, ff, dd
  <2>2. Samples(dd, cut, ff, ss)
    <3>1. s \in Nat \ {0}
      BY <1>2
    <3>5. ll \in BOOLEAN
      BY <2>1
    <3>6. ll <=> t # "IO_SAMPLE"
      BY <2>1
    <3>7. ss = Sampled(ll, digital, analog, s)
      BY <2>1
    <3>8. ff = Built(t, s, 0)
      BY <2>1
    <3>9. dd = FrameData(ff) \o ss.block
      BY <2>1
    <3> QED BY ONLY <3>1, <3>5, <3>6, <3>7, <3>8, <3>9, SampleData, ZenonT(60),
                    t \in IoTypes, cut \in {0, 1}, digital \in Nat, analog \in Nat,
                    Masked(digital, analog)
  <2> QED BY <2>2 DEF Samples, ll, ss, ff, dd
<1> HIDE DEF sends, says
<1>4. TRUE \in BOOLEAN
  OBVIOUS
<1> QED BY <1>1, <1>3, <1>4, SendInv

\* What the parser takes keeps it inside its buffer, and what it hands up is decoded inside.
LEMMA FedBuffered ==
  ASSUME NEW w \in Seq(Byte), NEW p, Buffered(p), NEW mode, NEW g, Inside(g.frame),
         NEW w2, NEW p2, NEW g2, Fed(w, p, mode, g, w2, p2, g2)
  PROVE  Buffered(p2) /\ Inside(g2.frame) /\ w2 \in Seq(Byte)
<1>1. w # <<>> /\ w2 = Tail(w) /\ w2 \in Seq(Byte) /\ Head(w) \in Byte
  BY DEF Fed
<1>2. CASE p2 = Started /\ g2 = g
  BY <1>1, <1>2, StartedBuffered
<1>3. CASE p2 = p /\ g2 = g
  BY <1>1, <1>3
<1>4. CASE p2 = [p EXCEPT !.escape_next = TRUE] /\ g2 = g
  <2>1. TRUE \in BOOLEAN
    OBVIOUS
  <2>2. Buffered(p2)
    BY <1>4, <2>1, EscapeBuffered
  <2> QED BY <1>1, <1>4, <2>2
<1>5. CASE Takes(p, IF p.escape_next THEN Xored(Head(w)) ELSE Head(w), g, p2, g2)
  <2> DEFINE byte == IF p.escape_next THEN Xored(Head(w)) ELSE Head(w)
  <2>1. byte \in Byte
    BY <1>1, XoredByte
  <2> HIDE DEF byte
  <2>2. Takes(p, byte, g, p2, g2)
    BY <1>5 DEF byte
  <2> DEFINE q == Unescaped(p)
  <2>3. Buffered(q)
    BY UnescapedIs
  <2> HIDE DEF q
  <2>4. /\ p2 = Collected(q, byte)
        /\ g2 = IF p.state = "CHECKSUM" THEN Verdict(q, byte) ELSE g
    BY <2>2 DEF Takes, q
  <2>5. Buffered(p2)
    BY <2>1, <2>3, <2>4, CollectedBuffered
  <2>6. Inside(Verdict(q, byte).frame)
    <3>1. q.buf \in Seq(Byte)
      BY <2>3 DEF Buffered, Parsers
    <3>2. Inside(Decode(q.buf))
      BY <3>1, DecodesInside
    <3>3. Inside(Refused)
      BY DEF Inside, Refused
    <3>4. Verdict(q, byte).frame = Refused \/ Verdict(q, byte).frame = Decode(q.buf)
      BY Zenon DEF Verdict, Nothing
    <3> QED BY <3>2, <3>3, <3>4
  <2>7. Inside(g2.frame)
    BY <2>4, <2>6
  <2> QED BY <1>1, <2>5, <2>7
<1> QED BY <1>2, <1>3, <1>4, <1>5 DEF Fed

\* xbee_frame_parser_feed() keeps the invariant.
LEMMA FeedInv ==
  ASSUME IInv, Feed
  PROVE  IInv'
<1>1. /\ Fed(wire, parser, escaped, got, wire', parser', got')
      /\ escaped' = escaped /\ frame' = frame
  BY FeedIs
<1>2. /\ wire \in Seq(Byte) /\ Buffered(parser) /\ Inside(got.frame)
      /\ frame.encoded \in Nat /\ frame.plain \in BOOLEAN
      /\ frame.whole => frame.plain
      /\ frame.plain => Sendable(frame.data, frame.says, frame.lossy)
  BY DEF IInv, Traffic
<1>3. Buffered(parser') /\ Inside(got'.frame) /\ wire' \in Seq(Byte)
  BY ONLY <1>1, <1>2, FedBuffered
<1>4. Traffic'
  BY <1>1, <1>3 DEF IInv, Traffic
<1>5. wire # <<>>
  BY <1>1 DEF Fed
<1>6. ASSUME frame.plain
      PROVE  \/ got' = Nothing /\ UnderWay(wire', parser', frame, escaped)
             \/ wire' = <<>> /\ Settled(frame, got')
  <2>1. got = Nothing /\ (Fresh(wire, parser, frame, escaped) \/ UnderWay(wire, parser, frame,
                                                                          escaped))
    BY <1>5, <1>6 DEF IInv, Progress
  <2>2. Sent(frame) /\ Decode(frame.data) = frame.says
    BY <1>2, <1>6, SentIs
  <2>3. Fed(wire, parser, escaped, Nothing, wire', parser', got')
    BY <1>1, <2>1
  <2> QED BY ONLY <1>2, <2>1, <2>2, <2>3, FedUnderWay
<1>7. Due' = DueOf(frame)
  BY <1>1 DEF Due, DueOf
<1>8. Nothing.status # "OK"
  BY DEF Nothing
<1>9. ASSUME frame.plain, wire' # <<>>
      PROVE  got' = Nothing /\ UnderWay(wire', parser', frame', escaped')
  BY <1>1, <1>6, <1>9
<1>10. ASSUME frame.plain, wire' = <<>>
       PROVE  (frame.whole => got' = DueOf(frame)) /\ (got'.status = "OK" => got'.data = frame.data)
  <2>1. CASE got' = Nothing /\ UnderWay(wire', parser', frame, escaped)
    <3>1. ~frame.whole
      <4>1. \/ Skipping(parser', frame)
            \/ Collecting(wire', parser', frame, escaped) \/ Bare(wire', parser', frame, escaped)
            \/ Misled(wire', parser', frame, escaped) \/ Lagging(wire', parser', frame, escaped)
        BY <2>1 DEF UnderWay
      <4>2. ~Collecting(wire', parser', frame, escaped)
        <5> SUFFICES ASSUME Collecting(wire', parser', frame, escaped) PROVE FALSE
          OBVIOUS
        <5>1. PICK u, h, seen : FollowsAs(wire', parser', frame, escaped, u, h, seen)
          BY Zenon DEF Collecting
        <5>2. Left(wire', frame, escaped, u, h)
          BY <5>1 DEF FollowsAs
        <5>3. Sent(frame)
          BY <1>2, <1>10, SentIs
        <5>4. wire' # <<>>
          BY ONLY <5>2, <5>3, LeftRange
        <5> QED BY <1>10, <5>4
      <4> QED BY <4>1, <4>2 DEF Skipping, Bare, Misled, Lagging
    <3> QED BY <1>8, <2>1, <3>1
  <2>2. CASE Settled(frame, got')
    BY <2>2 DEF Settled
  <2> QED BY <1>6, <1>10, <2>1, <2>2
<1>11. Progress'
  BY <1>1, <1>2, <1>7, <1>9, <1>10 DEF Progress
<1> QED BY <1>3, <1>4, <1>11 DEF IInv

\* A byte lost on the way keeps it.
LEMMA LoseInv ==
  ASSUME IInv, Lose
  PROVE  IInv'
<1>1. /\ wire # <<>> /\ frame.lossy /\ wire' = Tail(wire)
      /\ frame' = [frame EXCEPT !.whole = FALSE, !.plain = @ /\ Noticed]
      /\ escaped' = escaped /\ parser' = parser /\ got' = got
  BY DEF Lose
<1>2. /\ frame = [says |-> frame.says, data |-> frame.data, encoded |-> frame.encoded,
                  lossy |-> frame.lossy, plain |-> frame.plain, whole |-> frame.whole]
      /\ frame.plain \in BOOLEAN /\ wire \in Seq(Byte) /\ Buffered(parser)
      /\ frame.encoded \in Nat
      /\ frame.plain => Sendable(frame.data, frame.says, frame.lossy)
  BY DEF IInv, Traffic
<1>3. Noticed <=> NoticedIn(wire, parser, frame, escaped)
  BY Zenon DEF Noticed, NoticedIn
<1>4. /\ frame'.says = frame.says /\ frame'.data = frame.data /\ frame'.encoded = frame.encoded
      /\ frame'.lossy = frame.lossy /\ frame'.whole = FALSE
      /\ frame'.plain = (frame.plain /\ Noticed)
      /\ frame' = [says |-> frame'.says, data |-> frame'.data, encoded |-> frame'.encoded,
                   lossy |-> frame'.lossy, plain |-> frame'.plain, whole |-> frame'.whole]
  <2> DEFINE noticed == Noticed
  <2> HIDE DEF noticed
  <2>1. frame' = [frame EXCEPT !.whole = FALSE, !.plain = @ /\ noticed]
    BY <1>1 DEF noticed
  <2>2. frame' = [says |-> frame.says, data |-> frame.data, encoded |-> frame.encoded,
                  lossy |-> frame.lossy, plain |-> (frame.plain /\ noticed), whole |-> FALSE]
    BY ONLY <1>2, <2>1
  <2> QED BY ONLY <2>2 DEF noticed
<1>5. wire' \in Seq(Byte)
  BY <1>1, <1>2
<1>6. Traffic'
  <2>1. frame'.plain \in BOOLEAN /\ (frame'.plain => frame.plain)
    BY <1>4
  <2> QED BY <1>1, <1>2, <1>4, <1>5, <2>1 DEF IInv, Traffic
<1>7. ASSUME frame'.plain, wire' # <<>>
      PROVE  got' = Nothing /\ UnderWay(wire', parser', frame', escaped')
  <2>1. frame.plain /\ NoticedIn(wire, parser, frame, escaped)
    BY <1>3, <1>4, <1>7
  <2>2. got = Nothing /\ (Fresh(wire, parser, frame, escaped) \/ UnderWay(wire, parser, frame,
                                                                          escaped))
    BY <1>1, <2>1 DEF IInv, Progress
  <2>3. Sent(frame)
    BY <1>2, <2>1, SentIs
  <2> DEFINE f2 == frame'
  <2> HIDE DEF f2
  <2>4. f2.data = frame.data /\ f2.lossy = frame.lossy /\ f2.encoded = frame.encoded /\ ~f2.whole
    BY <1>4 DEF f2
  <2>5. Tail(wire) = <<>> \/ UnderWay(Tail(wire), parser, f2, escaped)
    BY ONLY <1>1, <1>2, <2>1, <2>2, <2>3, <2>4, LostUnderWay
  <2> QED BY <1>1, <1>7, <2>2, <2>5 DEF f2
<1>8. frame'.plain => got'.status # "OK"
  <2>1. frame'.plain => got = Nothing
    BY <1>1, <1>4 DEF IInv, Progress
  <2> QED BY <1>1, <2>1 DEF Nothing
<1>9. Progress'
  BY <1>4, <1>7, <1>8 DEF Progress
<1> QED BY <1>1, <1>2, <1>6, <1>9 DEF IInv

\* xbee_frame_parser_reset() keeps it: the frame on its way is given up.
LEMMA ResetInv ==
  ASSUME IInv, Reset
  PROVE  IInv'
<1>1. /\ parser' = Idle /\ frame' = [frame EXCEPT !.whole = @ /\ wire = <<>>]
      /\ escaped' = escaped /\ wire' = wire /\ got' = got
  BY DEF Reset
<1>2. /\ frame = [says |-> frame.says, data |-> frame.data, encoded |-> frame.encoded,
                  lossy |-> frame.lossy, plain |-> frame.plain, whole |-> frame.whole]
      /\ frame.whole \in BOOLEAN
  BY DEF IInv, Traffic
<1>3. /\ frame'.says = frame.says /\ frame'.data = frame.data /\ frame'.encoded = frame.encoded
      /\ frame'.lossy = frame.lossy /\ frame'.plain = frame.plain
      /\ frame'.whole = (frame.whole /\ wire = <<>>)
      /\ frame' = [says |-> frame'.says, data |-> frame'.data, encoded |-> frame'.encoded,
                   lossy |-> frame'.lossy, plain |-> frame'.plain, whole |-> frame'.whole]
  <2>1. frame' = [says |-> frame.says, data |-> frame.data, encoded |-> frame.encoded,
                  lossy |-> frame.lossy, plain |-> frame.plain,
                  whole |-> (frame.whole /\ wire = <<>>)]
    BY ONLY <1>1, <1>2
  <2> QED BY ONLY <2>1
<1>4. /\ Buffered(parser') /\ parser'.state = "WAIT_START" /\ ~parser'.escape_next
  BY <1>1, StartedBuffered
<1>5. Traffic'
  <2>1. frame'.whole \in BOOLEAN /\ (frame'.whole => frame.whole)
    BY <1>3
  <2> QED BY <1>1, <1>3, <2>1 DEF IInv, Traffic
<1>6. ASSUME frame.plain, wire # <<>>
      PROVE  got = Nothing /\ (Fresh(wire, parser', frame', escaped) \/ UnderWay(wire, parser',
                                                                                 frame', escaped))
  <2>1. got = Nothing /\ (Fresh(wire, parser, frame, escaped) \/ UnderWay(wire, parser, frame,
                                                                          escaped))
    BY <1>6 DEF IInv, Progress
  <2>2. CASE Fresh(wire, parser, frame, escaped)
    BY <1>3, <1>4, <2>1, <2>2 DEF Fresh
  <2>3. CASE UnderWay(wire, parser, frame, escaped)
    <3>1. Skipping(parser', frame')
      BY <1>3, <1>4, <1>6 DEF Skipping
    <3> QED BY <1>3, <2>1, <2>3, <3>1 DEF UnderWay
  <2> QED BY <2>1, <2>2, <2>3
<1>7. Due' = Due
  BY <1>3 DEF Due
<1>8. Progress'
  BY <1>1, <1>3, <1>6, <1>7 DEF IInv, Progress
<1> QED BY <1>4, <1>5, <1>8 DEF IInv

\* Changing the mode while nothing is on its way keeps it.
LEMMA SetEscapedInv ==
  ASSUME IInv, SetEscaped
  PROVE  IInv'
<1>1. /\ wire = <<>> /\ parser' = Idle /\ escaped' = ~escaped
      /\ wire' = wire /\ frame' = frame /\ got' = got
  BY DEF SetEscaped
<1>2. Buffered(parser')
  BY <1>1, StartedBuffered
<1>3. Traffic'
  BY <1>1 DEF IInv, Traffic
<1>4. Progress'
  <2>1. Due' = Due
    BY <1>1 DEF Due
  <2> QED BY <1>1, <2>1 DEF IInv, Progress
<1> QED BY <1>2, <1>3, <1>4 DEF IInv

\* And so does a step that changes nothing.
LEMMA StutterInv ==
  ASSUME IInv, UNCHANGED vars
  PROVE  IInv'
<1>1. /\ escaped' = escaped /\ wire' = wire /\ frame' = frame /\ parser' = parser /\ got' = got
  BY DEF vars
<1>2. Traffic'
  BY <1>1 DEF IInv, Traffic
<1>3. Progress'
  <2>1. Due' = Due
    BY <1>1 DEF Due
  <2> QED BY <1>1, <2>1 DEF IInv, Progress
<1> QED BY <1>1, <1>2, <1>3 DEF IInv

\* Every step keeps the inductive invariant.
LEMMA NextInv == IInv /\ [Next]_vars => IInv'
<1> SUFFICES ASSUME IInv, [Next]_vars PROVE IInv'
  OBVIOUS
<1>1. ASSUME NEW t \in HostTypes, NEW s \in Seeds, NEW n \in Tails, NEW id \in {1, Start},
             HostSends(t, s, n, id)
      PROVE  IInv'
  BY <1>1, HostSendsInv
<1>2. ASSUME NEW t \in Types \ (HostTypes \cup IoTypes), NEW s \in Seeds \ {0}, NEW n \in Tails,
             NEW cut \in {0, 1}, ModuleSends(t, s, n, cut)
      PROVE  IInv'
  BY <1>2, ModuleSendsInv
<1>3. ASSUME NEW t \in IoTypes, NEW s \in Seeds \ {0}, NEW digital \in {0, 17, 256},
             NEW analog \in {0, 1, 10}, NEW cut \in {0, 1}, ModuleSamples(t, s, digital, analog,
                                                                          cut)
      PROVE  IInv'
  <2>1. digital \in Nat /\ analog \in Nat /\ Masked(digital, analog)
    BY <1>3 DEF Masked
  <2> QED BY ONLY <1>3, <2>1, ModuleSamplesInv, IInv
<1>4. CASE Feed
  BY <1>4, FeedInv
<1>5. CASE Lose
  BY <1>5, LoseInv
<1>6. CASE Reset
  BY <1>6, ResetInv
<1>7. CASE SetEscaped
  BY <1>7, SetEscapedInv
<1>8. CASE Done
  BY <1>8, StutterInv DEF Done
<1>9. CASE UNCHANGED vars
  BY <1>9, StutterInv
<1> QED BY <1>1, <1>2, <1>3, <1>4, <1>5, <1>6, <1>7, <1>8, <1>9 DEF Next

\* The inductive invariant always holds.
THEOREM Invariance == Spec => []IInv
<1>1. Init => IInv
  BY InitInv
<1>2. IInv /\ [Next]_vars => IInv'
  BY NextInv
<1> QED BY <1>1, <1>2, PTL DEF Spec

\* xbee_frame_parser_feed() never writes behind its buffer nor counts on more than it
\* holds, xbee_frame_decode() never reads behind the frame data, and no frame of the
\* host's is longer, escapes included, than the buffer of the transport.
THEOREM BuffersHold == Spec => []InBounds
<1>1. IInv => InBounds
  <2> SUFFICES ASSUME IInv PROVE InBounds
    OBVIOUS
  <2>1. Buffered(parser) /\ Inside(got.frame)
        /\ (~frame.lossy => frame.encoded <= MaxEncoded /\ Len(frame.data) <= MaxData)
    BY DEF IInv, Traffic
  <2> QED BY <2>1 DEF InBounds, Buffered, Inside
<1> QED BY <1>1, Invariance, PTL

\* A frame none of whose bytes is lost is handed up by xbee_frame_parser_feed() as
\* xbee_frame_encode() or the module sent it, or refused as too long, and what
\* xbee_frame_decode() says of it is what its sender said: in both modes.
THEOREM FramesArrive == Spec => []Delivered
<1>1. IInv => Delivered
  <2> SUFFICES ASSUME IInv, wire = <<>>, frame.whole
               PROVE  /\ got = Due
                      /\ got.frame.status = "OK" =>
                           (HasFrameId(got.frame.type) <=> "frame_id" \in DOMAIN got.frame.fields)
    BY DEF Delivered
  <2>1. got = Due
    BY DEF IInv, Progress
  <2>2. Sendable(frame.data, frame.says, frame.lossy)
    BY DEF IInv, Traffic
  <2>3. frame.says.status = "OK" =>
          (HasFrameId(frame.says.type) <=> "frame_id" \in DOMAIN frame.says.fields)
    BY <2>2 DEF Sendable
  <2>4. got.frame = Refused \/ got.frame = frame.says
    BY <2>1, Zenon DEF Due, Nothing
  <2>5. Refused.status # "OK"
    BY DEF Refused
  <2> QED BY <2>1, <2>3, <2>4, <2>5
<1> QED BY <1>1, Invariance, PTL

\* After losses the parser can notice xbee_frame_parser_feed() hands up no other data
\* than those that were sent.
THEOREM NoneForged == Spec => []NothingForged
<1>1. IInv => NothingForged
  <2> SUFFICES ASSUME IInv, got.status = "OK", frame.plain PROVE got.data = frame.data
    BY DEF NothingForged
  <2>1. wire = <<>>
    BY DEF IInv, Progress, Nothing
  <2> QED BY <2>1 DEF IInv, Progress
<1> QED BY <1>1, Invariance, PTL
=============================================================================
