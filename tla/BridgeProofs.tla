----------------------------- MODULE BridgeProofs -----------------------------
(***************************************************************************)
(* Proofs about the transparent bridge, for every escape sequence, guard,  *)
(* ring and chunk, and sessions of any length: nothing typed is lost,      *)
(* overtaken or counted twice, and a session ends on the sequence only.    *)
(***************************************************************************)
EXTENDS Bridge, SequenceTheorems, TLAPS

(***************************************************************************)
(* The inductive invariant.                                                *)
(***************************************************************************)
\* f has been forwarded and h escape characters are held back, of what was
\* typed, t.
Follows(f, h, t) ==
  /\ Len(f) + h = Len(t)
  /\ \A k \in 1..Len(f) : f[k] = t[k].char
  /\ \A k \in (Len(f) + 1)..Len(t) : t[k].char = Escape

\* A raw session holds nothing back.  In the others the detector never takes
\* the line for silent longer than it has been, and the run it holds began after
\* a full guard.
GuardInv ==
  IF allowEscape
  THEN since <= silence /\ (held > 0 => typed[Len(typed) - held + 1].after = Guard)
  ELSE held = 0

BridgeInv ==
  /\ TypeOK /\ Counted
  /\ state = "ACTIVE" => Follows(forwarded, held, typed) /\ GuardInv
  /\ state = "OPENING" => ring = 0 /\ typed = <<>> /\ forwarded = <<>>

\* The bridge starts closed and empty.
LEMMA InitInv == Init => BridgeInv
<1> SUFFICES ASSUME Init PROVE BridgeInv
  OBVIOUS
<1>1. TypeOK
  <2>1. /\ EscapeCount \in Nat \ {0, 1} /\ Guard \in Nat \ {0} /\ RingSize \in Nat \ {0}
    BY BridgeAssumption
  <2>2. held \in 0..EscapeCount /\ held # EscapeCount
    BY <2>1 DEF Init
  <2>3. ~armed /\ armed \in BOOLEAN /\ allowEscape \in BOOLEAN
    BY DEF Init
  <2>4. since \in Wrapped..Guard /\ silence \in 0..Guard /\ ring \in 0..(RingSize - 1)
    BY <2>1 DEF Init, Wrapped
  <2>5. typed \in Seq([char : Chars, after : 0..Guard]) /\ forwarded \in Seq(Chars)
    BY DEF Init
  <2>6. toModule \in Nat /\ dropped \in Nat /\ written \in Nat
    BY DEF Init
  <2> QED BY <2>2, <2>3, <2>4, <2>5, <2>6 DEF Init, TypeOK
<1>2. Counted
  BY DEF Init, Counted
<1> QED BY <1>1, <1>2 DEF BridgeInv, Init

(***************************************************************************)
(* What is forwarded follows what is typed.                                *)
(***************************************************************************)
\* n escape characters are a sequence of characters.
LEMMA EscapesType ==
  ASSUME NEW n \in Nat
  PROVE  /\ Escapes(n) \in Seq(Chars) /\ Len(Escapes(n)) = n
         /\ \A k \in 1..n : Escapes(n)[k] = Escape
BY DEF Escapes, Chars

\* Releasing what is held back.
LEMMA ReleaseFollows ==
  ASSUME NEW f \in Seq(Chars), NEW h \in Nat, NEW T, NEW t \in Seq(T), Follows(f, h, t)
  PROVE  Follows(f \o Escapes(h), 0, t) /\ f \o Escapes(h) \in Seq(Chars)
<1> DEFINE g == f \o Escapes(h)
<1>1. /\ g \in Seq(Chars) /\ Len(g) = Len(f) + h /\ Len(f) \in Nat
      /\ \A k \in 1..(Len(f) + h) :
           g[k] = IF k <= Len(f) THEN f[k] ELSE Escapes(h)[k - Len(f)]
  <2> DEFINE e == Escapes(h)
  <2>1. e \in Seq(Chars) /\ Len(e) = h
    BY EscapesType
  <2> HIDE DEF e
  <2>2. /\ f \o e \in Seq(Chars) /\ Len(f \o e) = Len(f) + Len(e)
        /\ \A k \in 1..(Len(f) + Len(e)) :
             (f \o e)[k] = IF k <= Len(f) THEN f[k] ELSE e[k - Len(f)]
    BY <2>1, ConcatProperties
  <2> QED BY <2>1, <2>2 DEF e
<1> HIDE DEF g
<1>2. ASSUME NEW k \in 1..Len(g)
      PROVE  g[k] = t[k].char
  <2>1. k \in 1..(Len(f) + h)
    BY <1>1
  <2>2. CASE k <= Len(f)
    BY <1>1, <2>1, <2>2 DEF Follows
  <2>3. CASE ~(k <= Len(f))
    <3>1. k - Len(f) \in 1..h /\ k \in (Len(f) + 1)..Len(t)
      BY <1>1, <2>1, <2>3 DEF Follows
    <3>2. g[k] = Escape
      BY <1>1, <2>1, <2>3, <3>1, EscapesType
    <3> QED BY <3>1, <3>2 DEF Follows
  <2> QED BY <2>2, <2>3
<1>3. Len(g) + 0 = Len(t) /\ (Len(g) + 1)..Len(t) = {}
  BY <1>1 DEF Follows
<1> QED BY <1>1, <1>2, <1>3 DEF Follows, g

\* Forwarding a character when nothing is held back.
LEMMA CharFollows ==
  ASSUME NEW f \in Seq(Chars), NEW T, NEW t \in Seq(T), NEW x \in T, NEW c \in Chars,
         x.char = c, Follows(f, 0, t)
  PROVE  Follows(f \o <<c>>, 0, Append(t, x)) /\ f \o <<c>> \in Seq(Chars)
<1> DEFINE g == f \o <<c>>
           u == Append(t, x)
<1>1. <<c>> \in Seq(Chars) /\ Len(<<c>>) = 1 /\ <<c>>[1] = c
  OBVIOUS
<1>2. /\ g \in Seq(Chars) /\ Len(g) = Len(f) + 1 /\ Len(f) \in Nat
      /\ \A k \in 1..(Len(f) + 1) : g[k] = IF k <= Len(f) THEN f[k] ELSE <<c>>[k - Len(f)]
  BY <1>1, ConcatProperties
<1>3. /\ u \in Seq(T) /\ Len(u) = Len(t) + 1 /\ u[Len(t) + 1] = x
      /\ \A k \in 1..Len(t) : u[k] = t[k]
  BY AppendProperties
<1>4. Len(t) = Len(f) /\ \A k \in 1..Len(f) : f[k] = t[k].char
  BY <1>2 DEF Follows
<1> HIDE DEF g, u
<1>5. ASSUME NEW k \in 1..Len(g)
      PROVE  g[k] = u[k].char
  <2>1. CASE k <= Len(f)
    <3>1. k \in 1..Len(f) /\ k \in 1..(Len(f) + 1)
      BY <1>2, <2>1
    <3>2. g[k] = f[k] /\ u[k] = t[k]
      BY <1>2, <1>3, <1>4, <2>1, <3>1
    <3> QED BY <1>4, <3>1, <3>2
  <2>2. CASE k = Len(f) + 1
    <3>1. k \in 1..(Len(f) + 1) /\ ~(k <= Len(f)) /\ k - Len(f) = 1
      BY <1>2, <2>2
    <3>2. g[k] = <<c>>[1]
      BY <1>2, <3>1
    <3> QED BY <1>1, <1>3, <1>4, <2>2, <3>2
  <2> QED BY <1>2, <2>1, <2>2
<1>6. Len(g) + 0 = Len(u) /\ (Len(g) + 1)..Len(u) = {}
  BY <1>2, <1>3, <1>4
<1> QED BY <1>2, <1>5, <1>6 DEF Follows, g, u

\* Holding an escape character back.
LEMMA HoldFollows ==
  ASSUME NEW f \in Seq(Chars), NEW h \in Nat, NEW T, NEW t \in Seq(T), NEW x \in T,
         x.char = Escape, Follows(f, h, t)
  PROVE  Follows(f, h + 1, Append(t, x))
<1> DEFINE u == Append(t, x)
<1>1. /\ u \in Seq(T) /\ Len(u) = Len(t) + 1 /\ u[Len(t) + 1] = x
      /\ \A k \in 1..Len(t) : u[k] = t[k]
  BY AppendProperties
<1>2. /\ Len(f) \in Nat /\ Len(t) \in Nat /\ Len(f) + h = Len(t)
      /\ \A k \in 1..Len(f) : f[k] = t[k].char
      /\ \A k \in (Len(f) + 1)..Len(t) : t[k].char = Escape
  BY DEF Follows
<1> HIDE DEF u
<1>3. \A k \in 1..Len(f) : k \in 1..Len(t)
  BY <1>2
<1>4. ASSUME NEW k \in (Len(f) + 1)..Len(u)
      PROVE  u[k].char = Escape
  <2>1. CASE k = Len(t) + 1
    BY <1>1, <2>1
  <2>2. CASE k # Len(t) + 1
    <3>1. k \in (Len(f) + 1)..Len(t) /\ k \in 1..Len(t)
      BY <1>1, <1>2, <2>2
    <3> QED BY <1>1, <1>2, <3>1
  <2> QED BY <2>1, <2>2
<1>5. Len(f) + (h + 1) = Len(u)
  BY <1>1, <1>2
<1> QED BY <1>1, <1>2, <1>3, <1>4, <1>5 DEF Follows, u

\* What is forwarded and what is held back are what was typed.
LEMMA FollowsInOrder ==
  ASSUME NEW f \in Seq(Chars), NEW h \in Nat,
         NEW T, \A x \in T : x.char \in Chars, NEW t \in Seq(T), Follows(f, h, t)
  PROVE  f \o Escapes(h) = [k \in 1..Len(t) |-> t[k].char]
<1> DEFINE g == f \o Escapes(h)
           u == [k \in 1..Len(t) |-> t[k].char]
<1>1. Follows(g, 0, t) /\ g \in Seq(Chars)
  BY ReleaseFollows
<1>2. Len(t) \in Nat /\ Len(g) \in Nat
  BY <1>1
<1>3. u \in Seq(Chars) /\ Len(u) = Len(t) /\ \A k \in 1..Len(t) : u[k] = t[k].char
  <2>1. \A k \in 1..Len(t) : t[k] \in T
    BY <1>2
  <2>2. \A k \in 1..Len(t) : t[k].char \in Chars
    BY <2>1
  <2> QED BY <1>2, <2>2
<1> HIDE DEF g, u
<1>4. Len(g) = Len(u) /\ \A k \in 1..Len(g) : g[k] = u[k]
  BY <1>1, <1>2, <1>3 DEF Follows
<1>5. g = u
  BY <1>1, <1>3, <1>4, SeqEqual
<1> QED BY <1>5 DEF g, u

(***************************************************************************)
(* The ring and the driver.                                                *)
(***************************************************************************)
\* However much of it fits, goes out or is refused, what is queued is counted.
LEMMA QueueCounts ==
  ASSUME TypeOK, Counted, NEW bytes \in Seq(Chars), NEW before \in BOOLEAN,
         QueueAndTransmit(bytes, before)
  PROVE  /\ ring' \in 0..(RingSize - 1) /\ toModule' \in Nat /\ dropped' \in Nat
         /\ written' \in Nat /\ Counted'
         /\ forwarded' = forwarded \o bytes /\ forwarded' \in Seq(Chars)
<1> DEFINE n0 == Len(bytes)
           inside == Least(n0, RingSize - 1 - ring)
<1>1. PICK n \in 0..Chunk, refused \in BOOLEAN :
        /\ n \in {0, Least(Chunk, IF before THEN ring + inside ELSE ring)}
        /\ LET stored == IF before THEN inside ELSE Least(n0, RingSize - 1 - (ring - n))
           IN /\ ring' = ring - n + stored
              /\ Count(n0, n0 - stored, IF refused THEN n ELSE 0)
        /\ written' = IF refused THEN written ELSE written + n
        /\ forwarded' = forwarded \o bytes
  BY DEF QueueAndTransmit
<1> DEFINE stored == IF before THEN inside ELSE Least(n0, RingSize - 1 - (ring - n))
           back == IF refused THEN n ELSE 0
<1>2. /\ ring' = ring - n + stored
      /\ toModule' = toModule + n0 - (n0 - stored) - back
      /\ dropped' = dropped + (n0 - stored) + back
      /\ written' = written + (n - back)
  <2>1. /\ ring' = ring - n + stored
        /\ toModule' = toModule + n0 - (n0 - stored) - back
        /\ dropped' = dropped + (n0 - stored) + back
    BY <1>1 DEF Count
  <2>2. written \in Nat
    BY DEF TypeOK
  <2> QED BY <1>1, <2>1, <2>2
<1>3. /\ n0 \in Nat /\ RingSize \in Nat \ {0} /\ Chunk \in Nat \ {0} /\ n \in Nat
      /\ ring \in 0..(RingSize - 1)
  BY <1>1, BridgeAssumption DEF TypeOK
<1>4. /\ inside \in Nat /\ inside <= n0 /\ ring + inside <= RingSize - 1
  BY <1>3 DEF Least
<1> HIDE DEF inside
<1>5. n <= (IF before THEN ring + inside ELSE ring)
  BY <1>1, <1>3, <1>4 DEF Least
<1>6. stored \in Nat /\ stored <= n0 /\ ring - n + stored \in 0..(RingSize - 1)
  <2>1. CASE before
    BY <1>3, <1>4, <1>5, <2>1
  <2>2. CASE ~before
    BY <1>3, <1>5, <2>2 DEF Least
  <2> QED BY <2>1, <2>2
<1>7. back \in 0..n
  BY <1>3
<1> HIDE DEF stored, back, n0
<1>8. /\ toModule \in Nat /\ dropped \in Nat /\ written \in Nat /\ forwarded \in Seq(Chars)
      /\ toModule = written + ring /\ toModule + dropped = Len(forwarded)
  BY DEF TypeOK, Counted
<1>9. ring' \in 0..(RingSize - 1) /\ written' \in Nat
  BY <1>2, <1>3, <1>6, <1>7, <1>8
<1>10. toModule' = written' + ring' /\ toModule' \in Nat
  BY <1>2, <1>3, <1>6, <1>7, <1>8
<1>11. dropped' \in Nat /\ toModule' + dropped' = toModule + dropped + n0
  BY <1>2, <1>3, <1>6, <1>7, <1>8
<1>12. forwarded' \in Seq(Chars) /\ Len(forwarded') = Len(forwarded) + n0
  BY <1>1, <1>8, ConcatProperties DEF n0
<1> QED BY <1>1, <1>8, <1>9, <1>10, <1>11, <1>12 DEF Counted

(***************************************************************************)
(* The steps.                                                              *)
(***************************************************************************)
Typing == [char : Chars, after : 0..Guard]

\* The parts of the type invariant that SMT is given one at a time.
LEMMA Types ==
  ASSUME TypeOK
  PROVE  /\ EscapeCount \in Nat /\ EscapeCount > 1 /\ Guard \in Nat /\ Guard > 0
         /\ held \in 0..EscapeCount /\ since \in Int /\ -1 <= since /\ since <= Guard
         /\ silence \in 0..Guard /\ typed \in Seq(Typing) /\ forwarded \in Seq(Chars)
<1>1. EscapeCount \in Nat \ {0, 1} /\ Guard \in Nat \ {0}
  BY BridgeAssumption
<1>2. since \in Int /\ -1 <= since /\ since <= Guard
  BY <1>1 DEF TypeOK, Wrapped
<1> QED BY <1>1, <1>2 DEF TypeOK, Typing

\* A byte that was typed takes its place at the end of the history.
LEMMA TypedByteDoes ==
  ASSUME TypeOK, NEW c \in Chars, TypedByte(c)
  PROVE  LET x == [char |-> c, after |-> silence]
         IN /\ x \in Typing /\ x.char = c /\ x.after = silence
            /\ typed' = Append(typed, x) /\ typed' \in Seq(Typing)
            /\ Len(typed) \in Nat /\ Len(typed') = Len(typed) + 1
            /\ typed'[Len(typed) + 1] = x
            /\ \A k \in 1..Len(typed) : typed'[k] = typed[k]
            /\ state = "ACTIVE" /\ state' = "ACTIVE" /\ allowEscape' = allowEscape
            /\ silence' = 0
<1> DEFINE x == [char |-> c, after |-> silence]
<1>1. x \in Typing /\ x.char = c /\ x.after = silence
  BY Types DEF Typing
<1>2. /\ typed' = Append(typed, x) /\ state = "ACTIVE" /\ state' = "ACTIVE"
      /\ allowEscape' = allowEscape /\ silence' = 0
  BY DEF TypedByte, Active
<1> HIDE DEF x
<1>3. typed \in Seq(Typing)
  BY Types
<1>4. /\ typed' \in Seq(Typing) /\ Len(typed) \in Nat /\ Len(typed') = Len(typed) + 1
      /\ typed'[Len(typed) + 1] = x /\ \A k \in 1..Len(typed) : typed'[k] = typed[k]
  BY <1>1, <1>2, <1>3, AppendProperties
<1> QED BY <1>1, <1>2, <1>4 DEF x

\* A character in a raw session.
LEMMA RawStep ==
  ASSUME BridgeInv, NEW c \in Chars, PassRaw(c)
  PROVE  BridgeInv'
<1>1. /\ TypedByte(c) /\ ~allowEscape /\ QueueAndTransmit(<<c>>, TRUE)
      /\ held' = held /\ armed' = armed /\ since' = since
  BY DEF PassRaw, detector
<1>2. TypeOK /\ Counted
  BY DEF BridgeInv
<1> DEFINE x == [char |-> c, after |-> silence]
<1>3. /\ x \in Typing /\ x.char = c /\ typed' = Append(typed, x) /\ typed' \in Seq(Typing)
      /\ state = "ACTIVE" /\ state' = "ACTIVE" /\ allowEscape' = allowEscape
      /\ silence' = 0
  BY <1>1, <1>2, TypedByteDoes
<1> HIDE DEF x
<1>4. <<c>> \in Seq(Chars)
  OBVIOUS
<1>5. /\ ring' \in 0..(RingSize - 1) /\ toModule' \in Nat /\ dropped' \in Nat
      /\ written' \in Nat /\ Counted'
      /\ forwarded' = forwarded \o <<c>> /\ forwarded' \in Seq(Chars)
  BY <1>1, <1>2, <1>4, QueueCounts
<1>6. held = 0 /\ Follows(forwarded, held, typed)
  BY <1>1, <1>3 DEF BridgeInv, GuardInv
<1>7. Follows(forwarded', held', typed')
  BY <1>1, <1>2, <1>3, <1>5, <1>6, CharFollows, Types
<1>8. GuardInv'
  BY <1>1, <1>3, <1>6 DEF GuardInv
<1>9. silence' \in 0..Guard
  BY <1>2, <1>3, Types
<1>10. TypeOK'
  BY <1>1, <1>2, <1>3, <1>5, <1>9 DEF TypeOK, Typing
<1> QED BY <1>3, <1>5, <1>7, <1>8, <1>10 DEF BridgeInv

\* An escape character that is held back: the first of a run follows a guard.
LEMMA HoldStep ==
  ASSUME BridgeInv, NEW c \in Chars, PassHolds(c)
  PROVE  BridgeInv'
<1>1. /\ TypedByte(c) /\ allowEscape /\ Holds(c) /\ QueueAndTransmit(<<>>, TRUE)
      /\ held' = held + 1 /\ armed' = (held + 1 >= EscapeCount) /\ since' = 0
  BY DEF PassHolds, Hold
<1>2. TypeOK /\ Counted
  BY DEF BridgeInv
<1> DEFINE x == [char |-> c, after |-> silence]
<1>3. /\ x \in Typing /\ x.char = c /\ x.after = silence
      /\ typed' = Append(typed, x) /\ typed' \in Seq(Typing)
      /\ Len(typed) \in Nat /\ Len(typed') = Len(typed) + 1
      /\ typed'[Len(typed) + 1] = x /\ \A k \in 1..Len(typed) : typed'[k] = typed[k]
      /\ state = "ACTIVE" /\ state' = "ACTIVE" /\ allowEscape' = allowEscape
      /\ silence' = 0
  BY <1>1, <1>2, TypedByteDoes
<1> HIDE DEF x
<1>4. /\ ring' \in 0..(RingSize - 1) /\ toModule' \in Nat /\ dropped' \in Nat
      /\ written' \in Nat /\ Counted'
      /\ forwarded' = forwarded \o <<>> /\ forwarded' \in Seq(Chars)
  <2>1. <<>> \in Seq(Chars)
    OBVIOUS
  <2> QED BY <1>1, <1>2, <2>1, QueueCounts
<1>5. forwarded' = forwarded
  BY <1>2, <1>4, ConcatEmptySeq, Types
<1>6. /\ Follows(forwarded, held, typed) /\ since <= silence
      /\ held > 0 => typed[Len(typed) - held + 1].after = Guard
  BY <1>1, <1>3 DEF BridgeInv, GuardInv
<1>7. c = Escape /\ ~armed /\ (held > 0 \/ since >= Guard)
  BY <1>1 DEF Holds, Elapsed
<1>8. held \in 0..EscapeCount /\ held # EscapeCount /\ EscapeCount \in Nat
  BY <1>2, <1>7, Types DEF TypeOK
<1>9. /\ held' \in 0..EscapeCount /\ armed' \in BOOLEAN /\ (armed' <=> held' = EscapeCount)
  <2>1. held' \in 0..EscapeCount /\ (held + 1 >= EscapeCount <=> held' = EscapeCount)
    BY <1>1, <1>8
  <2>2. CASE held + 1 >= EscapeCount
    BY <1>1, <2>1, <2>2
  <2>3. CASE ~(held + 1 >= EscapeCount)
    <3>1. armed' = FALSE
      <4>1. (held + 1 >= EscapeCount) \in BOOLEAN
        BY <1>8, SMT
      <4> QED BY <1>1, <2>3, <4>1
    <3> QED BY <2>1, <2>3, <3>1
  <2> QED BY <2>2, <2>3
<1>10. Follows(forwarded', held', typed')
  <2>1. forwarded \in Seq(Chars) /\ held \in Nat /\ typed \in Seq(Typing)
    BY <1>2, Types
  <2>2. x.char = Escape
    BY <1>3, <1>7
  <2>3. Follows(forwarded, held + 1, Append(typed, x))
    BY <1>3, <1>6, <2>1, <2>2, HoldFollows
  <2> QED BY <1>1, <1>3, <1>5, <2>3
<1>11. GuardInv'
  <2>1. typed'[Len(typed') - held' + 1].after = Guard
    <3>0. Len(forwarded) \in Nat /\ Len(forwarded) + held = Len(typed)
      BY <1>2, <1>6, Types DEF Follows
    <3>1. CASE held = 0
      <4>1. silence = Guard
        BY <1>2, <1>6, <1>7, <3>1, Types
      <4>2. Len(typed') - held' + 1 = Len(typed) + 1
        BY <1>1, <1>3, <3>1
      <4> QED BY <1>3, <4>1, <4>2
    <3>2. CASE held # 0
      <4>1. /\ Len(typed') - held' + 1 = Len(typed) - held + 1
            /\ Len(typed) - held + 1 \in 1..Len(typed) /\ held > 0
        BY <1>1, <1>3, <1>8, <3>0, <3>2
      <4> QED BY <1>3, <1>6, <4>1
    <3> QED BY <3>1, <3>2
  <2> QED BY <1>1, <1>3, <2>1 DEF GuardInv
<1>12. silence' \in 0..Guard /\ since' \in Wrapped..Guard
  BY <1>1, <1>2, <1>3, Types DEF Wrapped
<1>13. TypeOK'
  BY <1>2, <1>3, <1>4, <1>9, <1>12 DEF TypeOK, Typing
<1> QED BY <1>3, <1>4, <1>10, <1>11, <1>13 DEF BridgeInv

\* A character that is no part of the sequence releases what is held, then goes.
LEMMA ForwardStep ==
  ASSUME BridgeInv, NEW c \in Chars, PassForwards(c)
  PROVE  BridgeInv'
<1>1. /\ TypedByte(c) /\ allowEscape /\ QueueAndTransmit(Release(c), TRUE)
      /\ held' = 0 /\ armed' = FALSE /\ since' = 0
  BY DEF PassForwards
<1>2. TypeOK /\ Counted
  BY DEF BridgeInv
<1> DEFINE x == [char |-> c, after |-> silence]
<1>3. /\ x \in Typing /\ x.char = c /\ typed' = Append(typed, x) /\ typed' \in Seq(Typing)
      /\ state = "ACTIVE" /\ state' = "ACTIVE" /\ allowEscape' = allowEscape
      /\ silence' = 0
  BY <1>1, <1>2, TypedByteDoes
<1> HIDE DEF x
<1>4. /\ held \in Nat /\ EscapeCount \in Nat /\ EscapeCount > 1 /\ typed \in Seq(Typing)
      /\ forwarded \in Seq(Chars) /\ Guard \in Nat
  BY <1>2, Types
<1>5. Escapes(held) \in Seq(Chars) /\ <<c>> \in Seq(Chars)
  BY <1>4, EscapesType
<1>6. Release(c) \in Seq(Chars)
  BY <1>5, ConcatProperties DEF Release
<1>7. /\ ring' \in 0..(RingSize - 1) /\ toModule' \in Nat /\ dropped' \in Nat
      /\ written' \in Nat /\ Counted'
      /\ forwarded' = forwarded \o Release(c) /\ forwarded' \in Seq(Chars)
  BY <1>1, <1>2, <1>6, QueueCounts
<1>8. forwarded' = (forwarded \o Escapes(held)) \o <<c>>
  BY <1>4, <1>5, <1>7, ConcatAssociative DEF Release
<1>9. Follows(forwarded', held', typed')
  <2>1. /\ Follows(forwarded \o Escapes(held), 0, typed)
        /\ forwarded \o Escapes(held) \in Seq(Chars)
    BY <1>3, <1>4, ReleaseFollows DEF BridgeInv
  <2>2. Follows((forwarded \o Escapes(held)) \o <<c>>, 0, Append(typed, x))
    BY <1>3, <1>4, <2>1, CharFollows
  <2> QED BY <1>1, <1>3, <1>8, <2>2
<1>10. GuardInv'
  BY <1>1, <1>3 DEF GuardInv
<1>11. /\ silence' \in 0..Guard /\ since' \in Wrapped..Guard /\ held' \in 0..EscapeCount
       /\ held' # EscapeCount
  BY <1>1, <1>3, <1>4 DEF Wrapped
<1>12. TypeOK'
  <2>1. armed' \in BOOLEAN /\ (armed' <=> held' = EscapeCount)
    BY <1>1, <1>11
  <2>2. state' \in {"OFF", "OPENING", "ACTIVE"} /\ allowEscape' \in BOOLEAN
    BY <1>2, <1>3 DEF TypeOK
  <2> QED BY <1>3, <1>7, <1>11, <2>1, <2>2 DEF TypeOK, Typing
<1> QED BY <1>3, <1>7, <1>9, <1>10, <1>12 DEF BridgeInv

\* Passes that read nothing: whether they wait, release or leave.
LEMMA QuietStep ==
  ASSUME BridgeInv, PassWaits \/ PassReleases \/ PassExits
  PROVE  BridgeInv'
<1>1. /\ state = "ACTIVE" /\ allowEscape' = allowEscape
      /\ UNCHANGED <<since, typed, silence>>
  BY DEF PassWaits, PassReleases, PassExits, Active
<1>2. TypeOK /\ Counted /\ Follows(forwarded, held, typed) /\ GuardInv
  BY <1>1 DEF BridgeInv
<1>3. /\ held \in Nat /\ held \in 0..EscapeCount /\ EscapeCount \in Nat /\ EscapeCount > 1
      /\ typed \in Seq(Typing) /\ forwarded \in Seq(Chars)
  BY <1>2, Types
<1>4. <<>> \in Seq(Chars) /\ Escapes(held) \in Seq(Chars) /\ forwarded \o <<>> = forwarded
  BY <1>3, EscapesType, ConcatEmptySeq
<1>5. CASE PassWaits
  <2>1. state' = state /\ held' = held /\ armed' = armed /\ QueueAndTransmit(<<>>, FALSE)
    BY <1>5 DEF PassWaits, detector
  <2>2. /\ ring' \in 0..(RingSize - 1) /\ toModule' \in Nat /\ dropped' \in Nat
        /\ written' \in Nat /\ Counted' /\ forwarded' = forwarded
    BY <1>2, <1>4, <2>1, QueueCounts
  <2>3. TypeOK'
    BY <1>1, <1>2, <2>1, <2>2 DEF TypeOK
  <2>4. Follows(forwarded', held', typed') /\ GuardInv'
    BY <1>1, <1>2, <2>1, <2>2 DEF GuardInv
  <2> QED BY <1>1, <2>1, <2>2, <2>3, <2>4 DEF BridgeInv
<1>6. CASE PassReleases
  <2>1. /\ state' = state /\ held' = 0 /\ armed' = armed /\ ~armed
        /\ QueueAndTransmit(Escapes(held), FALSE)
    BY <1>6 DEF PassReleases
  <2>2. /\ ring' \in 0..(RingSize - 1) /\ toModule' \in Nat /\ dropped' \in Nat
        /\ written' \in Nat /\ Counted' /\ forwarded' = forwarded \o Escapes(held)
        /\ forwarded' \in Seq(Chars)
    BY <1>2, <1>4, <2>1, QueueCounts
  <2>3. held' \in 0..EscapeCount /\ held' # EscapeCount
    BY <1>3, <2>1
  <2>4. TypeOK'
    BY <1>1, <1>2, <2>1, <2>2, <2>3 DEF TypeOK
  <2>5. Follows(forwarded', held', typed')
    BY <1>1, <1>2, <1>3, <2>1, <2>2, ReleaseFollows
  <2>6. GuardInv'
    BY <1>1, <1>2, <2>1 DEF GuardInv
  <2> QED BY <1>1, <2>1, <2>2, <2>4, <2>5, <2>6 DEF BridgeInv
<1>7. CASE PassExits
  <2>1. state' = "OFF" /\ held' = 0 /\ armed' = FALSE /\ QueueAndTransmit(<<>>, FALSE)
    BY <1>7 DEF PassExits
  <2>2. /\ ring' \in 0..(RingSize - 1) /\ toModule' \in Nat /\ dropped' \in Nat
        /\ written' \in Nat /\ Counted' /\ forwarded' = forwarded
    BY <1>2, <1>4, <2>1, QueueCounts
  <2>3. held' \in 0..EscapeCount /\ held' # EscapeCount
    BY <1>3, <2>1
  <2>4. TypeOK'
    <3>1. armed' \in BOOLEAN /\ (armed' <=> held' = EscapeCount)
      BY <2>1, <2>3
    <3>2. state' \in {"OFF", "OPENING", "ACTIVE"} /\ allowEscape' \in BOOLEAN
      BY <1>1, <1>2, <2>1 DEF TypeOK
    <3> QED BY <1>1, <1>2, <2>2, <2>3, <3>1, <3>2 DEF TypeOK
  <2> QED BY <2>1, <2>2, <2>4 DEF BridgeInv
<1> QED BY <1>5, <1>6, <1>7

\* Opening a session empties the ring and the detector, and forgets the last one.
LEMMA OpenStep ==
  ASSUME BridgeInv, Enter \/ Opened
  PROVE  BridgeInv'
<1>1. TypeOK /\ Counted
  BY DEF BridgeInv
<1>2. /\ EscapeCount \in Nat /\ EscapeCount > 1 /\ Guard \in Nat /\ RingSize \in Nat \ {0}
  BY <1>1, Types, BridgeAssumption
<1>3. CASE Enter
  <2>1. /\ allowEscape' \in BOOLEAN /\ toModule' = 0 /\ dropped' = 0 /\ typed' = <<>>
        /\ forwarded' = <<>> /\ written' = 0 /\ silence' = 0 /\ ring' = 0
        /\ \/ state' = "OPENING" /\ held' = held /\ armed' = armed /\ since' = since
           \/ state' = "ACTIVE" /\ held' = 0 /\ armed' = FALSE /\ since' = 0
    BY <1>3 DEF Enter, BeginActive, detector
  <2>2. Counted'
    BY <2>1 DEF Counted
  <2>3. TypeOK'
    <3>1. typed' \in Seq([char : Chars, after : 0..Guard]) /\ forwarded' \in Seq(Chars)
      BY <2>1
    <3>2. silence' \in 0..Guard /\ ring' \in 0..(RingSize - 1) /\ 0 \in 0..EscapeCount
          /\ 0 # EscapeCount /\ 0 \in Wrapped..Guard
      BY <1>2, <2>1 DEF Wrapped
    <3>3. held' \in 0..EscapeCount /\ since' \in Wrapped..Guard
      BY <1>1, <2>1, <3>2 DEF TypeOK
    <3>4. armed' \in BOOLEAN /\ (armed' <=> held' = EscapeCount)
      <4>1. CASE held' = held /\ armed' = armed
        BY <1>1, <4>1 DEF TypeOK
      <4>2. CASE held' = 0 /\ armed' = FALSE
        BY <3>2, <4>2
      <4> QED BY <2>1, <4>1, <4>2
    <3>5. /\ toModule' \in Nat /\ dropped' \in Nat /\ written' \in Nat
          /\ allowEscape' \in BOOLEAN /\ state' \in {"OFF", "OPENING", "ACTIVE"}
      BY <2>1
    <3> QED BY <3>1, <3>2, <3>3, <3>4, <3>5 DEF TypeOK
  <2>4. state' = "ACTIVE" => Follows(forwarded', held', typed') /\ GuardInv'
    BY <2>1 DEF Follows, GuardInv
  <2> QED BY <2>1, <2>2, <2>3, <2>4 DEF BridgeInv
<1>4. CASE Opened
  <2>1. /\ state' = "ACTIVE" /\ held' = 0 /\ armed' = FALSE /\ since' = 0 /\ ring' = 0
        /\ silence' = 0
        /\ UNCHANGED <<allowEscape, toModule, dropped, typed, forwarded, written>>
    BY <1>4 DEF Opened, BeginActive
  <2>2. ring = 0 /\ typed = <<>> /\ forwarded = <<>>
    BY <1>4 DEF BridgeInv, Opened
  <2>3. Counted'
    BY <1>1, <2>1, <2>2 DEF Counted
  <2>4. Follows(forwarded', held', typed') /\ GuardInv'
    BY <2>1, <2>2 DEF Follows, GuardInv
  <2>5. TypeOK'
    <3>1. 0 \in 0..Guard /\ 0 \in 0..(RingSize - 1) /\ 0 \in 0..EscapeCount
          /\ 0 # EscapeCount /\ 0 \in Wrapped..Guard
      BY <1>2 DEF Wrapped
    <3>2. armed' \in BOOLEAN /\ (armed' <=> held' = EscapeCount)
      BY <2>1, <3>1
    <3>3. state' \in {"OFF", "OPENING", "ACTIVE"}
      BY <2>1
    <3> QED BY <1>1, <2>1, <3>1, <3>2, <3>3 DEF TypeOK
  <2> QED BY <2>1, <2>3, <2>4, <2>5 DEF BridgeInv
<1> QED BY <1>3, <1>4

\* Time passing, or jumping.
LEMMA TimeStep ==
  ASSUME BridgeInv, Tick \/ ClockWraps
  PROVE  BridgeInv'
<1>1. /\ state = "ACTIVE" /\ state' = state /\ allowEscape' = allowEscape
      /\ held' = held /\ armed' = armed /\ ring' = ring /\ toModule' = toModule
      /\ dropped' = dropped /\ typed' = typed /\ forwarded' = forwarded /\ written' = written
  BY DEF Tick, ClockWraps, Active, detector, history
<1>2. TypeOK /\ Counted /\ Follows(forwarded, held, typed) /\ GuardInv
  BY <1>1 DEF BridgeInv
<1>3. /\ since \in Int /\ -1 <= since /\ since <= Guard /\ silence \in 0..Guard
      /\ Guard \in Nat
  BY <1>2, Types
<1>4. /\ since' \in Wrapped..Guard /\ silence' \in 0..Guard
      /\ since <= silence => since' <= silence'
  <2>1. CASE Tick
    <3>1. /\ silence' = Least(silence + 1, Guard)
          /\ since' = IF since = Wrapped THEN Wrapped ELSE Least(since + 1, Guard)
      BY <2>1 DEF Tick
    <3> QED BY <1>3, <3>1 DEF Least, Wrapped
  <2>2. CASE ClockWraps
    <3>1. silence' = silence /\ since' = -1
      BY <2>2 DEF ClockWraps, history, Wrapped
    <3> QED BY <1>3, <3>1 DEF Wrapped
  <2> QED BY <2>1, <2>2
<1>5. TypeOK'
  BY <1>1, <1>2, <1>4 DEF TypeOK
<1>6. Counted' /\ Follows(forwarded', held', typed') /\ GuardInv'
  BY <1>1, <1>2, <1>4 DEF Counted, GuardInv
<1> QED BY <1>1, <1>5, <1>6 DEF BridgeInv

(***************************************************************************)
(* The theorems.                                                           *)
(***************************************************************************)
\* The bridge keeps the invariant, whatever is typed and whatever the driver
\* refuses.
THEOREM Invariance == Spec => []BridgeInv
<1>1. ASSUME BridgeInv, [Next]_vars
      PROVE  BridgeInv'
  <2>1. CASE Enter \/ Opened
    BY <1>1, <2>1, OpenStep
  <2>2. CASE \E c \in Chars : PassRaw(c) \/ PassHolds(c) \/ PassForwards(c)
    BY <1>1, <2>2, RawStep, HoldStep, ForwardStep
  <2>3. CASE PassWaits \/ PassReleases \/ PassExits
    BY <1>1, <2>3, QuietStep
  <2>4. CASE Tick \/ ClockWraps
    BY <1>1, <2>4, TimeStep
  <2>5. CASE UNCHANGED vars
    <3>1. UNCHANGED <<state, allowEscape, held, armed, since, ring, toModule, dropped,
                      typed, forwarded, written, silence>>
      BY <2>5 DEF vars, detector, history
    <3>2. TypeOK' /\ Counted'
      BY <1>1, <3>1 DEF BridgeInv, TypeOK, Counted
    <3>3. state' = "ACTIVE" => Follows(forwarded', held', typed') /\ GuardInv'
      BY <1>1, <3>1 DEF BridgeInv, GuardInv
    <3> QED BY <1>1, <3>1, <3>2, <3>3 DEF BridgeInv
  <2> QED BY <1>1, <2>1, <2>2, <2>3, <2>4, <2>5 DEF Next, Pass
<1> QED BY InitInv, <1>1, PTL DEF Spec

\* What is typed reaches the ring in order, each byte once, and what is missing is
\* what the detector holds (xbee_bridge_escape_feed() and _idle()).
THEOREM NothingOvertakes == Spec => []InOrder
<1>1. BridgeInv => InOrder
  <2> SUFFICES ASSUME BridgeInv, state = "ACTIVE"
               PROVE  forwarded \o Escapes(held) = [k \in 1..Len(typed) |-> typed[k].char]
    BY DEF BridgeInv, InOrder
  <2>1. TypeOK /\ Follows(forwarded, held, typed)
    BY DEF BridgeInv
  <2>2. forwarded \in Seq(Chars) /\ held \in Nat /\ typed \in Seq(Typing)
    BY <2>1, Types
  <2>3. \A x \in Typing : x.char \in Chars
    BY DEF Typing
  <2> QED BY <2>1, <2>2, <2>3, FollowsInOrder
<1> QED BY Invariance, <1>1, PTL

\* Each byte queued counts as sent or as dropped, once (queue_for_module() and
\* service_module_tx()).
THEOREM CountsAgree == Spec => []Counted
<1>1. BridgeInv => Counted
  BY DEF BridgeInv
<1> QED BY Invariance, <1>1, PTL

\* Nothing but the sequence, between two guards, ends a session, even if the
\* clock wraps in the middle of it (guard_elapsed()).
THEOREM LeftOnSequence == Spec => ExitOnSequence
<1> DEFINE n == Len(typed)
           Sequence == /\ allowEscape /\ silence = Guard /\ n >= EscapeCount
                       /\ typed[n - EscapeCount + 1].after = Guard
                       /\ \A k \in (n - EscapeCount + 1)..n : typed[k].char = Escape
<1>1. ASSUME BridgeInv, [Next]_vars, state = "ACTIVE", state' = "OFF"
      PROVE  Sequence
  <2>1. PassExits
    BY <1>1 DEF Next, Pass, Enter, Opened, BeginActive, PassRaw, PassHolds, PassForwards,
       TypedByte, PassWaits, PassReleases, Tick, ClockWraps, Active, vars
  <2>2. allowEscape /\ held > 0 /\ since >= Guard /\ armed
    BY <2>1 DEF PassExits, Due, Elapsed
  <2>3. TypeOK /\ Follows(forwarded, held, typed) /\ GuardInv
    BY <1>1 DEF BridgeInv
  <2>4. /\ held = EscapeCount /\ EscapeCount \in Nat /\ since \in Int /\ silence \in 0..Guard
        /\ Guard \in Nat /\ Len(forwarded) \in Nat /\ n \in Nat
    BY <2>2, <2>3, Types DEF TypeOK
  <2>5. since <= silence /\ typed[n - held + 1].after = Guard
    BY <2>2, <2>3 DEF GuardInv
  <2>6. Len(forwarded) = n - EscapeCount
    BY <2>3, <2>4 DEF Follows
  <2> QED BY <2>2, <2>3, <2>4, <2>5, <2>6 DEF Follows
<1>2. ASSUME BridgeInv, [Next]_vars
      PROVE  [state = "ACTIVE" /\ state' = "OFF" => Sequence]_vars
  BY <1>1, <1>2
<1> QED BY Invariance, <1>2, PTL DEF Spec, ExitOnSequence
===============================================================================
