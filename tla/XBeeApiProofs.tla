---------------------------- MODULE XBeeApiProofs ----------------------------
(***************************************************************************)
(* Proofs about the API mode transport, for every table, every cycle of    *)
(* identifiers and every set of requests: each waiting request is tracked  *)
(* once, and the answer it gets is to its own frame.                       *)
(***************************************************************************)
EXTENDS XBeeApi, FiniteSetTheorems, TLAPS

(***************************************************************************)
(* The cycle of identifiers.                                               *)
(***************************************************************************)
AheadOf(next, k) == ((next - 1 + k) % FrameIdMax) + 1

\* How many identifiers have been passed since id was, itself included.
Passed(next, id) == IF id < next THEN next - id ELSE next - id + FrameIdMax

\* The identifiers of U that come before id is reached again.
Before(next, U, id) == {i \in U : Passed(next, i) > Passed(next, id)}

\* What the assumption on the constants gives, in the form the provers need.
LEMMA Constants ==
  /\ FrameIdMax \in Nat /\ MaxPending \in Nat /\ MaxAge \in Nat
  /\ 1 <= MaxPending /\ MaxPending < FrameIdMax /\ MaxAge + MaxPending <= FrameIdMax
  /\ None \notin Requests /\ NoId \notin FrameIds
BY ApiAssumption DEF None, NoId, FrameIds

\* The modulus subtracts at most once.
LEMMA Wraps ==
  ASSUME NEW n \in Nat, n > 0, NEW x \in 0..(2 * n - 1)
  PROVE  x % n = IF x < n THEN x ELSE x - n
<1>1. CASE x < n
  BY <1>1
<1>2. CASE ~(x < n)
  <2>1. x = n * 1 + (x - n) /\ x - n \in 0..(n - 1)
    BY <1>2
  <2> QED BY <1>2, <2>1
<1> QED BY <1>1, <1>2

\* The k-th identifier from next, without the modulus.
LEMMA AheadIs ==
  ASSUME NEW next \in FrameIds, NEW k \in 0..FrameIdMax
  PROVE  /\ AheadOf(next, k) = IF next + k <= FrameIdMax THEN next + k
                               ELSE next + k - FrameIdMax
         /\ AheadOf(next, k) \in FrameIds
<1>1. FrameIdMax \in Nat /\ FrameIdMax > 0 /\ next \in 1..FrameIdMax /\ k \in 0..FrameIdMax
  BY Constants DEF FrameIds
<1>2. next - 1 + k \in 0..(2 * FrameIdMax - 1)
  BY <1>1
<1>3. (next - 1 + k) % FrameIdMax = IF next - 1 + k < FrameIdMax THEN next - 1 + k
                                    ELSE next - 1 + k - FrameIdMax
  BY <1>1, <1>2, Wraps
<1>4. AheadOf(next, k) = IF next + k <= FrameIdMax THEN next + k ELSE next + k - FrameIdMax
  BY <1>1, <1>3 DEF AheadOf
<1>5. AheadOf(next, k) \in 1..FrameIdMax
  BY <1>1, <1>4
<1> QED BY <1>4, <1>5 DEF FrameIds

\* Where the identifiers ahead are, and how the others recede.
LEMMA PassedIs ==
  ASSUME NEW next \in FrameIds
  PROVE  /\ \A id \in FrameIds : Passed(next, id) \in 1..FrameIdMax
         /\ \A k \in 0..(FrameIdMax - 1) :
              Passed(next, AheadOf(next, k)) = FrameIdMax - k
         /\ \A k \in 0..(FrameIdMax - 1), id \in FrameIds :
              Passed(AheadOf(next, k + 1), id) =
                IF Passed(next, id) + k + 1 <= FrameIdMax THEN Passed(next, id) + k + 1
                ELSE Passed(next, id) + k + 1 - FrameIdMax
<1>1. FrameIdMax \in Nat /\ FrameIdMax > 0 /\ next \in 1..FrameIdMax
  BY Constants DEF FrameIds
<1>2. \A id \in FrameIds : Passed(next, id) \in 1..FrameIdMax
  BY <1>1 DEF Passed, FrameIds
<1>3. ASSUME NEW k \in 0..(FrameIdMax - 1)
      PROVE  Passed(next, AheadOf(next, k)) = FrameIdMax - k
  <2>1. k \in 0..FrameIdMax
    BY <1>1
  <2>2. AheadOf(next, k) = IF next + k <= FrameIdMax THEN next + k
                           ELSE next + k - FrameIdMax
    BY <2>1, AheadIs
  <2> QED BY <1>1, <2>1, <2>2 DEF Passed
<1>4. ASSUME NEW k \in 0..(FrameIdMax - 1), NEW id \in FrameIds
      PROVE  Passed(AheadOf(next, k + 1), id) =
               IF Passed(next, id) + k + 1 <= FrameIdMax THEN Passed(next, id) + k + 1
               ELSE Passed(next, id) + k + 1 - FrameIdMax
  <2>1. k + 1 \in 0..FrameIdMax /\ id \in 1..FrameIdMax
    BY <1>1 DEF FrameIds
  <2>2. AheadOf(next, k + 1) = IF next + (k + 1) <= FrameIdMax THEN next + (k + 1)
                               ELSE next + (k + 1) - FrameIdMax
    BY <2>1, AheadIs
  <2> QED BY <1>1, <2>1, <2>2 DEF Passed
<1> QED BY <1>2, <1>3, <1>4

\* As many identifiers ahead as are passed over.
LEMMA AheadInjective ==
  ASSUME NEW next \in FrameIds, NEW n \in 0..FrameIdMax, NEW S, IsFiniteSet(S),
         \A j \in 0..(n - 1) : AheadOf(next, j) \in S
  PROVE  n <= Cardinality(S) /\ Cardinality(S) \in Nat
<1> DEFINE f == [j \in 0..(n - 1) |-> AheadOf(next, j)]
<1>1. FrameIdMax \in Nat /\ n \in Nat /\ n <= FrameIdMax
  BY Constants
<1>2. \A i, j \in 0..(n - 1) : AheadOf(next, i) = AheadOf(next, j) => i = j
  <2> SUFFICES ASSUME NEW i \in 0..(n - 1), NEW j \in 0..(n - 1),
                      AheadOf(next, i) = AheadOf(next, j)
               PROVE  i = j
    OBVIOUS
  <2>1. i \in 0..(FrameIdMax - 1) /\ j \in 0..(FrameIdMax - 1)
    BY <1>1
  <2>2. FrameIdMax - i = FrameIdMax - j
    BY <2>1, PassedIs
  <2> QED BY <1>1, <2>1, <2>2
<1>3. f \in Injection(0..(n - 1), S)
  BY <1>2 DEF Injection, IsInjective
<1>4. Cardinality(0..(n - 1)) <= Cardinality(S) /\ IsFiniteSet(0..(n - 1))
  BY <1>3, FS_Injection
<1>5. Cardinality(0..(n - 1)) = n
  BY <1>1, FS_Interval
<1> QED BY <1>4, <1>5, FS_CardinalityType

\* Handing out an identifier: the ones still used that are passed over no longer
\* lie ahead, so an old one comes at most one allocation nearer to its next use.
LEMMA AllocationPasses ==
  ASSUME NEW next \in FrameIds, NEW U, U \subseteq FrameIds, NEW k \in 0..(FrameIdMax - 1),
         AheadOf(next, k) \notin U, \A j \in 0..(k - 1) : AheadOf(next, j) \in U,
         NEW id \in FrameIds, NEW bound \in Nat, bound < FrameIdMax,
         Passed(next, id) + Cardinality(Before(next, U, id)) <= bound,
         NEW V, V \subseteq U \cup {AheadOf(next, k)}
  PROVE  /\ AheadOf(next, k) # id
         /\ LET then == AheadOf(next, k + 1)
            IN Passed(then, id) + Cardinality(Before(then, V, id)) <= bound + 1
<1> DEFINE then == AheadOf(next, k + 1)
           new  == AheadOf(next, k)
           A    == Before(next, U, id)
           B    == Before(then, V, id)
           d    == Passed(next, id)
<1>1. /\ FrameIdMax \in Nat /\ FrameIdMax > 0 /\ k \in Nat /\ d \in 1..FrameIdMax
      /\ k < FrameIdMax
  BY Constants, PassedIs
<1>2. IsFiniteSet(FrameIds)
  BY <1>1, FS_Interval DEF FrameIds
<1>3. A \subseteq FrameIds /\ IsFiniteSet(A) /\ Cardinality(A) \in Nat
  <2>1. A \subseteq FrameIds
    BY DEF Before
  <2> QED BY <1>2, <2>1, FS_Subset, FS_CardinalityType
<1>4. \A j \in 0..(k - 1) : j \in 0..(FrameIdMax - 1)
  BY <1>1
<1>5. k < FrameIdMax - d
  <2> SUFFICES ASSUME FrameIdMax - d <= k PROVE FALSE
    BY <1>1
  <2>1. ASSUME NEW j \in 0..((FrameIdMax - d) - 1)
        PROVE  AheadOf(next, j) \in A
    <3>1. j \in 0..(k - 1) /\ j \in 0..(FrameIdMax - 1)
      BY <1>1
    <3>2. AheadOf(next, j) \in U /\ Passed(next, AheadOf(next, j)) = FrameIdMax - j
      BY <3>1, PassedIs
    <3>3. FrameIdMax - j > d
      BY <1>1
    <3> QED BY <3>2, <3>3 DEF Before
  <2>2. FrameIdMax - d \in 0..FrameIdMax
    BY <1>1
  <2>3. FrameIdMax - d <= Cardinality(A)
    BY <1>3, <2>1, <2>2, AheadInjective
  <2> HIDE DEF d, A
  <2>4. d + Cardinality(A) <= bound
    BY DEF d, A
  <2> QED BY <1>1, <1>3, <2>3, <2>4
<1>6. new # id
  <2>1. Passed(next, new) = FrameIdMax - k
    BY <1>1, PassedIs
  <2> QED BY <1>1, <1>5, <2>1
<1>7. /\ Passed(then, id) = d + k + 1
      /\ \A i \in FrameIds : Passed(next, i) \in 1..FrameIdMax
      /\ \A i \in FrameIds :
           Passed(then, i) = IF Passed(next, i) + k + 1 <= FrameIdMax
                             THEN Passed(next, i) + k + 1
                             ELSE Passed(next, i) + k + 1 - FrameIdMax
  <2>1. k \in 0..(FrameIdMax - 1)
    OBVIOUS
  <2>2. /\ \A i \in FrameIds : Passed(next, i) \in 1..FrameIdMax
        /\ \A i \in FrameIds :
             Passed(then, i) = IF Passed(next, i) + k + 1 <= FrameIdMax
                               THEN Passed(next, i) + k + 1
                               ELSE Passed(next, i) + k + 1 - FrameIdMax
    BY <2>1, PassedIs
  <2>3. d + k + 1 <= FrameIdMax
    BY <1>1, <1>5
  <2> QED BY <2>2, <2>3
<1>8. ASSUME NEW i \in B
      PROVE  i \in A /\ Passed(next, i) + k + 1 <= FrameIdMax
  <2>1. /\ i \in V /\ Passed(then, i) > Passed(then, id)
    BY DEF Before
  <2>2. new \in FrameIds /\ Passed(next, new) = FrameIdMax - k
    <3>1. k \in 0..FrameIdMax
      BY <1>1
    <3> QED BY <3>1, AheadIs, PassedIs
  <2>3. i \in FrameIds
    BY <2>1, <2>2
  <2>4. Passed(next, i) + k + 1 <= FrameIdMax /\ Passed(next, i) > d
    <3> HIDE DEF d
    <3> QED BY <1>1, <1>7, <2>1, <2>3
  <2>5. i # new
    BY <1>1, <2>2, <2>4
  <2> QED BY <2>1, <2>4, <2>5 DEF Before
<1>9. ASSUME NEW j \in 0..(k - 1)
      PROVE  AheadOf(next, j) \in A \ B
  <2>1. AheadOf(next, j) \in U /\ Passed(next, AheadOf(next, j)) = FrameIdMax - j
    BY <1>4, PassedIs
  <2>2. FrameIdMax - j > d /\ ~(FrameIdMax - j + k + 1 <= FrameIdMax)
    BY <1>1, <1>5
  <2>3. AheadOf(next, j) \in A
    BY <2>1, <2>2 DEF Before
  <2> QED BY <1>8, <2>1, <2>2, <2>3
<1> HIDE DEF A, B, d, then, new
<1>10. k + Cardinality(B) <= Cardinality(A) /\ Cardinality(B) \in Nat
  <2>1. B \subseteq A /\ IsFiniteSet(A \ B)
    BY <1>3, <1>8, FS_Difference
  <2>2. k \in 0..FrameIdMax
    BY <1>1
  <2>3. k <= Cardinality(A \ B) /\ Cardinality(A \ B) \in Nat
    BY <1>9, <2>1, <2>2, AheadInjective
  <2>4. Cardinality(A \ B) = Cardinality(A) - Cardinality(A \cap B)
    BY <1>3, FS_Difference
  <2>5. A \cap B = B
    BY <2>1
  <2>6. Cardinality(B) \in Nat
    BY <1>3, <2>1, FS_Subset, FS_CardinalityType
  <2>7. Cardinality(A \cap B) = Cardinality(B)
    BY <2>5, Zenon
  <2>8. Cardinality(A \ B) = Cardinality(A) - Cardinality(B)
    BY <2>4, <2>7
  <2> QED BY <1>1, <1>3, <2>3, <2>6, <2>8
<1>11. d + Cardinality(A) <= bound
  BY DEF d, A
<1>12. Passed(then, id) + Cardinality(B) <= bound + 1
  BY <1>1, <1>3, <1>7, <1>10, <1>11
<1> QED BY <1>6, <1>12 DEF new, then, B

(***************************************************************************)
(* The inductive invariant.                                                *)
(***************************************************************************)
UsedIds == {id \in FrameIds : InUse(id)}

\* The table and the objects agree.
TableInv ==
  /\ \A r \in Requests : req[r].state = "PENDING" <=> Tracked(r)
  /\ \A s, t \in Slots : pending[s] = pending[t] /\ pending[s] # None => s = t
  /\ \A r, q \in Requests :
       Tracked(r) /\ Tracked(q) /\ req[r].id = req[q].id /\ req[r].id # NoId => r = q

\* An answer under way with the identifier of a waiting request is that request's.
OwedInv ==
  /\ \A o \in owed : HasFrameId(o.kind) <=> o.id # NoId
  /\ \A o \in owed, r \in Requests :
       Tracked(r) /\ o.id # NoId /\ req[r].id = o.id => o.to = r

\* Before its identifier is used again, an answer has aged out: what has been
\* passed since, and what will be passed over, is bounded by its age.
AgeInv ==
  \A o \in owed :
    o.id # NoId =>
      Passed(nextFrameId, o.id) + Cardinality(Before(nextFrameId, UsedIds, o.id))
        <= o.age + MaxPending

ApiInv == TypeOK /\ TableInv /\ OwedInv /\ AgeInv /\ AnswersOwn

\* An empty table.
LEMMA InitInv == Init => ApiInv
<1> SUFFICES ASSUME Init PROVE ApiInv
  OBVIOUS
<1>1. TypeOK
  <2>1. 1 \in FrameIds
    BY Constants DEF FrameIds
  <2> QED BY <2>1 DEF Init, TypeOK, Idle, Over, Object, Kinds, NoId, None
<1>2. \A r \in Requests : ~Tracked(r)
  BY Constants DEF Init, Tracked
<1>3. TableInv
  BY <1>2 DEF Init, TableInv, Idle, Over, Object
<1>4. OwedInv /\ AgeInv /\ AnswersOwn
  BY DEF Init, OwedInv, AgeInv, AnswersOwn, Idle, Over, Object, None
<1> QED BY <1>1, <1>3, <1>4 DEF ApiInv

(***************************************************************************)
(* The shapes of the records.                                              *)
(***************************************************************************)
Objects == [state : {"IDLE", "PENDING", "DONE", "FAILED"}, kind : Kinds,
            id : FrameIds \cup {NoId}, got : {None, "own", "other"}]
Answers == [to : Requests \cup {None}, kind : Kinds \ {"SILENT"},
            id : FrameIds \cup {NoId}, age : 0..MaxAge]

\* The type invariant, by the names of the records.
LEMMA Types ==
  ASSUME TypeOK
  PROVE  /\ pending \in [Slots -> Requests \cup {None}] /\ nextFrameId \in FrameIds
         /\ req \in [Requests -> Objects] /\ owed \subseteq Answers
BY DEF TypeOK, Objects, Answers

\* Making an object over ends it without an identifier.
LEMMA OverDoes ==
  ASSUME NEW state \in {"IDLE", "PENDING", "DONE", "FAILED"}, NEW got \in {None, "own", "other"}
  PROVE  /\ Over(state, got) \in Objects /\ Over(state, got).state = state
         /\ Over(state, got).id = NoId /\ Over(state, got).got = got
BY DEF Over, Object, Objects, Kinds, NoId, FrameIds

\* An answer that nobody waits for any more keeps its frame and its age.
LEMMA UnclaimedDoes ==
  ASSUME NEW O, O \subseteq Answers, NEW R, NEW p \in Unclaimed(O, R)
  PROVE  \E o \in O : /\ p \in Answers /\ p.kind = o.kind /\ p.id = o.id /\ p.age = o.age
                      /\ p.to = IF o.to \in R THEN None ELSE o.to
<1>1. PICK o \in O : p = [o EXCEPT !.to = IF @ \in R THEN None ELSE @]
  BY DEF Unclaimed
<1>2. o \in Answers
  BY <1>1
<1> QED BY <1>1, <1>2 DEF Answers

(***************************************************************************)
(* Requests stop waiting.                                                  *)
(***************************************************************************)
\* Whoever stops waiting, the rest of the table, and who its answers belong to,
\* stay as they were.
LEMMA EndKeeps ==
  ASSUME ApiInv, NEW R, R \subseteq Requests, Untrack(R),
         req' \in [Requests -> Objects], nextFrameId' = nextFrameId,
         \A r \in Requests \ R : Tracked(r) =>
           req'[r].id = req[r].id /\ req'[r].state = "PENDING",
         \A r \in Requests \ R : ~Tracked(r) => req'[r].state = req[r].state,
         \A r \in R : req'[r].state # "PENDING",
         owed' \subseteq Unclaimed(owed, R)
  PROVE  TypeOK' /\ TableInv' /\ OwedInv' /\ AgeInv'
<1>1. /\ pending \in [Slots -> Requests \cup {None}] /\ nextFrameId \in FrameIds
      /\ req \in [Requests -> Objects] /\ owed \subseteq Answers /\ None \notin Requests
  BY Types, Constants DEF ApiInv
<1>2. pending' = [s \in Slots |-> IF pending[s] \in R THEN None ELSE pending[s]]
  BY DEF Untrack
<1>3. \A p \in owed' : \E o \in owed :
        /\ p \in Answers /\ p.kind = o.kind /\ p.id = o.id /\ p.age = o.age
        /\ p.to = IF o.to \in R THEN None ELSE o.to
  BY <1>1, UnclaimedDoes
<1>4. TypeOK'
  <2>1. pending' \in [Slots -> Requests \cup {None}]
    BY <1>1, <1>2
  <2>2. owed' \subseteq Answers
    BY <1>3
  <2> QED BY <1>1, <2>1, <2>2 DEF TypeOK, Objects, Answers
<1>5. \A r \in Requests : Tracked(r)' <=> Tracked(r) /\ r \notin R
  BY <1>1, <1>2 DEF Tracked
<1>6. TableInv'
  <2>1. \A r \in Requests : req'[r].state = "PENDING" <=> Tracked(r)'
    BY <1>5 DEF ApiInv, TableInv
  <2>2. \A s, t \in Slots : pending'[s] = pending'[t] /\ pending'[s] # None => s = t
    BY <1>2 DEF ApiInv, TableInv
  <2>3. \A r, q \in Requests :
          Tracked(r)' /\ Tracked(q)' /\ req'[r].id = req'[q].id /\ req'[r].id # NoId => r = q
    BY <1>5 DEF ApiInv, TableInv
  <2> QED BY <2>1, <2>2, <2>3 DEF TableInv
<1>7. OwedInv'
  <2>1. ASSUME NEW p \in owed'
        PROVE  /\ HasFrameId(p.kind) <=> p.id # NoId
               /\ \A r \in Requests :
                    Tracked(r)' /\ p.id # NoId /\ req'[r].id = p.id => p.to = r
    <3>1. PICK o \in owed : /\ p.kind = o.kind /\ p.id = o.id
                            /\ p.to = IF o.to \in R THEN None ELSE o.to
      BY <1>3
    <3> QED BY <1>5, <3>1 DEF ApiInv, OwedInv
  <2> QED BY <2>1 DEF OwedInv
<1>8. UsedIds' \subseteq UsedIds
  BY <1>5 DEF UsedIds, InUse
<1>9. AgeInv'
  <2> SUFFICES ASSUME NEW p \in owed', p.id # NoId
               PROVE  Passed(nextFrameId, p.id)
                        + Cardinality(Before(nextFrameId, UsedIds', p.id))
                      <= p.age + MaxPending
    BY DEF AgeInv
  <2>1. PICK o \in owed : p \in Answers /\ p.id = o.id /\ p.age = o.age
    BY <1>3
  <2> DEFINE A == Before(nextFrameId, UsedIds, p.id)
             B == Before(nextFrameId, UsedIds', p.id)
             d == Passed(nextFrameId, p.id)
  <2>2. d + Cardinality(A) <= p.age + MaxPending
    BY <2>1 DEF ApiInv, AgeInv
  <2>3. IsFiniteSet(A) /\ B \subseteq A
    <3>1. IsFiniteSet(FrameIds) /\ A \subseteq FrameIds
      BY Constants, FS_Interval DEF FrameIds, Before, UsedIds
    <3> QED BY <1>8, <3>1, FS_Subset DEF Before
  <2>4. Cardinality(B) <= Cardinality(A) /\ Cardinality(A) \in Nat /\ Cardinality(B) \in Nat
    BY <2>3, FS_Subset, FS_CardinalityType
  <2>5. d \in Nat /\ p.age \in Nat /\ MaxPending \in Nat
    <3>1. p.id \in FrameIds /\ p.age \in 0..MaxAge
      BY <2>1 DEF Answers
    <3>2. d \in 1..FrameIdMax
      BY <1>1, <3>1, PassedIs
    <3> HIDE DEF d
    <3> QED BY <3>1, <3>2, Constants
  <2> HIDE DEF A, B, d
  <2>6. d + Cardinality(B) <= p.age + MaxPending
    BY <2>2, <2>4, <2>5
  <2> QED BY <2>6 DEF B, d
<1> QED BY <1>4, <1>6, <1>7, <1>9

\* What a pass leaves of an object it does not end.
LEMMA GotDoes ==
  ASSUME NEW o \in Objects, NEW got \in {None, "own", "other"},
         NEW p, p = [o EXCEPT !.got = got]
  PROVE  /\ p \in Objects /\ p.state = o.state /\ p.kind = o.kind /\ p.id = o.id
         /\ p.got = got /\ (got = o.got => p = o)
BY DEF Objects

\* A pass ends some of the waiting requests, and what any of them holds
\* afterwards is its own answer.
LEMMA ProcessDoes ==
  ASSUME ApiInv, Process
  PROVE  /\ nextFrameId' = nextFrameId /\ req' \in [Requests -> Objects] /\ AnswersOwn'
         /\ \A r \in Requests : ~Tracked(r) => req'[r] = req[r]
         /\ \E R \in SUBSET Requests :
              /\ Untrack(R) /\ owed' \subseteq Unclaimed(owed, R)
              /\ \A r \in R : req'[r].state # "PENDING" /\ Tracked(r)
              /\ \A r \in Requests \ R : req'[r].id = req[r].id /\ req'[r].state = req[r].state
<1>0. /\ req \in [Requests -> Objects] /\ owed \subseteq Answers /\ None \notin Requests
  BY Types, Constants DEF ApiInv
<1>1. PICK arrived \in {S \in SUBSET owed : Cardinality(S) <= 1},
           due \in SUBSET {r \in Requests : Tracked(r)}, fits \in BOOLEAN, last \in BOOLEAN :
        LET taker    == {r \in Requests : \E o \in arrived : Takes(r, o)}
            Whose(r) == IF \E o \in arrived : o.to = r \/ ~HasFrameId(o.kind) THEN "own"
                        ELSE "other"
            stored   == IF fits THEN taker ELSE {}
            answered == {r \in stored : req[r].kind # "MULTI"}
            ended    == answered \cup (taker \ stored) \cup due
            Got(r)   == IF r \in stored THEN Whose(r) ELSE req[r].got
            Outcome(r) == IF \/ r \in answered
                             \/ r \notin taker \ stored /\ req[r].kind = "MULTI" /\ Got(r) # None
                          THEN "DONE" ELSE "FAILED"
        IN /\ fits \/ taker # {}
           /\ last \/ \E o \in arrived : o.kind = "MULTI"
           /\ req' = [r \in Requests |->
                        IF r \in ended THEN Over(Outcome(r), Got(r))
                                       ELSE [req[r] EXCEPT !.got = Got(r)]]
           /\ Untrack(ended)
           /\ owed' = Unclaimed(IF last \/ \E o \in arrived : o.kind # "MULTI"
                                THEN owed \ arrived ELSE owed, ended)
           /\ UNCHANGED nextFrameId
  BY DEF Process
<1> DEFINE taker    == {r \in Requests : \E o \in arrived : Takes(r, o)}
           Whose(r) == IF \E o \in arrived : o.to = r \/ ~HasFrameId(o.kind) THEN "own"
                       ELSE "other"
           stored   == IF fits THEN taker ELSE {}
           answered == {r \in stored : req[r].kind # "MULTI"}
           ended    == answered \cup (taker \ stored) \cup due
           Got(r)   == IF r \in stored THEN Whose(r) ELSE req[r].got
           Outcome(r) == IF \/ r \in answered
                            \/ r \notin taker \ stored /\ req[r].kind = "MULTI" /\ Got(r) # None
                         THEN "DONE" ELSE "FAILED"
<1>2. /\ req' = [r \in Requests |-> IF r \in ended THEN Over(Outcome(r), Got(r))
                                    ELSE [req[r] EXCEPT !.got = Got(r)]]
      /\ Untrack(ended) /\ nextFrameId' = nextFrameId
      /\ owed' \subseteq Unclaimed(owed, ended)
  <2>1. owed' = Unclaimed(IF last \/ \E o \in arrived : o.kind # "MULTI"
                          THEN owed \ arrived ELSE owed, ended)
    BY <1>1
  <2>2. owed' \subseteq Unclaimed(owed, ended)
    <3> HIDE DEF ended
    <3> QED BY <2>1 DEF Unclaimed
  <2> QED BY <1>1, <2>2
<1>3. \A r \in taker : Tracked(r) /\ Whose(r) = "own"
  <2> SUFFICES ASSUME NEW r \in taker PROVE Tracked(r) /\ Whose(r) = "own"
    OBVIOUS
  <2>1. PICK o \in arrived : Takes(r, o)
    OBVIOUS
  <2>2. Tracked(r) /\ Matches(r, o) /\ r \in Requests /\ o \in owed
    BY <2>1 DEF Takes, Tracked
  <2>3. CASE HasFrameId(o.kind)
    <3>1. o.id # NoId /\ req[r].id = o.id
      BY <2>2, <2>3 DEF ApiInv, OwedInv, Matches
    <3>2. o.to = r
      BY <2>2, <3>1 DEF ApiInv, OwedInv
    <3> QED BY <2>2, <3>2
  <2>4. CASE ~HasFrameId(o.kind)
    BY <2>2, <2>4
  <2> QED BY <2>3, <2>4
<1>4. \A r \in Requests : Got(r) \in {None, "own"}
  <2> SUFFICES ASSUME NEW r \in Requests PROVE Got(r) \in {None, "own"}
    OBVIOUS
  <2>1. req[r].got \in {None, "own", "other"} /\ req[r].got # "other"
    BY <1>0 DEF Objects, ApiInv, AnswersOwn
  <2>2. r \in stored => Whose(r) = "own"
    BY <1>3
  <2> HIDE DEF stored, Whose
  <2> QED BY <2>1, <2>2
<1>5. \A r \in ended : r \in Requests /\ Tracked(r)
  BY <1>3
<1>6. \A r \in Requests : Outcome(r) \in {"DONE", "FAILED"}
  OBVIOUS
<1>7. \A r \in Requests : r \notin stored => Got(r) = req[r].got
  OBVIOUS
<1>8. \A r \in stored : Tracked(r)
  BY <1>3
<1> HIDE DEF taker, Whose, stored, answered, ended, Got, Outcome
<1>9. \A r \in ended : /\ req'[r] \in Objects /\ req'[r].state # "PENDING"
                       /\ req'[r].got = Got(r)
  BY <1>2, <1>4, <1>5, <1>6, OverDoes
<1>10. \A r \in Requests \ ended :
         /\ req'[r] \in Objects /\ req'[r].id = req[r].id /\ req'[r].state = req[r].state
         /\ req'[r].got = Got(r) /\ (Got(r) = req[r].got => req'[r] = req[r])
  <2> SUFFICES ASSUME NEW r \in Requests \ ended
               PROVE  /\ req'[r] \in Objects /\ req'[r].id = req[r].id
                      /\ req'[r].state = req[r].state /\ req'[r].got = Got(r)
                      /\ (Got(r) = req[r].got => req'[r] = req[r])
    OBVIOUS
  <2>1. req'[r] = [req[r] EXCEPT !.got = Got(r)]
    BY <1>2
  <2>2. Got(r) \in {None, "own", "other"} /\ req[r] \in Objects
    BY <1>0, <1>4
  <2> DEFINE o == req[r]
             g == Got(r)
  <2>3. o \in Objects /\ g \in {None, "own", "other"} /\ req'[r] = [o EXCEPT !.got = g]
    BY <2>1, <2>2
  <2> HIDE DEF o, g
  <2>4. /\ req'[r] \in Objects /\ req'[r].id = o.id /\ req'[r].state = o.state
        /\ req'[r].got = g /\ (g = o.got => req'[r] = o)
    BY <2>3, GotDoes
  <2> QED BY <2>4 DEF o, g
<1>11. req' \in [Requests -> Objects]
  <2>1. \A r \in Requests : req'[r] \in Objects
    BY <1>9, <1>10
  <2> QED BY <1>2, <2>1
<1>12. AnswersOwn'
  BY <1>4, <1>9, <1>10, <1>5 DEF AnswersOwn, None
<1>13. \A r \in Requests : ~Tracked(r) => req'[r] = req[r]
  BY <1>5, <1>7, <1>8, <1>10
<1> QED BY <1>2, <1>5, <1>9, <1>10, <1>11, <1>12, <1>13

\* Answers, deadlines, resets and aborts end requests; a lost answer ends none.
LEMMA EndStep ==
  ASSUME ApiInv, Process \/ AbortAll \/ Lost \/ \E r \in Requests : Reset(r)
  PROVE  ApiInv'
<1>0. /\ req \in [Requests -> Objects] /\ owed \subseteq Answers /\ None \notin Requests
      /\ TypeOK /\ TableInv /\ OwedInv /\ AgeInv /\ AnswersOwn
  BY Types, Constants DEF ApiInv
<1>1. CASE Process
  <2>1. PICK R \in SUBSET Requests :
          /\ Untrack(R) /\ owed' \subseteq Unclaimed(owed, R)
          /\ \A r \in R : req'[r].state # "PENDING" /\ Tracked(r)
          /\ \A r \in Requests \ R : req'[r].id = req[r].id /\ req'[r].state = req[r].state
    BY <1>1, ProcessDoes
  <2>2. nextFrameId' = nextFrameId /\ req' \in [Requests -> Objects] /\ AnswersOwn'
    BY <1>1, ProcessDoes
  <2>3. \A r \in Requests \ R : Tracked(r) => req'[r].state = "PENDING"
    BY <1>0, <2>1 DEF TableInv
  <2>4. TypeOK' /\ TableInv' /\ OwedInv' /\ AgeInv'
    BY <2>1, <2>2, <2>3, EndKeeps
  <2> QED BY <2>2, <2>4 DEF ApiInv
<1>2. CASE AbortAll
  <2> DEFINE R == {r \in Requests : Tracked(r)}
  <2>1. /\ req' = [r \in Requests |-> IF r \in R THEN Over("FAILED", req[r].got) ELSE req[r]]
        /\ Untrack(R) /\ nextFrameId' = nextFrameId
        /\ \E kept \in SUBSET owed : owed' = Unclaimed(kept, R)
    BY <1>2 DEF AbortAll
  <2>2. \A r \in Requests : req[r].got \in {None, "own", "other"}
    BY <1>0 DEF Objects
  <2>3. R \subseteq Requests /\ \A r \in Requests \ R : ~Tracked(r)
    OBVIOUS
  <2> HIDE DEF R
  <2>4. \A r \in R : /\ req'[r] \in Objects /\ req'[r].state # "PENDING"
                     /\ req'[r].got = req[r].got
    BY <2>1, <2>2, <2>3, OverDoes
  <2>5. \A r \in Requests \ R : req'[r] = req[r]
    BY <2>1
  <2>6. req' \in [Requests -> Objects]
    <3>1. \A r \in Requests : req'[r] \in Objects
      BY <1>0, <2>4, <2>5
    <3> QED BY <2>1, <3>1
  <2>7. owed' \subseteq Unclaimed(owed, R)
    BY <2>1 DEF Unclaimed
  <2>8. TypeOK' /\ TableInv' /\ OwedInv' /\ AgeInv'
    BY <2>1, <2>3, <2>4, <2>5, <2>6, <2>7, EndKeeps
  <2>9. AnswersOwn'
    BY <1>0, <2>4, <2>5 DEF AnswersOwn
  <2> QED BY <2>8, <2>9 DEF ApiInv
<1>3. CASE \E r \in Requests : Reset(r)
  <2>1. PICK r \in Requests : Reset(r)
    BY <1>3
  <2>2. /\ Untrack({r}) /\ req' = [req EXCEPT ![r] = Idle]
        /\ owed' = Unclaimed(owed, {r}) /\ nextFrameId' = nextFrameId
    BY <2>1 DEF Reset
  <2>3. Idle \in Objects /\ Idle.state # "PENDING" /\ Idle.got = None
    BY OverDoes DEF Idle
  <2>4. /\ req' \in [Requests -> Objects] /\ req'[r].state # "PENDING" /\ req'[r].got = None
        /\ \A q \in Requests \ {r} : req'[q] = req[q]
    <3> HIDE DEF Idle
    <3> QED BY <1>0, <2>2, <2>3
  <2>5. \A q \in Requests \ {r} : Tracked(q) => req'[q].state = "PENDING"
    BY <1>0, <2>4 DEF TableInv
  <2>6. TypeOK' /\ TableInv' /\ OwedInv' /\ AgeInv'
    BY <2>2, <2>4, <2>5, EndKeeps
  <2>7. AnswersOwn'
    BY <1>0, <2>4 DEF AnswersOwn, None
  <2> QED BY <2>6, <2>7 DEF ApiInv
<1>4. CASE Lost
  <2>1. /\ owed' \subseteq owed /\ pending' = pending /\ nextFrameId' = nextFrameId
        /\ req' = req
    BY <1>4 DEF Lost
  <2>2. TypeOK' /\ TableInv' /\ AnswersOwn'
    BY <1>0, <2>1 DEF TypeOK, TableInv, AnswersOwn, Tracked
  <2>3. UsedIds' = UsedIds
    BY <2>1 DEF UsedIds, InUse, Tracked
  <2>4. OwedInv' /\ AgeInv'
    BY <1>0, <2>1, <2>3 DEF OwedInv, AgeInv, Tracked
  <2> QED BY <2>2, <2>4 DEF ApiInv
<1> QED BY <1>1, <1>2, <1>3, <1>4

(***************************************************************************)
(* A request is sent.                                                      *)
(***************************************************************************)
\* What is under way is one identifier older, and what was left is not.
LEMMA AgedDoes ==
  ASSUME owed \subseteq Answers, NEW k, HasFrameId(k), NEW p \in Aged(owed, k)
  PROVE  \E o \in owed : /\ o \in Answers /\ o.age < MaxAge /\ p \in Answers
                         /\ p.kind = o.kind /\ p.id = o.id /\ p.to = o.to
                         /\ p.age = IF HasFrameId(o.kind) THEN o.age + 1 ELSE o.age
<1>1. PICK o \in owed : /\ o.age < MaxAge
                        /\ p = IF HasFrameId(o.kind) THEN [o EXCEPT !.age = @ + 1] ELSE o
  BY DEF Aged
<1>2. o \in Answers /\ o.age \in 0..MaxAge /\ MaxAge \in Nat
  BY Constants DEF Answers
<1>3. CASE HasFrameId(o.kind)
  <2>1. o.age + 1 \in 0..MaxAge
    BY <1>1, <1>2
  <2>2. p = [o EXCEPT !.age = @ + 1]
    BY <1>1, <1>3
  <2> QED BY <1>1, <1>2, <1>3, <2>1, <2>2 DEF Answers
<1>4. CASE ~HasFrameId(o.kind)
  BY <1>1, <1>2, <1>4
<1> QED BY <1>3, <1>4

\* The identifier handed out is nobody's, and no answer that can still come has it.
LEMMA AllocateDoes ==
  ASSUME ApiInv, NEW id, Allocate(id)
  PROVE  /\ id \in FrameIds /\ ~InUse(id) /\ nextFrameId' \in FrameIds
         /\ Passed(nextFrameId', id) = 1
         /\ \A k, p, V :
              HasFrameId(k) /\ p \in Aged(owed, k) /\ p.id # NoId /\ V \subseteq UsedIds \cup {id}
              => /\ p.id # id
                 /\ Passed(nextFrameId', p.id) + Cardinality(Before(nextFrameId', V, p.id))
                      <= p.age + MaxPending
<1>0. nextFrameId \in FrameIds /\ owed \subseteq Answers /\ UsedIds \subseteq FrameIds
  BY Types DEF ApiInv, UsedIds
<1>1. PICK k \in 0..(FrameIdMax - 1) :
        /\ id = AheadOf(nextFrameId, k) /\ ~InUse(id)
        /\ \A j \in 0..(k - 1) : InUse(AheadOf(nextFrameId, j))
        /\ nextFrameId' = AheadOf(nextFrameId, k + 1)
  BY DEF Allocate, Ahead, AheadOf
<1>2. /\ FrameIdMax \in Nat /\ FrameIdMax > 0 /\ k \in Nat /\ k < FrameIdMax
      /\ k \in 0..FrameIdMax /\ k + 1 \in 0..FrameIdMax
      /\ \A j \in 0..(k - 1) : j \in 0..FrameIdMax
  BY Constants
<1>3. id \in FrameIds /\ nextFrameId' \in FrameIds
  BY <1>0, <1>1, <1>2, AheadIs
<1>4. id \notin UsedIds /\ \A j \in 0..(k - 1) : AheadOf(nextFrameId, j) \in UsedIds
  <2>1. \A j \in 0..(k - 1) : AheadOf(nextFrameId, j) \in FrameIds
    BY <1>0, <1>2, AheadIs
  <2> QED BY <1>1, <2>1 DEF UsedIds
<1>5. Passed(nextFrameId', id) = 1
  <2>1. Passed(nextFrameId, id) = FrameIdMax - k
    BY <1>0, <1>1, PassedIs
  <2>2. Passed(nextFrameId', id) =
          IF Passed(nextFrameId, id) + k + 1 <= FrameIdMax
          THEN Passed(nextFrameId, id) + k + 1
          ELSE Passed(nextFrameId, id) + k + 1 - FrameIdMax
    BY <1>0, <1>1, <1>3, PassedIs
  <2> QED BY <1>2, <2>1, <2>2
<1>6. ASSUME NEW kind, NEW p, NEW V, HasFrameId(kind), p \in Aged(owed, kind), p.id # NoId,
             V \subseteq UsedIds \cup {id}
      PROVE  /\ p.id # id
             /\ Passed(nextFrameId', p.id) + Cardinality(Before(nextFrameId', V, p.id))
                  <= p.age + MaxPending
  <2>1. PICK o \in owed : /\ o \in Answers /\ o.age < MaxAge
                          /\ p.kind = o.kind /\ p.id = o.id
                          /\ p.age = IF HasFrameId(o.kind) THEN o.age + 1 ELSE o.age
    BY <1>0, <1>6, AgedDoes
  <2>2. o.id \in FrameIds /\ o.age \in 0..MaxAge /\ o.id # NoId
    BY <1>6, <2>1 DEF Answers
  <2>3. p.age = o.age + 1
    BY <2>1, <2>2 DEF ApiInv, OwedInv
  <2> DEFINE bound == o.age + MaxPending
  <2>4. bound \in Nat /\ bound < FrameIdMax /\ bound + 1 = p.age + MaxPending
    BY <2>1, <2>2, <2>3, Constants
  <2>5. Passed(nextFrameId, o.id) + Cardinality(Before(nextFrameId, UsedIds, o.id)) <= bound
    BY <2>2 DEF ApiInv, AgeInv
  <2> HIDE DEF bound
  <2>6. /\ AheadOf(nextFrameId, k) # o.id
        /\ Passed(nextFrameId', o.id) + Cardinality(Before(nextFrameId', V, o.id)) <= bound + 1
    BY <1>0, <1>1, <1>4, <1>6, <2>2, <2>4, <2>5, AllocationPasses
  <2> QED BY <1>1, <2>1, <2>4, <2>6
<1> QED BY <1>1, <1>3, <1>5, <1>6

\* A frame the driver refuses has spent its identifier.
LEMMA RefusedStep ==
  ASSUME ApiInv, SendRefused
  PROVE  ApiInv'
<1>1. /\ pending' = pending /\ req' = req /\ owed' = Aged(owed, "AT")
      /\ HasFrameId("AT")
  BY DEF SendRefused, HasFrameId
<1>2. PICK id \in FrameIds : Allocate(id)
  BY DEF SendRefused
<1>3. /\ nextFrameId' \in FrameIds /\ owed \subseteq Answers
      /\ TypeOK /\ TableInv /\ OwedInv /\ AnswersOwn
  BY <1>2, AllocateDoes, Types DEF ApiInv
<1>4. \A p \in owed' : \E o \in owed : p \in Answers /\ p.kind = o.kind /\ p.id = o.id /\ p.to = o.to
  BY <1>1, <1>3, AgedDoes
<1>5. TypeOK'
  <2>1. owed' \subseteq Answers
    BY <1>4
  <2> QED BY <1>1, <1>3, <2>1 DEF TypeOK, Answers
<1>6. TableInv' /\ AnswersOwn'
  BY <1>1, <1>3 DEF TableInv, AnswersOwn, Tracked
<1>7. OwedInv'
  BY <1>1, <1>3, <1>4 DEF OwedInv, Tracked
<1>8. AgeInv'
  <2>1. UsedIds' = UsedIds
    BY <1>1 DEF UsedIds, InUse, Tracked
  <2> QED BY <1>1, <1>2, <2>1, AllocateDoes DEF AgeInv
<1> QED BY <1>5, <1>6, <1>7, <1>8 DEF ApiInv

\* While a slot is free, fewer identifiers than slots are in use.
LEMMA UsedBelow ==
  ASSUME ApiInv, NEW s \in Slots, pending[s] = None
  PROVE  IsFiniteSet(UsedIds) /\ Cardinality(UsedIds) <= MaxPending - 1
<1> DEFINE f == [i \in UsedIds |-> CHOOSE t \in Slots : pending[t] \in Requests
                                                        /\ req[pending[t]].id = i]
<1>0. None \notin Requests /\ MaxPending \in Nat
  BY Constants
<1>1. \A i \in UsedIds : f[i] \in Slots /\ pending[f[i]] \in Requests /\ req[pending[f[i]]].id = i
  <2> SUFFICES ASSUME NEW i \in UsedIds
               PROVE  \E t \in Slots : pending[t] \in Requests /\ req[pending[t]].id = i
    OBVIOUS
  <2> QED BY DEF UsedIds, InUse, Tracked
<1>2. f \in Injection(UsedIds, Slots \ {s})
  <2>1. f \in [UsedIds -> Slots \ {s}]
    BY <1>0, <1>1
  <2>2. IsInjective(f)
    BY <1>1 DEF IsInjective
  <2> QED BY <2>1, <2>2 DEF Injection
<1>3. IsFiniteSet(Slots) /\ Cardinality(Slots) = MaxPending
  BY <1>0, FS_Interval, Constants DEF Slots
<1>4. IsFiniteSet(Slots \ {s}) /\ Cardinality(Slots \ {s}) = MaxPending - 1
  BY <1>3, FS_RemoveElement
<1> HIDE DEF f
<1> QED BY <1>2, <1>4, FS_Injection

\* A request is sent as a frame of some kind, and waits from then on.
LEMMA SendStep ==
  ASSUME ApiInv, NEW r \in Requests, NEW k \in Kinds, Send(r, k)
  PROVE  ApiInv'
<1>0. /\ pending \in [Slots -> Requests \cup {None}] /\ nextFrameId \in FrameIds
      /\ req \in [Requests -> Objects] /\ owed \subseteq Answers
      /\ None \notin Requests /\ NoId \notin FrameIds
      /\ TypeOK /\ TableInv /\ OwedInv /\ AgeInv /\ AnswersOwn
  BY Types, Constants DEF ApiInv
<1>1. PICK s \in Slots, id \in FrameIds \cup {NoId} :
        /\ FirstFree(s) /\ IdFor(k, id)
        /\ IF k = "SILENT"
           THEN /\ req' = [req EXCEPT ![r] = Over("DONE", None)]
                /\ UNCHANGED <<pending, owed>>
           ELSE /\ req' = [req EXCEPT ![r] = Object("PENDING", k, id, None)]
                /\ pending' = [pending EXCEPT ![s] = r]
                /\ owed' = Aged(owed, k) \cup {[to |-> r, kind |-> k, id |-> id, age |-> 0]}
  BY DEF Send
<1>2. ~Tracked(r) /\ pending[s] = None
  BY <1>1 DEF Send, FirstFree
<1>3. CASE k = "SILENT"
  <2>1. /\ req' = [req EXCEPT ![r] = Over("DONE", None)] /\ pending' = pending
        /\ owed' = owed /\ nextFrameId' = nextFrameId
    BY <1>1, <1>3 DEF IdFor, HasFrameId
  <2>2. /\ Over("DONE", None) \in Objects /\ Over("DONE", None).state = "DONE"
        /\ Over("DONE", None).got = None
    BY OverDoes
  <2>3. /\ req' \in [Requests -> Objects] /\ req'[r].state = "DONE" /\ req'[r].got = None
        /\ \A q \in Requests \ {r} : req'[q] = req[q]
    BY <1>0, <2>1, <2>2
  <2>4. \A q \in Requests : (Tracked(q)' <=> Tracked(q)) /\ (Tracked(q) => req'[q] = req[q])
    BY <1>2, <2>1, <2>3 DEF Tracked
  <2>5. TypeOK'
    BY <1>0, <2>1, <2>3 DEF TypeOK, Objects
  <2>6. TableInv'
    BY <1>0, <1>2, <2>1, <2>3, <2>4 DEF TableInv
  <2>7. AnswersOwn'
    BY <1>0, <2>3 DEF AnswersOwn, None
  <2>8. UsedIds' = UsedIds
    BY <2>4 DEF UsedIds, InUse
  <2>9. OwedInv' /\ AgeInv'
    BY <1>0, <2>1, <2>4, <2>8 DEF OwedInv, AgeInv
  <2> QED BY <2>5, <2>6, <2>7, <2>9 DEF ApiInv
<1>4. CASE k # "SILENT"
  <2> DEFINE new == [to |-> r, kind |-> k, id |-> id, age |-> 0]
             mine == Object("PENDING", k, id, None)
  <2>1. /\ req' = [req EXCEPT ![r] = mine] /\ pending' = [pending EXCEPT ![s] = r]
        /\ owed' = Aged(owed, k) \cup {new}
    BY <1>1, <1>4
  <2>2. /\ mine \in Objects /\ mine.state = "PENDING" /\ mine.id = id /\ mine.got = None
        /\ new \in Answers /\ new.to = r /\ new.kind = k /\ new.id = id /\ new.age = 0
    BY <1>4, Constants DEF Object, Objects, Answers, None
  <2> HIDE DEF new, mine
  <2>3. /\ req' \in [Requests -> Objects] /\ req'[r].state = "PENDING" /\ req'[r].id = id
        /\ req'[r].got = None /\ \A q \in Requests \ {r} : req'[q] = req[q]
    BY <1>0, <2>1, <2>2
  <2>4. /\ pending'[s] = r /\ \A t \in Slots \ {s} : pending'[t] = pending[t]
        /\ pending' \in [Slots -> Requests \cup {None}]
    BY <1>0, <2>1
  <2>5. \A q \in Requests : Tracked(q)' <=> Tracked(q) \/ q = r
    BY <1>0, <1>2, <2>4 DEF Tracked
  <2>6. /\ HasFrameId(k) <=> id # NoId
        /\ id # NoId => ~InUse(id) /\ id \in FrameIds
        /\ nextFrameId' \in FrameIds
        /\ \A p \in Aged(owed, k) : \E o \in owed :
             p \in Answers /\ p.kind = o.kind /\ p.id = o.id /\ p.to = o.to
        /\ \A p \in Aged(owed, k) : id # NoId => p.id # id
    <3>1. CASE HasFrameId(k)
      <4>1. Allocate(id)
        BY <1>1, <3>1 DEF IdFor
      <4>2. \A p \in Aged(owed, k) : \E o \in owed :
              p \in Answers /\ p.kind = o.kind /\ p.id = o.id /\ p.to = o.to
        BY <1>0, <3>1, AgedDoes
      <4>3. id \in FrameIds /\ ~InUse(id) /\ nextFrameId' \in FrameIds
        BY <4>1, AllocateDoes
      <4>4. \A p \in Aged(owed, k) : p.id # id
        <5> SUFFICES ASSUME NEW p \in Aged(owed, k), p.id = id PROVE FALSE
          OBVIOUS
        <5>1. p.id # NoId
          BY <1>0, <4>3
        <5> QED BY <3>1, <4>1, <5>1, AllocateDoes
      <4> QED BY <1>0, <3>1, <4>2, <4>3, <4>4
    <3>2. CASE ~HasFrameId(k)
      <4>1. id = NoId /\ nextFrameId' = nextFrameId /\ Aged(owed, k) = owed
        BY <1>1, <3>2 DEF IdFor, Aged
      <4> QED BY <1>0, <3>2, <4>1
    <3> QED BY <3>1, <3>2
  <2>7. TypeOK'
    <3>1. owed' \subseteq Answers
      BY <2>1, <2>2, <2>6
    <3> QED BY <2>3, <2>4, <2>6, <3>1 DEF TypeOK, Objects, Answers
  <2>8. TableInv'
    <3>1. \A q \in Requests : req'[q].state = "PENDING" <=> Tracked(q)'
      BY <1>0, <2>3, <2>5 DEF TableInv
    <3>2. \A t, u \in Slots : pending'[t] = pending'[u] /\ pending'[t] # None => t = u
      <4>1. \A t \in Slots : pending[t] # r
        BY <1>2 DEF Tracked
      <4> QED BY <1>0, <2>4, <4>1 DEF TableInv
    <3>3. \A p, q \in Requests :
            Tracked(p)' /\ Tracked(q)' /\ req'[p].id = req'[q].id /\ req'[p].id # NoId => p = q
      <4>1. \A q \in Requests \ {r} : Tracked(q)' /\ id # NoId => req'[q].id # id
        BY <2>3, <2>5, <2>6 DEF InUse
      <4> QED BY <1>0, <2>3, <2>5, <4>1 DEF TableInv
    <3> QED BY <3>1, <3>2, <3>3 DEF TableInv
  <2>9. OwedInv'
    <3>1. ASSUME NEW p \in owed'
          PROVE  /\ HasFrameId(p.kind) <=> p.id # NoId
                 /\ \A q \in Requests :
                      Tracked(q)' /\ p.id # NoId /\ req'[q].id = p.id => p.to = q
      <4>1. CASE p = new
        <5>1. \A q \in Requests \ {r} : Tracked(q)' /\ id # NoId => req'[q].id # id
          BY <2>3, <2>5, <2>6 DEF InUse
        <5> QED BY <2>2, <2>6, <4>1, <5>1
      <4>2. CASE p \in Aged(owed, k)
        <5>1. PICK o \in owed : p.kind = o.kind /\ p.id = o.id /\ p.to = o.to
          BY <2>6, <4>2
        <5>2. req'[r].id = p.id => p.id = NoId
          BY <2>3, <2>6, <4>2
        <5> QED BY <1>0, <2>3, <2>5, <5>1, <5>2 DEF OwedInv
      <4> QED BY <2>1, <4>1, <4>2
    <3> QED BY <3>1 DEF OwedInv
  <2>10. UsedIds' \subseteq UsedIds \cup {id}
    BY <2>3, <2>5 DEF UsedIds, InUse
  <2>11. AgeInv'
    <3> SUFFICES ASSUME NEW p \in owed', p.id # NoId
                 PROVE  Passed(nextFrameId', p.id)
                          + Cardinality(Before(nextFrameId', UsedIds', p.id))
                        <= p.age + MaxPending
      BY DEF AgeInv
    <3>1. CASE p = new
      <4>1. id # NoId /\ HasFrameId(k) /\ p.id = id /\ p.age = 0
        BY <2>2, <2>6, <3>1
      <4>2. Allocate(id)
        BY <1>1, <4>1 DEF IdFor
      <4>3. Passed(nextFrameId', id) = 1 /\ id \in FrameIds
        BY <4>2, AllocateDoes
      <4>4. IsFiniteSet(UsedIds) /\ Cardinality(UsedIds) <= MaxPending - 1
        BY <1>2, UsedBelow
      <4> DEFINE B == Before(nextFrameId', UsedIds', id)
      <4>5. B \subseteq UsedIds
        BY <2>10, <4>3 DEF Before
      <4> HIDE DEF B
      <4>6. Cardinality(B) <= Cardinality(UsedIds) /\ Cardinality(B) \in Nat
            /\ Cardinality(UsedIds) \in Nat
        BY <4>4, <4>5, FS_Subset, FS_CardinalityType
      <4>7. 1 + Cardinality(B) <= 0 + MaxPending
        BY <4>4, <4>6, Constants
      <4> QED BY <4>1, <4>3, <4>7 DEF B
    <3>2. CASE p \in Aged(owed, k) /\ HasFrameId(k)
      <4>1. Allocate(id)
        BY <1>1, <3>2 DEF IdFor
      <4> QED BY <2>10, <3>2, <4>1, AllocateDoes
    <3>3. CASE p \in Aged(owed, k) /\ ~HasFrameId(k)
      <4>1. p \in owed /\ nextFrameId' = nextFrameId /\ id = NoId
        BY <1>1, <3>3 DEF IdFor, Aged
      <4>2. UsedIds' = UsedIds
        <5>1. UsedIds' \subseteq UsedIds
          BY <1>0, <2>10, <4>1 DEF UsedIds
        <5>2. UsedIds \subseteq UsedIds'
          BY <1>2, <2>3, <2>5 DEF UsedIds, InUse
        <5> QED BY <5>1, <5>2
      <4> QED BY <1>0, <4>1, <4>2 DEF AgeInv
    <3> QED BY <2>1, <3>1, <3>2, <3>3
  <2>12. AnswersOwn'
    BY <1>0, <2>3 DEF AnswersOwn, None
  <2> QED BY <2>7, <2>8, <2>9, <2>11, <2>12 DEF ApiInv
<1> QED BY <1>3, <1>4

(***************************************************************************)
(* The theorems.                                                           *)
(***************************************************************************)
\* Every send, answer, deadline, reset and abort keeps the invariant.
THEOREM Invariance == Spec => []ApiInv
<1>1. ASSUME ApiInv, [Next]_vars
      PROVE  ApiInv'
  <2>1. CASE \E r \in Requests, k \in Kinds : Send(r, k)
    BY <1>1, <2>1, SendStep
  <2>2. CASE SendRefused
    BY <1>1, <2>2, RefusedStep
  <2>3. CASE Process \/ AbortAll \/ Lost \/ \E r \in Requests : Reset(r)
    BY <1>1, <2>3, EndStep
  <2>4. CASE UNCHANGED vars
    <3>1. pending' = pending /\ nextFrameId' = nextFrameId /\ req' = req /\ owed' = owed
      BY <2>4 DEF vars
    <3>2. UsedIds' = UsedIds
      BY <3>1 DEF UsedIds, InUse, Tracked
    <3> QED BY <1>1, <3>1, <3>2 DEF ApiInv, TypeOK, TableInv, OwedInv, AgeInv, AnswersOwn,
               Tracked
  <2> QED BY <1>1, <2>1, <2>2, <2>3, <2>4 DEF Next
<1> QED BY InitInv, <1>1, PTL DEF Spec

\* Each waiting request is in the table once and nothing else is, and no two
\* share an identifier (api_send(), dispatch_to_request(), expire_requests() and
\* xbee_api_request_reset()).
THEOREM TrackedExactlyOnce == Spec => []TrackedOnce
<1>1. ApiInv => TrackedOnce
  BY DEF ApiInv, TableInv, TrackedOnce
<1> QED BY Invariance, <1>1, PTL

\* No request takes the late answer to an earlier frame that had its identifier
\* (allocate_frame_id() and dispatch_to_request()).
THEOREM AnswersAreOwn == Spec => []AnswersOwn
<1>1. ApiInv => AnswersOwn
  BY DEF ApiInv
<1> QED BY Invariance, <1>1, PTL

\* An object whose caller has taken it back is left alone (xbee_api_process()
\* and xbee_api_abort_all()).
THEOREM LeftAlone == Spec => Untouched
<1> DEFINE Alone(r) == req[r].state # "PENDING" /\ req'[r] # req[r] =>
                         req'[r].got = None /\ req'[r].state # "FAILED"
<1>1. ASSUME ApiInv, [Next]_vars, NEW r \in Requests
      PROVE  Alone(r)
  <2> SUFFICES ASSUME req[r].state # "PENDING", req'[r] # req[r]
               PROVE  req'[r].got = None /\ req'[r].state # "FAILED"
    OBVIOUS
  <2>1. ~Tracked(r) /\ req \in [Requests -> Objects]
    BY <1>1, Types DEF ApiInv, TableInv
  <2>2. ~Process /\ ~AbortAll /\ ~Lost /\ ~SendRefused /\ ~UNCHANGED vars
    <3>1. ~Process
      BY <1>1, <2>1, ProcessDoes
    <3>2. ~AbortAll
      BY <2>1 DEF AbortAll
    <3> QED BY <3>1, <3>2 DEF Lost, SendRefused, vars
  <2>3. Over("DONE", None).got = None /\ Over("DONE", None).state = "DONE"
        /\ Idle.got = None /\ Idle.state = "IDLE"
    BY OverDoes DEF Idle
  <2>4. CASE \E q \in Requests, k \in Kinds : Send(q, k)
    <3>1. PICK q \in Requests, k \in Kinds : Send(q, k)
      BY <2>4
    <3>2. PICK id : \/ req' = [req EXCEPT ![q] = Over("DONE", None)]
                    \/ req' = [req EXCEPT ![q] = Object("PENDING", k, id, None)]
      BY <3>1 DEF Send
    <3>3. Object("PENDING", k, id, None).got = None
          /\ Object("PENDING", k, id, None).state = "PENDING"
      BY DEF Object
    <3> HIDE DEF Object
    <3>4. q = r
      BY <2>1, <3>2
    <3> QED BY <2>1, <2>3, <3>2, <3>3, <3>4
  <2>5. CASE \E q \in Requests : Reset(q)
    <3>1. PICK q \in Requests : req' = [req EXCEPT ![q] = Idle]
      BY <2>5 DEF Reset
    <3>2. q = r
      BY <2>1, <3>1
    <3> QED BY <2>1, <2>3, <3>1, <3>2
  <2> QED BY <1>1, <2>2, <2>4, <2>5 DEF Next
<1>2. ASSUME ApiInv, [Next]_vars
      PROVE  [\A r \in Requests : Alone(r)]_vars
  BY <1>1, <1>2
<1> QED BY Invariance, <1>2, PTL DEF Spec, Untouched
==============================================================================
