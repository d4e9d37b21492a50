------------------------------ MODULE XBeeApi ------------------------------
(***************************************************************************)
(* The API mode transport, xbee_api.c: a table of requests waiting for     *)
(* their answers, matched by frame type and by an identifier that cycles.  *)
(* Requests are objects of the callers', which may be sent again, and may  *)
(* be reclaimed while an answer is on its way.                             *)
(*                                                                         *)
(* Bytes and frames are abstract: a pass brings at most one whole answer   *)
(* (a pass that reads several is that many passes), a damaged one is a     *)
(* lost one, and a deadline may have passed whenever a pass looks at it.   *)
(***************************************************************************)
EXTENDS Naturals, FiniteSets

CONSTANTS Requests,   \* the callers' request objects
          MaxPending, \* XBEE_API_MAX_PENDING
          FrameIdMax, \* FRAME_ID_MAX
          MaxAge,     \* identifiers handed out while an answer is on its way
          MaxOwed     \* bound: answers on their way at a time

ASSUME ApiAssumption ==
  /\ MaxPending \in Nat \ {0} /\ FrameIdMax \in Nat /\ MaxAge \in Nat /\ MaxOwed \in Nat
  /\ MaxPending < FrameIdMax           \* xbee_api.c:166
  /\ MaxAge + MaxPending <= FrameIdMax
  /\ "none" \notin Requests

VARIABLES pending,     \* the tracking table
          nextFrameId, \* next_frame_id
          req,         \* the request objects
          owed         \* answers the module has yet to give, or that are under way

vars == <<pending, nextFrameId, req, owed>>

None  == "none"
NoId  == 0
Slots == 1..MaxPending
FrameIds == 1..FrameIdMax

\* "AT" has one answer and "MULTI" several, both with an identifier; the answer
\* to "UNLOCK" carries none; "SILENT" has no answer.
Kinds == {"AT", "MULTI", "UNLOCK", "SILENT"}
HasFrameId(k) == k \in {"AT", "MULTI"}

\* A request object: what it was sent as matters only while it waits.
Object(state, kind, id, got) == [state |-> state, kind |-> kind, id |-> id, got |-> got]
Over(state, got) == Object(state, "SILENT", NoId, got)
Idle == Over("IDLE", None)

TypeOK ==
  /\ pending \in [Slots -> Requests \cup {None}]
  /\ nextFrameId \in FrameIds
  /\ req \in [Requests -> [state : {"IDLE", "PENDING", "DONE", "FAILED"}, kind : Kinds,
                           id : FrameIds \cup {NoId}, got : {None, "own", "other"}]]
  /\ owed \subseteq [to : Requests \cup {None}, kind : Kinds \ {"SILENT"},
                     id : FrameIds \cup {NoId}, age : 0..MaxAge]

Init ==
  /\ pending = [s \in Slots |-> None] /\ nextFrameId = 1
  /\ req = [r \in Requests |-> Idle] /\ owed = {}

(***************************************************************************)
(* Sending.                                                                *)
(***************************************************************************)
\* Mutant: identifiers still waiting for their answer are not passed over.
InUseNever(id) == FALSE

Tracked(r)   == \E s \in Slots : pending[s] = r
FirstFree(s) == pending[s] = None /\ \A t \in Slots : t < s => pending[t] # None
InUse(id)    == \E r \in Requests : Tracked(r) /\ req[r].id = id
Ahead(k)     == ((nextFrameId - 1 + k) % FrameIdMax) + 1

\* Mutant: the lowest identifier that is free.
AllocateLowest(id) ==
  /\ id \in FrameIds /\ ~InUse(id) /\ \A i \in FrameIds : i < id => InUse(i)
  /\ nextFrameId' = nextFrameId

\* allocate_frame_id()
Allocate(id) ==
  \E k \in 0..(FrameIdMax - 1) :
    /\ id = Ahead(k) /\ ~InUse(id) /\ \A j \in 0..(k - 1) : InUse(Ahead(j))
    /\ nextFrameId' = Ahead(k + 1)

IdFor(k, id) == IF HasFrameId(k) THEN Allocate(id) ELSE id = NoId /\ UNCHANGED nextFrameId

\* Every identifier handed out leaves the answers under way one further behind;
\* the ones left too far behind never come.
Aged(O, k) ==
  IF ~HasFrameId(k) THEN O
  ELSE {IF HasFrameId(o.kind) THEN [o EXCEPT !.age = @ + 1] ELSE o :
        o \in {p \in O : p.age < MaxAge}}

\* api_send(), for a request the caller wants tracked.  The identifier is spent
\* even when the driver then refuses the frame.
Send(r, k) ==
  /\ ~Tracked(r) /\ Cardinality(owed) < MaxOwed
  /\ \E s \in Slots, id \in FrameIds \cup {NoId} :
       /\ FirstFree(s) /\ IdFor(k, id)
       /\ IF k = "SILENT"
          THEN /\ req' = [req EXCEPT ![r] = Over("DONE", None)]
               /\ UNCHANGED <<pending, owed>>
          ELSE /\ req' = [req EXCEPT ![r] = Object("PENDING", k, id, None)]
               /\ pending' = [pending EXCEPT ![s] = r]
               /\ owed' = Aged(owed, k) \cup {[to |-> r, kind |-> k, id |-> id, age |-> 0]}

SendRefused ==
  /\ \E r \in Requests : ~Tracked(r)
  /\ \E s \in Slots : FirstFree(s)
  /\ \E id \in FrameIds : Allocate(id)
  /\ owed' = Aged(owed, "AT") /\ UNCHANGED <<pending, req>>

(***************************************************************************)
(* Receiving.                                                              *)
(***************************************************************************)
\* Whoever stops waiting, the answer is still on its way, for nobody.
Unclaimed(O, R) == {[o EXCEPT !.to = IF @ \in R THEN None ELSE @] : o \in O}
Untrack(R)      == pending' = [s \in Slots |-> IF pending[s] \in R THEN None ELSE pending[s]]

AnswerType(k) == IF HasFrameId(k) THEN "AT_RESPONSE" ELSE k
Matches(r, o) == AnswerType(req[r].kind) = AnswerType(o.kind) /\ req[r].id = o.id

\* dispatch_to_request(): the first entry of the table that the answer matches.
Takes(r, o) ==
  \E s \in Slots :
    /\ pending[s] = r /\ Matches(r, o)
    /\ \A t \in Slots : t < s /\ pending[t] # None => ~Matches(pending[t], o)

\* xbee_api_process(): an answer, if one has arrived, then the deadlines.
Process ==
  \E arrived \in {S \in SUBSET owed : Cardinality(S) <= 1},
     due \in SUBSET {r \in Requests : Tracked(r)},
     fits \in BOOLEAN,   \* the answer fits into response_buf
     last \in BOOLEAN :  \* the last of several answers
    LET taker    == {r \in Requests : \E o \in arrived : Takes(r, o)}
        Whose(r) == IF \E o \in arrived : o.to = r \/ ~HasFrameId(o.kind) THEN "own" ELSE "other"
        stored   == IF fits THEN taker ELSE {}
        answered == {r \in stored : req[r].kind # "MULTI"}
        ended    == answered \cup (taker \ stored) \cup due
        Got(r)   == IF r \in stored THEN Whose(r) ELSE req[r].got
        Outcome(r) == IF \/ r \in answered
                         \/ r \notin taker \ stored /\ req[r].kind = "MULTI" /\ Got(r) # None
                      THEN "DONE" ELSE "FAILED"
    IN /\ fits \/ taker # {}
       /\ last \/ \E o \in arrived : o.kind = "MULTI"
       /\ req' = [r \in Requests |->
                    IF r \in ended THEN Over(Outcome(r), Got(r))
                                   ELSE [req[r] EXCEPT !.got = Got(r)]]
       /\ Untrack(ended)
       /\ owed' = Unclaimed(IF last \/ \E o \in arrived : o.kind # "MULTI"
                            THEN owed \ arrived ELSE owed, ended)
       /\ UNCHANGED nextFrameId

(***************************************************************************)
(* What else the callers do, and the link.                                 *)
(***************************************************************************)
\* Mutant: a reclaimed request is left in the table.
ResetTracked(r) ==
  /\ req' = [req EXCEPT ![r] = Idle]
  /\ owed' = Unclaimed(owed, {r}) /\ UNCHANGED <<pending, nextFrameId>>

\* xbee_api_request_reset()
Reset(r) ==
  /\ Untrack({r}) /\ req' = [req EXCEPT ![r] = Idle]
  /\ owed' = Unclaimed(owed, {r}) /\ UNCHANGED nextFrameId

\* xbee_api_abort_all(), which flushes what the driver has received as well.
AbortAll ==
  \E kept \in SUBSET owed :
    LET all == {r \in Requests : Tracked(r)}
    IN /\ req' = [r \in Requests |->
                    IF r \in all THEN Over("FAILED", req[r].got) ELSE req[r]]
       /\ Untrack(all) /\ owed' = Unclaimed(kept, all) /\ UNCHANGED nextFrameId

Lost == \E o \in owed : owed' = owed \ {o} /\ UNCHANGED <<pending, nextFrameId, req>>

Next ==
  \/ \E r \in Requests, k \in Kinds : Send(r, k)
  \/ SendRefused \/ Process \/ AbortAll \/ Lost
  \/ \E r \in Requests : Reset(r)
Spec == Init /\ [][Next]_vars

(***************************************************************************)
(* Properties.                                                             *)
(***************************************************************************)
\* The table and the requests agree: each waiting request is in it exactly once,
\* nothing else is, and no two share an identifier, over every order of sends,
\* answers, timeouts and reclaimed objects (xbee_api.c:446, 413 and 201).
TrackedOnce ==
  /\ TypeOK
  /\ \A r \in Requests : req[r].state = "PENDING" <=> Tracked(r)
  /\ \A s, t \in Slots : pending[s] = pending[t] /\ pending[s] # None => s = t
  /\ \A r, q \in Requests :
       Tracked(r) /\ Tracked(q) /\ req[r].id = req[q].id /\ req[r].id # NoId => r = q

\* The answer a request holds is the one to its own frame, never the late answer
\* to an earlier frame that had the same identifier (xbee_api.c:309): the
\* identifiers cycle, and an answer is not more than MaxAge identifiers late.
\* An answer that carries no identifier belongs to whoever it reaches.
AnswersOwn == \A r \in Requests : req[r].got # "other"

\* A request that is not waiting changes only when its caller sends or resets it:
\* no answer, deadline or abort reaches an object the caller has reclaimed
\* (xbee_api.c:413).
Untouched ==
  [][\A r \in Requests :
       req[r].state # "PENDING" /\ req'[r] # req[r] =>
         req'[r].got = None /\ req'[r].state # "FAILED"]_vars
=============================================================================
