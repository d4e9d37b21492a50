-------------------------- MODULE XBeeFacadeProofs --------------------------
(***************************************************************************)
(* Proofs about XBeeFacade: with any modes asked for, stored and set, and  *)
(* any number of resets, the request object, the facade and the transports *)
(* agree, and READY in a detected mode means the module is in it, unless   *)
(* what moved the module was not a change of mode of the facade's.         *)
(*                                                                         *)
(* FacadeInv is the inductive invariant.  RequestInv says which phase of   *)
(* the facade a request can be in flight in, and that the route it took is *)
(* the one UseCmd() still gives: the forced session and the detected mode  *)
(* do not move under it.  LineInv says whose answer is on the line: a read *)
(* or a write is answered for the one request that waits, and the answer   *)
(* tells the truth about the module's AP.  ModeInv carries that truth to   *)
(* the detected mode, through the change of mode that is in flight, as     *)
(* long as nothing the facade does not follow has been asked.              *)
(***************************************************************************)
EXTENDS XBeeFacade, TLAPS

\* What the module may owe, and what the request objects may be.
Answer == [kind : {"OK", "API", "CMD"}, got : APs \cup {None}]
Owes(kind) == owed # <<>> /\ Head(owed).kind = kind
OwedOK == owed \in Seq(Answer) /\ Len(owed) <= 1
Radio == [stored : APs, ap : APs, staged : APs, cmd : BOOLEAN, asleep : BOOLEAN]
Objects == [state : {"OVER", "PENDING"}, awaiting : BOOLEAN, via : {None, "API", "CMD"},
            part : {None, "WAITING", "OK", "FAILED"}, op : Ops, got : APs \cup {None}]
Both == {"user", "internal"}

\* The phases of bring-up that have a request of their own.
Reading == {"PROBE_API", "PROBE_CMD_READ", "READ_PARAMS"}

\* A request that is over keeps nothing, one that awaits a session has no part yet.
Shaped ==
  \A r \in Both :
    /\ req[r].state = "OVER" => req[r] = Over
    /\ req[r].awaiting => req[r].via = None /\ req[r].part = None

\* Which state of the facade each request, the session and an exit belong to.
Phases ==
  /\ req["user"].state = "PENDING" <=> userReq
  /\ userReq => state = "READY"
  /\ req["internal"].state = "PENDING" => state \in Reading
  /\ session # "NONE" => state \in {"READY", "ASLEEP"}
  /\ userReq => session \in {"NONE", "OPEN"}
  /\ cmd = "EXITING" => /\ state \in {"READY", "ASLEEP"} /\ ~userReq
                        /\ session = "OPEN" \/ detected \notin Api

\* What the requests ask, and the mode bring-up has adopted for asking.
Asks ==
  /\ state \in {"PROBE_API", "PROBE_CMD_READ"} => req["internal"].op = "AP"
  /\ state = "READ_PARAMS" => req["internal"].op = "GET"
  /\ req["user"].op # "AP"
  /\ state = "PROBE_API" => detected = "API1"
  /\ state \in {"PROBE_CMD", "PROBE_CMD_READ"} => detected = "TRANSPARENT"
  /\ state = "READ_PARAMS" => detected # AutoMode

\* The Command mode transport is busy for a request of its own, and the route a
\* request took, or waits to take, is the one the facade would take now.
Routed ==
  /\ cmd = "BUSY" <=> \E r \in Both : req[r].via = "CMD" /\ req[r].part = "WAITING"
  /\ \A r \in Both : req[r].awaiting \/ req[r].via # None =>
                       (req[r].awaiting \/ req[r].via = "CMD" <=> UseCmd(detected))

\* An answer to r that tells the truth about the module: a read of AP returns what
\* the module holds, a write of AP is in force.
Fits(r, got) ==
  /\ req[r].op = "AP" => got = radio.staged
  /\ req[r].op \in Modes => radio.staged = req[r].op

\* What is on the line is for a request that waits, or for the transport that has
\* sent the sequence or CN.
LineInv ==
  /\ OwedOK
  /\ \A k \in {"API", "CMD"} :
       Owes(k) => \E r \in Both : req[r].via = k /\ req[r].part = "WAITING" /\ Fits(r, Head(owed).got)
  /\ Owes("OK") => cmd = "EXITING" \/ (cmd = "WAIT_OK" /\ radio.cmd)
  /\ \A r \in Both : req[r].part = "OK" => Fits(r, req[r].got)

\* A change of mode in flight has its pending_mode; a request the facade does not
\* follow leaves it unsure; and the detected mode is otherwise what the module holds,
\* but for the change in flight.
ModeInv ==
  /\ Changes => pendingMine /\ pending = req["user"].op
  /\ userReq /\ req["user"].op = "MOVE" => unsure
  /\ asked \notin Api /\ (state = "READ_PARAMS" \/ (state \in {"READY", "ASLEEP"} /\ ~unsure)) =>
       detected = radio.staged \/ Changes

RequestInv == Shaped /\ Phases /\ Asks /\ Routed
FacadeInv == TypeOK /\ RequestInv /\ LineInv /\ ModeInv

-----------------------------------------------------------------------------
\* Of a sequence of one element, nothing is left.
LEMMA OneTail ==
  ASSUME NEW S, NEW s \in Seq(S), Len(s) <= 1, s # <<>>
  PROVE  Tail(s) = <<>> /\ Head(s) \in S
OBVIOUS

\* The empty sequence, over any set.
LEMMA Emptied == \A S : <<>> \in Seq(S) /\ Len(<<>>) = 0
OBVIOUS

\* A flushed line owes nothing.
LEMMA EmptyOwed == owed' = <<>> => OwedOK'
BY Emptied DEF OwedOK

\* A sequence of one element holds that element.
LEMMA OneAppend ==
  ASSUME NEW S, NEW e \in S
  PROVE  /\ Append(<<>>, e) \in Seq(S) /\ Len(Append(<<>>, e)) = 1
         /\ Append(<<>>, e) # <<>> /\ Head(Append(<<>>, e)) = e
OBVIOUS

\* A request that is over, field by field.
LEMMA OverIs ==
  /\ Over.state = "OVER" /\ Over.awaiting = FALSE /\ Over.via = None
  /\ Over.part = None /\ Over.op = "GET" /\ Over \in Objects
BY DEF Over, Object, Objects, Ops

\* What a transmission does to the module and to the line.
LEMMA SendsEffect ==
  ASSUME NEW via \in {"API", "CMD"}, NEW op \in Ops \cup {"ESC", "CN"},
         radio \in Radio, OwedOK, owed = <<>> \/ (via = "API" /\ radio.cmd), Sends(via, op)
  PROVE  /\ radio' \in Radio /\ OwedOK'
         /\ radio'.staged = radio.staged \/ op = "MOVE" \/ (op \in Modes /\ radio'.staged = op)
         /\ \/ owed' = owed /\ (owed # <<>> => radio' = radio)
            \/ /\ owed = <<>> /\ owed' # <<>>
               /\ Head(owed').kind = IF op \in {"ESC", "CN"} THEN "OK" ELSE via
               /\ Head(owed').got = IF op = "AP" THEN radio'.staged ELSE None
               /\ op \in Modes => radio'.staged = op
               /\ op = "ESC" => radio'.cmd
<1>1. CASE UNCHANGED <<radio, owed>>
  BY <1>1 DEF OwedOK
<1>2. CASE /\ Understands(via, op) /\ radio' \in Obeys(via, op)
           /\ UNCHANGED owed \/ (Len(owed) < 2 /\ owed' = Append(owed, AnswerTo(via, op)))
  <2>1. owed = <<>>
    BY <1>2 DEF Understands
  <2>2. /\ radio' \in Radio
        /\ radio'.staged = radio.staged \/ op = "MOVE" \/ (op \in Modes /\ radio'.staged = op)
        /\ op \in Modes => radio'.staged = op
        /\ op = "ESC" => radio'.cmd
        /\ op = "AP" => radio'.staged = radio.staged
    <3>1. CASE op = "MOVE"
      <4>1. \/ radio' = Restart(radio)
            \/ radio' = [radio EXCEPT !.ap = radio.staged]
            \/ \E ap \in Elsewhere \cup {radio.stored} : radio' = Takes(via, ap)
            \/ \E ap \in Elsewhere : radio' = [radio EXCEPT !.staged = ap]
        BY <1>2, <3>1 DEF Obeys, Modes, Api
      <4>2. radio' \in Radio
        BY <4>1, FacadeAssumption DEF Takes, Restart, Radio
      <4> QED
        BY <3>1, <4>2 DEF Modes, Api
    <3>2. CASE op # "MOVE"
      BY <1>2, <3>2 DEF Obeys, Takes, Leaves, Radio, Ops, Modes, Api, APs
    <3> QED
      BY <3>1, <3>2
  <2>3. AnswerTo(via, op) \in Answer
    BY DEF AnswerTo, Answer, Radio
  <2>4. CASE UNCHANGED owed
    BY <2>1, <2>2, <2>4 DEF OwedOK
  <2>5. CASE owed' = Append(owed, AnswerTo(via, op))
    <3>1. /\ owed' \in Seq(Answer) /\ Len(owed') = 1 /\ owed' # <<>>
          /\ Head(owed') = AnswerTo(via, op)
      BY <2>1, <2>3, <2>5, OneAppend
    <3>2. /\ Head(owed').kind = IF op \in {"ESC", "CN"} THEN "OK" ELSE via
          /\ Head(owed').got = IF op = "AP" THEN radio'.staged ELSE None
      BY <3>1, <2>2 DEF AnswerTo
    <3> QED
      BY <2>1, <2>2, <3>1, <3>2 DEF OwedOK
  <2> QED
    BY <1>2, <2>4, <2>5
<1> QED
  BY <1>1, <1>2 DEF Sends

\* The states of the Command mode transport.
Cmds == {"IDLE", "GUARD_PRE", "WAIT_OK", "ACTIVE", "BUSY", "EXITING"}

\* An answer that is taken off the line leaves it empty.
LEMMA OwedKind == LineInv /\ owed # <<>> => Head(owed) \in Answer /\ Tail(owed) = <<>>
BY OneTail DEF LineInv, OwedOK

\* With nothing waiting, the line holds at most the OK of a sequence or of CN.
LEMMA NothingWaiting ==
  ASSUME LineInv, \A q \in Both : req[q].part # "WAITING"
  PROVE  owed = <<>> \/ (Owes("OK") /\ (cmd = "EXITING" \/ (cmd = "WAIT_OK" /\ radio.cmd)))
<1>1. ~Owes("API") /\ ~Owes("CMD")
  BY DEF LineInv
<1>2. owed # <<>> => Head(owed).kind \in {"OK", "API", "CMD"}
  BY OwedKind DEF Answer
<1> QED
  BY <1>1, <1>2 DEF LineInv, Owes

\* A request that is started, or goes out once its session is open, keeps the line,
\* takes the route of the mode m, and changes AP only if that is what it asks.
LEMMA Starts ==
  ASSUME NEW r \in Both, NEW op \in Ops, NEW m,
         radio \in Radio, req \in [Both -> Objects], LineInv, cmd \in Cmds,
         \A q \in Both : q # r => req[q] = Over,
         req[r].part # "WAITING", cmd # "BUSY", cmd = "EXITING" => UseCmd(m),
         \/ StartRequest(r, op, m)
         \/ Proceeds(r) /\ op = req[r].op /\ UseCmd(m)
  PROVE  /\ radio' \in Radio /\ req' \in [Both -> Objects] /\ LineInv'
         /\ \A q \in Both : q # r => req'[q] = Over
         /\ req'[r].state = "PENDING" /\ req'[r].op = op
         /\ req'[r].awaiting => req'[r].via = None /\ req'[r].part = None
         /\ req'[r].awaiting \/ req'[r].via # None =>
              (req'[r].awaiting \/ req'[r].via = "CMD" <=> UseCmd(m))
         /\ radio'.staged = radio.staged \/ op = "MOVE" \/ (op \in Modes /\ radio'.staged = op)
         /\ cmd' = "BUSY" <=> req'[r].via = "CMD" /\ req'[r].part = "WAITING"
         /\ cmd' \in Cmds /\ (cmd' = "EXITING" => cmd = "EXITING")
<1>1. owed = <<>> \/ (Owes("OK") /\ (cmd = "EXITING" \/ (cmd = "WAIT_OK" /\ radio.cmd)))
  BY NothingWaiting DEF Over, Object, None
<1>2. ASSUME NEW v \in {"API", "CMD"}, Becomes(r, Via(v, op)), Sends(v, op),
             owed = <<>> \/ (v = "API" /\ radio.cmd),
             cmd' \in Cmds, cmd' = "BUSY" <=> v = "CMD", cmd' = cmd \/ cmd' = "BUSY", v = "CMD" <=> UseCmd(m)
      PROVE  /\ radio' \in Radio /\ req' \in [Both -> Objects] /\ LineInv'
             /\ \A q \in Both : q # r => req'[q] = Over
             /\ req'[r].state = "PENDING" /\ req'[r].op = op
             /\ req'[r].awaiting => req'[r].via = None /\ req'[r].part = None
             /\ req'[r].awaiting \/ req'[r].via # None =>
                  (req'[r].awaiting \/ req'[r].via = "CMD" <=> UseCmd(m))
             /\ radio'.staged = radio.staged \/ op = "MOVE" \/ (op \in Modes /\ radio'.staged = op)
             /\ cmd' = "BUSY" <=> req'[r].via = "CMD" /\ req'[r].part = "WAITING"
             /\ cmd' \in Cmds /\ (cmd' = "EXITING" => cmd = "EXITING")
  <2>1. /\ radio' \in Radio /\ OwedOK'
        /\ radio'.staged = radio.staged \/ op = "MOVE" \/ (op \in Modes /\ radio'.staged = op)
        /\ \/ owed' = owed /\ (owed # <<>> => radio' = radio)
           \/ /\ owed = <<>> /\ owed' # <<>>
              /\ Head(owed').kind = v
              /\ Head(owed').got = IF op = "AP" THEN radio'.staged ELSE None
              /\ op \in Modes => radio'.staged = op
    BY <1>2, SendsEffect DEF LineInv, Ops, Modes, Api
  <2>2. /\ req' \in [Both -> Objects]
        /\ req'[r] = Via(v, op)
        /\ \A q \in Both : q # r => req'[q] = Over
    BY <1>2 DEF Becomes, Via, Object, Objects
  <2>3. \A q \in Both : req'[q].part # "OK"
    BY <2>2 DEF Via, Over, Object, None
  <2>4. req'[r].via = v /\ req'[r].part = "WAITING" /\ req'[r].op = op
        /\ req'[r].state = "PENDING" /\ req'[r].awaiting = FALSE
    BY <2>2 DEF Via, Object
  <2>5. LineInv'
    <3>1. CASE owed' = owed /\ (owed # <<>> => radio' = radio)
      BY <1>1, <1>2, <2>1, <2>3, <3>1 DEF LineInv, Owes
    <3>2. CASE owed = <<>> /\ owed' # <<>> /\ Head(owed').kind = v
               /\ Head(owed').got = (IF op = "AP" THEN radio'.staged ELSE None)
               /\ (op \in Modes => radio'.staged = op)
      BY <2>1, <2>3, <2>4, <3>2 DEF LineInv, Owes, Fits
    <3> QED
      BY <2>1, <3>1, <3>2
  <2> QED
    BY <1>2, <2>1, <2>2, <2>4, <2>5 DEF None
<1>3. CASE Proceeds(r) /\ op = req[r].op /\ UseCmd(m)
  <2>1. owed = <<>>
    BY <1>1, <1>3 DEF Proceeds
  <2> QED
    BY <1>2, <1>3, <2>1 DEF Proceeds, Cmds
<1>4. CASE ~UseCmd(m) /\ Becomes(r, Via("API", op)) /\ Sends("API", op) /\ UNCHANGED cmd
  <2>1. owed = <<>> \/ radio.cmd
    BY <1>1, <1>4
  <2> QED
    BY <1>2, <1>4, <2>1
<1>5. CASE UseCmd(m) /\ cmd = "ACTIVE" /\ cmd' = "BUSY" /\ Becomes(r, Via("CMD", op)) /\ Sends("CMD", op)
  <2>1. owed = <<>>
    BY <1>1, <1>5
  <2> QED
    BY <1>2, <1>5, <2>1 DEF Cmds
<1>6. CASE UseCmd(m) /\ cmd = "IDLE" /\ cmd' = "GUARD_PRE"
           /\ Becomes(r, Awaits(op)) /\ UNCHANGED <<radio, owed>>
  <2>1. owed = <<>>
    BY <1>1, <1>6
  <2>2. /\ req' \in [Both -> Objects]
        /\ req'[r] = Awaits(op)
        /\ \A q \in Both : q # r => req'[q] = Over
    BY <1>6 DEF Becomes, Awaits, Object, Objects
  <2>3. \A q \in Both : req'[q].part = None
    BY <2>2 DEF Awaits, Over, Object
  <2>4. req'[r].via = None /\ req'[r].op = op
        /\ req'[r].state = "PENDING" /\ req'[r].awaiting = TRUE
    BY <2>2 DEF Awaits, Object
  <2>5. LineInv'
    BY <1>6, <2>1, <2>3 DEF LineInv, Owes, OwedOK, None
  <2> QED
    BY <1>6, <2>2, <2>3, <2>4, <2>5 DEF Cmds, None
<1> QED
  BY <1>3, <1>4, <1>5, <1>6 DEF StartRequest

\* advance_cmd_session(), by its cases.
LEMMA AdvanceEffect ==
  ASSUME NEW c, Transports(c)
  PROVE  \/ session = "PENDING" /\ c = "IDLE" /\ session' = "ENTERING" /\ cmd' = "GUARD_PRE"
         \/ session = "ENTERING" /\ c = "ACTIVE" /\ session' = "OPEN" /\ cmd' = c
         \/ session = "ENTERING" /\ c = "IDLE" /\ session' = "PENDING" /\ cmd' = c
         \/ session = "OPEN" /\ c = "IDLE" /\ ~userReq /\ session' = "NONE" /\ cmd' = c
         \/ session' = session /\ cmd' = c
BY DEF Transports, Advance

\* A pass of the transports that keeps the requests' shape and the line keeps
\* everything: the forced session does not change under a request.
LEMMA PassKeeps ==
  ASSUME FacadeInv, NEW c \in Cmds, Transports(c), c = "EXITING" => cmd = "EXITING",
         radio' \in Radio, radio'.staged = radio.staged, LineInv', req' \in [Both -> Objects],
         \A q \in Both : \/ req'[q] = req[q]
                         \/ /\ req[q].state = "PENDING" /\ req'[q].state = "PENDING"
                            /\ ~req[q].awaiting /\ ~req'[q].awaiting
                            /\ req'[q].via = req[q].via /\ req'[q].op = req[q].op,
         c = "BUSY" <=> \E r \in Both : req'[r].via = "CMD" /\ req'[r].part = "WAITING"
  PROVE  FacadeInv'
<1>1. TypeOK'
  BY AdvanceEffect DEF FacadeInv, TypeOK, Transports, Cmds, Radio, Objects, Both, LineInv, OwedOK,
     read, sleep, mode
<1>2. Shaped'
  BY DEF FacadeInv, RequestInv, Shaped, Over, Object
<1>3. /\ state' = state /\ userReq' = userReq /\ detected' = detected /\ asked' = asked
      /\ unsure' = unsure /\ pending' = pending /\ pendingMine' = pendingMine
  BY DEF Transports, mode
<1>4. /\ req'["user"].state = req["user"].state /\ req'["user"].op = req["user"].op
      /\ req'["internal"].state = req["internal"].state
      /\ req'["internal"].op = req["internal"].op
  BY DEF Both
<1>5. Asks' /\ ModeInv'
  BY <1>3, <1>4 DEF FacadeInv, RequestInv, Asks, ModeInv, Changes
<1>6. Phases'
  BY <1>3, <1>4, AdvanceEffect DEF FacadeInv, RequestInv, Phases, UseCmd
<1>7. cmd' = "BUSY" <=> \E r \in Both : req'[r].via = "CMD" /\ req'[r].part = "WAITING"
  BY AdvanceEffect
<1>8. ASSUME NEW q \in Both, req'[q].awaiting \/ req'[q].via # None
      PROVE  req'[q].awaiting \/ req'[q].via = "CMD" <=> UseCmd(detected)'
  <2>1. req[q].awaiting \/ req[q].via # None
    BY <1>8
  <2>2. req[q].state = "PENDING"
    BY <2>1 DEF FacadeInv, RequestInv, Shaped, TypeOK, Over, Object, Both
  <2>3. UseCmd(detected)' <=> UseCmd(detected)
    BY <1>3, <2>2, AdvanceEffect DEF FacadeInv, RequestInv, Phases, Reading, UseCmd, Both
  <2>4. req[q].awaiting \/ req[q].via = "CMD" <=> UseCmd(detected)
    BY <2>1 DEF FacadeInv, RequestInv, Routed
  <2> QED
    BY <2>3, <2>4
<1> QED
  BY <1>1, <1>2, <1>5, <1>6, <1>7, <1>8 DEF FacadeInv, RequestInv, Routed

\* Completing a transport's requests touches only those that wait on it.
LEMMA CompletedEffect ==
  ASSUME req \in [Both -> Objects], NEW v, NEW part \in {"OK", "FAILED"}, NEW got \in APs \cup {None},
         Completed(v, part, got)
  PROVE  /\ req' \in [Both -> Objects]
         /\ \A q \in Both :
              IF req[q].via = v /\ req[q].part = "WAITING"
              THEN req'[q] = [req[q] EXCEPT !.part = part, !.got = got] ELSE req'[q] = req[q]
<1>1. DOMAIN req = Both
  OBVIOUS
<1>2. \A q \in Both : q \in Waiting(v) <=> req[q].via = v /\ req[q].part = "WAITING"
  BY <1>1 DEF Waiting
<1>3. \A q \in Both : [req[q] EXCEPT !.part = part, !.got = got] \in Objects
  BY DEF Objects
<1>4. req' = [q \in Both |-> IF q \in Waiting(v)
                             THEN [req[q] EXCEPT !.part = part, !.got = got] ELSE req[q]]
  BY <1>1 DEF Completed
<1> QED
  BY <1>2, <1>3, <1>4

\* The parts of the invariant.
LEMMA PassFacts ==
  ASSUME FacadeInv
  PROVE  /\ radio \in Radio /\ req \in [Both -> Objects] /\ cmd \in Cmds
         /\ LineInv /\ Shaped /\ Phases /\ Asks /\ Routed /\ ModeInv
BY DEF FacadeInv, RequestInv, TypeOK, Radio, Objects, Cmds, Both

\* An answer of the transport v completes what waits on it, truthfully.
LEMMA AnsweredKeeps ==
  ASSUME FacadeInv, NEW v \in {"API", "CMD"}, owed # <<>>, owed' = Tail(owed),
         Head(owed).kind = v, Completed(v, "OK", Head(owed).got), UNCHANGED radio,
         NEW c \in Cmds, Transports(c), c = "EXITING" => cmd = "EXITING",
         v = "API" => c = cmd, v = "CMD" => c # "BUSY"
  PROVE  FacadeInv'
<1>1. /\ Head(owed) \in Answer /\ Tail(owed) = <<>> /\ Owes(v) /\ ~(v # "API" /\ Owes("API"))
  BY PassFacts, OwedKind DEF Owes
<1>2. /\ req' \in [Both -> Objects]
      /\ \A q \in Both :
           IF req[q].via = v /\ req[q].part = "WAITING"
           THEN req'[q] = [req[q] EXCEPT !.part = "OK", !.got = Head(owed).got]
           ELSE req'[q] = req[q]
  <2>1. Head(owed).got \in APs \cup {None}
    BY <1>1 DEF Answer
  <2>2. PICK got : got = Head(owed).got
    OBVIOUS
  <2>3. /\ req' \in [Both -> Objects]
        /\ \A q \in Both :
             IF req[q].via = v /\ req[q].part = "WAITING"
             THEN req'[q] = [req[q] EXCEPT !.part = "OK", !.got = got]
             ELSE req'[q] = req[q]
    <3>1. got \in APs \cup {None} /\ Completed(v, "OK", got)
      BY <2>1, <2>2
    <3>2. req \in [Both -> Objects]
      BY PassFacts
    <3>3. "OK" \in {"OK", "FAILED"}
      OBVIOUS
    <3> QED
      BY ONLY <3>1, <3>2, <3>3, CompletedEffect
  <2> QED
    BY <2>2, <2>3
<1>3. \A q \in Both :
        /\ req'[q].state = req[q].state /\ req'[q].awaiting = req[q].awaiting
        /\ req'[q].via = req[q].via /\ req'[q].op = req[q].op
        /\ \/ req'[q] = req[q]
           \/ /\ req[q].via = v /\ req[q].part = "WAITING" /\ req[q].state = "PENDING"
              /\ ~req[q].awaiting
              /\ req'[q].part = "OK" /\ req'[q].got = Head(owed).got
        /\ req[q].via = v => req'[q].part # "WAITING"
  <2> TAKE q \in Both
  <2>1. req[q] \in Objects
    BY PassFacts
  <2>2. CASE req[q].via = v /\ req[q].part = "WAITING"
    <3>1. req[q].state = "PENDING" /\ ~req[q].awaiting
      BY <2>1, <2>2, PassFacts DEF Objects, Shaped, Over, Object, None
    <3>2. req'[q] = [req[q] EXCEPT !.part = "OK", !.got = Head(owed).got]
      BY <1>2, <2>2
    <3> QED
      BY <2>1, <2>2, <3>1, <3>2 DEF Objects
  <2>3. CASE ~(req[q].via = v /\ req[q].part = "WAITING")
    <3>1. req'[q] = req[q]
      BY <1>2, <2>3
    <3> QED
      BY <2>3, <3>1
  <2> QED
    BY <2>2, <2>3
<1>4. \A q, p \in Both : req[q].state = "PENDING" /\ req[p].state = "PENDING" => q = p
  BY PassFacts DEF Phases, Reading, Both
<1>5. \A q \in Both : req[q].via = v /\ req[q].part = "WAITING" => Fits(q, Head(owed).got)
  <2> SUFFICES ASSUME NEW q \in Both, req[q].via = v, req[q].part = "WAITING"
               PROVE  Fits(q, Head(owed).got)
    OBVIOUS
  <2>1. PICK p \in Both : req[p].via = v /\ req[p].part = "WAITING" /\ Fits(p, Head(owed).got)
    BY <1>1, PassFacts DEF LineInv
  <2>2. req[q].state = "PENDING" /\ req[p].state = "PENDING"
    BY <2>1, PassFacts DEF Objects, Shaped, Over, Object, None
  <2> QED
    BY <1>4, <2>1, <2>2
<1>6. LineInv'
  <2>0. owed' = <<>>
    BY <1>1
  <2>1. OwedOK' /\ owed' = <<>>
    BY <2>0, EmptyOwed
  <2>2. \A q \in Both : req'[q].part = "OK" => Fits(q, req[q].got)' 
    BY <1>3, <1>5, PassFacts DEF LineInv, Fits
  <2> QED
    BY <2>1, <2>2, PassFacts DEF LineInv, Owes
<1>7. c = "BUSY" <=> \E r \in Both : req'[r].via = "CMD" /\ req'[r].part = "WAITING"
  <2>1. CASE v = "CMD"
    BY <1>3, <2>1
  <2>2. CASE v = "API"
    BY <1>3, <2>2, PassFacts DEF Routed
  <2> QED
    BY <2>1, <2>2
<1> QED
  BY <1>2, <1>3, <1>6, <1>7, PassFacts, PassKeeps

\* A request that has run out of time.
LEMMA ExpiredKeeps ==
  ASSUME FacadeInv, NEW v \in {"API", "CMD"}, owed = <<>>, Completed(v, "FAILED", None),
         UNCHANGED <<radio, owed>>, NEW c \in Cmds, Transports(c), c # "EXITING" \/ cmd = c,
         v = "API" => c = cmd, v = "CMD" => c # "BUSY"
  PROVE  FacadeInv'
<1>1. /\ req' \in [Both -> Objects]
      /\ \A q \in Both :
           IF req[q].via = v /\ req[q].part = "WAITING"
           THEN req'[q] = [req[q] EXCEPT !.part = "FAILED", !.got = None]
           ELSE req'[q] = req[q]
  BY PassFacts, CompletedEffect
<1>2. \A q \in Both :
        /\ req'[q].state = req[q].state /\ req'[q].awaiting = req[q].awaiting
        /\ req'[q].via = req[q].via /\ req'[q].op = req[q].op
        /\ \/ req'[q] = req[q]
           \/ /\ req[q].state = "PENDING" /\ req[q].via = v /\ req'[q].part = "FAILED"
              /\ ~req[q].awaiting
        /\ req[q].via = v => req'[q].part # "WAITING"
  <2> TAKE q \in Both
  <2>1. req[q] \in Objects
    BY PassFacts
  <2>2. CASE req[q].via = v /\ req[q].part = "WAITING"
    <3>1. req[q].state = "PENDING" /\ ~req[q].awaiting
      BY <2>1, <2>2, PassFacts DEF Objects, Shaped, Over, Object, None
    <3>2. req'[q] = [req[q] EXCEPT !.part = "FAILED", !.got = None]
      BY <1>1, <2>2
    <3> QED
      BY <2>1, <2>2, <3>1, <3>2 DEF Objects
  <2>3. CASE ~(req[q].via = v /\ req[q].part = "WAITING")
    <3>1. req'[q] = req[q]
      BY <1>1, <2>3
    <3> QED
      BY <2>3, <3>1
  <2> QED
    BY <2>2, <2>3
<1>3. LineInv'
  BY <1>2, PassFacts DEF LineInv, OwedOK, Owes, Fits
<1>4. c = "BUSY" <=> \E r \in Both : req'[r].via = "CMD" /\ req'[r].part = "WAITING"
  <2>1. CASE v = "CMD"
    BY <1>2, <2>1
  <2>2. CASE v = "API"
    BY <1>2, <2>2, PassFacts DEF Routed
  <2> QED
    BY <2>1, <2>2
<1> QED
  BY <1>1, <1>2, <1>3, <1>4, PassFacts, PassKeeps

\* Every step of the transports.
LEMMA TransportsKeepInv ==
  ASSUME FacadeInv, TransportProgress \/ QuietPass
  PROVE  FacadeInv'
<1> USE PassFacts
<1>1. CASE ApiAnswered
  <2>1. CASE Head(owed).kind = "API"
    BY <1>1, <2>1, AnsweredKeeps DEF ApiAnswered
  <2>2. CASE Head(owed).kind # "API"
    <3>1. UNCHANGED <<req, radio>> /\ owed' = <<>> /\ owed # <<>> /\ Transports(cmd)
      BY <1>1, <2>2, OwedKind DEF ApiAnswered
    <3>2. LineInv'
      BY <3>1 DEF LineInv, OwedOK, Owes, Fits
    <3>3. cmd = "BUSY" <=> \E r \in Both : req'[r].via = "CMD" /\ req'[r].part = "WAITING"
      BY <3>1 DEF Routed
    <3> QED
      BY <3>1, <3>2, <3>3, PassKeeps
  <2> QED
    BY <2>1, <2>2
<1>2. CASE ApiExpires
  BY <1>2, ExpiredKeeps DEF ApiExpires
<1>3. CASE CmdAnswered
  <2>1. CASE cmd = "BUSY" /\ Head(owed).kind # "API"
    <3>1. Head(owed).kind = "CMD" /\ owed # <<>>
      BY <1>3, <2>1, OwedKind DEF CmdAnswered, LineInv, Owes, Answer
    <3>2. After(Head(owed).kind) = "ACTIVE"
      BY <2>1, <3>1 DEF After
    <3> QED
      BY <1>3, <2>1, <3>1, <3>2, AnsweredKeeps DEF CmdAnswered, Cmds
  <2>2. CASE ~(cmd = "BUSY" /\ Head(owed).kind # "API")
    <3> DEFINE c == After(Head(owed).kind)
    <3>1. UNCHANGED <<req, radio>> /\ owed' = <<>> /\ owed # <<>> /\ Transports(c)
      BY <1>3, <2>2, OwedKind DEF CmdAnswered
    <3>2. c \in Cmds /\ (c = "EXITING" => cmd = "EXITING") /\ (c = "BUSY" <=> cmd = "BUSY")
      BY <2>2 DEF After, Cmds
    <3>3. LineInv'
      BY <3>1 DEF LineInv, OwedOK, Owes, Fits
    <3>4. c = "BUSY" <=> \E r \in Both : req'[r].via = "CMD" /\ req'[r].part = "WAITING"
      BY <3>1, <3>2 DEF Routed
    <3> QED
      BY <3>1, <3>2, <3>3, <3>4, PassKeeps
  <2> QED
    BY <2>1, <2>2
<1>4. CASE EscapeSent
  <2>1. /\ cmd = "GUARD_PRE" /\ owed = <<>> /\ Transports("WAIT_OK") /\ Sends("CMD", "ESC")
        /\ UNCHANGED req
    BY <1>4 DEF EscapeSent
  <2>2. cmd' = "WAIT_OK"
    BY <2>1, AdvanceEffect
  <2>3. /\ radio' \in Radio /\ OwedOK'
        /\ radio'.staged = radio.staged
        /\ owed' # <<>> => Head(owed').kind = "OK" /\ radio'.cmd
    BY <2>1, SendsEffect DEF LineInv, Modes, Api
  <2>4. LineInv'
    BY <2>1, <2>2, <2>3 DEF LineInv, Owes, Fits
  <2>5. "WAIT_OK" = "BUSY" <=> \E r \in Both : req'[r].via = "CMD" /\ req'[r].part = "WAITING"
    BY <2>1 DEF Routed
  <2> QED
    BY <2>1, <2>3, <2>4, <2>5, PassKeeps DEF Cmds
<1>5. CASE CmdExpires
  <2> DEFINE c == IF cmd = "BUSY" THEN "ACTIVE" ELSE "IDLE"
  <2>1. /\ owed = <<>> /\ Transports(c) /\ Completed("CMD", "FAILED", None) /\ UNCHANGED <<radio, owed>>
    BY <1>5 DEF CmdExpires
  <2>2. c \in Cmds /\ c # "BUSY" /\ c # "EXITING"
    BY DEF Cmds
  <2> QED
    BY <2>1, <2>2, ExpiredKeeps
<1>6. CASE QuietPass
  <2>1. UNCHANGED <<req, radio, owed>> /\ Transports(cmd)
    BY <1>6 DEF QuietPass
  <2>2. \/ cmd' = cmd
        \/ cmd' = "GUARD_PRE" /\ cmd = "IDLE"
    BY <2>1, AdvanceEffect
  <2>3. LineInv'
    BY <2>1, <2>2 DEF LineInv, OwedOK, Owes, Fits
  <2>4. cmd = "BUSY" <=> \E r \in Both : req'[r].via = "CMD" /\ req'[r].part = "WAITING"
    BY <2>1 DEF Routed
  <2> QED
    BY <2>1, <2>3, <2>4, PassKeeps
<1> QED
  BY <1>1, <1>2, <1>3, <1>4, <1>5, <1>6 DEF TransportProgress

\* Before READY there is no session, no request of the application and no exit.
LEMMA InBringUpFacts ==
  ASSUME FacadeInv, state \in BringUp \cup {"OFF", "FAILED"}
  PROVE  /\ session = "NONE" /\ ~userReq /\ req["user"] = Over /\ cmd # "EXITING"
         /\ detected \in Modes \cup {AutoMode}
  BY PassFacts DEF Phases, Shaped, BringUp, FacadeInv, TypeOK, Both

\* In bring-up, with its own request settled, nothing waits.
LEMMA Idle ==
  ASSUME FacadeInv, state \in BringUp, req["internal"].part # "WAITING"
  PROVE  /\ \A q \in Both : req[q].part # "WAITING"
         /\ cmd # "BUSY"
         /\ \A q \in Both : q # "internal" => req[q] = Over
<1>1. \A q \in Both : q # "internal" => req[q] = Over
  BY InBringUpFacts DEF Both
<1>2. \A q \in Both : req[q].part # "WAITING"
  BY <1>1 DEF Over, Object, None, Both
<1> QED
  BY <1>1, <1>2, PassFacts DEF Routed

\* Bring-up starts a request, in the mode it has adopted, or fails.
LEMMA BeginKeeps ==
  ASSUME FacadeInv, InBringUp, state \in BringUp, req["internal"].part # "WAITING",
         NEW s \in Reading, NEW op \in {"AP", "GET"}, op = "GET" <=> s = "READ_PARAMS",
         NEW m \in Modes, s = "PROBE_API" => m = "API1", s = "PROBE_CMD_READ" => m = "TRANSPARENT",
         s = "READ_PARAMS" /\ asked \notin Api => m = radio.staged,
         readIndex' \in 1..Len(Reads), canSleep' \in BOOLEAN,
         Begin(s, op, m)
  PROVE  FacadeInv'
<1>1. /\ \A q \in Both : req[q].part # "WAITING"
      /\ cmd # "BUSY"
      /\ \A q \in Both : q # "internal" => req[q] = Over
  BY Idle
<1>2. /\ session = "NONE" /\ ~userReq /\ req["user"] = Over /\ cmd # "EXITING"
  BY InBringUpFacts
<1>3. /\ detected' = m /\ session' = session /\ userReq' = userReq /\ asked' = asked
      /\ turn' = "APP" /\ unsure' = unsure /\ pending' = pending /\ pendingMine' = pendingMine
      /\ resets' = resets
      /\ UNCHANGED <<sleep, guard>>
  BY DEF Begin, InBringUp, Own, user
<1>4. CASE state' = s /\ StartRequest("internal", op, m)
  <2>1. "internal" \in Both /\ op \in Ops
    BY DEF Both, Ops
  <2>2. /\ radio' \in Radio /\ req' \in [Both -> Objects] /\ LineInv'
        /\ \A q \in Both : q # "internal" => req'[q] = Over
        /\ req'["internal"].state = "PENDING" /\ req'["internal"].op = op
        /\ req'["internal"].awaiting => req'["internal"].via = None /\ req'["internal"].part = None
        /\ req'["internal"].awaiting \/ req'["internal"].via # None =>
              (req'["internal"].awaiting \/ req'["internal"].via = "CMD" <=> UseCmd(m))
        /\ radio'.staged = radio.staged \/ op = "MOVE" \/ (op \in Modes /\ radio'.staged = op)
        /\ cmd' = "BUSY" <=> req'["internal"].via = "CMD" /\ req'["internal"].part = "WAITING"
        /\ cmd' \in Cmds /\ (cmd' = "EXITING" => cmd = "EXITING")
    BY <1>1, <1>2, <1>4, <2>1, PassFacts, Starts
  <2>3. req'["user"] = Over
    BY <2>2 DEF Both
  <2>4. TypeOK'
    BY <1>3, <1>4, <2>2 DEF FacadeInv, TypeOK, Cmds, Radio, Objects, Both, LineInv, OwedOK,
       sleep, Reading, BringUp
  <2>5. Shaped'
    BY <2>2, <2>3, OverIs DEF Shaped, Both
  <2>6. Phases' /\ Asks'
    BY <1>2, <1>3, <1>4, <2>2, <2>3, OverIs DEF Phases, Asks, Reading, Modes, AutoMode, Api
  <2>7. Routed'
    <3>1. UseCmd(m) <=> UseCmd(detected)'
      BY <1>3 DEF UseCmd
    <3>2. Over.awaiting = FALSE /\ Over.via = None /\ Over.part = None
      BY DEF Over, Object
    <3> QED
      BY <2>2, <2>3, <3>1, <3>2 DEF Routed, Both, None
  <2>8. ModeInv'
    BY <1>3, <1>4, <2>2, <1>2 DEF ModeInv, Changes, Reading, Modes, Api
  <2> QED
    BY <2>2, <2>4, <2>5, <2>6, <2>7, <2>8 DEF FacadeInv, RequestInv
<1>5. CASE state' = "FAILED" /\ StartFails("internal", m)
  <2>1. /\ req' \in [Both -> Objects] /\ \A q \in Both : req'[q] = Over
        /\ UNCHANGED <<cmd, radio, owed>>
    BY <1>1, <1>5, PassFacts DEF StartFails, Becomes, link, Both, Over, Object, Objects, Ops
  <2>2. TypeOK'
    BY <1>3, <1>5, <2>1 DEF FacadeInv, TypeOK, Objects, Both, sleep, Modes
  <2>3. Shaped' /\ Phases' /\ Asks'
    BY <1>2, <1>3, <1>5, <2>1 DEF Shaped, Phases, Asks, Over, Object, Both, Reading, Api, Modes
  <2>4. LineInv' /\ Routed'
    BY <1>1, <1>2, <2>1, PassFacts, NothingWaiting DEF LineInv, Routed, OwedOK, Owes, Over, Object, None
  <2>5. ModeInv'
    BY <1>2, <1>3, <1>5 DEF ModeInv, Changes, Reading
  <2> QED
    BY <2>2, <2>3, <2>4, <2>5 DEF FacadeInv, RequestInv
<1> QED
  BY <1>4, <1>5 DEF Begin

\* Bring-up fails.
LEMMA GivesUpKeeps ==
  ASSUME FacadeInv, InBringUp, state \in BringUp, req["internal"].part # "WAITING",
         canSleep' \in BOOLEAN, GivesUp
  PROVE  FacadeInv'
<1>1. /\ \A q \in Both : req[q].part # "WAITING"
      /\ cmd # "BUSY"
      /\ \A q \in Both : q # "internal" => req[q] = Over
  BY Idle
<1>2. /\ session = "NONE" /\ ~userReq /\ req["user"] = Over /\ cmd # "EXITING"
  BY InBringUpFacts
<1>3. /\ session' = session /\ userReq' = userReq /\ asked' = asked
      /\ turn' = "APP" /\ unsure' = unsure /\ pending' = pending /\ pendingMine' = pendingMine
      /\ resets' = resets
      /\ state' = "FAILED" /\ UNCHANGED <<sleep, guard, detected, readIndex, cmd, radio, owed>>
  BY DEF GivesUp, InBringUp, Own, user, link
<1>4. /\ req' \in [Both -> Objects] /\ \A q \in Both : req'[q] = Over
  BY <1>1, PassFacts, OverIs DEF GivesUp, Becomes, Both
<1>5. TypeOK'
  BY <1>3, <1>4 DEF FacadeInv, TypeOK, Objects, Both, sleep
<1>6. Shaped' /\ Phases' /\ Asks'
  BY <1>2, <1>3, <1>4, OverIs DEF Shaped, Phases, Asks, Both
<1>7. LineInv' /\ Routed'
  BY <1>1, <1>2, <1>3, <1>4, OverIs, PassFacts, NothingWaiting
     DEF LineInv, Routed, OwedOK, Owes, None
<1>8. ModeInv'
  BY <1>2, <1>3 DEF ModeInv, Changes
<1> QED
  BY <1>5, <1>6, <1>7, <1>8 DEF FacadeInv, RequestInv

\* Bring-up turns to Command mode.
LEMMA EnterKeeps ==
  ASSUME FacadeInv, InBringUp, state \in BringUp, req["internal"].part # "WAITING",
         canSleep' \in BOOLEAN, Enter, owed' = <<>>, UNCHANGED radio,
         req' = req \/ Becomes("internal", Over), req["internal"].state = "PENDING" => req' # req
  PROVE  FacadeInv'
<1>1. /\ \A q \in Both : req[q].part # "WAITING"
      /\ cmd # "BUSY"
      /\ \A q \in Both : q # "internal" => req[q] = Over
  BY Idle
<1>2. /\ session = "NONE" /\ ~userReq /\ req["user"] = Over /\ cmd # "EXITING"
  BY InBringUpFacts
<1>3. /\ session' = session /\ userReq' = userReq /\ asked' = asked
      /\ turn' = "APP" /\ unsure' = unsure /\ pending' = pending /\ pendingMine' = pendingMine
      /\ resets' = resets
      /\ state' = "PROBE_CMD" /\ detected' = "TRANSPARENT" /\ cmd' = "GUARD_PRE"
      /\ UNCHANGED <<sleep, guard, readIndex>>
  BY DEF Enter, InBringUp, Own, user
<1>4. /\ req' \in [Both -> Objects] /\ \A q \in Both : req'[q] = Over
  <2>1. CASE Becomes("internal", Over)
    BY <1>1, <2>1, PassFacts, OverIs DEF Becomes, Both
  <2>2. CASE req["internal"].state # "PENDING" /\ req' = req
    BY <1>1, <2>2, PassFacts DEF Shaped, Objects, Both
  <2> QED
    BY <2>1, <2>2
<1>5. TypeOK'
  BY <1>3, <1>4, EmptyOwed DEF FacadeInv, TypeOK, Objects, Both, sleep, Modes, BringUp, OwedOK
<1>6. Shaped' /\ Phases' /\ Asks'
  BY <1>2, <1>3, <1>4, OverIs DEF Shaped, Phases, Asks, Both
<1>7. LineInv' /\ Routed'
  BY <1>1, <1>2, <1>3, <1>4, OverIs, PassFacts, EmptyOwed
     DEF LineInv, Routed, Owes, None
<1>8. ModeInv'
  BY <1>2, <1>3 DEF ModeInv, Changes
<1> QED
  BY <1>5, <1>6, <1>7, <1>8 DEF FacadeInv, RequestInv

\* A probe that is answered says what AP the module holds.
LEMMA ProbeTells ==
  ASSUME FacadeInv, state \in {"PROBE_API", "PROBE_CMD_READ"}, Ends("internal", TRUE)
  PROVE  req["internal"].got = radio.staged /\ req["internal"].got \in APs
  BY PassFacts DEF Ends, LineInv, Fits, Asks, Both, Radio

\* The parameters bring-up reads.
LEMMA ReadIndices == 1 \in 1..Len(Reads) /\ \A i \in 1..Len(Reads) : i < Len(Reads) => i + 1 \in 1..Len(Reads)
BY DEF Reads

\* A request that ends waits no more.
LEMMA EndedWaitsNoMore ==
  ASSUME FacadeInv, NEW r \in Both, NEW ok \in BOOLEAN, Ends(r, ok)
  PROVE  req[r].part # "WAITING"
BY PassFacts DEF Ends, Shaped, None

\* Every step of bring-up.
LEMMA BringUpKeeps ==
  ASSUME FacadeInv, BringUpProgress
  PROVE  FacadeInv'
<1> USE ReadIndices
<1>0. canSleep \in BOOLEAN /\ readIndex \in 1..Len(Reads)
  BY DEF FacadeInv, TypeOK
<1>1. CASE ResetPulseEnds
  <2>1. /\ state = "RESETTING" /\ state' = "SETTLING" /\ turn' = "APP"
        /\ UNCHANGED <<asked, session, req, userReq, sleep, guard, read, mode, link, resets>>
    BY <1>1 DEF ResetPulseEnds, InBringUp, Own, user, mode, read
  <2>2. /\ TypeOK' /\ Shaped' /\ Asks' /\ ModeInv'
    BY <2>1 DEF FacadeInv, RequestInv, TypeOK, Shaped, Asks, ModeInv, Changes, sleep, read, mode,
       link, BringUp
  <2>3. Phases' /\ Routed' /\ LineInv'
    BY <2>1 DEF FacadeInv, RequestInv, Phases, Routed, LineInv, OwedOK, Owes, Fits, Reading, UseCmd,
       mode, link
  <2> QED
    BY <2>2, <2>3 DEF FacadeInv, RequestInv
<1>2. CASE Settled
  <2>1. InBringUp /\ state = "SETTLING" /\ state \in BringUp /\ canSleep' \in BOOLEAN
    BY <1>0, <1>2 DEF Settled, BringUp
  <2>2. req["internal"].part # "WAITING" /\ req["internal"].state # "PENDING"
    BY <2>1, PassFacts, OverIs DEF Phases, Shaped, Reading, Objects, Both, None
  <2>3. CASE asked = "TRANSPARENT"
    <3>1. Enter /\ owed' = <<>> /\ UNCHANGED <<req, radio>>
      BY <1>2, <2>3 DEF Settled, Api, AutoMode
    <3> QED
      BY <2>1, <2>2, <3>1, EnterKeeps
  <2>4. CASE asked \in Api
    <3>1. PICK m \in Modes : m = asked /\ m \in Api
      BY <2>4 DEF Modes
    <3>2. Begin("READ_PARAMS", "GET", m) /\ readIndex' = 1
      BY <1>2, <2>4, <3>1 DEF Settled, BeginReadParams, Api, AutoMode
    <3> QED
      BY <2>1, <2>2, <2>4, <3>1, <3>2, BeginKeeps DEF Reading
  <2>5. CASE asked = AutoMode
    BY <1>0, <1>2, <2>1, <2>2, <2>5, BeginKeeps DEF Settled, Reading, Modes, Api, AutoMode
  <2> QED
    BY <2>3, <2>4, <2>5 DEF FacadeInv, TypeOK, Modes
<1>3. CASE ProbeAnswered
  <2>1. /\ InBringUp /\ state = "PROBE_API" /\ state \in BringUp /\ canSleep' \in BOOLEAN
        /\ Ends("internal", TRUE) /\ AdoptProbed(req["internal"].got)
    BY <1>0, <1>3 DEF ProbeAnswered, BringUp
  <2>2. req["internal"].part # "WAITING"
    BY <2>1, EndedWaitsNoMore DEF Both
  <2>3. req["internal"].got = radio.staged /\ req["internal"].got \in APs
    BY <2>1, ProbeTells
  <2>4. CASE req["internal"].got = "PYTHON"
    BY <2>1, <2>2, <2>4, GivesUpKeeps DEF AdoptProbed
  <2>5. CASE req["internal"].got # "PYTHON"
    <3>1. PICK m \in Modes : m = req["internal"].got
      BY <2>3, <2>5 DEF APs
    <3>2. Begin("READ_PARAMS", "GET", m) /\ readIndex' = 1
      BY <2>1, <2>5, <3>1 DEF AdoptProbed, BeginReadParams
    <3> QED
      BY <2>1, <2>2, <2>3, <3>1, <3>2, BeginKeeps DEF Reading
  <2> QED
    BY <2>4, <2>5
<1>4. CASE ProbeUnanswered
  <2>1. /\ InBringUp /\ state = "PROBE_API" /\ state \in BringUp /\ canSleep' \in BOOLEAN
        /\ Ends("internal", FALSE) /\ Enter /\ owed' = <<>> /\ Becomes("internal", Over)
        /\ UNCHANGED radio
    BY <1>0, <1>4 DEF ProbeUnanswered, BringUp
  <2>2. req["internal"].part # "WAITING"
    BY <2>1, EndedWaitsNoMore DEF Both
  <2>3. req["internal"].state = "PENDING" => req' # req
    BY <2>1, PassFacts, OverIs DEF Becomes, Both
  <2> QED
    BY <2>1, <2>2, <2>3, EnterKeeps
<1>5. CASE EscapeAnswered
  <2>1. /\ InBringUp /\ state = "PROBE_CMD" /\ state \in BringUp /\ canSleep' \in BOOLEAN
        /\ Begin("PROBE_CMD_READ", "AP", detected) /\ UNCHANGED readIndex
    BY <1>0, <1>5 DEF EscapeAnswered, BringUp
  <2>2. req["internal"].part # "WAITING" /\ detected = "TRANSPARENT"
    BY <2>1, PassFacts, OverIs DEF Phases, Asks, Shaped, Reading, Objects, Both, None
  <2>3. Begin("PROBE_CMD_READ", "AP", "TRANSPARENT")
    BY <2>1, <2>2
  <2> QED
    BY <1>0, <2>1, <2>2, <2>3, BeginKeeps DEF Reading, Modes
<1>6. CASE EscapeUnanswered
  <2>1. /\ InBringUp /\ state = "PROBE_CMD" /\ state \in BringUp /\ canSleep' \in BOOLEAN
        /\ GivesUp
    BY <1>0, <1>6 DEF EscapeUnanswered, BringUp
  <2>2. req["internal"].part # "WAITING"
    BY <2>1, PassFacts, OverIs DEF Phases, Shaped, Reading, Objects, Both, None
  <2> QED
    BY <2>1, <2>2, GivesUpKeeps
<1>7. CASE CmdProbeEnds
  <2>1. PICK ok \in BOOLEAN :
          /\ Ends("internal", ok)
          /\ IF ok /\ req["internal"].got = "TRANSPARENT"
             THEN AdoptProbed("TRANSPARENT")
             ELSE GivesUp
    BY <1>7 DEF CmdProbeEnds
  <2>2. InBringUp /\ state = "PROBE_CMD_READ" /\ state \in BringUp /\ canSleep' \in BOOLEAN
    BY <1>0, <1>7 DEF CmdProbeEnds, BringUp
  <2>3. req["internal"].part # "WAITING"
    BY <2>1, EndedWaitsNoMore DEF Both
  <2>4. CASE ok /\ req["internal"].got = "TRANSPARENT"
    <3>1. ok = TRUE
      BY <2>4
    <3>2. radio.staged = "TRANSPARENT"
      BY <2>1, <2>2, <2>4, <3>1, ProbeTells
    <3>3. Begin("READ_PARAMS", "GET", "TRANSPARENT") /\ readIndex' = 1
      BY <2>1, <2>4 DEF AdoptProbed, BeginReadParams
    <3> QED
      BY <2>2, <2>3, <3>2, <3>3, BeginKeeps DEF Reading, Modes
  <2>5. CASE ~(ok /\ req["internal"].got = "TRANSPARENT")
    BY <2>1, <2>2, <2>3, <2>5, GivesUpKeeps
  <2> QED
    BY <2>4, <2>5
<1>8. CASE BringUpProceeds
  <2>1. /\ InBringUp /\ state \in Reading /\ state \in BringUp /\ Proceeds("internal")
        /\ state' = state /\ UNCHANGED <<asked, session, userReq, pending, pendingMine, unsure, sleep,
                                         guard, read, detected, resets>> /\ turn' = "APP"
    BY <1>8 DEF BringUpProceeds, InBringUp, Own, user, read, Reading, BringUp
  <2>2. /\ session = "NONE" /\ ~userReq /\ req["user"] = Over /\ cmd # "EXITING"
    BY <2>1, InBringUpFacts
  <2>3. /\ req["internal"].awaiting /\ cmd = "ACTIVE" /\ req["internal"].part # "WAITING"
        /\ UseCmd(detected) /\ req["internal"].op \in Ops /\ req["internal"].state = "PENDING"
    BY <2>1, PassFacts, OverIs DEF Proceeds, Shaped, Routed, None, Both, Objects
  <2>4. \A q \in Both : q # "internal" => req[q] = Over
    BY <2>2 DEF Both
  <2>4a. PICK m : m = detected
    OBVIOUS
  <2>5. PICK op \in Ops : op = req["internal"].op /\ m = detected
    BY <2>3, <2>4a
  <2>6. /\ radio' \in Radio /\ req' \in [Both -> Objects] /\ LineInv'
        /\ \A q \in Both : q # "internal" => req'[q] = Over
        /\ req'["internal"].state = "PENDING" /\ req'["internal"].op = op
        /\ req'["internal"].awaiting => req'["internal"].via = None /\ req'["internal"].part = None
        /\ req'["internal"].awaiting \/ req'["internal"].via # None =>
              (req'["internal"].awaiting \/ req'["internal"].via = "CMD" <=> UseCmd(m))
        /\ radio'.staged = radio.staged \/ op = "MOVE" \/ (op \in Modes /\ radio'.staged = op)
        /\ cmd' = "BUSY" <=> req'["internal"].via = "CMD" /\ req'["internal"].part = "WAITING"
        /\ cmd' \in Cmds /\ (cmd' = "EXITING" => cmd = "EXITING")
    BY <2>1, <2>2, <2>3, <2>4, <2>5, PassFacts, Starts DEF Both
  <2>7. TypeOK'
    BY <2>1, <2>6 DEF FacadeInv, TypeOK, Cmds, Radio, Objects, Both, LineInv, OwedOK, sleep, read
  <2>8. Shaped'
    BY <2>6, OverIs DEF Shaped, Both
  <2>9. Phases' /\ Asks'
    BY <2>1, <2>2, <2>5, <2>6, OverIs, PassFacts DEF Phases, Asks, Both, Reading, BringUp, read, UseCmd
  <2>10. Routed'
    <3>1. UseCmd(m) <=> UseCmd(detected)'
      BY <2>1, <2>5 DEF UseCmd
    <3> QED
      BY <2>6, <3>1, OverIs DEF Routed, Both, None
  <2>11. op \notin Modes /\ op # "MOVE"
    BY <2>1, <2>5, PassFacts DEF Asks, Reading, Modes, Api
  <2>12. ModeInv'
    BY <2>1, <2>2, <2>6, <2>11, PassFacts DEF ModeInv, Changes, Reading
  <2> QED
    BY <2>6, <2>7, <2>8, <2>9, <2>10, <2>12 DEF FacadeInv, RequestInv
<1>9. CASE ReadNext
  <2>1. PICK ok \in BOOLEAN : Ends("internal", ok) /\ Record(ok)
    BY <1>9 DEF ReadNext
  <2>2. /\ InBringUp /\ state = "READ_PARAMS" /\ state \in BringUp
        /\ readIndex' = readIndex + 1 /\ readIndex < Len(Reads)
        /\ Begin("READ_PARAMS", "GET", detected)
    BY <1>9 DEF ReadNext, BringUp
  <2>3. req["internal"].part # "WAITING"
    BY <2>1, EndedWaitsNoMore DEF Both
  <2>4. canSleep' \in BOOLEAN
    BY <1>0, <2>1 DEF Record
  <2>5. PICK m \in Modes : m = detected
    BY <2>2, PassFacts, InBringUpFacts DEF Asks
  <2>6. Begin("READ_PARAMS", "GET", m)
    BY <2>2, <2>5
  <2>7. asked \notin Api => m = radio.staged
    BY <2>2, <2>5, PassFacts, InBringUpFacts DEF ModeInv, Changes
  <2> QED
    BY <1>0, <2>2, <2>3, <2>4, <2>6, <2>7, BeginKeeps DEF Reading
<1>10. CASE BecomesReady
  <2>1. PICK ok \in BOOLEAN : Ends("internal", ok) /\ Record(ok)
    BY <1>10 DEF BecomesReady
  <2>2. /\ state = "READ_PARAMS" /\ state \in BringUp /\ state' = "READY" /\ turn' = "APP"
        /\ Becomes("internal", Over) /\ unsure' = FALSE
        /\ UNCHANGED <<asked, session, userReq, pending, pendingMine, sleep, guard, detected,
                       readIndex, resets>>
    BY <1>10 DEF BecomesReady, Own, BringUp
  <2>3. req["internal"].part # "WAITING"
    BY <2>1, EndedWaitsNoMore DEF Both
  <2>4. canSleep' \in BOOLEAN
    BY <1>0, <2>1 DEF Record
  <2>5. /\ \A q \in Both : req[q].part # "WAITING"
        /\ cmd # "BUSY"
        /\ \A q \in Both : q # "internal" => req[q] = Over
    BY <2>2, <2>3, Idle
  <2>6. /\ session = "NONE" /\ ~userReq /\ req["user"] = Over /\ cmd # "EXITING"
    BY <2>2, InBringUpFacts
  <2>7. /\ req' \in [Both -> Objects] /\ \A q \in Both : req'[q] = Over
    BY <2>2, <2>5, PassFacts, OverIs DEF Becomes, Both
  <2>8. /\ radio' \in Radio /\ radio'.staged = radio.staged /\ LineInv' /\ cmd' \in Cmds
        /\ cmd' # "BUSY" /\ (cmd' = "EXITING" => detected = "TRANSPARENT")
    <3>1. owed = <<>> \/ (Owes("OK") /\ cmd = "WAIT_OK" /\ radio.cmd)
      BY <2>5, <2>6, PassFacts, NothingWaiting
    <3>2. CASE UNCHANGED link
      BY <2>5, <2>6, <2>7, <3>1, <3>2, PassFacts, OverIs DEF LineInv, OwedOK, Owes, link, None
    <3>3. CASE detected = "TRANSPARENT" /\ cmd = "ACTIVE" /\ cmd' = "EXITING" /\ Sends("CMD", "CN")
      <4>1. owed = <<>>
        BY <3>1, <3>3
      <4>2. /\ radio' \in Radio /\ OwedOK'
            /\ radio'.staged = radio.staged
            /\ owed' # <<>> => Head(owed').kind = "OK"
        BY <3>3, <4>1, PassFacts, SendsEffect DEF LineInv, Modes, Api
      <4>3. LineInv'
        BY <2>7, <3>3, <4>2, OverIs DEF LineInv, Owes, None
      <4> QED
        BY <3>3, <4>2, <4>3 DEF Cmds
    <3> QED
      BY <1>10, <3>2, <3>3 DEF BecomesReady
  <2>9. TypeOK'
    <3>1. Len(owed') <= 2
      BY <2>8 DEF LineInv, OwedOK
    <3>2. unsure' \in BOOLEAN
      BY <2>2
    <3> QED
      BY <2>2, <2>4, <2>7, <2>8, <3>1, <3>2
         DEF FacadeInv, TypeOK, Cmds, Radio, Objects, Both, sleep
  <2>10. Shaped' /\ Asks' /\ Routed'
    BY <2>2, <2>7, <2>8, OverIs DEF Shaped, Asks, Routed, Both, None
  <2>11. Phases'
    BY <2>2, <2>6, <2>7, <2>8, OverIs DEF Phases, Both, UseCmd, Api
  <2>12. ModeInv'
    BY <2>2, <2>6, <2>8, PassFacts DEF ModeInv, Changes
  <2> QED
    BY <2>8, <2>9, <2>10, <2>11, <2>12 DEF FacadeInv, RequestInv
<1> QED
  BY <1>1, <1>2, <1>3, <1>4, <1>5, <1>6, <1>7, <1>8, <1>9, <1>10 DEF BringUpProgress

-----------------------------------------------------------------------------
\* In READY and asleep, bring-up's own request is over.
LEMMA InReadyFacts ==
  ASSUME FacadeInv, state \in {"READY", "ASLEEP"}
  PROVE  /\ req["internal"] = Over
         /\ \A q \in Both : q # "user" => req[q] = Over
         /\ ~userReq => \A q \in Both : req[q] = Over
<1>1. req["internal"] = Over
  BY PassFacts DEF Phases, Shaped, Reading, Objects, Both
<1>2. ~userReq => req["user"] = Over
  BY PassFacts DEF Phases, Shaped, Objects, Both
<1> QED
  BY <1>1, <1>2 DEF Both

\* In READY, with the application's request settled, nothing waits.
LEMMA ReadyIdle ==
  ASSUME FacadeInv, state \in {"READY", "ASLEEP"}, req["user"].part # "WAITING"
  PROVE  /\ \A q \in Both : req[q].part # "WAITING"
         /\ cmd # "BUSY"
<1>1. \A q \in Both : req[q].part # "WAITING"
  BY InReadyFacts, OverIs DEF Both, None
<1> QED
  BY <1>1, PassFacts DEF Routed

\* The application's request ends, and with it the change of mode it carried.
LEMMA UserEndsKeeps ==
  ASSUME FacadeInv, UserEnds
  PROVE  FacadeInv'
<1>1. PICK ok \in BOOLEAN : Ends("user", ok) /\ Finish(ok)
  BY DEF UserEnds
<1>2. /\ state = "READY" /\ userReq /\ state' = state /\ turn' = "APP"
      /\ UNCHANGED <<asked, session, read, sleep, guard, resets>>
  BY DEF UserEnds, InReady, Own
<1>3. /\ userReq' = FALSE /\ pendingMine' = FALSE
      /\ pending' = (IF pendingMine THEN AutoMode ELSE pending)
      /\ detected' = (IF ok /\ pendingMine THEN pending ELSE detected)
      /\ owed' \in {<<>>, owed}
      /\ unsure' = (IF pendingMine /\ req["user"].op = pending THEN ~ok
                    ELSE unsure \/ (ok /\ pendingMine))
      /\ UNCHANGED <<cmd, radio>>
  BY <1>1 DEF Finish
<1>4. req["user"].part # "WAITING"
  BY <1>1, EndedWaitsNoMore DEF Both
<1>5. /\ \A q \in Both : req[q].part # "WAITING"
      /\ cmd # "BUSY"
  BY <1>2, <1>4, ReadyIdle
<1>6. /\ req' \in [Both -> Objects] /\ \A q \in Both : req'[q] = Over
  BY <1>1, <1>2, PassFacts, InReadyFacts, OverIs DEF Finish, Becomes, Both
<1>7. TypeOK'
  <2>1. unsure' \in BOOLEAN
    BY <1>3 DEF FacadeInv, TypeOK
  <2>2. Len(owed') <= 2
    BY <1>3, Emptied DEF FacadeInv, TypeOK
  <2>3. detected' \in Modes \cup {AutoMode} /\ pending' \in Modes \cup {AutoMode}
    BY <1>3 DEF FacadeInv, TypeOK
  <2>4. userReq' \in BOOLEAN /\ pendingMine' \in BOOLEAN
    BY <1>3
  <2>5. req' \in [{"user", "internal"} ->
                [state : {"OVER", "PENDING"}, awaiting : BOOLEAN,
                 via : {None, "API", "CMD"}, part : {None, "WAITING", "OK", "FAILED"},
                 op : Ops, got : APs \cup {None}]]
    BY <1>6 DEF Objects, Both
  <2>6. UNCHANGED <<state, cmd, radio, asked, session, read, sleep, guard, resets>> /\ turn' = "APP"
    BY <1>2, <1>3
  <2> QED
    BY <2>1, <2>2, <2>3, <2>4, <2>5, <2>6 DEF FacadeInv, TypeOK, sleep, read
<1>8. Shaped' /\ Asks' /\ Routed'
  BY <1>2, <1>3, <1>5, <1>6, OverIs DEF Shaped, Asks, Routed, Both, None
<1>9. Phases'
  BY <1>2, <1>3, <1>6, OverIs, PassFacts DEF Phases, Both
<1>10. LineInv'
  BY <1>3, <1>5, <1>6, OverIs, PassFacts, NothingWaiting, EmptyOwed
     DEF LineInv, OwedOK, Owes, None
<1>11. ModeInv'
  <2>1. Changes => pendingMine /\ pending = req["user"].op
    BY PassFacts DEF ModeInv
  <2>2. asked \notin Api /\ ~unsure => detected = radio.staged \/ Changes
    BY <1>2, PassFacts DEF ModeInv
  <2>3. ok /\ req["user"].op \in Modes => radio.staged = req["user"].op
    BY <1>1, PassFacts DEF Ends, LineInv, Fits, Both, Modes, Api
  <2>4. pending = req["user"].op => pending \in Modes
    BY PassFacts DEF FacadeInv, TypeOK, Objects, Both, Ops, Modes, Api, AutoMode
  <2>5. ~Changes'
    BY <1>3 DEF Changes
  <2>6. asked \notin Api /\ ~unsure' => detected' = radio'.staged
    <3>1. CASE pendingMine /\ req["user"].op = pending
      BY <1>3, <2>3, <2>4, <3>1
    <3>2. CASE ~(pendingMine /\ req["user"].op = pending)
      BY <1>3, <2>1, <2>2, <3>2
    <3> QED
      BY <3>1, <3>2
  <2> QED
    BY <1>2, <1>3, <2>5, <2>6 DEF ModeInv
<1> QED
  BY <1>7, <1>8, <1>9, <1>10, <1>11 DEF FacadeInv, RequestInv

\* A request of the application, from the call or from the open session.
LEMMA UserStartsKeeps ==
  ASSUME FacadeInv, state = "READY", state' = state, session \in {"NONE", "OPEN"}, userReq' = TRUE,
         req["user"].part # "WAITING",
         UNCHANGED <<asked, session, read, sleep, guard, detected, resets>>,
         turn' \in {"APP", "STATE"},
         NEW op \in Ops, op # "AP",
         pending' \in Modes \cup {AutoMode}, pendingMine' \in BOOLEAN,
         op \in Modes => pendingMine' /\ pending' = op,
         unsure' = (unsure \/ op = "MOVE"),
         ~userReq \/ op = req["user"].op,
         \/ StartRequest("user", op, detected)
         \/ Proceeds("user") /\ op = req["user"].op /\ UseCmd(detected)
  PROVE  FacadeInv'
<1>1. /\ \A q \in Both : req[q].part # "WAITING"
      /\ cmd # "BUSY" /\ req["internal"] = Over
      /\ \A q \in Both : q # "user" => req[q] = Over
  BY ReadyIdle, InReadyFacts
<1>2. PICK m : m = detected
  OBVIOUS
<1>3. /\ radio' \in Radio /\ req' \in [Both -> Objects] /\ LineInv'
      /\ \A q \in Both : q # "user" => req'[q] = Over
      /\ req'["user"].state = "PENDING" /\ req'["user"].op = op
      /\ req'["user"].awaiting => req'["user"].via = None /\ req'["user"].part = None
      /\ req'["user"].awaiting \/ req'["user"].via # None =>
            (req'["user"].awaiting \/ req'["user"].via = "CMD" <=> UseCmd(m))
      /\ radio'.staged = radio.staged \/ op = "MOVE" \/ (op \in Modes /\ radio'.staged = op)
      /\ cmd' = "BUSY" <=> req'["user"].via = "CMD" /\ req'["user"].part = "WAITING"
      /\ cmd' \in Cmds /\ (cmd' = "EXITING" => cmd = "EXITING")
  <2>1. cmd = "EXITING" => UseCmd(m)
    BY <1>2, PassFacts DEF Phases, UseCmd
  <2>2. \/ StartRequest("user", op, m)
        \/ Proceeds("user") /\ op = req["user"].op /\ UseCmd(m)
    BY <1>2
  <2>3. /\ radio \in Radio /\ req \in [Both -> Objects] /\ LineInv /\ cmd \in Cmds /\ "user" \in Both
    BY PassFacts DEF Both
  <2> QED
    BY ONLY <1>1, <2>1, <2>2, <2>3, op \in Ops, Starts
<1>4. req'["internal"] = Over
  BY <1>3 DEF Both
<1>5. TypeOK'
  <2>1. unsure' \in BOOLEAN
    BY DEF FacadeInv, TypeOK
  <2> QED
    BY <1>3, <2>1 DEF FacadeInv, TypeOK, Cmds, Radio, Objects, Both, LineInv, OwedOK, sleep, read
<1>6. Shaped'
  BY <1>3, <1>4, OverIs DEF Shaped, Both
<1>7. cmd' # "EXITING"
  <2>1. ~UseCmd(detected) \/ cmd # "EXITING"
    BY DEF StartRequest, Proceeds
  <2> QED
    BY <1>3, <2>1, PassFacts DEF Phases, UseCmd
<1>8. Phases' /\ Asks'
  BY <1>3, <1>4, <1>7, OverIs, PassFacts DEF Phases, Asks, Both
<1>9. Routed'
  <2>1. UseCmd(m) <=> UseCmd(detected)'
    BY <1>2 DEF UseCmd
  <2> QED
    BY <1>3, <1>4, <2>1, OverIs DEF Routed, Both, None
<1>10. ModeInv'
  <2>1. Changes' <=> op \in Modes
    BY <1>3 DEF Changes
  <2>2. asked \notin Api /\ ~unsure /\ op \notin Modes => detected = radio.staged
    <3>1. op \notin Modes => ~Changes
      BY DEF Changes
    <3> QED
      BY <3>1, PassFacts DEF ModeInv
  <2> QED
    BY <1>3, <2>1, <2>2 DEF ModeInv
<1> QED
  BY <1>3, <1>5, <1>6, <1>8, <1>9, <1>10 DEF FacadeInv, RequestInv

\* The session has opened for the application's request.
LEMMA UserProceedsKeeps ==
  ASSUME FacadeInv, UserProceeds
  PROVE  FacadeInv'
<1>1. /\ state = "READY" /\ state' = state /\ userReq /\ userReq' = TRUE /\ turn' = "APP"
      /\ UNCHANGED <<asked, session, read, sleep, guard, detected, resets>>
      /\ pending' = pending /\ pendingMine' = pendingMine /\ unsure' = unsure
      /\ Proceeds("user")
  BY DEF UserProceeds, InReady, Own, mode
<1>2. req["user"].awaiting
  BY <1>1 DEF Proceeds
<1>3. /\ req["user"].part # "WAITING" /\ UseCmd(detected) /\ session \in {"NONE", "OPEN"}
      /\ req["user"].op \in Ops /\ req["user"].op # "AP"
      /\ pending' \in Modes \cup {AutoMode} /\ pendingMine' \in BOOLEAN
  BY <1>1, <1>2, PassFacts DEF Shaped, Routed, Phases, Asks, Both, Objects, None, FacadeInv, TypeOK
<1>4. /\ req["user"].op \in Modes => pendingMine' /\ pending' = req["user"].op
      /\ unsure' = (unsure \/ req["user"].op = "MOVE")
  <2>1. req["user"].op = "MOVE" => unsure = TRUE
    BY <1>1, PassFacts DEF ModeInv, FacadeInv, TypeOK
  <2> QED
    BY <1>1, <2>1, PassFacts DEF ModeInv, Changes, FacadeInv, TypeOK
<1>5. PICK op \in Ops : op = req["user"].op
  BY <1>3
<1> QED
  BY <1>1, <1>3, <1>4, <1>5, UserStartsKeeps

\* submit(), whether the request starts or is refused.
LEMMA SubmitKeeps ==
  ASSUME FacadeInv, NEW op \in Ops, op # "AP", SessionSettled, Submit(op),
         pending' = (IF userReq' /\ op \in Modes THEN op ELSE pending), pendingMine' \in BOOLEAN,
         userReq' /\ op \in Modes => pendingMine',
         unsure' = (unsure \/ (userReq' /\ op = "MOVE"))
  PROVE  FacadeInv'
<1>1. /\ state = "READY" /\ state' = state /\ ~userReq /\ session \in {"NONE", "OPEN"}
      /\ UNCHANGED <<turn, asked, session, read, sleep, guard, detected, resets>>
  BY DEF Submit, Call, SessionSettled
<1>2. \A q \in Both : req[q] = Over
  BY <1>1, InReadyFacts
<1>3. req["user"].part # "WAITING"
  BY <1>2, OverIs DEF Both, None
<1>4. pending \in Modes \cup {AutoMode} /\ turn \in {"APP", "STATE"} /\ unsure \in BOOLEAN
  BY DEF FacadeInv, TypeOK
<1>5. CASE StartRequest("user", op, detected) /\ userReq' = TRUE
  <2>1. pending' \in Modes \cup {AutoMode}
    BY <1>4, <1>5
  <2>2. /\ op \in Modes => pendingMine' /\ pending' = op
        /\ unsure' = (unsure \/ op = "MOVE")
    BY <1>4, <1>5
  <2>3. turn' \in {"APP", "STATE"}
    BY <1>1, <1>4
  <2> QED
    BY <1>1, <1>3, <1>5, <2>1, <2>2, <2>3, UserStartsKeeps
<1>6. CASE StartFails("user", detected) /\ UNCHANGED userReq
  <2>1. /\ req' \in [Both -> Objects] /\ \A q \in Both : req'[q] = Over
        /\ UNCHANGED <<cmd, radio, owed>> /\ pending' = pending /\ unsure' = unsure
    BY <1>1, <1>2, <1>4, <1>6, PassFacts, OverIs DEF StartFails, Becomes, link, Both
  <2>2. TypeOK'
    BY <1>1, <1>6, <2>1 DEF FacadeInv, TypeOK, Objects, Both, sleep, read
  <2>3. Shaped' /\ Asks' /\ Phases' /\ ModeInv'
    BY <1>1, <1>2, <1>6, <2>1, OverIs, PassFacts
       DEF Shaped, Asks, Phases, ModeInv, Changes, Both, UseCmd
  <2>4. Routed' /\ LineInv'
    BY <1>1, <1>2, <2>1, OverIs, PassFacts
       DEF Routed, LineInv, OwedOK, Owes, Both, None
  <2> QED
    BY <2>2, <2>3, <2>4 DEF FacadeInv, RequestInv
<1> QED
  BY <1>5, <1>6 DEF Submit

\* The module, the tick and the calls that touch no request.
LEMMA QuietKeeps ==
  ASSUME FacadeInv, TypeOK',
         UNCHANGED <<asked, session, req, userReq, mode, cmd, owed>>,
         state' = state \/ {state, state'} \subseteq {"READY", "ASLEEP"},
         state' # state => ~userReq,
         radio'.staged = radio.staged,
         owed # <<>> => radio'.cmd = radio.cmd
  PROVE  FacadeInv'
<1>1. Shaped' /\ Routed'
  BY PassFacts DEF Shaped, Routed, UseCmd, mode
<1>2. Asks'
  BY PassFacts DEF Asks, mode
<1>3. Phases'
  BY PassFacts DEF Phases, mode, UseCmd, Reading
<1>4. LineInv'
  BY PassFacts DEF LineInv, OwedOK, Owes, Fits
<1>5. ModeInv'
  BY PassFacts DEF ModeInv, Changes, mode
<1> QED
  BY <1>1, <1>2, <1>3, <1>4, <1>5 DEF FacadeInv, RequestInv

\* The module's own steps.
LEMMA RadioKeeps ==
  ASSUME FacadeInv, RadioLapses \/ RadioSleeps \/ RadioWakes
  PROVE  FacadeInv'
<1>1. PICK R : /\ RadioStep(R)
               /\ \/ R = Leaves(radio) /\ owed = <<>>
                  \/ R = [radio EXCEPT !.asleep = TRUE]
                  \/ R = [radio EXCEPT !.asleep = FALSE]
  BY DEF RadioLapses, RadioSleeps, RadioWakes
<1>2. /\ radio' \in Radio /\ radio'.staged = radio.staged
      /\ owed # <<>> => radio'.cmd = radio.cmd
  BY <1>1, PassFacts DEF RadioStep, Leaves, Radio, LineInv
<1>3. UNCHANGED <<state, turn, asked, session, req, userReq, read, sleep, guard,
                  mode, cmd, owed, resets>>
  BY <1>1 DEF RadioStep
<1>4. TypeOK'
  BY <1>2, <1>3 DEF FacadeInv, TypeOK, Radio, read, sleep, mode
<1> QED
  BY <1>2, <1>3, <1>4, QuietKeeps

\* Sleeping, waking and waiting.
LEMMA SleepKeeps ==
  ASSUME FacadeInv, SleepProgress \/ OwnWaits \/ SleepEnter \/ SleepExit \/ GuardPasses \/ HalfPeriod
  PROVE  FacadeInv'
<1>1. /\ UNCHANGED <<asked, session, req, userReq, read, mode, cmd, radio, owed, resets>>
      /\ turn' \in {"APP", turn}
      /\ state' = state \/ ({state, state'} \subseteq {"READY", "ASLEEP"} /\ ~userReq)
      /\ lineAsserted' \in {TRUE, FALSE, lineAsserted}
      /\ sleepRequested' \in {TRUE, FALSE, sleepRequested}
      /\ sleepConfirmed' \in {TRUE, FALSE, sleepConfirmed}
      /\ guard' \in {guard, "PASSED", "SETTLING", "AHEAD"}
  <2>1. CASE SleepProgress
    <3>1. state = "ASLEEP" /\ ~userReq
      BY <2>1, PassFacts
         DEF SleepProgress, FellAsleep, SelfWoke, NeverSlept, Woke, InSleep, Phases
    <3> QED
      BY <2>1, <3>1 DEF SleepProgress, FellAsleep, SelfWoke, NeverSlept, Woke, InSleep, Own,
         WakeToReady, link
  <2>2. CASE OwnWaits
    BY <2>2 DEF OwnWaits, Own, sleep, link
  <2>3. CASE SleepEnter \/ SleepExit
    BY <2>3 DEF SleepEnter, SleepExit, SleepCall, Call, link
  <2>4. CASE GuardPasses \/ HalfPeriod
    BY <2>4 DEF GuardPasses, HalfPeriod, TickStep, sleep, link
  <2> QED
    BY <2>1, <2>2, <2>3, <2>4
<1>2. TypeOK'
  <2>1. /\ lineAsserted' \in BOOLEAN /\ sleepRequested' \in BOOLEAN
        /\ sleepConfirmed' \in BOOLEAN
    BY <1>1 DEF FacadeInv, TypeOK
  <2>2. /\ guard' \in {"PASSED", "SETTLING", "AHEAD"} /\ turn' \in {"APP", "STATE"}
        /\ state' \in BringUp \cup {"OFF", "READY", "ASLEEP", "FAILED"}
    BY <1>1 DEF FacadeInv, TypeOK
  <2> QED
    BY <1>1, <2>1, <2>2 DEF FacadeInv, TypeOK, read, mode
<1> QED
  BY <1>1, <1>2, PassFacts, QuietKeeps DEF LineInv

\* The forced session is opened, given up and closed.
LEMMA SessionKeeps ==
  ASSUME FacadeInv, SessionOpen \/ SessionOpenExpires \/ SessionClose
  PROVE  FacadeInv'
<1>1. /\ UNCHANGED <<turn, asked, state, req, userReq, read, sleep, guard, mode, resets>>
      /\ ~userReq \/ session \notin {"NONE", "OPEN"}
      /\ state \in {"READY", "ASLEEP"} /\ session' \in {"NONE", "PENDING", "OPEN"}
      /\ \/ UNCHANGED link /\ (session = "OPEN" => session' = "OPEN")
         \/ session' = session /\ session = "OPEN" /\ cmd = "ACTIVE" /\ cmd' = "EXITING" /\ Sends("CMD", "CN")
  BY PassFacts DEF SessionOpen, SessionOpenExpires, SessionClose, SessionCall, Call, Phases
<1>2. ~userReq
  BY <1>1, PassFacts DEF Phases
<1>3. \A q \in Both : req[q] = Over
  BY <1>1, <1>2, InReadyFacts
<1>4. cmd # "BUSY"
  BY <1>3, OverIs, PassFacts DEF Routed, None
<1>5. /\ radio' \in Radio /\ radio'.staged = radio.staged /\ LineInv' /\ cmd' \in Cmds
      /\ cmd' # "BUSY" /\ (cmd' = "EXITING" => cmd = "EXITING" \/ session' = "OPEN")
  <2>1. CASE UNCHANGED link
    BY <1>1, <1>4, <2>1, PassFacts DEF LineInv, OwedOK, Owes, Fits, link
  <2>2. CASE session' = session /\ session = "OPEN" /\ cmd = "ACTIVE" /\ cmd' = "EXITING"
             /\ Sends("CMD", "CN")
    <3>1. owed = <<>>
      BY <1>3, <2>2, OverIs, PassFacts, NothingWaiting DEF None
    <3>2. /\ radio' \in Radio /\ OwedOK'
          /\ radio'.staged = radio.staged
          /\ owed' # <<>> => Head(owed').kind = "OK"
      BY <2>2, <3>1, PassFacts, SendsEffect DEF LineInv, Modes, Api
    <3>3. LineInv'
      BY <1>1, <1>3, <2>2, <3>2, OverIs DEF LineInv, Owes, None
    <3> QED
      BY <2>2, <3>2, <3>3 DEF Cmds
  <2> QED
    BY <1>1, <2>1, <2>2
<1>6. TypeOK'
  BY <1>1, <1>5 DEF FacadeInv, TypeOK, Radio, Cmds, LineInv, OwedOK, read, sleep, mode
<1>7. Shaped' /\ Asks' /\ Routed'
  BY <1>1, <1>3, <1>4, <1>5, OverIs, PassFacts DEF Shaped, Asks, Routed, Both, None, mode
<1>8. cmd' = "EXITING" => session' = "OPEN" \/ detected' \notin Api
  BY <1>1, <1>5, PassFacts DEF Phases, link, mode
<1>9. Phases'
  BY <1>1, <1>2, <1>3, <1>8, OverIs, PassFacts DEF Phases, Both, mode
<1>10. ModeInv'
  BY <1>1, <1>2, <1>5, PassFacts DEF ModeInv, Changes, mode
<1> QED
  BY <1>5, <1>6, <1>7, <1>9, <1>10 DEF FacadeInv, RequestInv

\* A reset, a shutdown and a new start: nothing in flight survives.
LEMMA RestartKeeps ==
  ASSUME FacadeInv, TypeOK', state' \in {"RESETTING", "OFF", "SETTLING"}, owed' = <<>>,
         req' \in [Both -> Objects], \A q \in Both : req'[q] = Over,
         userReq' = FALSE, cmd' = "IDLE", session' = "NONE"
  PROVE  FacadeInv'
<1>1. Shaped' /\ Phases' /\ Asks' /\ Routed'
  BY OverIs DEF Shaped, Phases, Asks, Routed, Both, Reading, None
<1>2. LineInv'
  BY OverIs, EmptyOwed DEF LineInv, Owes, None
<1>3. ModeInv'
  BY DEF ModeInv, Changes
<1> QED
  BY <1>1, <1>2, <1>3 DEF FacadeInv, RequestInv

\* xbee_hw_reset() and xbee_deinit().
LEMMA CutsKeep ==
  ASSUME FacadeInv, HwReset \/ Deinit
  PROVE  FacadeInv'
<1>1. /\ CutShort /\ turn' = turn /\ asked' = asked
      /\ \/ state' = "RESETTING" /\ radio' = Restart(radio)
         \/ state' = "OFF" /\ radio' = radio
  BY DEF HwReset, Deinit, Call
<1>2. radio' \in Radio
  BY <1>1, PassFacts DEF Restart, Radio, LineInv
<1>3. /\ req' \in [Both -> Objects] /\ \A q \in Both : req'[q] = Over
  BY <1>1, PassFacts, OverIs DEF CutShort, Aborted
<1>4. TypeOK'
  <2>1. resets' \in 0..MaxResets
    BY <1>1, FacadeAssumption DEF CutShort, FacadeInv, TypeOK
  <2>2. Len(owed') <= 2
    BY <1>1, Emptied DEF CutShort
  <2>3. state' \in BringUp \cup {"OFF", "READY", "ASLEEP", "FAILED"}
    BY <1>1 DEF BringUp
  <2>4. /\ UNCHANGED <<turn, asked, read, lineAsserted, sleepRequested, sleepConfirmed, guard,
                       pending, unsure>>
        /\ userReq' \in BOOLEAN /\ detected' = AutoMode /\ session' = "NONE" /\ cmd' = "IDLE"
        /\ pendingMine' \in BOOLEAN
    BY <1>1 DEF CutShort
  <2> QED
    BY <1>2, <1>3, <2>1, <2>2, <2>3, <2>4
       DEF FacadeInv, TypeOK, Radio, Objects, Both, read
<1> QED
  BY <1>1, <1>2, <1>3, <1>4, RestartKeeps DEF CutShort

\* xbee_init().
LEMMA InitCallKeeps ==
  ASSUME FacadeInv, NEW m \in Asked, XbeeInit(m)
  PROVE  FacadeInv'
<1>1. \A q \in Both : req[q] = Over
  <2>1. req["internal"].state # "PENDING" /\ req["user"].state # "PENDING"
    BY PassFacts DEF XbeeInit, Phases, Reading
  <2> QED
    BY <2>1, PassFacts DEF Shaped, Objects, Both
<1>2. radio' \in Radio
  BY PassFacts DEF XbeeInit, Restart, Radio, LineInv
<1>3. req' = req
  BY DEF XbeeInit
<1>4. TypeOK'
  <2>1. Len(owed') <= 2
    BY Emptied DEF XbeeInit
  <2>2. /\ state' \in BringUp \cup {"OFF", "READY", "ASLEEP", "FAILED"}
        /\ asked' \in Modes \cup {AutoMode}
    BY FacadeAssumption DEF XbeeInit, BringUp
  <2>3. /\ UNCHANGED <<turn, req, pending, pendingMine, readIndex, sleepRequested, sleepConfirmed,
                       guard, unsure, resets>>
        /\ userReq' \in BOOLEAN /\ detected' = AutoMode /\ session' = "NONE" /\ cmd' = "IDLE"
        /\ canSleep' \in BOOLEAN /\ lineAsserted' \in BOOLEAN
    BY DEF XbeeInit
  <2> QED
    BY <1>2, <2>1, <2>2, <2>3 DEF FacadeInv, TypeOK, Radio
<1> QED
  BY <1>1, <1>2, <1>3, <1>4, PassFacts, RestartKeeps DEF XbeeInit

\* Every call of the application.
LEMMA ApplicationKeeps ==
  ASSUME FacadeInv, Application
  PROVE  FacadeInv'
<1>1. ASSUME NEW op \in {"GET", "MOVE"}, At(op)
      PROVE  FacadeInv'
  <2>1. op \in Ops /\ op \notin Modes /\ op # "AP"
    BY DEF Ops, Modes, Api
  <2>2. pendingMine' \in BOOLEAN
    <3>1. userReq' \in BOOLEAN
      BY <1>1 DEF At, Submit, FacadeInv, TypeOK
    <3> QED
      BY <1>1, <3>1 DEF At
  <2>3. /\ SessionSettled /\ Submit(op) /\ pending' = pending
        /\ unsure' = (unsure \/ (userReq' /\ op = "MOVE"))
    BY <1>1 DEF At
  <2> QED
    BY <2>1, <2>2, <2>3, SubmitKeeps
<1>2. ASSUME NEW m \in Targets, SetMode(m)
      PROVE  FacadeInv'
  <2>1. m \in Modes /\ m # "AP" /\ m \in Ops /\ m # "MOVE"
    BY FacadeAssumption DEF Modes, Api, Ops
  <2>2. /\ SessionSettled /\ Submit(m) /\ pending' = (IF userReq' THEN m ELSE pending)
        /\ pendingMine' = userReq' /\ unsure' = unsure
    BY <1>2 DEF SetMode
  <2>3. pendingMine' \in BOOLEAN
    BY <2>2 DEF Submit, FacadeInv, TypeOK
  <2>4. unsure' = (unsure \/ (userReq' /\ m = "MOVE"))
    BY <2>1, <2>2 DEF FacadeInv, TypeOK
  <2> QED
    BY <2>1, <2>2, <2>3, <2>4, SubmitKeeps
<1> QED
  BY <1>1, <1>2, SessionKeeps, SleepKeeps, CutsKeep, InitCallKeeps DEF Application

\* The first state.
LEMMA InitInv == Init => FacadeInv
<1> SUFFICES ASSUME Init PROVE FacadeInv
  OBVIOUS
<1>1. PICK ap \in Stored :
        radio = [stored |-> ap, ap |-> ap, staged |-> ap, cmd |-> FALSE, asleep |-> FALSE]
  BY DEF Init
<1>2. radio \in Radio
  BY <1>1, FacadeAssumption DEF Radio
<1>3. req \in [Both -> Objects] /\ \A q \in Both : req[q] = Over
  BY OverIs DEF Init, Both
<1>4. owed \in Seq(Answer) /\ Len(owed) <= 1 /\ Len(owed) <= 2
  BY Emptied DEF Init
<1>5. TypeOK
  <2>1. 1 \in 1..Len(Reads) /\ 0 \in 0..MaxResets
    BY ReadIndices, FacadeAssumption
  <2>2. /\ state = "OFF" /\ turn = "APP" /\ asked = AutoMode /\ detected = AutoMode
        /\ pending = AutoMode /\ pendingMine = FALSE /\ unsure = FALSE /\ session = "NONE" /\ cmd = "IDLE"
        /\ userReq = FALSE /\ readIndex = 1 /\ canSleep = FALSE /\ lineAsserted = FALSE
        /\ sleepRequested = FALSE /\ sleepConfirmed = FALSE /\ guard = "PASSED" /\ resets = 0
    BY DEF Init
  <2> QED
    BY <1>2, <1>3, <1>4, <2>1, <2>2 DEF TypeOK, Radio, Objects, Both
<1>6. Shaped /\ Phases /\ Asks /\ Routed
  BY <1>3, OverIs DEF Init, Shaped, Phases, Asks, Routed, Both, Reading, None
<1>7. LineInv /\ ModeInv
  BY <1>2, <1>3, <1>4, OverIs DEF Init, LineInv, ModeInv, Changes, OwedOK, Owes, None
<1> QED
  BY <1>5, <1>6, <1>7 DEF FacadeInv, RequestInv

\* Every step.
LEMMA StepInv == FacadeInv /\ [Next]_vars => FacadeInv'
<1> SUFFICES ASSUME FacadeInv, [Next]_vars PROVE FacadeInv'
  OBVIOUS
<1>1. CASE UNCHANGED vars
  <2>1. UNCHANGED <<state, turn, asked, session, req, userReq, read, sleep, guard, mode, cmd,
                    radio, owed, resets>>
    BY <1>1 DEF vars, link
  <2>2. TypeOK'
    BY <2>1 DEF FacadeInv, TypeOK, read, sleep, mode
  <2> QED
    BY <2>1, <2>2, PassFacts, QuietKeeps DEF LineInv
<1>2. CASE Pass
  BY <1>2, TransportsKeepInv, UserEndsKeeps, UserProceedsKeeps, BringUpKeeps, SleepKeeps
     DEF Pass, StateProgress
<1>3. CASE Application
  BY <1>3, ApplicationKeeps
<1>4. CASE RadioLapses \/ RadioSleeps \/ RadioWakes
  BY <1>4, RadioKeeps
<1>5. CASE GuardPasses \/ HalfPeriod
  BY <1>5, SleepKeeps
<1> QED
  BY <1>1, <1>2, <1>3, <1>4, <1>5 DEF Next

\* The invariant holds, whatever the modes, the losses, the refusals and the resets.
THEOREM Invariance == Spec => []FacadeInv
BY InitInv, StepInv, PTL DEF Spec

\* The invariant gives OneInFlight.
LEMMA InvOneInFlight == FacadeInv => OneInFlight
<1> SUFFICES ASSUME FacadeInv PROVE OneInFlight
  OBVIOUS
<1>1. Waiting("CMD") # {} <=> \E r \in Both : req[r].via = "CMD" /\ req[r].part = "WAITING"
  BY PassFacts DEF Waiting
<1> QED
  BY <1>1, PassFacts DEF OneInFlight, FacadeInv, Phases, Routed

\* The facade, the request object and the transport agree on what is in flight,
\* over resets, shutdowns, refusals and timeouts (xbee.c:270, xbee_cmd_mode.c:128).
THEOREM RequestsOwned == Spec => []OneInFlight
BY Invariance, InvOneInFlight, PTL

\* The invariant gives PolledWhereSent.
LEMMA InvPolled == FacadeInv => PolledWhereSent
<1> SUFFICES ASSUME FacadeInv, NEW r \in DOMAIN req, req[r].state = "PENDING", req[r].via # None
             PROVE  (req[r].via = "CMD") = UseCmd(detected)
  BY DEF PolledWhereSent
<1>1. r \in Both /\ ~req[r].awaiting
  BY PassFacts DEF Shaped
<1>2. req[r].via = "CMD" <=> UseCmd(detected)
  BY <1>1, PassFacts DEF Routed
<1>3. UseCmd(detected) \in BOOLEAN /\ (req[r].via = "CMD") \in BOOLEAN
  BY DEF UseCmd
<1> QED
  BY <1>2, <1>3

\* A request is polled through the transport that carries it, whatever becomes of
\* the detected mode and the forced session (xbee.h, xbee_at_req_t).
THEOREM PolledByItsCarrier == Spec => []PolledWhereSent
BY Invariance, InvPolled, PTL

\* The invariant gives ModeFollows.
LEMMA InvMode == FacadeInv => ModeFollows
BY PassFacts DEF ModeFollows, ModeInv

\* READY in a detected mode means the module is in it, once nothing is staged, unless
\* a change of mode was not acknowledged, one that was cut short was adopted with a
\* later request's answer, or a request moved AP that the facade does not follow; a
\* bring-up, and an acknowledged change of mode, always make it so (xbee.c:1046).
THEOREM DetectedIsTheModules == Spec => []ModeFollows
BY Invariance, InvMode, PTL
=============================================================================
