----------------------------- MODULE XBeeFacade -----------------------------
(***************************************************************************)
(* The whole facade, xbee.c: bring-up with its probes, requests over       *)
(* either transport, mode changes, the forced Command mode session, sleep, *)
(* reset and shutdown.  XBeeLink is what the provisioning engine sees of   *)
(* it; here every step of bring-up and every route is one of its own.      *)
(*                                                                         *)
(* A call of xbee_process() is two steps, the transports with the forced   *)
(* session, then the facade's own state; the application's calls come      *)
(* between two of them.  Time is left out: a deadline may pass whenever it *)
(* is looked at, but not before an answer that is on its way.  Commands    *)
(* and answers may be lost, and the driver may refuse to transmit.  What   *)
(* the getters report is left out.                                         *)
(***************************************************************************)
EXTENDS Naturals, Sequences

CONSTANTS MaxResets, \* bound: resets and shutdowns
          Asked,     \* what xbee_init() is configured for: modes, or AUTO
          Stored,    \* what AP may be in the module's flash
          Targets,   \* the modes xbee_set_mode() is asked for
          Elsewhere  \* what AP may be set or restored to by another request

AutoMode  == "AUTO"
Api   == {"API1", "API2"}
Modes == Api \cup {"TRANSPARENT"}

APs   == Modes \cup {"PYTHON"}  \* AP=4, which bring-up does not drive

ASSUME FacadeAssumption ==
  /\ MaxResets \in Nat /\ Stored \subseteq APs
  /\ Asked \subseteq Modes \cup {AutoMode} /\ Targets \subseteq Modes
  /\ Elsewhere \subseteq APs

VARIABLES state,     \* xbee_state_t
          turn,      \* where the super loop is: APP, or STATE when the transports have run
          asked,     \* cfg.mode
          detected,  \* detected_mode
          session,   \* cmd_session
          cmd,       \* xbee_cmd_mode.c state
          req,       \* the application's request object, and internal_req
          userReq,   \* user_req is not NULL
          pending,   \* pending_mode
          pendingMine,  \* pending_mode_req is the request in flight
          readIndex, \* read_index
          canSleep,  \* module_sm, module_d8 and module_d9 have been read, and allow pin sleep
          lineAsserted, sleepRequested, sleepConfirmed,
          guard,     \* wake_guard_tick: PASSED, SETTLING after a wake, or AHEAD of a
                     \* tick that has gone half its period since it was set or reached
          \* the module and the line:
          radio, owed,
          \* history, and the bound:
          unsure,    \* AP may have changed since bring-up, or the last change of mode
                     \* that was acknowledged, without the facade following
          resets

sleep == <<lineAsserted, sleepRequested, sleepConfirmed>>
read  == <<readIndex, canSleep>>
mode  == <<detected, pending, pendingMine, unsure>>
link  == <<cmd, radio, owed>>
user  == <<userReq, pending, pendingMine, unsure>>
vars  == <<state, turn, asked, session, req, userReq, read, sleep, guard, mode,
           link, resets>>

None == "none"

BringUp == {"RESETTING", "SETTLING", "PROBE_API", "PROBE_CMD", "PROBE_CMD_READ",
            "READ_PARAMS"}

\* bringup_reads, by what the facade makes of them: reports them, or sleeps by them.
Reads == <<"REPORT", "SLEEP">>

\* What is asked of the module: to read AP or another register, to change AP by
\* xbee_set_mode(), and anything that moves it without the facade following (AP
\* written or queued, a queued AP applied, R1, RE, FR).  What else there is, WR too,
\* leaves AP alone as a read does: which of its values is in flash is left to Stored.
Ops == {"AP", "GET", "MOVE"} \cup Modes

\* A request: the transport it went by, and how far the part that transport
\* keeps of it has come.
Object(s, awaiting, via, part, op, got) ==
  [state |-> s, awaiting |-> awaiting, via |-> via, part |-> part, op |-> op, got |-> got]
Over        == Object("OVER", FALSE, None, None, "GET", None)
Awaits(op)  == Object("PENDING", TRUE, None, None, op, None)
Via(v, op)  == Object("PENDING", FALSE, v, "WAITING", op, None)
Waiting(v)  == {r \in DOMAIN req : req[r].via = v /\ req[r].part = "WAITING"}

TypeOK ==
  /\ state \in BringUp \cup {"OFF", "READY", "ASLEEP", "FAILED"}
  /\ turn \in {"APP", "STATE"} /\ asked \in Modes \cup {AutoMode}
  /\ detected \in Modes \cup {AutoMode} /\ pending \in Modes \cup {AutoMode}
  /\ session \in {"NONE", "PENDING", "ENTERING", "OPEN"}
  /\ cmd \in {"IDLE", "GUARD_PRE", "WAIT_OK", "ACTIVE", "BUSY", "EXITING"}
  /\ req \in [{"user", "internal"} ->
                [state : {"OVER", "PENDING"}, awaiting : BOOLEAN,
                 via : {None, "API", "CMD"}, part : {None, "WAITING", "OK", "FAILED"},
                 op : Ops, got : APs \cup {None}]]
  /\ userReq \in BOOLEAN /\ readIndex \in 1..Len(Reads)
  /\ canSleep \in BOOLEAN /\ pendingMine \in BOOLEAN
  /\ lineAsserted \in BOOLEAN /\ sleepRequested \in BOOLEAN /\ sleepConfirmed \in BOOLEAN
  /\ guard \in {"PASSED", "SETTLING", "AHEAD"} /\ unsure \in BOOLEAN
  /\ radio \in [stored : APs, ap : APs, staged : APs, cmd : BOOLEAN, asleep : BOOLEAN]
  /\ Len(owed) <= 2 /\ resets \in 0..MaxResets

Init ==
  /\ state = "OFF" /\ turn = "APP" /\ asked = AutoMode
  /\ detected = AutoMode /\ pending = AutoMode /\ pendingMine = FALSE /\ unsure = FALSE
  /\ session = "NONE" /\ cmd = "IDLE" /\ owed = <<>>
  /\ req = [r \in {"user", "internal"} |-> Over] /\ userReq = FALSE
  /\ readIndex = 1 /\ canSleep = FALSE
  /\ lineAsserted = FALSE /\ sleepRequested = FALSE /\ sleepConfirmed = FALSE
  /\ guard = "PASSED" /\ resets = 0
  /\ \E ap \in Stored :
       radio = [stored |-> ap, ap |-> ap, staged |-> ap, cmd |-> FALSE, asleep |-> FALSE]

(***************************************************************************)
(* The module.  A write of AP takes effect at once through an API frame,   *)
(* and when the session ends in Command mode, or AC applies it, as it does *)
(* one that is queued.                                                     *)
(***************************************************************************)
Leaves(R)  == [R EXCEPT !.cmd = FALSE, !.ap = R.staged]
Restart(R) == [R EXCEPT !.cmd = FALSE, !.ap = R.stored, !.staged = R.stored, !.asleep = FALSE]

Understands(via, op) ==
  /\ ~radio.asleep
  /\ IF via = "API" THEN ~radio.cmd /\ radio.ap # "TRANSPARENT" ELSE radio.cmd = (op # "ESC")

Takes(via, ap) == [radio EXCEPT !.staged = ap, !.ap = IF via = "API" THEN ap ELSE @]

\* What the module may be once it has done as it was asked.
Obeys(via, op) ==
  CASE op = "ESC"     -> {[radio EXCEPT !.cmd = TRUE]}
    [] op = "CN"      -> {Leaves(radio)}
    [] op \in Modes   -> {Takes(via, op)}
    [] op = "MOVE"    -> {Restart(radio), [radio EXCEPT !.ap = radio.staged]}
                         \cup {Takes(via, ap) : ap \in Elsewhere \cup {radio.stored}}
                         \cup {[radio EXCEPT !.staged = ap] : ap \in Elsewhere}
    [] OTHER          -> {radio}

AnswerTo(via, op) ==
  [kind |-> IF op \in {"ESC", "CN"} THEN "OK" ELSE via,
   got  |-> IF op = "AP" THEN radio.staged ELSE None]

\* The bytes go out: they may be lost, and so may the answer.
Sends(via, op) ==
  \/ UNCHANGED <<radio, owed>>
  \/ /\ Understands(via, op) /\ radio' \in Obeys(via, op)
     /\ \/ UNCHANGED owed
        \/ Len(owed) < 2 /\ owed' = Append(owed, AnswerTo(via, op))

RadioStep(R) ==
  /\ radio' = R
  /\ UNCHANGED <<state, turn, asked, session, req, userReq, read, sleep, guard,
                 mode, cmd, owed, resets>>

RadioLapses == radio.cmd /\ owed = <<>> /\ RadioStep(Leaves(radio))

\* It sleeps when it is asked to, and may wake by itself (cyclic sleep).
RadioSleeps ==
  /\ lineAsserted /\ ~radio.asleep /\ ~radio.cmd /\ owed = <<>>
  /\ RadioStep([radio EXCEPT !.asleep = TRUE])
RadioWakes == radio.asleep /\ RadioStep([radio EXCEPT !.asleep = FALSE])

(***************************************************************************)
(* Requests: start_request(), dispatch_request() and poll_request().       *)
(***************************************************************************)
UseCmd(m) == session # "NONE" \/ m \notin Api

Becomes(r, object) == req' = [req EXCEPT ![r] = object]

StartRequest(r, op, m) ==
  \/ /\ ~UseCmd(m) /\ Becomes(r, Via("API", op)) /\ Sends("API", op) /\ UNCHANGED cmd
  \/ /\ UseCmd(m) /\ cmd = "ACTIVE" /\ cmd' = "BUSY"
     /\ Becomes(r, Via("CMD", op)) /\ Sends("CMD", op)
  \/ /\ UseCmd(m) /\ cmd = "IDLE" /\ cmd' = "GUARD_PRE"
     /\ Becomes(r, Awaits(op)) /\ UNCHANGED <<radio, owed>>

\* The driver refuses to transmit, or the transport cannot enter a session now.
StartFails(r, m) ==
  /\ UseCmd(m) => cmd # "IDLE"
  /\ Becomes(r, Over) /\ UNCHANGED link

\* Mutant: a session that could not be entered is waited for.
EndsOnlyAnswered(r, ok) == ~req[r].awaiting /\ req[r].part = IF ok THEN "OK" ELSE "FAILED"

\* The request is over: answered, timed out, or the session it waits for cannot
\* be had, or cannot be written to.
Ends(r, ok) ==
  \/ ~req[r].awaiting /\ req[r].part = IF ok THEN "OK" ELSE "FAILED"
  \/ req[r].awaiting /\ cmd \in {"IDLE", "ACTIVE"} /\ ~ok

\* The session has opened: the request goes out.
Proceeds(r) ==
  /\ req[r].awaiting /\ cmd = "ACTIVE" /\ cmd' = "BUSY"
  /\ Becomes(r, Via("CMD", req[r].op)) /\ Sends("CMD", req[r].op)

(***************************************************************************)
(* xbee_process(): the transports, then advance_cmd_session().             *)
(***************************************************************************)
DrivesApi == session = "NONE" /\ detected \in Api \cup {AutoMode}
DrivesCmd == UseCmd(detected)

\* Mutant: the session's end is noticed with a request in flight.
AdvanceRegardless(c) ==
  CASE session = "PENDING" /\ c = "IDLE"    -> <<"ENTERING", "GUARD_PRE">>
    [] session = "ENTERING" /\ c = "ACTIVE" -> <<"OPEN", c>>
    [] session = "ENTERING" /\ c = "IDLE"   -> <<"PENDING", c>>
    [] session = "OPEN" /\ c = "IDLE"       -> <<"NONE", c>>
    [] OTHER                                -> <<session, c>>

\* The session and the transport after a pass that took the transport to c.
Advance(c) ==
  CASE session = "PENDING" /\ c = "IDLE"           -> <<"ENTERING", "GUARD_PRE">>
    [] session = "ENTERING" /\ c = "ACTIVE"        -> <<"OPEN", c>>
    [] session = "ENTERING" /\ c = "IDLE"          -> <<"PENDING", c>>
    [] session = "OPEN" /\ c = "IDLE" /\ ~userReq  -> <<"NONE", c>>
    [] OTHER                                       -> <<session, c>>

Transports(c) ==
  /\ turn = "APP" /\ state # "OFF" /\ turn' = "STATE"
  /\ session' = Advance(c)[1] /\ cmd' = Advance(c)[2]
  /\ UNCHANGED <<state, asked, userReq, read, sleep, guard, mode, resets>>

Completed(v, part, got) ==
  req' = [r \in DOMAIN req |->
            IF r \in Waiting(v) THEN [req[r] EXCEPT !.part = part, !.got = got] ELSE req[r]]

ApiAnswered ==
  /\ DrivesApi /\ owed # <<>> /\ Transports(cmd) /\ owed' = Tail(owed)
  /\ IF Head(owed).kind = "API" THEN Completed("API", "OK", Head(owed).got) ELSE UNCHANGED req
  /\ UNCHANGED radio

ApiExpires ==
  /\ DrivesApi /\ owed = <<>> /\ Waiting("API") # {} /\ Transports(cmd)
  /\ Completed("API", "FAILED", None) /\ UNCHANGED <<radio, owed>>

\* What a line does to the transport, handle_line().
After(kind) ==
  CASE cmd = "WAIT_OK" /\ kind = "OK" -> "ACTIVE"
    [] cmd = "EXITING" /\ kind = "OK" -> "IDLE"
    [] cmd = "BUSY" /\ kind # "API"   -> "ACTIVE"
    [] OTHER                          -> cmd

CmdAnswered ==
  /\ DrivesCmd /\ owed # <<>> /\ Transports(After(Head(owed).kind)) /\ owed' = Tail(owed)
  /\ IF cmd = "BUSY" /\ Head(owed).kind # "API"
     THEN Completed("CMD", "OK", Head(owed).got) ELSE UNCHANGED req
  /\ UNCHANGED radio

EscapeSent ==
  /\ DrivesCmd /\ cmd = "GUARD_PRE" /\ owed = <<>>
  /\ Transports("WAIT_OK") /\ Sends("CMD", "ESC") /\ UNCHANGED req

CmdExpires ==
  /\ DrivesCmd /\ owed = <<>> /\ cmd \in {"WAIT_OK", "ACTIVE", "BUSY", "EXITING"}
  /\ Transports(IF cmd = "BUSY" THEN "ACTIVE" ELSE "IDLE")
  /\ Completed("CMD", "FAILED", None) /\ UNCHANGED <<radio, owed>>

QuietPass == Transports(cmd) /\ UNCHANGED <<req, radio, owed>>

TransportProgress == ApiAnswered \/ ApiExpires \/ CmdAnswered \/ EscapeSent \/ CmdExpires

(***************************************************************************)
(* xbee_process() in READY.                                                *)
(***************************************************************************)
Own == turn = "STATE" /\ turn' = "APP"
       /\ UNCHANGED <<asked, session, resets>>
InReady == Own /\ state = "READY" /\ UNCHANGED <<state, read, sleep, guard>>

\* finish_user_request(), and the mode change the request may have carried: its
\* own, or one a reset has left behind on the same object.
Finish(ok) ==
  /\ Becomes("user", Over) /\ userReq' = FALSE
  /\ pending' = (IF pendingMine THEN AutoMode ELSE pending) /\ pendingMine' = FALSE
  /\ detected' = IF ok /\ pendingMine THEN pending ELSE detected
  /\ owed' = IF ok /\ pendingMine /\ pending = "TRANSPARENT" THEN <<>> ELSE owed
  /\ unsure' = IF pendingMine /\ req["user"].op = pending THEN ~ok
               ELSE unsure \/ (ok /\ pendingMine)
  /\ UNCHANGED <<cmd, radio>>

UserEnds == InReady /\ userReq /\ \E ok \in BOOLEAN : Ends("user", ok) /\ Finish(ok)
UserProceeds == InReady /\ userReq /\ Proceeds("user") /\ UNCHANGED <<userReq, mode>>

(***************************************************************************)
(* process_bringup()                                                       *)
(***************************************************************************)
InBringUp == Own /\ UNCHANGED <<user, sleep, guard>>
GivesUp   == state' = "FAILED" /\ Becomes("internal", Over)
             /\ UNCHANGED <<detected, readIndex, link>>

\* A request of bring-up's own, with the mode m adopted just before.
Begin(s, op, m) ==
  /\ detected' = m
  /\ \/ state' = s /\ StartRequest("internal", op, m)
     \/ state' = "FAILED" /\ StartFails("internal", m)

BeginReadParams(m) == Begin("READ_PARAMS", "GET", m) /\ readIndex' = 1

Enter ==
  /\ cmd = "IDLE" /\ cmd' = "GUARD_PRE" /\ state' = "PROBE_CMD"
  /\ detected' = "TRANSPARENT" /\ UNCHANGED readIndex

ResetPulseEnds ==
  /\ InBringUp /\ state = "RESETTING" /\ state' = "SETTLING"
  /\ UNCHANGED <<detected, readIndex, link, req>> /\ UNCHANGED canSleep

\* begin_probe(), after the receive path is flushed.
Settled ==
  /\ InBringUp /\ state = "SETTLING" /\ UNCHANGED canSleep
  /\ CASE asked = "TRANSPARENT" -> Enter /\ owed' = <<>> /\ UNCHANGED <<req, radio>>
       [] asked \in Api         -> owed = <<>> /\ BeginReadParams(asked)
       [] asked = AutoMode          -> owed = <<>> /\ Begin("PROBE_API", "AP", "API1")
                                   /\ UNCHANGED readIndex

\* adopt_probed_ap()
AdoptProbed(ap) ==
  IF ap = "PYTHON" THEN GivesUp ELSE BeginReadParams(ap)

ProbeAnswered ==
  /\ InBringUp /\ state = "PROBE_API" /\ Ends("internal", TRUE) /\ UNCHANGED canSleep
  /\ AdoptProbed(req["internal"].got)

ProbeUnanswered ==
  /\ InBringUp /\ state = "PROBE_API" /\ Ends("internal", FALSE) /\ UNCHANGED canSleep
  /\ Enter /\ owed' = <<>> /\ Becomes("internal", Over) /\ UNCHANGED radio

EscapeAnswered ==
  /\ InBringUp /\ state = "PROBE_CMD" /\ cmd = "ACTIVE" /\ UNCHANGED canSleep
  /\ Begin("PROBE_CMD_READ", "AP", detected) /\ UNCHANGED readIndex

\* Mutant: the sequence is sent until it is answered.
EscapeAgain ==
  /\ InBringUp /\ state = "PROBE_CMD" /\ cmd = "IDLE" /\ UNCHANGED canSleep
  /\ Enter /\ UNCHANGED <<req, radio, owed>>

EscapeUnanswered ==
  /\ InBringUp /\ state = "PROBE_CMD" /\ cmd = "IDLE" /\ UNCHANGED canSleep
  /\ GivesUp

CmdProbeEnds ==
  /\ InBringUp /\ state = "PROBE_CMD_READ" /\ UNCHANGED canSleep
  /\ \E ok \in BOOLEAN :
       /\ Ends("internal", ok)
       /\ IF ok /\ req["internal"].got = "TRANSPARENT"
          THEN AdoptProbed("TRANSPARENT")
          ELSE GivesUp

\* Any of the requests of bring-up that had to wait for a session.
BringUpProceeds ==
  /\ InBringUp /\ state \in {"PROBE_API", "PROBE_CMD_READ", "READ_PARAMS"}
  /\ Proceeds("internal") /\ UNCHANGED <<canSleep, state, detected, readIndex>>

\* record_parameter(): one that was not answered leaves what there was.
Record(ok) ==
  canSleep' = (canSleep \/ (ok /\ Reads[readIndex] = "SLEEP"))

ReadNext ==
  /\ InBringUp /\ state = "READ_PARAMS" /\ readIndex < Len(Reads)
  /\ \E ok \in BOOLEAN : Ends("internal", ok) /\ Record(ok)
  /\ readIndex' = readIndex + 1 /\ Begin("READ_PARAMS", "GET", detected)

\* The last read.  In Transparent mode the session is closed; the exit may be
\* refused by the driver.
BecomesReady ==
  /\ Own /\ UNCHANGED <<sleep, guard, userReq, pending, pendingMine, detected, readIndex>>
  /\ state = "READ_PARAMS" /\ readIndex = Len(Reads) /\ state' = "READY"
  /\ \E ok \in BOOLEAN : Ends("internal", ok) /\ Record(ok)
  /\ Becomes("internal", Over)
  /\ \/ /\ detected = "TRANSPARENT" /\ cmd = "ACTIVE"
        /\ cmd' = "EXITING" /\ Sends("CMD", "CN")
     \/ UNCHANGED link
  /\ unsure' = FALSE

BringUpProgress ==
  \/ ResetPulseEnds \/ Settled \/ ProbeAnswered \/ ProbeUnanswered \/ EscapeAnswered
  \/ EscapeUnanswered \/ CmdProbeEnds \/ BringUpProceeds \/ ReadNext \/ BecomesReady

(***************************************************************************)
(* process_sleep()                                                         *)
(***************************************************************************)
InSleep == Own /\ state = "ASLEEP"
           /\ UNCHANGED <<req, userReq, read, mode, link>>

WakeToReady == sleepConfirmed' = FALSE /\ guard' = "SETTLING"
               /\ state' = "READY"

FellAsleep ==
  /\ InSleep /\ sleepRequested /\ radio.asleep /\ ~sleepConfirmed /\ sleepConfirmed' = TRUE
  /\ UNCHANGED <<state, lineAsserted, sleepRequested, guard>>

\* It woke by itself: the request line stays as it is.
SelfWoke ==
  /\ InSleep /\ sleepRequested /\ ~radio.asleep /\ sleepConfirmed
  /\ WakeToReady /\ UNCHANGED <<lineAsserted, sleepRequested>>

NeverSlept ==
  /\ InSleep /\ sleepRequested /\ ~radio.asleep /\ ~sleepConfirmed
  /\ lineAsserted' = FALSE /\ sleepRequested' = FALSE /\ WakeToReady

\* The line has risen, or has not in time.
Woke ==
  /\ InSleep /\ ~sleepRequested
  /\ WakeToReady /\ UNCHANGED <<lineAsserted, sleepRequested>>

SleepProgress == FellAsleep \/ SelfWoke \/ NeverSlept \/ Woke

\* Nothing is due, or the state has nothing to do.
OwnWaits ==
  /\ Own /\ UNCHANGED <<state, req, userReq, read, sleep, guard, mode, link>>

StateProgress == UserEnds \/ UserProceeds \/ BringUpProgress \/ SleepProgress

(***************************************************************************)
(* What the application calls.                                             *)
(***************************************************************************)
Call == turn = "APP" /\ UNCHANGED <<turn, asked>>

\* submit()
Submit(op) ==
  /\ Call /\ state = "READY" /\ guard = "PASSED" /\ ~userReq
  /\ \/ StartRequest("user", op, detected) /\ userReq' = TRUE
     \/ StartFails("user", detected) /\ UNCHANGED userReq
  /\ UNCHANGED <<state, session, read, sleep, guard, detected, resets>>

\* The application issues nothing while a session it has asked for is opening
\* (xbee.h:502), which submit() itself does not check.
SessionSettled == session \in {"NONE", "OPEN"}

\* Any request but xbee_set_mode()'s.  One that uses the object of a change of
\* mode that a reset cut short takes over what is left of it.
At(op) ==
  /\ SessionSettled /\ Submit(op)
  /\ pendingMine' \in {FALSE, userReq' /\ pending # AutoMode} /\ UNCHANGED pending
  /\ unsure' = (unsure \/ (userReq' /\ op = "MOVE"))

\* Mutant: the local side changes over with the request.
SetModeAtOnce(m) ==
  /\ SessionSettled
  /\ Call /\ state = "READY" /\ guard = "PASSED" /\ ~userReq
  /\ StartRequest("user", m, detected) /\ userReq' = TRUE /\ detected' = m
  /\ UNCHANGED <<state, session, read, sleep, guard, pending, pendingMine, unsure, resets>>

\* xbee_set_mode()
SetMode(m) ==
  /\ SessionSettled /\ Submit(m) /\ UNCHANGED unsure
  /\ pending' = (IF userReq' THEN m ELSE pending) /\ pendingMine' = userReq'

SessionCall ==
  Call /\ UNCHANGED <<state, req, userReq, read, sleep, guard, mode, resets>>

SessionOpen ==
  /\ SessionCall /\ state = "READY" /\ ~userReq /\ session = "NONE"
  /\ session' = (IF cmd = "ACTIVE" THEN "OPEN" ELSE "PENDING")
  /\ UNCHANGED link

\* xbee_cmd_session_status() finds the deadline passed.
SessionOpenExpires ==
  /\ SessionCall /\ session \in {"PENDING", "ENTERING"} /\ session' = "NONE" /\ UNCHANGED link

SessionClose ==
  /\ SessionCall /\ session # "NONE" /\ ~userReq
  /\ \/ session # "OPEN" /\ session' = "NONE" /\ UNCHANGED link
     \/ /\ session = "OPEN" /\ cmd = "ACTIVE" /\ cmd' = "EXITING"
        /\ Sends("CMD", "CN") /\ UNCHANGED session

SleepCall ==
  Call /\ UNCHANGED <<session, req, userReq, read, mode, guard, link, resets>>

SleepEnter ==
  /\ SleepCall /\ state = "READY" /\ ~userReq /\ cmd = "IDLE" /\ canSleep
  /\ lineAsserted' = TRUE /\ sleepConfirmed' = FALSE /\ sleepRequested' = TRUE
  /\ state' = "ASLEEP"

SleepExit ==
  /\ SleepCall /\ state = "ASLEEP" /\ sleepRequested
  /\ lineAsserted' = FALSE /\ sleepRequested' = FALSE
  /\ UNCHANGED <<state, sleepConfirmed>>

\* Mutant: the application's request is forgotten.
AbortedInternal == [req EXCEPT !["internal"] = Over]

\* Nothing in flight survives a reset or a shutdown.
Aborted == [r \in DOMAIN req |-> Over]

CutShort ==
  /\ resets < MaxResets /\ resets' = resets + 1
  /\ req' = Aborted /\ userReq' = FALSE /\ cmd' = "IDLE" /\ owed' = <<>>
  /\ detected' = AutoMode /\ session' = "NONE"
  /\ pendingMine' = FALSE
  /\ UNCHANGED <<read, lineAsserted, sleepRequested, sleepConfirmed, guard,
                 pending, unsure>>

HwReset ==
  /\ Call /\ state \notin {"OFF", "RESETTING"} /\ CutShort
  /\ state' = "RESETTING" /\ radio' = Restart(radio)

Deinit ==
  /\ Call /\ state # "OFF" /\ CutShort
  /\ state' = "OFF" /\ UNCHANGED radio

\* xbee_init(); the supply is removed and applied, or left as it is.
XbeeInit(m) ==
  /\ turn = "APP" /\ state = "OFF" /\ state' = "SETTLING" /\ asked' = m
  /\ userReq' = FALSE /\ detected' = AutoMode /\ session' = "NONE"
  /\ cmd' = "IDLE"  /\ canSleep' = FALSE
  /\ lineAsserted' = FALSE /\ owed' = <<>>
  /\ radio' \in {radio, Restart(radio)}
  /\ UNCHANGED <<turn, req, pending, pendingMine, readIndex, sleepRequested, sleepConfirmed, guard,
                 unsure, resets>>

Application ==
  \/ \E op \in {"GET", "MOVE"} : At(op)
  \/ \E m \in Targets : SetMode(m)
  \/ SessionOpen \/ SessionOpenExpires \/ SessionClose
  \/ SleepEnter \/ SleepExit \/ HwReset \/ Deinit
  \/ \E m \in Asked : XbeeInit(m)

(***************************************************************************)
(* The tick.                                                               *)
(***************************************************************************)
TickStep ==
  UNCHANGED <<state, turn, asked, session, req, userReq, read, sleep, mode, link,
              resets>>

GuardPasses == guard = "SETTLING" /\ guard' = "PASSED" /\ TickStep

\* Half a period of the tick counter after the guard was set, or was reached.
HalfPeriod ==
  \/ guard = "PASSED" /\ guard' = "AHEAD" /\ TickStep
  \/ guard = "AHEAD" /\ guard' = "PASSED" /\ TickStep

Pass == TransportProgress \/ QuietPass \/ StateProgress \/ OwnWaits
Next == Pass \/ Application \/ RadioLapses \/ RadioSleeps \/ RadioWakes
        \/ GuardPasses \/ HalfPeriod
Spec == Init /\ [][Next]_vars

\* The super loop runs, and a deadline that is looked at again and again passes.
FairSpec ==
  /\ Spec /\ WF_vars(QuietPass) /\ WF_vars(OwnWaits)
  /\ SF_vars(TransportProgress \/ StateProgress)

(***************************************************************************)
(* Properties.                                                             *)
(***************************************************************************)
\* The facade, the request object and the transport agree on what is in flight,
\* over resets, shutdowns, refusals and timeouts: a request that looks pending is
\* the facade's, only in READY, and the Command mode transport is busy for as
\* long as a request of its own waits (xbee.c:270, xbee_cmd_mode.c:128).
OneInFlight ==
  /\ TypeOK
  /\ req["user"].state = "PENDING" <=> userReq
  /\ userReq => state = "READY"
  /\ cmd = "BUSY" <=> Waiting("CMD") # {}

\* A request is polled through the transport that carries it, whose part of it
\* shares storage with the other's (xbee.h, xbee_at_req_t), whatever becomes of
\* the detected mode and the forced session meanwhile.
PolledWhereSent ==
  \A r \in DOMAIN req :
    (req[r].state = "PENDING" /\ req[r].via # None)
      => (req[r].via = "CMD") = UseCmd(detected)

\* READY in a detected mode means the module is in it, once nothing is staged:
\* after bring-up, after a change of mode, and for as long as one is only in
\* flight.  They are apart when a change was not acknowledged, when what a reset
\* cut short has been adopted with another request's answer, and after a request
\* that the facade does not follow; and an acknowledged change of mode, or
\* bring-up, brings them together again (xbee.c:1046).
Changes == userReq /\ req["user"].op \in Modes
ModeFollows ==
  (state = "READY" /\ asked \notin Api /\ ~Changes /\ ~unsure /\ radio.ap = radio.staged)
    => detected = radio.ap

\* Every request ends, over either transport, with or without a session, if the
\* loop goes on.
RequestEnds == userReq ~> ~userReq

\* Bring-up ends, in READY or FAILED, whatever the module does.
BringUpEnds == (state \in BringUp) ~> (state \notin BringUp)
=============================================================================
