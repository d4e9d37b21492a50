------------------------------ MODULE XBeeLink ------------------------------
(***************************************************************************)
(* The XBee facade (xbee.c), the Command mode transport under it           *)
(* (xbee_cmd_mode.c) and the radio module at the other end of the wire, at *)
(* the granularity the provisioning engine sees: the bring-up either ends  *)
(* READY or FAILED, one Command mode session, one request at a time.       *)
(*                                                                         *)
(* Time is left out: a deadline may pass whenever the code that waits for  *)
(* it is waiting, except where a comment bounds it.  What the serial link  *)
(* and the module may do wrong is chosen by the constant Faults:           *)
(*   "loss"    a command or a reply line disappears                        *)
(*   "refuse"  the module answers ERROR                                    *)
(*   "late"    the host gives up on a reply that is still on its way       *)
(*   "lapse"   the module leaves Command mode while the host is using it   *)
(*   "reboot"  the module restarts on its own                              *)
(*   "txbusy"  the driver refuses to transmit                              *)
(*   "pulse"   the reset pulse cannot be started                           *)
(*   "dead"    bring-up finds no module                                    *)
(***************************************************************************)
EXTENDS Naturals, Sequences, FiniteSets

CONSTANTS ParamCount,  \* entries of the configuration table
          Values,      \* what a parameter can hold
          Transparent, \* the value of AP that means Transparent mode
          AP,          \* the table index of AP, the serial mode
          Factory,     \* the defaults R1 restores, by table index
          Custom,      \* the defaults RE restores, by table index
          Faults,      \* what may go wrong on the link, see above
          MaxInFlight  \* bound: lines under way when a reply may be late

Params == 1..ParamCount
AllFaults == {"loss", "refuse", "late", "lapse", "reboot", "txbusy", "pulse", "dead"}

ASSUME LinkAssumption ==
  /\ ParamCount \in Nat \ {0}
  /\ AP \in Params
  /\ Transparent \in Values
  /\ Factory \in [Params -> Values]
  /\ Custom \in [Params -> Values]
  /\ Faults \subseteq AllFaults
  /\ MaxInFlight \in Nat
  /\ "AUTO" \notin Values
  /\ "empty" \notin Values

VARIABLES fac,      \* xbee.c state: OFF, BRINGUP (RESETTING to READ_PARAMS), READY, FAILED
          mode,     \* detected_mode, as the value of AP, or "AUTO"
          session,  \* cmd_session
          cmd,      \* xbee_cmd_mode.c state
          req,      \* the application's request: its state and the value read
          toModule, \* lines on their way to the module
          toHost,   \* reply lines on their way to the host
          ram,      \* the module's registers, as read back and as WR saves them
          applied,  \* the registers in effect: ram, but for what a session has staged
          flash,    \* the module's stored configuration
          radioCmd  \* the module is in Command mode

facadeVars == <<fac, mode, session, cmd, req>>
wires      == <<toModule, toHost>>
radioVars  == <<ram, applied, flash, radioCmd>>
linkVars   == <<fac, mode, session, cmd, req, toModule, toHost, ram, applied, flash, radioCmd>>

Empty    == "empty"      \* value of a reply that carried none
Readings == Values \cup {Empty}
NoIndex  == 0

Writers  == {"SET", "R1", "RE", "WR"}
Commands == [op : {"GET"}, i : Params, v : {Empty}]
       \cup [op : {"SET"}, i : Params, v : Values]
       \cup [op : {"CN", "ESC", "R1", "RE", "WR"}, i : {NoIndex}, v : {Empty}]
Lines    == [kind : {"OK", "ERROR", "VALUE"}, v : Readings]

Command(op)  == [op |-> op, i |-> NoIndex, v |-> Empty]
Get(p)       == [op |-> "GET", i |-> p, v |-> Empty]
SetTo(p, v)  == [op |-> "SET", i |-> p, v |-> v]
OkLine       == [kind |-> "OK", v |-> Empty]
ErrorLine    == [kind |-> "ERROR", v |-> Empty]
ValueLine(v) == [kind |-> "VALUE", v |-> v]

LinkTypeOK ==
  /\ fac \in {"OFF", "BRINGUP", "READY", "FAILED"}
  /\ mode \in Values \cup {"AUTO"}
  /\ session \in {"NONE", "PENDING", "ENTERING", "OPEN"}
  /\ cmd \in {"IDLE", "GUARD_PRE", "WAIT_OK", "ACTIVE", "BUSY", "EXITING"}
  /\ req \in [state : {"IDLE", "PENDING", "DONE", "FAILED"}, value : Readings]
  /\ toModule \in Seq(Commands)
  /\ toHost \in Seq(Lines)
  /\ ram \in [Params -> Values]
  /\ applied \in [Params -> Values]
  /\ flash \in [Params -> Values]
  /\ radioCmd \in BOOLEAN

LinkInit ==
  /\ fac = "OFF" /\ mode = "AUTO" /\ session = "NONE" /\ cmd = "IDLE"
  /\ req = [state |-> "IDLE", value |-> Empty]
  /\ toModule = <<>> /\ toHost = <<>>
  /\ flash \in [Params -> Values]
  /\ ram = flash /\ applied = flash /\ radioCmd = FALSE

(***************************************************************************)
(* The module.                                                             *)
(***************************************************************************)
Restart ==  \* a reset or power cycle: the stored configuration, no session
  /\ ram' = flash /\ applied' = flash /\ radioCmd' = FALSE
  /\ UNCHANGED flash

Answer(line) == toHost' = Append(toHost, line)

\* The module takes the next line.  Outside Command mode only the escape
\* sequence means anything; inside it, a second one does not.
RadioIgnores ==
  /\ toModule # <<>>
  /\ (Head(toModule).op = "ESC") = radioCmd
  /\ toModule' = Tail(toModule)
  /\ UNCHANGED <<facadeVars, radioVars, toHost>>

RadioEnters ==
  /\ toModule # <<>> /\ Head(toModule).op = "ESC" /\ ~radioCmd
  /\ toModule' = Tail(toModule) /\ Answer(OkLine)
  /\ radioCmd' = TRUE
  /\ UNCHANGED <<facadeVars, ram, applied, flash>>

\* Parameters set in Command mode are staged: they read back and WR saves them,
\* but they take effect when the session ends.
RadioObeys ==
  /\ toModule # <<>> /\ radioCmd
  /\ LET c == Head(toModule) IN
     /\ c.op # "ESC"
     /\ toModule' = Tail(toModule)
     /\ Answer(IF c.op = "GET" THEN ValueLine(ram[c.i]) ELSE OkLine)
     /\ ram' = CASE c.op = "SET" -> [ram EXCEPT ![c.i] = c.v]
                 [] c.op = "R1"  -> Factory
                 [] c.op = "RE"  -> Custom
                 [] OTHER        -> ram
     /\ flash' = IF c.op = "WR" THEN ram ELSE flash
     /\ applied' = IF c.op = "CN" THEN ram ELSE applied
     /\ radioCmd' = (c.op # "CN")
  /\ UNCHANGED facadeVars

RadioRefuses ==
  /\ "refuse" \in Faults
  /\ toModule # <<>> /\ radioCmd /\ Head(toModule).op \notin {"ESC", "CN"}
  /\ toModule' = Tail(toModule) /\ Answer(ErrorLine)
  /\ UNCHANGED <<facadeVars, radioVars>>

\* The module's own Command mode timeout (CT): the staged values take effect.
RadioLapses ==
  /\ radioCmd /\ toModule = <<>>
  /\ "lapse" \in Faults \/ cmd = "IDLE"
  /\ radioCmd' = FALSE /\ applied' = ram
  /\ UNCHANGED <<facadeVars, wires, ram, flash>>

RadioReboots ==
  /\ "reboot" \in Faults
  /\ ram # flash \/ radioCmd
  /\ Restart
  /\ UNCHANGED <<facadeVars, wires>>

LineLost ==
  /\ "loss" \in Faults
  /\ \/ toModule # <<>> /\ toModule' = Tail(toModule) /\ UNCHANGED toHost
     \/ toHost # <<>> /\ toHost' = Tail(toHost) /\ UNCHANGED toModule
  /\ UNCHANGED <<facadeVars, radioVars>>

RadioStep == RadioIgnores \/ RadioEnters \/ RadioObeys
EnvStep   == RadioRefuses \/ RadioLapses \/ RadioReboots \/ LineLost

(***************************************************************************)
(* What the application calls.                                             *)
(***************************************************************************)
UserReq   == req.state = "PENDING"
IsReady   == fac = "READY"
SessionIsOpen == session # "NONE"
UseCmd    == session # "NONE" \/ mode \in {Transparent, "AUTO"}
TxRefused == "txbusy" \in Faults

Send(c) == toModule' = Append(toModule, c)

\* submit() with the session open: the command goes straight onto the wire.
CanSubmit == IsReady /\ ~UserReq /\ UseCmd /\ cmd = "ACTIVE"
Submit(c) ==
  /\ CanSubmit
  /\ Send(c) /\ cmd' = "BUSY"
  /\ req' = [state |-> "PENDING", value |-> Empty]
  /\ UNCHANGED <<fac, mode, session, toHost, radioVars>>

Init_Facade ==  \* xbee_init()
  /\ fac = "OFF"
  /\ fac' = "BRINGUP"
  /\ UNCHANGED <<mode, session, cmd, req, wires, radioVars>>

Abandoned == IF UserReq THEN [req EXCEPT !.state = "FAILED"] ELSE req

HwReset ==
  /\ fac' = "BRINGUP" /\ mode' = "AUTO" /\ session' = "NONE" /\ cmd' = "IDLE"
  /\ req' = Abandoned
  /\ toModule' = <<>> /\ toHost' = <<>>
  /\ Restart

\* The pulse does not start: the request and the transport are already gone.
HwResetRefused ==
  /\ "pulse" \in Faults
  /\ cmd' = "IDLE" /\ req' = Abandoned /\ toHost' = <<>>
  /\ UNCHANGED <<fac, mode, session, toModule, radioVars>>

SessionOpen ==
  /\ IsReady /\ ~UserReq /\ session = "NONE"
  /\ session' = IF cmd = "ACTIVE" THEN "OPEN" ELSE "PENDING"
  /\ UNCHANGED <<fac, mode, cmd, req, wires, radioVars>>

\* xbee_cmd_session_status() finds the opening deadline passed.
SessionOpenExpires ==
  /\ session \in {"PENDING", "ENTERING"}
  /\ session' = "NONE"
  /\ UNCHANGED <<fac, mode, cmd, req, wires, radioVars>>

\* The exit command goes out; the session ends when it is answered or given up.
SessionClose ==
  /\ session = "OPEN" /\ ~UserReq /\ cmd = "ACTIVE"
  /\ Send(Command("CN")) /\ cmd' = "EXITING"
  /\ UNCHANGED <<fac, mode, session, req, toHost, radioVars>>

(***************************************************************************)
(* What xbee_process() does on a pass.                                     *)
(***************************************************************************)
\* Bring-up detects the mode from the AP in effect.  In Transparent mode it has
\* used a Command mode session to read the parameters, and READY is reported
\* with that session's exit still in flight, or with the session still standing
\* when the exit could not be sent.
BringUpReady ==
  /\ fac = "BRINGUP"
  /\ fac' = "READY" /\ mode' = applied[AP]
  /\ toHost' = <<>>
  /\ \/ /\ mode' # Transparent
        /\ cmd' = "IDLE" /\ toModule' = <<>> /\ UNCHANGED radioCmd
     \/ /\ mode' = Transparent /\ radioCmd' = TRUE
        /\ \/ cmd' = "EXITING" /\ toModule' = <<Command("CN")>>
           \/ TxRefused /\ cmd' = "ACTIVE" /\ toModule' = <<>>
  /\ UNCHANGED <<session, req, ram, applied, flash>>

BringUpFails ==
  /\ "dead" \in Faults
  /\ fac = "BRINGUP" /\ fac' = "FAILED"
  /\ UNCHANGED <<mode, session, cmd, req, wires, radioVars>>

\* advance_cmd_session() after the transport has moved to state c.
SessionAfter(c) ==
  CASE session = "ENTERING" /\ c = "ACTIVE"         -> "OPEN"
    [] session = "ENTERING" /\ c = "IDLE"           -> "PENDING"
    [] session = "OPEN" /\ c = "IDLE" /\ ~UserReq   -> "NONE"
    [] OTHER                                        -> session

TransportMovesTo(c) == cmd' = c /\ session' = SessionAfter(c)

EnterSession ==
  /\ IsReady /\ session = "PENDING" /\ cmd = "IDLE"
  /\ cmd' = "GUARD_PRE" /\ session' = "ENTERING"
  /\ UNCHANGED <<fac, mode, req, wires, radioVars>>

SendEscape ==
  /\ IsReady /\ UseCmd /\ cmd = "GUARD_PRE"
  /\ TransportMovesTo("WAIT_OK") /\ Send(Command("ESC"))
  /\ UNCHANGED <<fac, mode, req, toHost, radioVars>>

\* A reply line reaches handle_line(): it opens or closes the session, or
\* answers the request in flight, whichever command it was the reply to.
LineArrives ==
  /\ IsReady /\ toHost # <<>>
  /\ LET line == Head(toHost)
         ok   == line.kind = "OK"
     IN
     /\ toHost' = Tail(toHost)
     /\ TransportMovesTo(CASE ~UseCmd                       -> cmd
                           [] UseCmd /\ cmd = "WAIT_OK" /\ ok -> "ACTIVE"
                           [] UseCmd /\ cmd = "EXITING" /\ ok -> "IDLE"
                           [] UseCmd /\ cmd = "BUSY"          -> "ACTIVE"
                           [] OTHER                         -> cmd)
     /\ req' = IF UseCmd /\ cmd = "BUSY"
               THEN [state |-> IF line.kind = "ERROR" THEN "FAILED" ELSE "DONE",
                     value |-> line.v]
               ELSE req
  /\ UNCHANGED <<fac, mode, toModule, radioVars>>

\* Without "late", the host's deadlines leave the module time to answer.
Overdue ==
  IF "late" \in Faults THEN Len(toModule) + Len(toHost) < MaxInFlight
                       ELSE toModule = <<>> /\ toHost = <<>>

\* Mutant: the time a command is allowed has nothing to do with the module's.
RequestCutShort ==
  /\ IsReady /\ UseCmd /\ cmd = "BUSY"
  /\ TransportMovesTo("ACTIVE")
  /\ req' = [req EXCEPT !.state = "FAILED"]
  /\ UNCHANGED <<fac, mode, wires, radioVars>>

RequestTimesOut ==
  /\ IsReady /\ UseCmd /\ cmd = "BUSY" /\ Overdue
  /\ TransportMovesTo("ACTIVE")
  /\ req' = [req EXCEPT !.state = "FAILED"]
  /\ UNCHANGED <<fac, mode, wires, radioVars>>

\* WAIT_OK or EXITING given up, or the session deadline passed with no command
\* in flight.
TransportTimesOut ==
  /\ IsReady /\ UseCmd
  /\ \/ cmd \in {"WAIT_OK", "EXITING"} /\ Overdue
     \/ cmd = "ACTIVE"
  /\ TransportMovesTo("IDLE")
  /\ UNCHANGED <<fac, mode, req, wires, radioVars>>

\* A session left OPEN over an idle transport is dropped on the next pass.
SessionDropped ==
  /\ IsReady /\ session = "OPEN" /\ cmd = "IDLE" /\ ~UserReq
  /\ session' = "NONE"
  /\ UNCHANGED <<fac, mode, cmd, req, wires, radioVars>>

FacadeStep ==
  \/ BringUpReady \/ BringUpFails \/ EnterSession \/ SendEscape \/ LineArrives
  \/ RequestTimesOut \/ TransportTimesOut \/ SessionDropped
=============================================================================
