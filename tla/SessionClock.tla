---------------------------- MODULE SessionClock ----------------------------
(***************************************************************************)
(* The clocks of a Command mode session: the host's estimate of it in      *)
(* xbee_cmd_mode.c, the module's own timeout, and what the provisioning    *)
(* engine sends against both, from the audit through the restore, the      *)
(* writes, the review and the wait for the host, kept alive by a read of   *)
(* CT, to the WR and the exit.                                             *)
(*                                                                         *)
(* Three timeouts meet, and need not agree.  The module counts on its own  *)
(* (ct).  The transport counts on session_timeout_ms (hostTimeout): the    *)
(* module's when the end of bring-up could adopt it, and what it was       *)
(* before, DEFAULT_TIMEOUT_MS as a rule, when it could not, which in       *)
(* Transparent mode is always (xbee.c:749).  The keep-alive counts on      *)
(* info.ct (knownTimeout), DEFAULT_CT_MS if CT was never read.             *)
(*                                                                         *)
(* Time is discrete.  The super loop makes at least one pass per unit of   *)
(* it, and in a pass the facade comes before the engine.                   *)
(***************************************************************************)
EXTENDS Integers

CONSTANTS Timeouts,     \* what CT may be, the defaults among them
          Margin,       \* XBEE_CMD_MODE_CT_MARGIN_MS
          ReplyTimeout, \* what a command is given to be answered,
          FlashTimeout, \* and what R1, RE and WR are given
          Latency,      \* how long the module takes to answer, at most
          Entries,      \* entries of the table, at most
          MaxLosses     \* bound: commands and replies that disappear

ASSUME ClockAssumption ==
  /\ Margin \in Nat \ {0} /\ ReplyTimeout \in Nat /\ FlashTimeout \in Nat /\ Latency \in Nat
  /\ Entries \in Nat \ {0} /\ MaxLosses \in Nat
  /\ Latency < ReplyTimeout   \* an answer that is not lost is in time,
  /\ ReplyTimeout <= FlashTimeout
  /\ Latency <= Margin        \* and it takes no longer than the margin allows
  /\ Timeouts \subseteq Nat
  /\ \A t \in Timeouts : t > Margin + 1

VARIABLES ct,           \* the module's Command mode timeout
          hostTimeout,  \* session_timeout_ms of xbee_cmd_mode.c
          knownTimeout, \* info.ct, or DEFAULT_CT_MS
          turn,         \* who runs next: the facade, the engine, or the clock
          phase,        \* state of the engine; RESTORE is its R1, FALLBACK its RE
          left,         \* entries of the pass still to come
          cmd,          \* xbee_cmd_mode.c state
          reqActive,    \* req_active of the engine
          result,       \* req.result
          replyLeft,    \* time to the deadline of the command in flight
          sessionLeft,  \* time to session_deadline_tick
          keepLeft,     \* time to keepalive_tick
          wire,         \* QUIET, COMMAND or REPLY
          replyIn,      \* time until that reply is complete
          radioLeft,    \* what is left of the module's own timeout
          decision,     \* of the host
          losses        \* how many commands and replies were lost

timeouts == <<ct, hostTimeout, knownTimeout>>
clocks == <<replyLeft, sessionLeft, keepLeft, replyIn, radioLeft>>
vars == <<timeouts, turn, phase, left, cmd, reqActive, result, wire, decision, losses, clocks>>

TypeOK ==
  /\ ct \in Timeouts /\ hostTimeout \in Timeouts /\ knownTimeout \in Timeouts
  /\ turn \in {"FACADE", "ENGINE", "CLOCK"}
  /\ phase \in {"AUDIT", "RESTORE", "FALLBACK", "WRITE", "REVIEW", "AWAIT_DECISION",
               "COMMIT", "DONE"}
  /\ left \in 0..Entries /\ losses \in 0..MaxLosses
  /\ cmd \in {"ACTIVE", "BUSY", "EXITING", "IDLE"} /\ wire \in {"QUIET", "COMMAND", "REPLY"}
  /\ reqActive \in BOOLEAN /\ result \in {"OK", "ERROR", "TIMEOUT"}
  /\ decision \in {"NONE", "SAVE", "DISCARD"}
  /\ replyLeft \in 0..FlashTimeout /\ sessionLeft \in 0..hostTimeout /\ keepLeft \in Nat
  /\ replyIn \in 0..Latency /\ radioLeft \in 0..ct

\* Mutant: no margin is kept.
WholeWindow(timeout) == timeout

\* refresh_session_deadline(): give up slightly before the module does.
Window(timeout) == IF timeout > Margin THEN timeout - Margin ELSE timeout
HostWindow == Window(hostTimeout)

\* Mutant: a keep-alive just when the window ends.
WindowInterval == Window(knownTimeout)

\* keepalive_interval_ms()
KeepAliveInterval ==
  IF Window(knownTimeout) > 1 THEN Window(knownTimeout) \div 2 ELSE 1

\* The session has just been found open; the module began to count when it sent
\* its OK.
Init ==
  /\ ct \in Timeouts /\ hostTimeout \in Timeouts /\ knownTimeout \in Timeouts
  /\ turn = "ENGINE" /\ phase = "AUDIT" /\ left \in 1..Entries
  /\ cmd = "ACTIVE" /\ reqActive = FALSE /\ result = "OK"
  /\ sessionLeft = HostWindow /\ radioLeft \in (ct - Latency)..ct
  /\ replyLeft = 0 /\ keepLeft = 0 /\ replyIn = 0
  /\ wire = "QUIET" /\ decision = "NONE" /\ losses = 0

(***************************************************************************)
(* xbee_cmd_mode_process(), once per pass                                  *)
(***************************************************************************)
ReplyIsHere == wire = "REPLY" /\ replyIn = 0

FacadeTurn == turn = "FACADE" /\ turn' = "ENGINE"
              /\ UNCHANGED <<timeouts, phase, left, reqActive, replyLeft, keepLeft, replyIn,
                             radioLeft, decision, losses>>

\* Mutant: the answer leaves the session deadline where it was.
ReplyNotCounted ==
  /\ FacadeTurn /\ ReplyIsHere /\ wire' = "QUIET"
  /\ cmd = "BUSY" /\ cmd' = "ACTIVE" /\ UNCHANGED sessionLeft
  /\ result' \in {"OK", "ERROR"}

\* Any reply, ERROR too, restarts the host's estimate.
ReplyHandled ==
  /\ FacadeTurn /\ ReplyIsHere /\ wire' = "QUIET"
  /\ cmd = "BUSY" /\ cmd' = "ACTIVE" /\ sessionLeft' = HostWindow
  /\ result' \in {"OK", "ERROR"}

\* A command given up leaves the session deadline to the next pass.
RequestExpires ==
  /\ FacadeTurn /\ ~ReplyIsHere /\ cmd = "BUSY" /\ replyLeft = 0
  /\ cmd' = "ACTIVE" /\ result' = "TIMEOUT" /\ UNCHANGED <<sessionLeft, wire>>

SessionExpires ==
  /\ FacadeTurn /\ ~ReplyIsHere /\ cmd = "ACTIVE" /\ sessionLeft = 0
  /\ cmd' = "IDLE" /\ UNCHANGED <<result, sessionLeft, wire>>

FacadeWaits ==
  /\ FacadeTurn /\ ~ReplyIsHere
  /\ ~(cmd = "BUSY" /\ replyLeft = 0) /\ ~(cmd = "ACTIVE" /\ sessionLeft = 0)
  /\ UNCHANGED <<cmd, result, sessionLeft, wire>>

Facade == ReplyHandled \/ RequestExpires \/ SessionExpires \/ FacadeWaits

(***************************************************************************)
(* xbee_provision_process(), once per pass.  What follows a command is     *)
(* sent in the pass that found the command complete, answered or not.      *)
(***************************************************************************)
EngineTurn == turn = "ENGINE" /\ turn' = "CLOCK"
              /\ UNCHANGED <<timeouts, result, sessionLeft, replyIn, radioLeft, decision, losses>>

\* xbee_at_get(), xbee_at_set(), xbee_at_exec_timeout(): one command is on its way.
Send(next, timeout) ==
  /\ cmd = "ACTIVE" /\ cmd' = "BUSY" /\ wire' = "COMMAND"
  /\ replyLeft' = timeout /\ reqActive' = TRUE /\ phase' = next

\* close_session(): the exit command, the last of the session.
Close ==
  /\ cmd = "ACTIVE" /\ cmd' = "EXITING" /\ wire' = "COMMAND"
  /\ reqActive' = FALSE /\ phase' = "DONE" /\ UNCHANGED <<left, replyLeft>>

Quiet == UNCHANGED <<cmd, wire, replyLeft>>
Completed == reqActive /\ cmd # "BUSY"

\* The first command of a pass over the table, or the next one.
Begin(pass) == \E n \in 1..Entries : Send(pass, ReplyTimeout) /\ left' = n - 1
Proceed(pass) == left > 0 /\ Send(pass, ReplyTimeout) /\ left' = left - 1

\* PROV_OPEN: the first read, or the exit if the operator has aborted.
SessionOpened ==
  /\ EngineTurn /\ phase = "AUDIT" /\ ~reqActive
  /\ Proceed("AUDIT") \/ Close
  /\ UNCHANGED keepLeft

\* handle_read_result(): a read that failed is passed over.  The run ends on an
\* abort, a match or a verification; else the restore follows at once.
AuditRead ==
  /\ EngineTurn /\ phase = "AUDIT" /\ Completed
  /\ \/ Proceed("AUDIT")
     \/ Close
     \/ left = 0 /\ Send("RESTORE", FlashTimeout) /\ UNCHANGED left
  /\ UNCHANGED keepLeft

\* writes_done(): read everything back for the host, or WR at once without one.
WritesDone == Begin("REVIEW") \/ (Send("COMMIT", FlashTimeout) /\ UNCHANGED left)

\* RE follows an R1 that was refused, or went unanswered, at once.
RestoreDone ==
  /\ EngineTurn /\ phase \in {"RESTORE", "FALLBACK"} /\ Completed
  /\ \/ result = "OK" /\ (Begin("WRITE") \/ WritesDone)
     \/ result # "OK" /\ phase = "RESTORE" /\ Send("FALLBACK", FlashTimeout) /\ UNCHANGED left
     \/ result # "OK" /\ phase = "FALLBACK" /\ Close
  /\ UNCHANGED keepLeft

WriteDone ==
  /\ EngineTurn /\ phase = "WRITE" /\ Completed
  /\ \/ result = "OK" /\ Proceed("WRITE")
     \/ result = "OK" /\ left = 0 /\ WritesDone
     \/ result # "OK" /\ Close
  /\ UNCHANGED keepLeft

\* handle_review_result(), with enter_decision() after the last read
ReviewRead ==
  /\ EngineTurn /\ phase = "REVIEW" /\ Completed /\ Proceed("REVIEW")
  /\ UNCHANGED keepLeft

EnterDecision ==
  /\ EngineTurn /\ phase = "REVIEW" /\ Completed /\ left = 0
  /\ phase' = "AWAIT_DECISION" /\ keepLeft' = KeepAliveInterval
  /\ reqActive' = FALSE /\ Quiet /\ UNCHANGED left

KeepAliveDone ==
  /\ EngineTurn /\ phase = "AWAIT_DECISION" /\ Completed
  /\ reqActive' = FALSE /\ Quiet /\ UNCHANGED <<phase, left, keepLeft>>

\* process_decision(): nothing is sent before a look at the session.
DecisionLapsed ==
  /\ EngineTurn /\ phase = "AWAIT_DECISION" /\ ~reqActive /\ cmd = "IDLE"
  /\ phase' = "DONE" /\ Quiet /\ UNCHANGED <<left, keepLeft, reqActive>>

DecisionSave ==
  /\ EngineTurn /\ phase = "AWAIT_DECISION" /\ ~reqActive /\ cmd # "IDLE" /\ decision = "SAVE"
  /\ Send("COMMIT", FlashTimeout) /\ UNCHANGED <<left, keepLeft>>

KeepAlive ==
  /\ EngineTurn /\ phase = "AWAIT_DECISION" /\ ~reqActive /\ cmd # "IDLE" /\ decision = "NONE"
  /\ keepLeft = 0
  /\ Send("AWAIT_DECISION", ReplyTimeout) /\ keepLeft' = KeepAliveInterval /\ UNCHANGED left

\* start_discard(): the module is reset, by its line, and nothing is sent.  Also
\* what follows a review that found more than it can keep.
Discard ==
  /\ EngineTurn
  /\ \/ phase = "AWAIT_DECISION" /\ ~reqActive /\ cmd # "IDLE" /\ decision = "DISCARD"
     \/ phase = "REVIEW" /\ Completed /\ left = 0
  /\ phase' = "DONE" /\ reqActive' = FALSE /\ Quiet /\ UNCHANGED <<left, keepLeft>>

CommitDone ==
  /\ EngineTurn /\ phase = "COMMIT" /\ Completed
  /\ Close /\ UNCHANGED keepLeft

EngineWaits ==
  /\ EngineTurn /\ phase # "DONE"
  /\ \/ reqActive /\ cmd = "BUSY"
     \/ /\ phase = "AWAIT_DECISION" /\ ~reqActive /\ cmd # "IDLE"
        /\ decision = "NONE" /\ keepLeft > 0
  /\ Quiet /\ UNCHANGED <<phase, left, keepLeft, reqActive>>

Engine == \/ SessionOpened \/ AuditRead \/ RestoreDone \/ WriteDone \/ ReviewRead
          \/ EnterDecision \/ KeepAliveDone \/ DecisionLapsed \/ DecisionSave \/ KeepAlive
          \/ Discard \/ CommitDone \/ EngineWaits

(***************************************************************************)
(* The module, the line, the host and the clock                            *)
(***************************************************************************)
\* A command restarts the module's timeout (manual, as quoted at
\* xbee_provision.c:556); after it the module no longer takes it for one.  The
\* timeout a session runs on is not changed by what it stages.
RadioTakes ==
  /\ phase # "DONE" /\ wire = "COMMAND"
  /\ IF radioLeft > 0
     THEN radioLeft' = ct /\ wire' = "REPLY" /\ replyIn' \in 0..Latency
     ELSE wire' = "QUIET" /\ UNCHANGED <<radioLeft, replyIn>>
  /\ UNCHANGED <<timeouts, turn, phase, left, cmd, reqActive, result, decision, losses,
                 replyLeft, sessionLeft, keepLeft>>

LineLost ==
  /\ phase # "DONE" /\ wire # "QUIET" /\ losses < MaxLosses
  /\ wire' = "QUIET" /\ losses' = losses + 1
  /\ UNCHANGED <<timeouts, turn, phase, left, cmd, reqActive, result, decision, clocks>>

\* xbee_provision_decide()
Decide ==
  /\ phase = "AWAIT_DECISION" /\ decision = "NONE"
  /\ decision' \in {"SAVE", "DISCARD"}
  /\ UNCHANGED <<timeouts, turn, phase, left, cmd, reqActive, result, wire, losses, clocks>>

PassAgain ==
  /\ turn = "CLOCK" /\ phase # "DONE" /\ turn' = "FACADE"
  /\ UNCHANGED <<timeouts, phase, left, cmd, reqActive, result, wire, decision, losses, clocks>>

Less(t) == IF t = 0 THEN 0 ELSE t - 1
Tick ==
  /\ turn = "CLOCK" /\ wire # "COMMAND" /\ phase # "DONE"
  /\ turn' = "FACADE"
  /\ replyLeft' = Less(replyLeft) /\ sessionLeft' = Less(sessionLeft)
  /\ keepLeft' = Less(keepLeft) /\ replyIn' = Less(replyIn) /\ radioLeft' = Less(radioLeft)
  /\ UNCHANGED <<timeouts, phase, left, cmd, reqActive, result, wire, decision, losses>>

Next == Facade \/ Engine \/ RadioTakes \/ LineLost \/ Decide \/ PassAgain \/ Tick
Spec == Init /\ [][Next]_vars

(***************************************************************************)
(* Properties.                                                             *)
(***************************************************************************)
\* The host does not believe in a longer session than the module keeps, and a
\* keep-alive falls due before the host's own window ends.  Both follow when
\* bring-up has adopted the module's CT; in Transparent mode it never does, and
\* a CT below the default breaks the first, one of twice the default the second.
EstimateHolds == hostTimeout <= ct
KeepAliveFits == knownTimeout - Margin < 2 * (hostTimeout - Margin)

\* "A command is never sent into a window that has just closed"
\* (xbee_cmd_mode.c:116): whatever the engine sends, the exit included, finds
\* the module still in Command mode, so it cannot leave by radio as data.  After
\* an answer that is so without exception.  Two cases escape it.  What follows an
\* unanswered command is sent at once, though the host's estimate has run out by
\* then: the deadline is looked at in the next pass only.  And an estimate longer
\* than the module's timeout lets both that and the wait's commands go too late.
OnlyIntoOpenWindow ==
  [][wire # "COMMAND" /\ wire' = "COMMAND" =>
       \/ radioLeft > 0
       \/ phase # "AWAIT_DECISION" /\ result = "TIMEOUT" /\ sessionLeft = 0
       \/ ~EstimateHolds /\ (phase = "AWAIT_DECISION" \/ result = "TIMEOUT")]_vars

\* The keep-alive does what it is for, where the timeouts allow it: as long as
\* nothing is lost on the line, the session stands however long the host takes to
\* decide, and the module never applies the staged values by itself
\* (xbee_provision.c:557).
WaitSurvives ==
  phase = "AWAIT_DECISION" /\ losses = 0 /\ EstimateHolds /\ KeepAliveFits =>
    cmd # "IDLE" /\ radioLeft > 0

\* What an answer under way leaves of the clocks.
AnswerInTime ==
  /\ cmd = "BUSY"
  /\ radioLeft + Margin >= ct + replyIn
  /\ replyIn = 0 \/ replyLeft > replyIn
  /\ replyIn = 0 /\ turn # "FACADE" => radioLeft = ct

\* A session that is answered before any deadline passes, and whose next
\* keep-alive falls due before it ends.
Standing ==
  /\ keepLeft <= KeepAliveInterval
  /\ cmd \in {"ACTIVE", "BUSY"}
  /\ cmd = "BUSY" => wire # "QUIET"
  /\ wire = "COMMAND" => radioLeft > 0
  /\ cmd = "ACTIVE" =>
       /\ phase # "AWAIT_DECISION" \/ reqActive => turn = "ENGINE" /\ sessionLeft = HostWindow
       /\ phase = "AWAIT_DECISION" => sessionLeft > keepLeft
       /\ turn = "CLOCK" => sessionLeft > 1

\* Why the wait survives: a session that has lost nothing stands.
LosslessInv ==
  losses = 0 /\ phase # "DONE" /\ EstimateHolds /\ KeepAliveFits => Standing

\* Why nothing else is sent too late, whatever was lost: after an answer the
\* module has its whole timeout but for the margin, and an estimate that is not
\* too long to begin with never exceeds what the module has left.
WindowInv ==
  phase # "DONE" =>
    /\ EstimateHolds => sessionLeft <= radioLeft
    /\ cmd = "BUSY" => reqActive /\ (turn # "FACADE" => replyLeft > 0)
    /\ wire = "COMMAND" => cmd = "BUSY" /\ replyLeft > Latency
    /\ wire = "REPLY" => AnswerInTime
    /\ phase # "AWAIT_DECISION" => cmd = "BUSY" \/ (cmd = "ACTIVE" /\ turn = "ENGINE")
    /\ phase # "AWAIT_DECISION" /\ cmd = "ACTIVE" /\ result # "TIMEOUT" =>
         radioLeft + Margin >= ct
    /\ phase = "AWAIT_DECISION" /\ ~reqActive /\ cmd = "ACTIVE" /\ turn = "ENGINE" =>
         sessionLeft > 0

ClockInv == TypeOK /\ LosslessInv /\ WindowInv
=============================================================================
