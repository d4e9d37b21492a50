------------------------- MODULE SessionClockProofs -------------------------
(***************************************************************************)
(* The keep-alive of xbee_provision.c outlives any wait of the host's      *)
(* where the timeouts allow it, and with the module's CT adopted they      *)
(* always do; what is sent into a closed window, and when: proofs about    *)
(* SessionClock.                                                           *)
(***************************************************************************)
EXTENDS SessionClock, TLAPS

\* What is assumed of the numbers themselves.
LEMMA Numbers ==
  /\ Margin \in Nat /\ Margin > 0 /\ ReplyTimeout \in Nat /\ FlashTimeout \in Nat /\ Latency \in Nat
  /\ Entries \in Nat /\ Entries > 0 /\ MaxLosses \in Nat
  /\ Latency < ReplyTimeout /\ ReplyTimeout <= FlashTimeout /\ Latency <= Margin
BY ClockAssumption, SMT DEF ClockAssumption

\* And of what CT may be.
LEMMA TimeoutsLong ==
  ASSUME NEW t \in Timeouts
  PROVE  t \in Nat /\ t > Margin + 1
BY ClockAssumption, Zenon DEF ClockAssumption

\* The window the host counts on ends before the timeout it is taken from, and,
\* where the timeouts allow it, a keep-alive falls due strictly inside it
\* (xbee_provision.c:561).
LEMMA Intervals ==
  ASSUME hostTimeout \in Timeouts, knownTimeout \in Timeouts, ct \in Timeouts
  PROVE  /\ HostWindow \in Nat /\ HostWindow > 1 /\ HostWindow + Margin = hostTimeout
         /\ ct \in Nat /\ hostTimeout \in Nat /\ ct > Margin + 1
         /\ KeepAliveInterval \in Nat
         /\ KeepAliveFits => KeepAliveInterval < HostWindow
<1> USE Numbers
<1>0. /\ ct \in Nat /\ ct > Margin + 1 /\ hostTimeout \in Nat /\ hostTimeout > Margin + 1
      /\ knownTimeout \in Nat /\ knownTimeout > Margin + 1
  BY TimeoutsLong
<1>1. HostWindow = hostTimeout - Margin /\ HostWindow \in Nat /\ HostWindow > 1
  BY <1>0, SMT DEF HostWindow, Window
<1>2. KeepAliveInterval = (knownTimeout - Margin) \div 2
  BY <1>0, SMT DEF KeepAliveInterval, Window
<1>3. \A k, h \in Nat : k \div 2 \in Nat /\ (k < 2 * h => k \div 2 < h)
  BY SMT
<1>4. knownTimeout - Margin \in Nat /\ hostTimeout - Margin \in Nat
  BY <1>0, SMT
<1>5. KeepAliveFits => KeepAliveInterval < HostWindow
  BY <1>1, <1>2, <1>3, <1>4 DEF KeepAliveFits
<1> QED  BY <1>0, <1>1, <1>2, <1>3, <1>4, <1>5, SMT

\* What bring-up adopts outside Transparent mode (xbee.c:755) is enough for both.
LEMMA AdoptedFits ==
  ASSUME ct \in Timeouts, hostTimeout = ct, knownTimeout = ct
  PROVE  EstimateHolds /\ KeepAliveFits
<1>1. ct \in Nat /\ ct > Margin + 1 /\ Margin \in Nat
  BY TimeoutsLong, Numbers
<1> QED  BY <1>1, SMT DEF EstimateHolds, KeepAliveFits

\* A countdown stays a natural number and never grows.
LEMMA Countdown ==
  \A t \in Nat : Less(t) \in Nat /\ Less(t) <= t /\ (t > 0 => Less(t) = t - 1)
BY SMT DEF Less

\* The session opens with the whole window ahead of it.
LEMMA InitClock == Init => ClockInv
<1> SUFFICES ASSUME Init PROVE ClockInv
  OBVIOUS
<1> USE Numbers DEF Init
<1>1. reqActive \in BOOLEAN
  BY Zenon
<1>2. TypeOK
  <2>1. /\ 0 \in 0..FlashTimeout /\ 0 \in 0..Latency /\ HostWindow \in 0..hostTimeout
        /\ radioLeft \in 0..ct /\ left \in 0..Entries /\ 0 \in 0..MaxLosses
    BY Intervals, SMT
  <2> QED  BY <1>1, <2>1 DEF TypeOK
<1>3. LosslessInv
  BY Intervals, SMT DEF LosslessInv, Standing
<1>4. WindowInv
  BY <1>1, Intervals, SMT DEF WindowInv, EstimateHolds
<1> QED  BY <1>2, <1>3, <1>4 DEF ClockInv

\* What the clocks stand on keeps its type.
LEMMA StepType == TypeOK /\ [Next]_vars => TypeOK'
<1> SUFFICES ASSUME TypeOK, [Next]_vars PROVE TypeOK'
  OBVIOUS
<1>0. /\ HostWindow \in 0..hostTimeout /\ KeepAliveInterval \in Nat
      /\ ReplyTimeout \in 0..FlashTimeout /\ FlashTimeout \in 0..FlashTimeout
      /\ ct \in 0..ct
  BY Intervals, Numbers, SMT DEF TypeOK
<1> USE Numbers, <1>0 DEF TypeOK
<1>1. CASE ReplyHandled
  BY <1>1, SMT DEF ReplyHandled, FacadeTurn, ReplyIsHere, timeouts
<1>2. CASE RequestExpires
  BY <1>2, SMT DEF RequestExpires, FacadeTurn, ReplyIsHere, timeouts
<1>3. CASE SessionExpires
  BY <1>3, SMT DEF SessionExpires, FacadeTurn, ReplyIsHere, timeouts
<1>4. CASE FacadeWaits
  BY <1>4, SMT DEF FacadeWaits, FacadeTurn, ReplyIsHere, timeouts
<1>5. CASE SessionOpened
  <2>1. reqActive' \in BOOLEAN
    BY <1>5, Zenon DEF SessionOpened, Proceed, Close, EngineTurn, Send
  <2> QED  BY <1>5, <2>1, SMT DEF SessionOpened, Proceed, Close, EngineTurn,
     Send, timeouts
<1>6. CASE AuditRead
  <2>1. reqActive' \in BOOLEAN
    BY <1>6, Zenon DEF AuditRead, Proceed, Close, Completed, EngineTurn, Send
  <2> QED  BY <1>6, <2>1, SMT DEF AuditRead, Proceed, Close, Completed,
     EngineTurn, Send, timeouts
<1>7. CASE RestoreDone
  <2>1. reqActive' \in BOOLEAN
    BY <1>7, Zenon DEF RestoreDone, Begin, WritesDone, Close, Completed,
       EngineTurn, Send
  <2> QED  BY <1>7, <2>1, SMT DEF RestoreDone, Begin, WritesDone, Close,
     Completed, EngineTurn, Send, timeouts
<1>8. CASE WriteDone
  <2>1. reqActive' \in BOOLEAN
    BY <1>8, Zenon DEF WriteDone, Proceed, Begin, WritesDone, Close, Completed,
       EngineTurn, Send
  <2> QED  BY <1>8, <2>1, SMT DEF WriteDone, Proceed, Begin, WritesDone, Close,
     Completed, EngineTurn, Send, timeouts
<1>9. CASE ReviewRead
  BY <1>9, SMT DEF ReviewRead, Proceed, Completed, EngineTurn, Send, timeouts
<1>10. CASE EnterDecision
  <2>1. reqActive' \in BOOLEAN
    BY <1>10, Zenon DEF EnterDecision, Completed, EngineTurn, Quiet
  <2> QED  BY <1>10, <2>1, SMT DEF EnterDecision, Completed, EngineTurn, Quiet,
     timeouts
<1>11. CASE KeepAliveDone
  <2>1. reqActive' \in BOOLEAN
    BY <1>11, Zenon DEF KeepAliveDone, Completed, EngineTurn, Quiet
  <2> QED  BY <1>11, <2>1, SMT DEF KeepAliveDone, Completed, EngineTurn, Quiet,
     timeouts
<1>12. CASE DecisionLapsed
  BY <1>12, SMT DEF DecisionLapsed, EngineTurn, Quiet, timeouts
<1>13. CASE DecisionSave
  BY <1>13, SMT DEF DecisionSave, EngineTurn, Send, timeouts
<1>14. CASE KeepAlive
  BY <1>14, SMT DEF KeepAlive, EngineTurn, Send, timeouts
<1>15. CASE Discard
  <2>1. reqActive' \in BOOLEAN
    BY <1>15, Zenon DEF Discard, Completed, EngineTurn, Quiet
  <2> QED  BY <1>15, <2>1, SMT DEF Discard, Completed, EngineTurn, Quiet,
     timeouts
<1>16. CASE CommitDone
  <2>1. reqActive' \in BOOLEAN
    BY <1>16, Zenon DEF CommitDone, Close, Completed, EngineTurn
  <2> QED  BY <1>16, <2>1, SMT DEF CommitDone, Close, Completed, EngineTurn,
     timeouts
<1>17. CASE EngineWaits
  BY <1>17, SMT DEF EngineWaits, EngineTurn, Quiet, timeouts
<1>18. CASE RadioTakes
  BY <1>18, SMT DEF RadioTakes, timeouts
<1>19. CASE LineLost
  BY <1>19, SMT DEF LineLost, clocks, timeouts
<1>20. CASE Decide
  BY <1>20, SMT DEF Decide, clocks, timeouts
<1>21. CASE PassAgain
  BY <1>21, SMT DEF PassAgain, clocks, timeouts
<1>22. CASE Tick
  <2>1. /\ replyLeft' \in 0..FlashTimeout /\ sessionLeft' \in 0..hostTimeout /\ keepLeft' \in Nat
        /\ replyIn' \in 0..Latency /\ radioLeft' \in 0..ct
    BY <1>22, Countdown, Intervals, SMT DEF Tick
  <2> QED  BY <1>22, <2>1 DEF Tick, timeouts
<1>23. CASE UNCHANGED vars
  BY <1>23, SMT DEF vars, clocks, timeouts
<1> QED
  BY <1>1, <1>2, <1>3, <1>4, <1>5, <1>6, <1>7, <1>8, <1>9, <1>10, <1>11, <1>12,
     <1>13, <1>14, <1>15, <1>16, <1>17, <1>18, <1>19, <1>20, <1>21, <1>22, <1>23
     DEF Next, Facade, Engine

\* What a session counts on does not change in it.
LEMMA TimeoutsStay ==
  [Next]_vars => /\ UNCHANGED <<timeouts, ct, hostTimeout, knownTimeout>>
                 /\ HostWindow' = HostWindow /\ KeepAliveInterval' = KeepAliveInterval
                 /\ KeepAliveFits' <=> KeepAliveFits
<1> SUFFICES ASSUME [Next]_vars PROVE UNCHANGED timeouts
  BY DEF timeouts, HostWindow, Window, KeepAliveInterval, KeepAliveFits
<1> QED
  BY SMT DEF Next, Facade, Engine, ReplyHandled, RequestExpires, SessionExpires, FacadeWaits,
     SessionOpened, AuditRead, RestoreDone, WriteDone, ReviewRead, EnterDecision,
     KeepAliveDone, DecisionLapsed, DecisionSave, KeepAlive, Discard, CommitDone,
     EngineWaits, RadioTakes, LineLost, Decide, PassAgain, Tick, FacadeTurn, EngineTurn, vars

\* One step of a session that has lost nothing keeps it answered in time.
LEMMA StepLossless == ClockInv /\ [Next]_vars => LosslessInv'
<1> SUFFICES ASSUME TypeOK, LosslessInv, WindowInv, [Next]_vars,
                    losses' = 0, phase' # "DONE", EstimateHolds', KeepAliveFits'
             PROVE  Standing'
  BY DEF ClockInv, LosslessInv
<1>100. /\ UNCHANGED timeouts /\ hostTimeout <= ct /\ KeepAliveFits
        /\ HostWindow' = HostWindow /\ KeepAliveInterval' = KeepAliveInterval
  BY TimeoutsStay DEF EstimateHolds, timeouts
<1>101. losses = 0 /\ phase # "DONE"
  BY SMT DEF Next, Facade, Engine, ReplyHandled, RequestExpires, SessionExpires, FacadeWaits,
     SessionOpened, AuditRead, RestoreDone, WriteDone, ReviewRead, EnterDecision,
     KeepAliveDone, DecisionLapsed, DecisionSave, KeepAlive, Discard, CommitDone, EngineWaits,
     RadioTakes, LineLost, Decide, PassAgain, Tick, FacadeTurn, EngineTurn, vars, TypeOK
<1>102. Standing
  BY <1>100, <1>101 DEF LosslessInv, EstimateHolds
<1>103. /\ HostWindow \in Nat /\ HostWindow > 1 /\ HostWindow + Margin = hostTimeout
        /\ ct \in Nat /\ hostTimeout \in Nat /\ ct > Margin + 1
        /\ KeepAliveInterval \in Nat /\ KeepAliveInterval < HostWindow
        /\ hostTimeout <= ct
  BY <1>100, Intervals DEF TypeOK
<1>104. hostTimeout <= ct => sessionLeft <= radioLeft
  BY <1>101 DEF WindowInv, EstimateHolds
<1>105. /\ cmd = "BUSY" => reqActive /\ (turn # "FACADE" => replyLeft > 0)
        /\ wire = "COMMAND" => cmd = "BUSY" /\ replyLeft > Latency
        /\ wire = "REPLY" => AnswerInTime
        /\ phase # "AWAIT_DECISION" => cmd = "BUSY" \/ (cmd = "ACTIVE" /\ turn = "ENGINE")
  BY <1>101 DEF WindowInv
<1> HIDE DEF WindowInv, LosslessInv
<1> USE Numbers, <1>100, <1>101, <1>102, <1>103, <1>104, <1>105 DEF TypeOK, Standing, AnswerInTime
<1>1. CASE ReplyHandled
  BY <1>1, SMT DEF ReplyHandled, FacadeTurn, ReplyIsHere, timeouts
<1>2. CASE RequestExpires
  BY <1>2, SMT DEF RequestExpires, FacadeTurn, ReplyIsHere, timeouts
<1>3. CASE SessionExpires
  BY <1>3, SMT DEF SessionExpires, FacadeTurn, ReplyIsHere, timeouts
<1>4. CASE FacadeWaits
  BY <1>4, SMT DEF FacadeWaits, FacadeTurn, ReplyIsHere, timeouts
<1>5. CASE SessionOpened
  BY <1>5, SMT DEF SessionOpened, Proceed, Close, EngineTurn, Send, timeouts
<1>6. CASE AuditRead
  BY <1>6, SMT DEF AuditRead, Proceed, Close, Completed, EngineTurn, Send,
     timeouts
<1>7. CASE RestoreDone
  BY <1>7, SMT DEF RestoreDone, Begin, WritesDone, Close, Completed, EngineTurn,
     Send, timeouts
<1>8. CASE WriteDone
  BY <1>8, SMT DEF WriteDone, Proceed, Begin, WritesDone, Close, Completed,
     EngineTurn, Send, timeouts
<1>9. CASE ReviewRead
  BY <1>9, SMT DEF ReviewRead, Proceed, Completed, EngineTurn, Send, timeouts
<1>10. CASE EnterDecision
  BY <1>10, SMT DEF EnterDecision, Completed, EngineTurn, Quiet, timeouts
<1>11. CASE KeepAliveDone
  BY <1>11, SMT DEF KeepAliveDone, Completed, EngineTurn, Quiet, timeouts
<1>12. CASE DecisionLapsed
  BY <1>12, SMT DEF DecisionLapsed, EngineTurn, Quiet, timeouts
<1>13. CASE DecisionSave
  BY <1>13, SMT DEF DecisionSave, EngineTurn, Send, timeouts
<1>14. CASE KeepAlive
  BY <1>14, SMT DEF KeepAlive, EngineTurn, Send, timeouts
<1>15. CASE Discard
  BY <1>15, SMT DEF Discard, Completed, EngineTurn, Quiet, timeouts
<1>16. CASE CommitDone
  BY <1>16, SMT DEF CommitDone, Close, Completed, EngineTurn, timeouts
<1>17. CASE EngineWaits
  BY <1>17, SMT DEF EngineWaits, EngineTurn, Quiet, timeouts
<1>18. CASE RadioTakes
  BY <1>18, SMT DEF RadioTakes, timeouts
<1>19. CASE LineLost
  BY <1>19, SMT DEF LineLost, clocks, timeouts
<1>20. CASE Decide
  BY <1>20, SMT DEF Decide, clocks, timeouts
<1>21. CASE PassAgain
  BY <1>21, SMT DEF PassAgain, clocks, timeouts
<1>22. CASE Tick
  <2>1. /\ replyLeft' \in Nat /\ sessionLeft' \in Nat /\ keepLeft' \in Nat
        /\ replyIn' \in Nat /\ radioLeft' \in Nat
    BY <1>22, Countdown, SMT DEF Tick
  <2> QED  BY <1>22, <2>1, SMT DEF Tick, Less, timeouts
<1>23. CASE UNCHANGED vars
  BY <1>23, SMT DEF vars, clocks, timeouts
<1> QED
  BY <1>1, <1>2, <1>3, <1>4, <1>5, <1>6, <1>7, <1>8, <1>9, <1>10, <1>11, <1>12,
     <1>13, <1>14, <1>15, <1>16, <1>17, <1>18, <1>19, <1>20, <1>21, <1>22, <1>23
     DEF Next, Facade, Engine

\* Nor does one let the host's estimate pass the module's.
LEMMA StepWindow == ClockInv /\ [Next]_vars => WindowInv'
<1> SUFFICES ASSUME TypeOK, WindowInv, [Next]_vars PROVE WindowInv'
  BY DEF ClockInv
<1>0. /\ HostWindow \in Nat /\ HostWindow > 1 /\ HostWindow + Margin = hostTimeout
      /\ ct \in Nat /\ hostTimeout \in Nat /\ ct > Margin + 1
  BY Intervals DEF TypeOK
<1>100. UNCHANGED timeouts
  BY TimeoutsStay
<1> USE Numbers, <1>0, <1>100 DEF TypeOK, WindowInv, AnswerInTime, EstimateHolds
<1>1. CASE ReplyHandled
  BY <1>1, SMT DEF ReplyHandled, FacadeTurn, ReplyIsHere, timeouts
<1>2. CASE RequestExpires
  BY <1>2, SMT DEF RequestExpires, FacadeTurn, ReplyIsHere, timeouts
<1>3. CASE SessionExpires
  BY <1>3, SMT DEF SessionExpires, FacadeTurn, ReplyIsHere, timeouts
<1>4. CASE FacadeWaits
  BY <1>4, SMT DEF FacadeWaits, FacadeTurn, ReplyIsHere, timeouts
<1>5. CASE SessionOpened
  BY <1>5, SMT DEF SessionOpened, Proceed, Close, EngineTurn, Send, timeouts
<1>6. CASE AuditRead
  BY <1>6, SMT DEF AuditRead, Proceed, Close, Completed, EngineTurn, Send,
     timeouts
<1>7. CASE RestoreDone
  BY <1>7, SMT DEF RestoreDone, Begin, WritesDone, Close, Completed, EngineTurn,
     Send, timeouts
<1>8. CASE WriteDone
  BY <1>8, SMT DEF WriteDone, Proceed, Begin, WritesDone, Close, Completed,
     EngineTurn, Send, timeouts
<1>9. CASE ReviewRead
  BY <1>9, SMT DEF ReviewRead, Proceed, Completed, EngineTurn, Send, timeouts
<1>10. CASE EnterDecision
  BY <1>10, SMT DEF EnterDecision, Completed, EngineTurn, Quiet, timeouts
<1>11. CASE KeepAliveDone
  BY <1>11, SMT DEF KeepAliveDone, Completed, EngineTurn, Quiet, timeouts
<1>12. CASE DecisionLapsed
  BY <1>12, SMT DEF DecisionLapsed, EngineTurn, Quiet, timeouts
<1>13. CASE DecisionSave
  BY <1>13, SMT DEF DecisionSave, EngineTurn, Send, timeouts
<1>14. CASE KeepAlive
  BY <1>14, SMT DEF KeepAlive, EngineTurn, Send, timeouts
<1>15. CASE Discard
  BY <1>15, SMT DEF Discard, Completed, EngineTurn, Quiet, timeouts
<1>16. CASE CommitDone
  BY <1>16, SMT DEF CommitDone, Close, Completed, EngineTurn, timeouts
<1>17. CASE EngineWaits
  BY <1>17, SMT DEF EngineWaits, EngineTurn, Quiet, timeouts
<1>18. CASE RadioTakes
  BY <1>18, SMT DEF RadioTakes, timeouts
<1>19. CASE LineLost
  BY <1>19, SMT DEF LineLost, clocks, timeouts
<1>20. CASE Decide
  BY <1>20, SMT DEF Decide, clocks, timeouts
<1>21. CASE PassAgain
  BY <1>21, SMT DEF PassAgain, clocks, timeouts
<1>22. CASE Tick
  <2>1. /\ replyLeft' \in Nat /\ sessionLeft' \in Nat /\ keepLeft' \in Nat
        /\ replyIn' \in Nat /\ radioLeft' \in Nat
    BY <1>22, Countdown, SMT DEF Tick
  <2>2. ASSUME phase # "DONE", EstimateHolds PROVE sessionLeft' <= radioLeft'
    BY <1>22, <2>1, <2>2, SMT DEF Tick, Less, timeouts
  <2>3. wire = "REPLY" => AnswerInTime'
    BY <1>22, <2>1, SMT DEF Tick, Less, timeouts
  <2> QED  BY <1>22, <2>1, <2>2, <2>3, SMT DEF Tick, Less, timeouts
<1>23. CASE UNCHANGED vars
  BY <1>23, SMT DEF vars, clocks, timeouts
<1> QED
  BY <1>1, <1>2, <1>3, <1>4, <1>5, <1>6, <1>7, <1>8, <1>9, <1>10, <1>11, <1>12,
     <1>13, <1>14, <1>15, <1>16, <1>17, <1>18, <1>19, <1>20, <1>21, <1>22, <1>23
     DEF Next, Facade, Engine

LEMMA StepClock == ClockInv /\ [Next]_vars => ClockInv'
BY StepType, StepLossless, StepWindow DEF ClockInv

\* The clocks of a session stay ordered: the answer before its deadline, and,
\* where the timeouts allow it, the keep-alive before the host's estimate and that
\* before the module's own timeout.
THEOREM ClocksOrdered == Spec => []ClockInv
BY InitClock, StepClock, PTL DEF Spec

\* However long the host takes to decide, the keep-alives hold the session where
\* the timeouts allow it and the line loses nothing (xbee_provision.c:557).
THEOREM WaitOutlived == Spec => []WaitSurvives
<1>1. ClockInv => WaitSurvives
  <2> SUFFICES ASSUME TypeOK, LosslessInv, WindowInv, phase = "AWAIT_DECISION", losses = 0,
                      EstimateHolds, KeepAliveFits
               PROVE  cmd # "IDLE" /\ radioLeft > 0
    BY DEF ClockInv, WaitSurvives
  <2>1. Standing
    BY DEF LosslessInv
  <2>2. /\ sessionLeft <= radioLeft
        /\ wire = "REPLY" => AnswerInTime
    BY DEF WindowInv
  <2>3. ct \in Nat /\ ct > Margin + 1 /\ HostWindow \in Nat /\ HostWindow > 1
    BY Intervals DEF TypeOK
  <2> QED  BY <2>1, <2>2, <2>3, Numbers, SMT DEF TypeOK, Standing, AnswerInTime
<1> QED  BY <1>1, ClocksOrdered, PTL

\* With the module's CT adopted, as in the API modes (xbee.c:755), the timeouts do
\* allow it, whatever CT is.
THEOREM AdoptedOutlives ==
  Spec => [](hostTimeout = ct /\ knownTimeout = ct =>
               (phase = "AWAIT_DECISION" /\ losses = 0 => cmd # "IDLE" /\ radioLeft > 0))
<1>1. ClockInv /\ WaitSurvives =>
        (hostTimeout = ct /\ knownTimeout = ct =>
           (phase = "AWAIT_DECISION" /\ losses = 0 => cmd # "IDLE" /\ radioLeft > 0))
  BY AdoptedFits DEF ClockInv, TypeOK, WaitSurvives
<1> QED  BY <1>1, ClocksOrdered, WaitOutlived, PTL

\* Nothing is sent into a window that has closed, whatever is lost, but for what
\* follows at once an unanswered command that outlasted the host's estimate, or an
\* estimate that was too long to begin with (xbee_cmd_mode.c:116).
THEOREM SentIntoOpenWindow == Spec => OnlyIntoOpenWindow
<1> DEFINE MayBeLate ==
      \/ radioLeft > 0
      \/ phase # "AWAIT_DECISION" /\ result = "TIMEOUT" /\ sessionLeft = 0
      \/ ~EstimateHolds /\ (phase = "AWAIT_DECISION" \/ result = "TIMEOUT")
<1>1. ClockInv /\ [Next]_vars => [wire # "COMMAND" /\ wire' = "COMMAND" => MayBeLate]_vars
  <2> SUFFICES ASSUME TypeOK, WindowInv, Next, wire # "COMMAND", wire' = "COMMAND"
               PROVE  MayBeLate
    BY DEF vars, ClockInv
  <2>1. /\ cmd = "ACTIVE" /\ turn = "ENGINE" /\ phase # "DONE"
        /\ phase # "AWAIT_DECISION" \/ ~reqActive
    BY SMT DEF Next, Facade, Engine, ReplyHandled, RequestExpires, SessionExpires, FacadeWaits,
       SessionOpened, AuditRead, RestoreDone, WriteDone, ReviewRead, EnterDecision,
       KeepAliveDone, DecisionLapsed, DecisionSave, KeepAlive, Discard, CommitDone,
       EngineWaits, RadioTakes, LineLost, Decide, PassAgain, Tick, FacadeTurn, EngineTurn,
       Send, Close, Begin, Proceed, WritesDone, Quiet
  <2>2. ct \in Nat /\ hostTimeout \in Nat /\ ct > Margin + 1
    BY Intervals DEF TypeOK
  <2>3. /\ EstimateHolds => sessionLeft <= radioLeft
        /\ phase # "AWAIT_DECISION" /\ result # "TIMEOUT" => radioLeft + Margin >= ct
        /\ phase = "AWAIT_DECISION" => sessionLeft > 0
    BY <2>1 DEF WindowInv
  <2>4. radioLeft \in Nat /\ sessionLeft \in Nat
    BY <2>2, SMT DEF TypeOK
  <2>5. CASE EstimateHolds
    BY <2>2, <2>3, <2>4, <2>5, Numbers, SMT
  <2>6. CASE ~EstimateHolds
    BY <2>2, <2>3, <2>4, <2>6, Numbers, SMT
  <2> QED  BY <2>5, <2>6
<1> QED  BY <1>1, ClocksOrdered, PTL DEF Spec, OnlyIntoOpenWindow
=============================================================================
