--------------------------- MODULE ProvisionProofs ---------------------------
(***************************************************************************)
(* Proofs about the provisioning engine, for every table, every set of     *)
(* faults and every host: type correctness, one flash write per run,       *)
(* nothing written by a run that ends ALREADY_PROVISIONED or ABORTED,      *)
(* aborts honoured, and one owner for every request.  They rest on one     *)
(* inductive invariant, IInv of Provision.  The second half is about what  *)
(* the module is left with, as long as no answer comes after its deadline: *)
(* one flash write, only on the host's word, a discard that restores, and  *)
(* reported results that are what the flash holds.                         *)
(***************************************************************************)
EXTENDS Provision, TLAPS

\* Taking the first of a non-empty sequence.
LEMMA HeadTail ==
  ASSUME NEW S, NEW s \in Seq(S), s # <<>>
  PROVE  Head(s) \in S /\ Tail(s) \in Seq(S)
OBVIOUS

(***************************************************************************)
(* The link keeps its types.                                               *)
(***************************************************************************)
\* The helpers that build commands and reply lines build well-typed ones.
LEMMA CommandTypes ==
  /\ \A op \in {"CN", "ESC", "WR", "R1", "RE"} : Command(op) \in Commands
  /\ \A p \in Params : Get(p) \in Commands
  /\ \A p \in Params, v \in Values : SetTo(p, v) \in Commands
  /\ OkLine \in Lines /\ ErrorLine \in Lines
  /\ \A v \in Values : ValueLine(v) \in Lines
BY DEF Command, Get, SetTo, OkLine, ErrorLine, ValueLine, Commands, Lines,
       Readings, Writers, Empty

\* submit(), the requests of the engine, keep the link's types.
LEMMA SubmitType ==
  ASSUME LinkTypeOK, NEW c \in Commands, Submit(c)
  PROVE  LinkTypeOK'
BY DEF LinkTypeOK, Submit, Send, radioVars, Readings

\* So do the other calls of the facade.
LEMMA CallsType ==
  ASSUME LinkTypeOK,
         SessionClose \/ HwReset \/ HwResetRefused \/ SessionOpen
         \/ SessionOpenExpires \/ Init_Facade
  PROVE  LinkTypeOK'
<1>1. CASE SessionClose
  BY <1>1, CommandTypes DEF LinkTypeOK, SessionClose, Send, radioVars
<1>2. CASE HwReset \/ HwResetRefused
  <2>1. Abandoned \in [state : {"IDLE", "PENDING", "DONE", "FAILED"}, value : Readings]
    BY DEF LinkTypeOK, Abandoned
  <2>2. CASE HwReset
    <3>1. toModule' \in Seq(Commands) /\ toHost' \in Seq(Lines)
      BY <2>2 DEF HwReset
    <3>2. req' \in [state : {"IDLE", "PENDING", "DONE", "FAILED"}, value : Readings]
      BY <2>1, <2>2 DEF HwReset
    <3> QED
      BY <3>1, <3>2, <2>2 DEF LinkTypeOK, HwReset, Restart
  <2>3. CASE HwResetRefused
    BY <2>1, <2>3 DEF LinkTypeOK, HwResetRefused, radioVars
  <2> QED BY <1>2, <2>2, <2>3
<1>3. CASE SessionOpen \/ SessionOpenExpires \/ Init_Facade
  BY <1>3 DEF LinkTypeOK, SessionOpen, SessionOpenExpires, Init_Facade, radioVars, wires
<1> QED BY <1>1, <1>2, <1>3

\* The module takes or loses lines, answers them, lapses and reboots.
LEMMA RadioType ==
  ASSUME LinkTypeOK, RadioStep \/ EnvStep
  PROVE  LinkTypeOK'
<1>1. CASE RadioIgnores
  BY <1>1 DEF LinkTypeOK, RadioIgnores, facadeVars, radioVars
<1>2. CASE RadioEnters
  BY <1>2, CommandTypes DEF LinkTypeOK, RadioEnters, Answer, facadeVars
<1>3. CASE RadioObeys
  <2> DEFINE c == Head(toModule)
  <2>1. c \in Commands /\ Tail(toModule) \in Seq(Commands)
    BY <1>3, HeadTail DEF LinkTypeOK, RadioObeys
  <2>2. (c.op = "GET" => c.i \in Params) /\ (c.op = "SET" => c.i \in Params /\ c.v \in Values)
    BY <2>1 DEF Commands
  <2> DEFINE line == IF c.op = "GET" THEN ValueLine(ram[c.i]) ELSE OkLine
  <2>3. line \in Lines
    BY <2>2, CommandTypes DEF LinkTypeOK
  <2>4. toHost' \in Seq(Lines)
    BY <1>3, <2>3 DEF LinkTypeOK, RadioObeys, Answer
  <2>5. ram' \in [Params -> Values]
    BY <1>3, <2>2, LinkAssumption DEF LinkTypeOK, RadioObeys
  <2> QED
    BY <1>3, <2>1, <2>4, <2>5 DEF LinkTypeOK, RadioObeys, facadeVars
<1>4. CASE RadioRefuses
  BY <1>4, CommandTypes DEF LinkTypeOK, RadioRefuses, Answer, facadeVars, radioVars
<1>5. CASE RadioLapses \/ RadioReboots
  BY <1>5 DEF LinkTypeOK, RadioLapses, RadioReboots, Restart, facadeVars, wires
<1>6. CASE LineLost
  <2>1. toModule # <<>> => Tail(toModule) \in Seq(Commands)
    BY HeadTail DEF LinkTypeOK
  <2>2. toHost # <<>> => Tail(toHost) \in Seq(Lines)
    BY HeadTail DEF LinkTypeOK
  <2> QED
    BY <1>6, <2>1, <2>2 DEF LinkTypeOK, LineLost, facadeVars, radioVars
<1> QED BY <1>1, <1>2, <1>3, <1>4, <1>5, <1>6 DEF RadioStep, EnvStep

\* So does everything xbee_process() does.
LEMMA FacadeType ==
  ASSUME LinkTypeOK, FacadeStep
  PROVE  LinkTypeOK'
<1>1. CASE BringUpReady
  <2>1. <<>> \in Seq(Commands) /\ <<>> \in Seq(Lines) /\ <<Command("CN")>> \in Seq(Commands)
    BY CommandTypes
  <2>2. fac' = "READY" /\ mode' \in Values /\ toHost' = <<>>
        /\ UNCHANGED <<session, req, ram, applied, flash>>
    BY <1>1, LinkAssumption DEF LinkTypeOK, BringUpReady
  <2>3. /\ cmd' \in {"IDLE", "EXITING", "ACTIVE"} /\ radioCmd' \in BOOLEAN
        /\ toModule' = <<>> \/ toModule' = <<Command("CN")>>
    BY <1>1 DEF LinkTypeOK, BringUpReady
  <2> QED
    BY <2>1, <2>2, <2>3 DEF LinkTypeOK
<1>2. CASE BringUpFails \/ EnterSession \/ SessionDropped
  BY <1>2 DEF LinkTypeOK, BringUpFails, EnterSession, SessionDropped, wires, radioVars
<1>3. CASE SendEscape
  BY <1>3, CommandTypes DEF LinkTypeOK, SendEscape, TransportMovesTo, SessionAfter,
     Send, radioVars
<1>4. CASE LineArrives
  <2>1. Head(toHost) \in Lines /\ Tail(toHost) \in Seq(Lines)
    BY <1>4, HeadTail DEF LinkTypeOK, LineArrives
  <2>2. Head(toHost).v \in Readings
    BY <2>1 DEF Lines
  <2>3. req' \in [state : {"IDLE", "PENDING", "DONE", "FAILED"}, value : Readings]
    BY <1>4, <2>2 DEF LinkTypeOK, LineArrives
  <2>4. /\ cmd' \in {"IDLE", "GUARD_PRE", "WAIT_OK", "ACTIVE", "BUSY", "EXITING"}
        /\ session' \in {"NONE", "PENDING", "ENTERING", "OPEN"}
    BY <1>4 DEF LinkTypeOK, LineArrives, TransportMovesTo, SessionAfter
  <2> QED
    BY <1>4, <2>1, <2>3, <2>4 DEF LinkTypeOK, LineArrives, radioVars
<1>5. CASE RequestTimesOut \/ TransportTimesOut
  BY <1>5 DEF LinkTypeOK, RequestTimesOut, TransportTimesOut, TransportMovesTo,
     SessionAfter, wires, radioVars
<1> QED BY <1>1, <1>2, <1>3, <1>4, <1>5 DEF FacadeStep

(***************************************************************************)
(* The building blocks of the engine keep the invariant.                   *)
(***************************************************************************)
\* What no building block changes: the findings and the host's side.
RestTypeOK ==
  /\ auditMismatch \subseteq Params /\ unreadable \subseteq Params
  /\ restoreFellBack \in BOOLEAN /\ reviewing \in BOOLEAN
  /\ reviewOverflow \in BOOLEAN
  /\ accepted \in [Params -> Readings \cup {None}]
  /\ decision \in {"NONE", "SAVE", "DISCARD"}
  /\ abortRequested \in BOOLEAN

\* With no request of the engine's out, the facade has none.
LEMMA NoRequest ==
  ASSUME IInv, ~reqActive
  PROVE  ~UserReq
BY DEF IInv, RequestOwned

\* A request that the run's position allows keeps the invariant.
LEMMA AskForStep ==
  ASSUME IInv, NEW c \in Commands, NEW p \in Params \cup {NoIndex}, NEW st \in AskingStates,
         AskFor(c, p, st), RestTypeOK', abortRequested' = abortRequested,
         session = "OPEN", state # "DONE",
         c.op \in {"GET"} \cup Writers,
         c.op = "WR" => wrCount = 0 /\ st = "COMMIT",
         c.op \in Writers => st # "AUDIT",
         st \notin {"AUDIT", "COMMIT"} => wrCount = 0,
         st = "AUDIT" => state \in {"OPEN", "AUDIT"},
         st \in {"AUDIT", "WRITE", "REVIEW"} => p \in Params,
         st # "AUDIT" => ~abortRequested
  PROVE  IInv'
<1>1. LinkTypeOK'
  BY SubmitType DEF IInv, TypeOK, AskFor, Ask
<1>2. /\ state' = st /\ tableIndex' = p /\ reqActive' = TRUE
      /\ sent' = sent \cup {c.op} /\ wrCount' = (IF c.op = "WR" THEN wrCount + 1 ELSE wrCount)
      /\ UNCHANGED <<result, pendingResult, verifying, storedAtStart, ramAtStart>>
  BY DEF AskFor, Ask
<1>3. /\ session' = "OPEN" /\ cmd' = "BUSY" /\ fac = "READY" /\ fac' = "READY"
      /\ req'.state = "PENDING"
  BY DEF AskFor, Ask, Submit, CanSubmit, IsReady
<1>4. TypeOK'
  <2>1. state' \in States
    BY <1>2 DEF AskingStates, States
  <2>2. sent' \subseteq {"GET"} \cup Writers
    BY <1>2 DEF IInv, TypeOK, ProvisionTypeOK
  <2>3. wrCount' \in Nat
    BY <1>2 DEF IInv, TypeOK, ProvisionTypeOK
  <2> QED
    BY <1>1, <1>2, <2>1, <2>2, <2>3 DEF IInv, TypeOK, ProvisionTypeOK, RestTypeOK
<1>5. RequestOwned' /\ RequestInv'
  BY <1>2, <1>3 DEF RequestOwned, RequestInv, UserReq, IsReady
<1>6. OneWritePerRun' /\ WriteInv'
  BY <1>2 DEF IInv, TypeOK, ProvisionTypeOK, OneWritePerRun, WriteInv, AskingStates
<1>7. NothingWritten' /\ OutcomeInv'
  BY <1>2 DEF IInv, NothingWritten, OutcomeInv, AskingStates
<1>8. AbortHonoured' /\ AbortInv'
  BY <1>2 DEF IInv, AbortHonoured, AbortInv, AskingStates
<1> QED BY <1>4, <1>5, <1>6, <1>7, <1>8 DEF IInv

\* Ending the run keeps the invariant, for an outcome its position allows.
LEMMA FinishStep ==
  ASSUME IInv, NEW outcome \in Results \ {"RUNNING"}, Finish(outcome),
         LinkTypeOK', RestTypeOK', pendingResult' \in Results, ~UserReq',
         UNCHANGED <<tableIndex, verifying, abortRequested, sent, wrCount,
                     storedAtStart, ramAtStart>>,
         outcome \in {"ALREADY_PROVISIONED", "ABORTED"} => sent \cap Writers = {},
         abortRequested => outcome \in {"ABORTED", "FAIL_SESSION"}
  PROVE  IInv'
<1>1. /\ result' = outcome /\ state' = "DONE" /\ reqActive' = FALSE
  BY DEF Finish
<1>2. TypeOK'
  BY <1>1 DEF IInv, TypeOK, ProvisionTypeOK, RestTypeOK, States
<1>3. RequestOwned' /\ RequestInv'
  BY <1>1 DEF RequestOwned, RequestInv
<1>4. OneWritePerRun' /\ WriteInv'
  BY <1>1 DEF IInv, OneWritePerRun, WriteInv
<1>5. NothingWritten' /\ OutcomeInv'
  BY <1>1 DEF NothingWritten, OutcomeInv
<1>6. AbortHonoured' /\ AbortInv'
  BY <1>1 DEF IInv, AbortHonoured, AbortInv
<1> QED BY <1>2, <1>3, <1>4, <1>5, <1>6 DEF IInv

\* So does closing the session with such an outcome.
LEMMA CloseSessionStep ==
  ASSUME IInv, NEW outcome \in Results, CloseSession(outcome),
         RestTypeOK', abortRequested' = abortRequested,
         state # "DONE", ~UserReq,
         outcome \in {"ALREADY_PROVISIONED", "ABORTED"} => sent \cap Writers = {},
         abortRequested => outcome = "ABORTED"
  PROVE  IInv'
<1>1. LinkTypeOK' /\ ~UserReq'
  <2>1. CASE SessionClose
    BY <2>1, CallsType DEF IInv, TypeOK, SessionClose, UserReq
  <2>2. CASE UNCHANGED linkVars
    BY <2>2 DEF IInv, TypeOK, linkVars, LinkTypeOK, UserReq
  <2> QED BY <2>1, <2>2 DEF CloseSession
<1>2. /\ pendingResult' = outcome /\ reqActive' = FALSE
      /\ UNCHANGED <<tableIndex, verifying, sent, wrCount, storedAtStart, ramAtStart>>
      /\ \/ state' = "CLOSE" /\ UNCHANGED result
         \/ outcome # "RUNNING" /\ Finish(outcome)
  BY DEF CloseSession, history
<1>3. CASE state' = "CLOSE" /\ UNCHANGED result
  <2>1. TypeOK'
    BY <1>1, <1>2, <1>3 DEF IInv, TypeOK, ProvisionTypeOK, RestTypeOK, States
  <2>2. RequestOwned' /\ RequestInv'
    BY <1>1, <1>2, <1>3 DEF RequestOwned, RequestInv
  <2>3. OneWritePerRun' /\ WriteInv'
    BY <1>2, <1>3 DEF IInv, OneWritePerRun, WriteInv
  <2>4. NothingWritten' /\ OutcomeInv'
    BY <1>2, <1>3 DEF IInv, NothingWritten, OutcomeInv
  <2>5. AbortHonoured' /\ AbortInv'
    BY <1>2, <1>3 DEF IInv, AbortHonoured, AbortInv
  <2> QED BY <2>1, <2>2, <2>3, <2>4, <2>5 DEF IInv
<1>4. CASE outcome # "RUNNING" /\ Finish(outcome)
  <2>1. outcome \in Results \ {"RUNNING"}
    BY <1>4
  <2> QED BY <1>1, <1>2, <1>4, <2>1, FinishStep
<1> QED BY <1>2, <1>3, <1>4

\* So does discarding what a reviewed run has staged.
LEMMA StartDiscardStep ==
  ASSUME IInv, NEW outcome \in {"DECLINED", "FAIL_REVIEW"}, StartDiscard(outcome),
         RestTypeOK', abortRequested' = abortRequested, state # "DONE", ~abortRequested
  PROVE  IInv'
<1>1. LinkTypeOK' /\ ~UserReq'
  <2>1. LinkTypeOK'
    BY CallsType DEF IInv, TypeOK, StartDiscard
  <2>2. req' = Abandoned
    BY DEF StartDiscard, HwReset, HwResetRefused
  <2> QED BY <2>1, <2>2 DEF UserReq, Abandoned, IInv, TypeOK, LinkTypeOK
<1>2. /\ pendingResult' = outcome /\ outcome \in Results /\ reqActive' = FALSE
      /\ UNCHANGED <<tableIndex, verifying, sent, wrCount, storedAtStart, ramAtStart>>
      /\ \/ state' = "DISCARD" /\ UNCHANGED result
         \/ Finish("FAIL_RESET")
  BY DEF StartDiscard, history, Results
<1>3. CASE state' = "DISCARD" /\ UNCHANGED result
  <2>1. TypeOK'
    BY <1>1, <1>2, <1>3 DEF IInv, TypeOK, ProvisionTypeOK, RestTypeOK, States
  <2>2. RequestOwned' /\ RequestInv'
    BY <1>1, <1>2, <1>3 DEF RequestOwned, RequestInv
  <2>3. OneWritePerRun' /\ WriteInv'
    BY <1>2, <1>3 DEF IInv, OneWritePerRun, WriteInv
  <2>4. NothingWritten' /\ OutcomeInv'
    BY <1>2, <1>3 DEF IInv, NothingWritten, OutcomeInv
  <2>5. AbortHonoured' /\ AbortInv'
    BY <1>2, <1>3 DEF IInv, AbortHonoured, AbortInv
  <2> QED BY <2>1, <2>2, <2>3, <2>4, <2>5 DEF IInv
<1>4. CASE Finish("FAIL_RESET")
  <2>1. "FAIL_RESET" \in Results \ {"RUNNING"}
    BY DEF Results
  <2> QED BY <1>1, <1>2, <1>4, <2>1, FinishStep
<1> QED BY <1>2, <1>3, <1>4

(***************************************************************************)
(* Every pass, call and event keeps the invariant.                         *)
(***************************************************************************)
\* The part of the invariant a block does not touch, from the frame of the pass.
LEMMA Frame ==
  ASSUME IInv, UNCHANGED <<findings, restoreFellBack, hostSide>>
  PROVE  RestTypeOK' /\ abortRequested' = abortRequested
BY DEF IInv, TypeOK, ProvisionTypeOK, RestTypeOK, findings, hostSide

\* A value the table configures is one a parameter can hold, a request of any
\* kind is a well-typed command.
LEMMA EngineCommands ==
  /\ \A p \in Params : Get(p) \in Commands /\ Get(p).op = "GET"
  /\ \A p \in Params : SetTo(p, Config[p]) \in Commands /\ SetTo(p, Config[p]).op = "SET"
  /\ \A op \in {"WR", "R1", "RE"} : Command(op) \in Commands /\ Command(op).op = op
BY CommandTypes, ProvisionAssumption DEF Get, SetTo, Command

\* start_commit() after the last write, or when the host has said to save.
LEMMA StartCommitStep ==
  ASSUME IInv, StartCommit, RestTypeOK', abortRequested' = abortRequested,
         session = "OPEN", state \in {"RESTORE", "WRITE", "AWAIT_DECISION"},
         ~abortRequested, ~UserReq
  PROVE  IInv'
<1>1. wrCount = 0 /\ state # "DONE" /\ tableIndex \in Params \cup {NoIndex}
  BY DEF IInv, WriteInv, TypeOK, ProvisionTypeOK
<1>2. CASE AskFor(Command("WR"), tableIndex, "COMMIT")
  BY <1>1, <1>2, AskForStep, EngineCommands DEF AskingStates, Writers
<1>3. CASE CloseSession("FAIL_COMMIT")
  BY <1>1, <1>3, CloseSessionStep DEF Results
<1> QED BY <1>2, <1>3 DEF StartCommit

\* start_restore(), the first of the writing commands.
LEMMA StartRestoreStep ==
  ASSUME IInv, NEW op \in {"R1", "RE"}, StartRestore(op),
         RestTypeOK', abortRequested' = abortRequested,
         session = "OPEN", state \in {"AUDIT", "RESTORE"}, state = "AUDIT" => ~verifying,
         ~abortRequested, ~UserReq
  PROVE  IInv'
<1>1. wrCount = 0 /\ state # "DONE" /\ tableIndex \in Params \cup {NoIndex}
  BY DEF IInv, WriteInv, TypeOK, ProvisionTypeOK
<1>2. CASE AskFor(Command(op), tableIndex, "RESTORE")
  BY <1>1, <1>2, AskForStep, EngineCommands DEF AskingStates, Writers
<1>3. CASE CloseSession("FAIL_RESTORE")
  BY <1>1, <1>3, CloseSessionStep DEF Results
<1> QED BY <1>2, <1>3 DEF StartRestore

\* The next read of the audit or of the verification.
LEMMA StartNextReadStep ==
  ASSUME IInv, NEW from \in Nat, StartNextRead(from),
         RestTypeOK', abortRequested' = abortRequested,
         session = "OPEN", state \in {"OPEN", "AUDIT"}, ~abortRequested, ~UserReq
  PROVE  IInv'
<1>1. PICK p \in Params :
        \/ AskFor(Get(p), p, "AUDIT")
        \/ CloseSession(IF verifying THEN "FAIL_VERIFY" ELSE "FAIL_AUDIT")
  BY DEF StartNextRead
<1>2. state # "DONE"
  OBVIOUS
<1>3. CASE AskFor(Get(p), p, "AUDIT")
  BY <1>2, <1>3, AskForStep, EngineCommands DEF AskingStates, Writers
<1>4. CASE CloseSession(IF verifying THEN "FAIL_VERIFY" ELSE "FAIL_AUDIT")
  <2> DEFINE outcome == IF verifying THEN "FAIL_VERIFY" ELSE "FAIL_AUDIT"
  <2>1. outcome \in Results /\ outcome \notin {"ALREADY_PROVISIONED", "ABORTED"}
    BY DEF Results
  <2> QED BY <1>2, <1>4, <2>1, CloseSessionStep
<1> QED BY <1>1, <1>3, <1>4

\* The next read of the host's review, or the wait for its decision.
LEMMA StartNextReviewStep ==
  ASSUME IInv, NEW from \in Nat, StartNextReview(from),
         RestTypeOK', abortRequested' = abortRequested,
         session = "OPEN", state \in {"RESTORE", "WRITE", "REVIEW"},
         ~abortRequested, ~UserReq
  PROVE  IInv'
<1>1. wrCount = 0 /\ state # "DONE" /\ result = "RUNNING"
  BY DEF IInv, WriteInv, OutcomeInv
<1>2. CASE \E p \in Params : AskFor(Get(p), p, "REVIEW")
  BY <1>1, <1>2, AskForStep, EngineCommands DEF AskingStates, Writers
<1>3. CASE \E o \in {"FAIL_REVIEW"} : StartDiscard(o)
  BY <1>1, <1>3, StartDiscardStep
<1>4. CASE /\ state' = "AWAIT_DECISION" /\ reqActive' = FALSE
           /\ UNCHANGED <<linkVars, result, pendingResult, tableIndex, verifying, history>>
  <2>1. LinkTypeOK' /\ ~UserReq' /\ session' = "OPEN"
    BY <1>4 DEF IInv, TypeOK, linkVars, LinkTypeOK, UserReq
  <2>2. TypeOK'
    BY <1>4, <2>1 DEF IInv, TypeOK, ProvisionTypeOK, RestTypeOK, States, history
  <2>3. RequestOwned' /\ RequestInv'
    BY <1>4, <2>1 DEF RequestOwned, RequestInv
  <2>4. OneWritePerRun' /\ WriteInv'
    BY <1>1, <1>4 DEF OneWritePerRun, WriteInv, history
  <2>5. NothingWritten' /\ OutcomeInv'
    BY <1>1, <1>4 DEF NothingWritten, OutcomeInv
  <2>6. AbortHonoured' /\ AbortInv'
    BY DEF AbortHonoured, AbortInv
  <2> QED BY <2>2, <2>3, <2>4, <2>5, <2>6 DEF IInv
<1> QED BY <1>2, <1>3, <1>4 DEF StartNextReview, EnterDecision

\* The next write, or what follows the last one.
LEMMA StartNextWriteStep ==
  ASSUME IInv, NEW from \in Nat, StartNextWrite(from),
         RestTypeOK', abortRequested' = abortRequested,
         session = "OPEN", state \in {"RESTORE", "WRITE"}, ~abortRequested, ~UserReq
  PROVE  IInv'
<1>1. wrCount = 0 /\ state # "DONE"
  BY DEF IInv, WriteInv
<1>2. CASE \E p \in Params : AskFor(SetTo(p, Config[p]), p, "WRITE")
  BY <1>1, <1>2, AskForStep, EngineCommands DEF AskingStates, Writers
<1>3. CASE CloseSession("FAIL_WRITE")
  BY <1>1, <1>3, CloseSessionStep DEF Results
<1>4. CASE WritesDone
  <2>1. CASE StartNextReview(1)
    BY <2>1, StartNextReviewStep
  <2>2. CASE StartCommit
    BY <2>2, StartCommitStep
  <2> QED BY <1>4, <2>1, <2>2 DEF WritesDone
<1> QED BY <1>2, <1>3, <1>4 DEF StartNextWrite

\* A run that ends where nothing is outstanding, with the link left alone.
LEMMA QuietFinish ==
  ASSUME IInv, NEW outcome \in Results \ {"RUNNING"}, Finish(outcome), Quiet,
         UNCHANGED verifying, ~reqActive,
         outcome \in {"ALREADY_PROVISIONED", "ABORTED"} => sent \cap Writers = {},
         abortRequested => outcome \in {"ABORTED", "FAIL_SESSION"}
  PROVE  IInv'
<1>1. LinkTypeOK' /\ ~UserReq' /\ pendingResult' \in Results
  BY NoRequest DEF Quiet, linkVars, IInv, TypeOK, ProvisionTypeOK, LinkTypeOK, UserReq
<1>2. RestTypeOK' /\ UNCHANGED <<tableIndex, abortRequested, sent, wrCount,
                                 storedAtStart, ramAtStart>>
  BY Frame DEF Quiet, history
<1> QED BY <1>1, <1>2, FinishStep

\* A pass with no request outstanding.
LEMMA IdlePassStep ==
  ASSUME IInv, IdlePass
  PROVE  IInv'
<1>1. ASSUME NEW st, Pass(st) PROVE state = st /\ ~reqActive /\ ~UserReq
  BY <1>1, NoRequest DEF Pass
<1>2. CASE BringUpAborted
  <2>1. sent \cap Writers = {}
    BY <1>2 DEF BringUpAborted, IInv, AbortHonoured
  <2> QED BY <1>2, <2>1, <1>1, QuietFinish DEF BringUpAborted, Results
<1>3. CASE BringUpFailed
  <2>1. ~abortRequested
    BY <1>3 DEF BringUpFailed, IInv, AbortHonoured
  <2> QED BY <1>3, <2>1, <1>1, QuietFinish DEF BringUpFailed, Results
<1>4. CASE WrongMode
  <2>1. ~abortRequested
    BY <1>4 DEF WrongMode, IInv, AbortHonoured
  <2> QED BY <1>4, <2>1, <1>1, QuietFinish DEF WrongMode, BringUpDone, Results
<1>5. CASE OpenSession
  <2>1. /\ state = "BRINGUP" /\ ~UserReq /\ SessionOpen /\ state' = "OPEN" /\ ~reqActive
        /\ UNCHANGED <<result, pendingResult, reqActive, tableIndex, verifying, history>>
    BY <1>5, <1>1 DEF OpenSession, BringUpDone
  <2>2. RestTypeOK' /\ abortRequested' = abortRequested
    BY <1>5, Frame DEF OpenSession
  <2>3. LinkTypeOK' /\ ~UserReq'
    BY <2>1, CallsType DEF IInv, TypeOK, SessionOpen, UserReq
  <2>4. TypeOK'
    BY <2>1, <2>2, <2>3 DEF IInv, TypeOK, ProvisionTypeOK, RestTypeOK, States, history
  <2>5. RequestOwned' /\ RequestInv'
    BY <2>1, <2>3 DEF RequestOwned, RequestInv
  <2>6. OneWritePerRun' /\ WriteInv' /\ NothingWritten' /\ OutcomeInv'
    BY <2>1 DEF IInv, OneWritePerRun, WriteInv, NothingWritten, OutcomeInv, history
  <2>7. AbortHonoured' /\ AbortInv'
    BY <2>1, <2>2 DEF IInv, AbortHonoured, AbortInv, history
  <2> QED BY <2>4, <2>5, <2>6, <2>7 DEF IInv
<1>6. CASE OpenRefused
  BY <1>6, <1>1, QuietFinish DEF OpenRefused, BringUpDone, Results
<1>7. CASE OpenFailed
  <2>1. LinkTypeOK' /\ ~UserReq'
    <3>1. CASE SessionOpenExpires
      BY <1>7, <1>1, <3>1, CallsType DEF IInv, TypeOK, OpenFailed, SessionOpenExpires, UserReq
    <3>2. CASE UNCHANGED linkVars
      BY <1>7, <1>1, <3>2 DEF OpenFailed, IInv, TypeOK, linkVars, LinkTypeOK, UserReq
    <3> QED BY <1>7, <3>1, <3>2 DEF OpenFailed
  <2>2. RestTypeOK' /\ abortRequested' = abortRequested
    BY <1>7, Frame DEF OpenFailed
  <2>3. /\ Finish("FAIL_SESSION") /\ pendingResult' \in Results
        /\ UNCHANGED <<tableIndex, verifying, sent, wrCount, storedAtStart, ramAtStart>>
    BY <1>7 DEF OpenFailed, history, IInv, TypeOK, ProvisionTypeOK
  <2>4. "FAIL_SESSION" \in Results \ {"RUNNING"}
    BY DEF Results
  <2> QED BY <2>1, <2>2, <2>3, <2>4, FinishStep
<1>8. CASE OpenAborted
  <2>1. sent \cap Writers = {} /\ "ABORTED" \in Results
    BY <1>8 DEF OpenAborted, IInv, AbortHonoured, Results
  <2> QED BY <1>8, <2>1, <1>1, Frame, CloseSessionStep DEF OpenAborted
<1>9. CASE StartReadPass
  <2>1. RestTypeOK' /\ abortRequested' = abortRequested
    BY <1>9 DEF StartReadPass, IInv, TypeOK, ProvisionTypeOK, RestTypeOK, hostSide
  <2>2. state = "OPEN" /\ session = "OPEN" /\ ~abortRequested /\ ~UserReq
    BY <1>9, <1>1 DEF StartReadPass
  <2>3. CASE CloseSession("FAIL_AUDIT")
    BY <2>1, <2>2, <2>3, CloseSessionStep DEF Results
  <2>4. CASE StartNextRead(1)
    BY <2>1, <2>2, <2>4, StartNextReadStep
  <2> QED BY <1>9, <2>3, <2>4 DEF StartReadPass
<1>10. CASE DecisionLapsed
  BY <1>10, <1>1, QuietFinish DEF DecisionLapsed, Results
<1>11. CASE DecisionSave \/ DecisionDiscard \/ KeepAlive
  <2>1. /\ state = "AWAIT_DECISION" /\ ~UserReq /\ RestTypeOK'
        /\ abortRequested' = abortRequested
    BY <1>11, <1>1, Frame DEF DecisionSave, DecisionDiscard, KeepAlive
  <2>2. session = "OPEN" /\ ~abortRequested /\ wrCount = 0 /\ tableIndex \in Params \cup {NoIndex}
    BY <1>11, <2>1 DEF DecisionSave, DecisionDiscard, KeepAlive, SessionIsOpen,
       IInv, RequestInv, AbortInv, WriteInv, TypeOK, ProvisionTypeOK
  <2>3. CASE DecisionSave
    BY <2>1, <2>2, <2>3, StartCommitStep DEF DecisionSave
  <2>4. CASE DecisionDiscard
    BY <2>1, <2>2, <2>4, StartDiscardStep DEF DecisionDiscard
  <2>5. CASE KeepAlive
    <3>1. Get(AP) \in Commands /\ Get(AP).op = "GET"
      BY EngineCommands, LinkAssumption
    <3> QED BY <2>1, <2>2, <2>5, <3>1, AskForStep DEF KeepAlive, AskingStates, Writers
  <2> QED BY <1>11, <2>3, <2>4, <2>5
<1>12. CASE CloseExpired \/ CloseEnds
  <2>1. PICK outcome \in Results \ {"RUNNING"} :
          /\ Finish(outcome) /\ Quiet /\ UNCHANGED verifying
          /\ outcome = pendingResult \/ (pendingResult = "RUNNING" /\ outcome = "FAIL_COMMIT")
    <3>1. pendingResult \in Results /\ "FAIL_COMMIT" \in Results \ {"RUNNING"}
      BY DEF IInv, TypeOK, ProvisionTypeOK, Results
    <3> DEFINE ending == IF pendingResult = "RUNNING" THEN "FAIL_COMMIT" ELSE pendingResult
    <3>2. ending \in Results \ {"RUNNING"}
      BY <3>1
    <3>3. Finish(ending) /\ Quiet /\ UNCHANGED verifying
      BY <1>12 DEF CloseExpired, CloseEnds
    <3>4. ending = pendingResult \/ (pendingResult = "RUNNING" /\ ending = "FAIL_COMMIT")
      OBVIOUS
    <3> HIDE DEF ending
    <3> QED BY <3>2, <3>3, <3>4
  <2>2. state = "CLOSE" /\ ~reqActive
    BY <1>12, <1>1 DEF CloseExpired, CloseEnds
  <2>3. outcome \in {"ALREADY_PROVISIONED", "ABORTED"} => sent \cap Writers = {}
    BY <2>1, <2>2 DEF IInv, OutcomeInv
  <2>4. abortRequested => outcome \in {"ABORTED", "FAIL_SESSION"}
    BY <2>1, <2>2 DEF IInv, AbortInv
  <2> QED BY <2>1, <2>2, <2>3, <2>4, QuietFinish
<1>13. CASE CloseResets
  <2>1. /\ state = "CLOSE" /\ ~reqActive /\ ~UserReq /\ pendingResult = "RUNNING"
        /\ UNCHANGED <<pendingResult, tableIndex, sent, wrCount, storedAtStart, ramAtStart>>
        /\ RestTypeOK' /\ abortRequested' = abortRequested
    BY <1>13, <1>1, Frame DEF CloseResets, history
  <2>2. LinkTypeOK' /\ ~UserReq'
    <3>1. LinkTypeOK' /\ req' = Abandoned
      BY <1>13, CallsType DEF CloseResets, IInv, TypeOK, HwReset, HwResetRefused
    <3> QED BY <2>1, <3>1 DEF Abandoned, UserReq
  <2>3. ~abortRequested
    BY <2>1 DEF IInv, AbortInv
  <2>4. CASE Finish("FAIL_RESET") /\ UNCHANGED verifying
    <3>1. "FAIL_RESET" \in Results \ {"RUNNING"} /\ pendingResult' \in Results
      BY <2>1 DEF Results
    <3> QED BY <2>1, <2>2, <2>3, <2>4, <3>1, FinishStep
  <2>5. CASE state' = "RESET" /\ verifying' = TRUE /\ UNCHANGED <<result, reqActive>>
    <3>1. TypeOK'
      BY <2>1, <2>2, <2>5 DEF IInv, TypeOK, ProvisionTypeOK, RestTypeOK, States
    <3>2. RequestOwned' /\ RequestInv'
      BY <2>1, <2>2, <2>5 DEF RequestOwned, RequestInv
    <3>3. OneWritePerRun' /\ WriteInv' /\ NothingWritten' /\ OutcomeInv'
      BY <2>1, <2>5 DEF IInv, OneWritePerRun, WriteInv, NothingWritten, OutcomeInv
    <3>4. AbortHonoured' /\ AbortInv'
      BY <2>1, <2>3 DEF AbortHonoured, AbortInv
    <3> QED BY <3>1, <3>2, <3>3, <3>4 DEF IInv
  <2> QED BY <1>13, <2>4, <2>5 DEF CloseResets
<1>14. CASE ResetDone
  <2>1. /\ state = "RESET" /\ ~reqActive /\ ~UserReq /\ state' = "BRINGUP"
        /\ UNCHANGED <<linkVars, result, pendingResult, reqActive, tableIndex, verifying, history>>
        /\ RestTypeOK' /\ abortRequested' = abortRequested
    BY <1>14, <1>1, Frame DEF ResetDone, Quiet
  <2>2. LinkTypeOK' /\ ~UserReq'
    BY <2>1 DEF IInv, TypeOK, linkVars, LinkTypeOK, UserReq
  <2>3. ~abortRequested /\ result = "RUNNING"
    BY <2>1 DEF IInv, AbortInv, OutcomeInv
  <2>4. TypeOK'
    BY <2>1, <2>2 DEF IInv, TypeOK, ProvisionTypeOK, RestTypeOK, States, history
  <2>5. RequestOwned' /\ RequestInv'
    BY <2>1, <2>2 DEF RequestOwned, RequestInv
  <2>6. OneWritePerRun' /\ WriteInv' /\ NothingWritten' /\ OutcomeInv'
    BY <2>1, <2>3 DEF IInv, OneWritePerRun, WriteInv, NothingWritten, OutcomeInv, history
  <2>7. AbortHonoured' /\ AbortInv'
    BY <2>1, <2>3 DEF AbortHonoured, AbortInv
  <2> QED BY <2>4, <2>5, <2>6, <2>7 DEF IInv
<1>15. CASE DiscardEnds
  <2>1. state = "DISCARD" /\ ~reqActive /\ pendingResult \in {"DECLINED", "FAIL_REVIEW"}
    BY <1>15, <1>1 DEF DiscardEnds, IInv, OutcomeInv
  <2>2. PICK outcome \in {"FAIL_RESET", "DECLINED", "FAIL_REVIEW"} : Finish(outcome)
    BY <1>15, <2>1 DEF DiscardEnds
  <2>3. ~abortRequested
    BY <2>1 DEF IInv, AbortInv
  <2>4. outcome \in Results \ {"RUNNING"}
    BY DEF Results
  <2> QED BY <1>15, <2>1, <2>2, <2>3, <2>4, QuietFinish DEF DiscardEnds
<1> QED
  BY <1>2, <1>3, <1>4, <1>5, <1>6, <1>7, <1>8, <1>9, <1>10, <1>11, <1>12, <1>13, <1>14, <1>15
  DEF IdlePass

\* The review changes the host's side, and leaves it well-typed.
LEMMA ReviewRest ==
  ASSUME IInv, NEW from, StartNextReview(from),
         reviewOverflow' \in BOOLEAN, accepted' \in [Params -> Readings \cup {None}],
         UNCHANGED <<auditMismatch, unreadable, restoreFellBack, reviewing, abortRequested>>
  PROVE  RestTypeOK'
<1>1. decision' = decision \/ decision' = "NONE"
  BY DEF StartNextReview, EnterDecision
<1> QED BY <1>1 DEF IInv, TypeOK, ProvisionTypeOK, RestTypeOK

\* So do the writes, which start it.
LEMMA WriteRest ==
  ASSUME IInv, NEW from, StartNextWrite(from),
         UNCHANGED <<auditMismatch, unreadable, restoreFellBack, reviewing, abortRequested>>
  PROVE  RestTypeOK'
<1>1. CASE UNCHANGED <<reviewOverflow, accepted, decision>>
  BY <1>1 DEF IInv, TypeOK, ProvisionTypeOK, RestTypeOK
<1>2. CASE reviewOverflow' = FALSE /\ accepted' = [p \in Params |-> None] /\ StartNextReview(1)
  BY <1>2, ReviewRest
<1> QED BY <1>1, <1>2 DEF StartNextWrite, WritesDone

\* A pass that finds its request completed.
LEMMA ResultPassesStep ==
  ASSUME IInv, ResultPasses
  PROVE  IInv'
<1>1. ASSUME NEW st, Completed(st)
      PROVE  /\ state = st /\ reqActive /\ ~UserReq /\ session = "OPEN" /\ state # "DONE"
             /\ tableIndex + 1 \in Nat
  BY <1>1 DEF Completed, ResultReady, UserReq, IInv, RequestOwned, RequestInv, AskingStates,
     TypeOK, ProvisionTypeOK, Params, NoIndex
<1>2. ASSUME Completed("AUDIT"), Noted
      PROVE  RestTypeOK' /\ abortRequested' = abortRequested
  <2>1. tableIndex \in Params
    BY <1>2 DEF Completed, IInv, RequestInv
  <2> QED
    BY <1>2, <2>1 DEF Noted, IInv, TypeOK, ProvisionTypeOK, RestTypeOK, hostSide
<1>3. CASE VerifyFails
  <2>1. verifying /\ ~abortRequested
    BY <1>3 DEF VerifyFails, IInv, AbortHonoured
  <2> QED BY <1>3, <2>1, <1>1, <1>2, CloseSessionStep DEF VerifyFails, Results
<1>4. CASE AuditAborted
  <2>1. sent \cap Writers = {}
    BY <1>4 DEF AuditAborted, IInv, AbortHonoured
  <2> QED BY <1>4, <2>1, <1>1, <1>2, CloseSessionStep DEF AuditAborted, Results
<1>5. ASSUME ReadGoesOn, Noted
      PROVE  /\ state = "AUDIT" /\ ~UserReq /\ session = "OPEN" /\ tableIndex + 1 \in Nat
             /\ RestTypeOK' /\ abortRequested' = abortRequested /\ ~abortRequested
  <2>1. ~abortRequested
    BY <1>5 DEF ReadGoesOn, IInv, AbortHonoured
  <2> QED BY <1>5, <2>1, <1>1, <1>2 DEF ReadGoesOn
<1>6. CASE ReadContinues
  BY <1>6, <1>5, StartNextReadStep DEF ReadContinues
<1>7. CASE VerifyCompletes
  <2> DEFINE outcome == IF AcceptedSet # {} THEN "WRITTEN_WITH_DIFFERENCES" ELSE "WRITTEN"
  <2>1. outcome \in Results \ {"ALREADY_PROVISIONED", "ABORTED"}
    BY DEF Results, ResultPass
  <2>2. CloseSession(outcome)
    BY <1>7 DEF VerifyCompletes
  <2> HIDE DEF outcome
  <2> QED BY <1>7, <2>1, <2>2, <1>5, CloseSessionStep DEF VerifyCompletes
<1>8. CASE AuditCompletes
  <2>1. /\ state = "AUDIT" /\ ~UserReq /\ session = "OPEN" /\ ~verifying
        /\ RestTypeOK' /\ abortRequested' = abortRequested /\ ~abortRequested
    BY <1>8, <1>5 DEF AuditCompletes
  <2>2. CASE CloseSession("ALREADY_PROVISIONED")
    <3>1. sent \cap Writers = {}
      BY <2>1 DEF IInv, WriteInv
    <3> QED BY <2>1, <2>2, <3>1, CloseSessionStep DEF Results, ResultPass
  <2>3. CASE StartRestore("R1")
    BY <2>1, <2>3, StartRestoreStep
  <2> QED BY <1>8, <2>2, <2>3 DEF AuditCompletes
<1>9. CASE RestoreFallsBack \/ RestoreFails \/ RestoreDone
  <2>1. /\ state = "RESTORE" /\ ~UserReq /\ session = "OPEN" /\ ~abortRequested
        /\ abortRequested' = abortRequested
    BY <1>9, <1>1 DEF RestoreFallsBack, RestoreFails, RestoreDone, IInv, AbortInv, hostSide
  <2>2. CASE RestoreFallsBack
    <3>1. RestTypeOK'
      BY <2>2 DEF RestoreFallsBack, IInv, TypeOK, ProvisionTypeOK, RestTypeOK, findings, hostSide
    <3> QED BY <2>1, <2>2, <3>1, StartRestoreStep DEF RestoreFallsBack
  <2>3. CASE RestoreFails
    BY <2>1, <2>3, Frame, CloseSessionStep DEF RestoreFails, Results
  <2>4. CASE RestoreDone
    <3>1. RestTypeOK'
      BY <2>4, WriteRest DEF RestoreDone
    <3> QED BY <2>1, <2>4, <3>1, StartNextWriteStep DEF RestoreDone
  <2> QED BY <1>9, <2>2, <2>3, <2>4
<1>10. CASE WriteFails \/ WriteDone
  <2>1. /\ state = "WRITE" /\ ~UserReq /\ session = "OPEN" /\ ~abortRequested
        /\ abortRequested' = abortRequested /\ tableIndex + 1 \in Nat
    BY <1>10, <1>1 DEF WriteFails, WriteDone, IInv, AbortInv, hostSide
  <2>2. CASE WriteFails
    BY <2>1, <2>2, Frame, CloseSessionStep DEF WriteFails, Results
  <2>3. CASE WriteDone
    <3>1. RestTypeOK'
      BY <2>3, WriteRest DEF WriteDone
    <3> QED BY <2>1, <2>3, <3>1, StartNextWriteStep DEF WriteDone
  <2> QED BY <1>10, <2>2, <2>3
<1>11. CASE ReviewRead
  <2>1. /\ state = "REVIEW" /\ ~UserReq /\ session = "OPEN" /\ ~abortRequested
        /\ abortRequested' = abortRequested /\ tableIndex + 1 \in Nat
    BY <1>11, <1>1 DEF ReviewRead, IInv, AbortInv
  <2>2. reviewOverflow' \in BOOLEAN
    BY <1>11 DEF ReviewRead, IInv, TypeOK, ProvisionTypeOK
  <2>3. accepted' \in [Params -> Readings \cup {None}]
    BY <1>11 DEF ReviewRead, IInv, TypeOK, LinkTypeOK, ProvisionTypeOK
  <2>4. RestTypeOK'
    BY <1>11, <2>2, <2>3, ReviewRest DEF ReviewRead
  <2> QED BY <1>11, <2>1, <2>4, StartNextReviewStep DEF ReviewRead
<1>12. CASE KeepAliveDone
  <2>1. /\ state = "AWAIT_DECISION" /\ ~UserReq /\ session = "OPEN" /\ reqActive' = FALSE
        /\ UNCHANGED <<linkVars, state, result, pendingResult, tableIndex, verifying, history>>
        /\ RestTypeOK' /\ abortRequested' = abortRequested
    BY <1>12, <1>1, Frame DEF KeepAliveDone, Quiet
  <2>2. LinkTypeOK' /\ ~UserReq' /\ session' = "OPEN"
    BY <2>1 DEF IInv, TypeOK, linkVars, LinkTypeOK, UserReq
  <2>3. TypeOK'
    BY <2>1, <2>2 DEF IInv, TypeOK, ProvisionTypeOK, RestTypeOK, history
  <2>4. RequestOwned' /\ RequestInv'
    BY <2>1, <2>2 DEF RequestOwned, RequestInv
  <2>5. OneWritePerRun' /\ WriteInv' /\ NothingWritten' /\ OutcomeInv'
    BY <2>1 DEF IInv, OneWritePerRun, WriteInv, NothingWritten, OutcomeInv, history
  <2>6. AbortHonoured' /\ AbortInv'
    BY <2>1 DEF IInv, AbortHonoured, AbortInv, history
  <2> QED BY <2>3, <2>4, <2>5, <2>6 DEF IInv
<1>13. CASE CommitFails \/ CommitDone
  <2>1. /\ state = "COMMIT" /\ ~UserReq /\ session = "OPEN" /\ ~abortRequested /\ state # "DONE"
        /\ RestTypeOK' /\ abortRequested' = abortRequested
    BY <1>13, <1>1, Frame DEF CommitFails, CommitDone, IInv, AbortInv
  <2> QED BY <1>13, <2>1, CloseSessionStep DEF CommitFails, CommitDone, Results
<1> QED
  BY <1>3, <1>4, <1>6, <1>7, <1>8, <1>9, <1>10, <1>11, <1>12, <1>13 DEF ResultPasses

\* A pass of the facade, and everything the module and the line may do.
LEMMA LinkStep ==
  ASSUME IInv, FacadePass \/ RadioPass \/ EnvPass
  PROVE  IInv'
<1>1. /\ UNCHANGED <<state, result, pendingResult, reqActive, tableIndex, verifying, history>>
      /\ RestTypeOK' /\ abortRequested' = abortRequested
  BY Frame DEF FacadePass, RadioPass, EnvPass, control
<1>2. LinkTypeOK'
  BY FacadeType, RadioType DEF FacadePass, RadioPass, EnvPass, IInv, TypeOK
<1>3. TypeOK'
  BY <1>1, <1>2 DEF IInv, TypeOK, ProvisionTypeOK, RestTypeOK, history
<1>4. OneWritePerRun' /\ WriteInv' /\ NothingWritten' /\ OutcomeInv'
  BY <1>1 DEF IInv, OneWritePerRun, WriteInv, NothingWritten, OutcomeInv, history
<1>5. AbortHonoured' /\ AbortInv'
  BY <1>1 DEF IInv, AbortHonoured, AbortInv, history
<1>6. RequestOwned' /\ RequestInv'
  <2>1. CASE RadioPass \/ EnvPass
    <3>1. UNCHANGED facadeVars
      BY <2>1 DEF RadioPass, EnvPass, RadioStep, EnvStep, RadioIgnores, RadioEnters, RadioObeys,
         RadioRefuses, RadioLapses, RadioReboots, LineLost
    <3> QED BY <1>1, <3>1 DEF facadeVars, IInv, RequestOwned, RequestInv, UserReq, IsReady
  <2>2. CASE FacadePass
    <3>1. ~reqActive => ~UserReq'
      BY <2>2, NoRequest DEF FacadePass, FacadeStep, BringUpReady, BringUpFails, EnterSession,
         SendEscape, LineArrives, RequestTimesOut, TransportTimesOut, SessionDropped, UserReq,
         IInv, TypeOK, LinkTypeOK
    <3>2. reqActive => IsReady' /\ session' = "OPEN" /\ cmd' = (IF UserReq' THEN "BUSY" ELSE "ACTIVE")
      <4> SUFFICES ASSUME reqActive
                   PROVE  IsReady' /\ session' = "OPEN"
                          /\ cmd' = (IF UserReq' THEN "BUSY" ELSE "ACTIVE")
        OBVIOUS
      <4>1. UserReq /\ fac = "READY" /\ session = "OPEN" /\ cmd = "BUSY"
        BY <2>2 DEF FacadePass, ResultReady, UserReq, IInv, RequestOwned, RequestInv, IsReady
      <4>2. LineArrives \/ RequestTimesOut
        BY <2>2, <4>1 DEF FacadePass, FacadeStep, BringUpReady, BringUpFails, EnterSession,
           SendEscape, TransportTimesOut, SessionDropped
      <4> QED
        BY <4>1, <4>2 DEF LineArrives, RequestTimesOut, TransportMovesTo, SessionAfter,
           UseCmd, UserReq, IsReady, IInv, TypeOK, LinkTypeOK
    <3>3. state = "AWAIT_DECISION" /\ ~reqActive => session' \in {"OPEN", "NONE"}
      BY <2>2 DEF FacadePass, FacadeStep, BringUpReady, BringUpFails, EnterSession,
         SendEscape, LineArrives, RequestTimesOut, TransportTimesOut, SessionDropped,
         TransportMovesTo, SessionAfter, IInv, RequestInv
    <3> QED BY <1>1, <3>1, <3>2, <3>3 DEF IInv, RequestOwned, RequestInv
  <2> QED BY <2>1, <2>2
<1> QED BY <1>3, <1>4, <1>5, <1>6 DEF IInv

\* A run begins on a clean slate.
LEMMA PrepareRunStep ==
  ASSUME IInv, NEW review \in BOOLEAN, PrepareRun(review), ~reqActive, LinkTypeOK', ~UserReq',
         BeginRun \/ Finish("FAIL_BRINGUP")
  PROVE  IInv'
<1>1. /\ pendingResult' = "RUNNING" /\ tableIndex' = NoIndex /\ verifying' = FALSE
      /\ sent' = {} /\ wrCount' = 0 /\ storedAtStart' = flash /\ ramAtStart' = ram
      /\ abortRequested' = FALSE /\ reqActive' = FALSE
  BY DEF PrepareRun, BeginRun, Finish
<1>2. \/ state' = "BRINGUP" /\ result' = "RUNNING"
      \/ state' = "DONE" /\ result' = "FAIL_BRINGUP"
  BY DEF BeginRun, Finish
<1>3. RestTypeOK'
  BY DEF PrepareRun, IInv, TypeOK, ProvisionTypeOK, RestTypeOK
<1>4. TypeOK'
  <2>1. state' \in States /\ result' \in Results /\ pendingResult' \in Results
    BY <1>1, <1>2 DEF States, Results
  <2>2. storedAtStart' \in [Params -> Values] /\ ramAtStart' \in [Params -> Values]
    BY <1>1 DEF IInv, TypeOK, LinkTypeOK
  <2> QED BY <1>1, <1>3, <2>1, <2>2 DEF TypeOK, ProvisionTypeOK, RestTypeOK
<1>5. RequestOwned' /\ RequestInv'
  BY <1>1, <1>2 DEF RequestOwned, RequestInv
<1>6. OneWritePerRun' /\ WriteInv' /\ NothingWritten' /\ OutcomeInv'
  BY <1>1, <1>2 DEF OneWritePerRun, WriteInv, NothingWritten, OutcomeInv
<1>7. AbortHonoured' /\ AbortInv'
  BY <1>1 DEF AbortHonoured, AbortInv
<1> QED BY <1>4, <1>5, <1>6, <1>7 DEF IInv

\* The host's calls, and the run at boot.
LEMMA HostStep ==
  ASSUME IInv, ProvisionInit \/ HostCall
  PROVE  IInv'
<1>1. ASSUME UNCHANGED <<control, history>>, LinkTypeOK', RestTypeOK', UNCHANGED abortRequested,
             ~reqActive, ~UserReq', state = "AWAIT_DECISION" => session' = session
      PROVE  IInv'
  <2>1. UNCHANGED <<state, result, pendingResult, reqActive, tableIndex, verifying,
                    sent, wrCount, storedAtStart, ramAtStart>>
    BY <1>1 DEF control, history
  <2>2. TypeOK'
    BY <1>1, <2>1 DEF IInv, TypeOK, ProvisionTypeOK, RestTypeOK
  <2>3. RequestOwned' /\ RequestInv'
    BY <1>1, <2>1 DEF IInv, RequestOwned, RequestInv
  <2>4. OneWritePerRun' /\ WriteInv' /\ NothingWritten' /\ OutcomeInv'
    BY <2>1 DEF IInv, OneWritePerRun, WriteInv, NothingWritten, OutcomeInv
  <2>5. AbortHonoured' /\ AbortInv'
    BY <1>1, <2>1 DEF IInv, AbortHonoured, AbortInv
  <2> QED BY <2>2, <2>3, <2>4, <2>5 DEF IInv
<1>2. state \in {"IDLE", "DONE"} => ~reqActive /\ ~UserReq
  BY NoRequest DEF IInv, RequestInv, AskingStates
<1>3. CASE ProvisionInit
  <2>1. ~reqActive /\ ~UserReq
    BY <1>2, <1>3 DEF ProvisionInit
  <2>2. LinkTypeOK' /\ ~UserReq'
    <3>1. CASE Init_Facade
      BY <2>1, <3>1, CallsType DEF IInv, TypeOK, Init_Facade, UserReq
    <3>2. CASE UNCHANGED linkVars
      BY <2>1, <3>2 DEF IInv, TypeOK, linkVars, LinkTypeOK, UserReq
    <3> QED BY <1>3, <3>1, <3>2 DEF ProvisionInit
  <2> QED BY <1>3, <2>1, <2>2, PrepareRunStep DEF ProvisionInit
<1>4. CASE ProvisionStart
  <2>1. ~reqActive /\ ~UserReq
    BY <1>2, <1>4 DEF ProvisionStart
  <2>2. LinkTypeOK' /\ ~UserReq'
    BY <1>4, <2>1 DEF ProvisionStart, IInv, TypeOK, linkVars, LinkTypeOK, UserReq
  <2> QED BY <1>4, <2>1, <2>2, PrepareRunStep, ProvisionAssumption DEF ProvisionStart
<1>5. CASE ConsoleInit
  <2>1. ~reqActive /\ ~UserReq
    BY <1>5, NoRequest DEF ConsoleInit, Init_Facade, IInv, RequestInv, IsReady
  <2>2. LinkTypeOK' /\ ~UserReq' /\ session' = session
    BY <1>5, <2>1, CallsType DEF ConsoleInit, IInv, TypeOK, Init_Facade, UserReq
  <2> QED BY <1>1, <1>5, <2>1, <2>2, Frame DEF ConsoleInit
<1>6. CASE ConsoleSets
  <2>1. ~reqActive /\ ~UserReq /\ state # "AWAIT_DECISION"
    BY <1>2, <1>6 DEF ConsoleSets
  <2>2. LinkTypeOK' /\ ~UserReq'
    BY <1>6, <2>1 DEF ConsoleSets, IInv, TypeOK, LinkTypeOK, facadeVars, wires, UserReq
  <2> QED BY <1>1, <1>6, <2>1, <2>2, Frame DEF ConsoleSets
<1>7. CASE ConsoleReset
  <2>1. ~reqActive /\ ~UserReq /\ state # "AWAIT_DECISION"
    BY <1>2, <1>7 DEF ConsoleReset
  <2>2. LinkTypeOK' /\ ~UserReq'
    BY <1>7, <2>1, CallsType DEF ConsoleReset, IInv, TypeOK, HwReset, Abandoned, UserReq
  <2> QED BY <1>1, <1>7, <2>1, <2>2, Frame DEF ConsoleReset
<1>8. CASE ProvisionDecide \/ ProvisionAbort
  <2>1. /\ UNCHANGED <<linkVars, control, findings, history>>
        /\ decision' \in {"NONE", "SAVE", "DISCARD"}
        /\ UNCHANGED <<restoreFellBack, reviewing>>
    BY <1>8 DEF ProvisionDecide, ProvisionAbort, IInv, TypeOK, ProvisionTypeOK
  <2>2. UNCHANGED <<fac, session, cmd, req, state, result, pendingResult, reqActive, tableIndex,
                    verifying, sent, wrCount, storedAtStart, ramAtStart>>
    BY <2>1 DEF linkVars, control, history
  <2>3. \/ abortRequested' = abortRequested
        \/ ~verifying /\ state \in {"BRINGUP", "OPEN", "AUDIT"} /\ abortRequested' = TRUE
    BY <1>8 DEF ProvisionDecide, ProvisionAbort
  <2>4. TypeOK'
    <3>1. LinkTypeOK'
      BY <2>1 DEF IInv, TypeOK, linkVars, LinkTypeOK
    <3>2. abortRequested' \in BOOLEAN
      BY <2>3 DEF IInv, TypeOK, ProvisionTypeOK
    <3> QED BY <2>1, <2>2, <3>1, <3>2 DEF IInv, TypeOK, ProvisionTypeOK, findings
  <2>5. RequestOwned' /\ RequestInv'
    BY <2>2 DEF IInv, RequestOwned, RequestInv, UserReq, IsReady
  <2>6. OneWritePerRun' /\ WriteInv' /\ NothingWritten' /\ OutcomeInv'
    BY <2>2 DEF IInv, OneWritePerRun, WriteInv, NothingWritten, OutcomeInv
  <2>7. AbortHonoured' /\ AbortInv'
    BY <2>2, <2>3 DEF IInv, WriteInv, AbortHonoured, AbortInv
  <2> QED BY <2>4, <2>5, <2>6, <2>7 DEF IInv
<1> QED BY <1>3, <1>4, <1>5, <1>6, <1>7, <1>8 DEF HostCall

(***************************************************************************)
(* The theorems.                                                           *)
(***************************************************************************)
\* Before anything has run, nothing is out and nothing has been written.
LEMMA InitStep == Init => IInv
<1> SUFFICES ASSUME Init PROVE IInv
  OBVIOUS
<1>1. LinkTypeOK
  <2>1. toModule \in Seq(Commands) /\ toHost \in Seq(Lines)
    BY DEF Init, LinkInit
  <2>2. req \in [state : {"IDLE", "PENDING", "DONE", "FAILED"}, value : Readings]
    BY DEF Init, LinkInit, Readings
  <2> QED BY <2>1, <2>2 DEF Init, LinkInit, LinkTypeOK
<1>2. TypeOK
  <2>1. /\ state \in States /\ result \in Results /\ pendingResult \in Results
        /\ storedAtStart \in [Params -> Values] /\ ramAtStart \in [Params -> Values]
    BY DEF Init, LinkInit, States, Results
  <2>2. accepted \in [Params -> Readings \cup {None}]
    BY DEF Init
  <2> QED BY <1>1, <2>1, <2>2 DEF Init, TypeOK, ProvisionTypeOK
<1>3. RequestOwned /\ RequestInv
  BY DEF Init, LinkInit, RequestOwned, RequestInv, UserReq
<1>4. OneWritePerRun /\ WriteInv /\ NothingWritten /\ OutcomeInv /\ AbortHonoured /\ AbortInv
  BY DEF Init, OneWritePerRun, WriteInv, NothingWritten, OutcomeInv, AbortHonoured, AbortInv
<1> QED BY <1>2, <1>3, <1>4 DEF IInv

\* Every step of the system keeps the invariant.
LEMMA NextStep == IInv /\ [Next]_vars => IInv'
<1> SUFFICES ASSUME IInv, [Next]_vars PROVE IInv'
  OBVIOUS
<1>1. CASE ProvisionInit \/ HostCall
  BY <1>1, HostStep
<1>2. CASE IdlePass
  BY <1>2, IdlePassStep
<1>3. CASE ResultPasses
  BY <1>3, ResultPassesStep
<1>4. CASE FacadePass \/ RadioPass \/ EnvPass
  BY <1>4, LinkStep
<1>5. CASE UNCHANGED vars
  <2>1. UNCHANGED <<linkVars, control, findings, restoreFellBack, hostSide, history>>
    BY <1>5 DEF vars
  <2>2. UNCHANGED <<fac, session, cmd, req, state, result, pendingResult, reqActive, tableIndex,
                    verifying, sent, wrCount, storedAtStart, ramAtStart>>
    BY <2>1 DEF linkVars, control, history
  <2>3. RestTypeOK' /\ abortRequested' = abortRequested
    BY <2>1, Frame
  <2>4. TypeOK'
    <3>1. LinkTypeOK'
      BY <2>1 DEF IInv, TypeOK, linkVars, LinkTypeOK
    <3> QED BY <2>2, <2>3, <3>1 DEF IInv, TypeOK, ProvisionTypeOK, RestTypeOK
  <2>5. RequestOwned' /\ RequestInv'
    BY <2>2 DEF IInv, RequestOwned, RequestInv, UserReq, IsReady
  <2>6. OneWritePerRun' /\ WriteInv' /\ NothingWritten' /\ OutcomeInv'
    BY <2>2 DEF IInv, OneWritePerRun, WriteInv, NothingWritten, OutcomeInv
  <2>7. AbortHonoured' /\ AbortInv'
    BY <2>2, <2>3 DEF IInv, AbortHonoured, AbortInv
  <2> QED BY <2>4, <2>5, <2>6, <2>7 DEF IInv
<1> QED BY <1>1, <1>2, <1>3, <1>4, <1>5 DEF Next, ProvisionStep

\* The invariant holds of every reachable state, whatever the table, the faults
\* of the line and the module, and the calls of the host.
THEOREM Invariance == Spec => []IInv
BY InitStep, NextStep, PTL DEF Spec

\* Every variable keeps its type.
THEOREM TypeCorrect == Spec => []TypeOK
<1>1. IInv => TypeOK
  BY DEF IInv
<1> QED BY <1>1, Invariance, PTL

\* The engine never loses track of the facade's request, nor of the session it
\* runs in (req_active of xbee_provision.c against user_req of xbee.c).
THEOREM RequestsOwned == Spec => []RequestOwned
<1>1. IInv => RequestOwned
  BY DEF IInv
<1> QED BY <1>1, Invariance, PTL

\* No run writes the flash twice (start_commit).
THEOREM WritesOnce == Spec => []OneWritePerRun
<1>1. IInv => OneWritePerRun
  BY DEF IInv
<1> QED BY <1>1, Invariance, PTL

\* A run that ends ALREADY_PROVISIONED or ABORTED has sent the module nothing
\* that changes it.
THEOREM LeavesAlone == Spec => []NothingWritten
<1>1. IInv => NothingWritten
  BY DEF IInv
<1> QED BY <1>1, Invariance, PTL

\* An abort that was accepted stops the run before its restore.
THEOREM AbortsHonoured == Spec => []AbortHonoured
<1>1. IInv => AbortHonoured
  BY DEF IInv
<1> QED BY <1>1, Invariance, PTL

(***************************************************************************)
(* The properties of the steps, and of what a finished run has stored.     *)
(* They hold as long as the host's deadlines leave the module time to      *)
(* answer, and rest on two further invariants: LineInv, which ties what is *)
(* on the wire to the engine's position, and FoundInv, which ties what the *)
(* run has read and written to what the module holds.                      *)
(***************************************************************************)
\* The hypothesis of what follows, on the faults alone: every deadline of the
\* host leaves the module time to answer.
InTime == "late" \notin Faults

\* The command whose answer the engine waits for, by its position.
Awaited ==
  CASE state \in {"AUDIT", "REVIEW"} -> Get(tableIndex)
    [] state = "AWAIT_DECISION"      -> Get(AP)
    [] state = "RESTORE"             -> Command(IF restoreFellBack THEN "RE" ELSE "R1")
    [] state = "WRITE"               -> SetTo(tableIndex, Config[tableIndex])
    [] OTHER                         -> Command("WR")

\* The one line that can be on its way to the module: the engine's, or the
\* escape sequence or the exit of a session.
Expecting == IF UserReq THEN Awaited ELSE Command(IF cmd = "WAIT_OK" THEN "ESC" ELSE "CN")

\* At most one line is under way, in one direction, and none while the
\* transport waits for nothing.
OneLine ==
  /\ toModule \in {<<>>, <<Expecting>>}
  /\ toHost = <<>> \/ toHost = <<Head(toHost)>>
  /\ toModule = <<>> \/ toHost = <<>>
  /\ cmd \in {"IDLE", "GUARD_PRE", "ACTIVE"} => toModule = <<>> /\ toHost = <<>>
  /\ cmd = "BUSY" => UserReq

\* Which state of the facade and the session goes with which of the engine.
Place ==
  /\ state \in AskingStates \ {"AWAIT_DECISION"} => reqActive
  /\ state \in {"OPEN", "CLOSE"} \cup AskingStates => fac = "READY"
  /\ state \in {"OPEN", "AWAIT_DECISION"} /\ ~reqActive /\ session = "OPEN" => cmd = "ACTIVE"
  /\ state = "AWAIT_DECISION" /\ session = "NONE" => cmd = "IDLE"
  /\ state = "CLOSE" => \/ session = "OPEN" /\ cmd \in {"ACTIVE", "EXITING"}
                        \/ session = "NONE" /\ cmd = "IDLE"
  /\ state = "DISCARD" => session = "NONE" /\ cmd \in {"IDLE", "EXITING", "ACTIVE"}

\* How far the run is, from the variables of the engine alone.
Run ==
  /\ verifying => state \in {"RESET", "BRINGUP", "OPEN", "AUDIT", "CLOSE", "DONE"}
  /\ state \in {"AUDIT", "REVIEW"} => tableIndex \in Readable
  /\ state \in {"BRINGUP", "OPEN", "AUDIT"} /\ ~verifying => ~restoreFellBack
  /\ state = "COMMIT" => wrCount = 1 /\ (reviewing => decision = "SAVE")
  /\ state = "DISCARD" => wrCount = 0
  /\ state = "CLOSE" => pendingResult \notin {"DECLINED", "FAIL_REVIEW"}
  /\ \A p \in Params \ Readable : accepted[p] = None

\* The flash is the one the run found until its WR is out, a discarding run has
\* the module on it, and a verifying run finds the module restarted.
Kept ==
  /\ wrCount = 0 => flash = storedAtStart
  /\ state = "DISCARD" => ram = flash /\ applied = flash
  /\ verifying /\ state # "DONE" => ram = flash

LineInv == OneLine /\ Place /\ Run /\ Kept

(***************************************************************************)
(* How far the run is.                                                     *)
(***************************************************************************)
\* Only entries that were read back can have been accepted.
AcceptedRead == \A p \in Params \ Readable : accepted[p] = None

\* A request takes the run one step on.
LEMMA AskForRun ==
  ASSUME IInv, Run, NEW c, NEW p \in Params \cup {NoIndex}, NEW st \in AskingStates,
         AskFor(c, p, st), AcceptedRead',
         verifying => st = "AUDIT",
         st \in {"AUDIT", "REVIEW"} => p \in Readable,
         st = "AUDIT" => state \in {"OPEN", "AUDIT"} /\ restoreFellBack' = restoreFellBack,
         st = "COMMIT" => c.op = "WR" /\ wrCount = 0 /\ (reviewing' => decision' = "SAVE")
  PROVE  Run'
BY DEF AskFor, Ask, Run, AcceptedRead, AskingStates

\* Closing, discarding and ending leave it where nothing more is asked.
LEMMA CloseSessionRun ==
  ASSUME IInv, Run, NEW outcome, CloseSession(outcome), AcceptedRead',
         outcome \notin {"DECLINED", "FAIL_REVIEW"}
  PROVE  Run'
BY DEF CloseSession, Finish, Run, AcceptedRead

LEMMA StartDiscardRun ==
  ASSUME IInv, Run, NEW outcome, StartDiscard(outcome), AcceptedRead',
         state \in {"RESTORE", "WRITE", "REVIEW", "AWAIT_DECISION"}
  PROVE  Run'
BY DEF StartDiscard, Finish, Run, AcceptedRead, IInv, WriteInv, history

LEMMA FinishRun ==
  ASSUME IInv, Run, NEW outcome, Finish(outcome), UNCHANGED <<verifying, accepted>>
  PROVE  Run'
BY DEF Finish, Run

\* The chains a pass can end with.
LEMMA StartCommitRun ==
  ASSUME IInv, Run, StartCommit, AcceptedRead',
         state \in {"RESTORE", "WRITE", "AWAIT_DECISION"}, reviewing' => decision' = "SAVE"
  PROVE  Run'
<1>1. tableIndex \in Params \cup {NoIndex} /\ wrCount = 0 /\ ~verifying
  BY DEF IInv, TypeOK, ProvisionTypeOK, WriteInv, Run
<1>2. CASE AskFor(Command("WR"), tableIndex, "COMMIT")
  BY <1>1, <1>2, AskForRun DEF AskingStates, Command
<1>3. CASE CloseSession("FAIL_COMMIT")
  BY <1>3, CloseSessionRun
<1> QED BY <1>2, <1>3 DEF StartCommit

LEMMA StartRestoreRun ==
  ASSUME IInv, Run, NEW op, StartRestore(op), AcceptedRead', ~verifying
  PROVE  Run'
<1>1. tableIndex \in Params \cup {NoIndex}
  BY DEF IInv, TypeOK, ProvisionTypeOK
<1>2. CASE AskFor(Command(op), tableIndex, "RESTORE")
  BY <1>1, <1>2, AskForRun DEF AskingStates
<1>3. CASE CloseSession("FAIL_RESTORE")
  BY <1>3, CloseSessionRun
<1> QED BY <1>2, <1>3 DEF StartRestore

LEMMA StartNextReadRun ==
  ASSUME IInv, Run, NEW from, StartNextRead(from), AcceptedRead',
         state \in {"OPEN", "AUDIT"}, restoreFellBack' = restoreFellBack
  PROVE  Run'
<1>1. PICK p \in Params :
        /\ p \in Readable
        /\ \/ AskFor(Get(p), p, "AUDIT")
           \/ CloseSession(IF verifying THEN "FAIL_VERIFY" ELSE "FAIL_AUDIT")
  BY DEF StartNextRead, IsFirst, From
<1>2. CASE AskFor(Get(p), p, "AUDIT")
  BY <1>1, <1>2, AskForRun DEF AskingStates
<1>3. CASE CloseSession(IF verifying THEN "FAIL_VERIFY" ELSE "FAIL_AUDIT")
  BY <1>3, CloseSessionRun
<1> QED BY <1>1, <1>2, <1>3

LEMMA StartNextReviewRun ==
  ASSUME IInv, Run, NEW from, StartNextReview(from), AcceptedRead',
         state \in {"RESTORE", "WRITE", "REVIEW"}
  PROVE  Run'
<1>1. ~verifying
  BY DEF Run
<1>2. CASE \E p \in Params : IsFirst(p, From(from, Readable)) /\ AskFor(Get(p), p, "REVIEW")
  <2>1. PICK p \in Params : p \in Readable /\ AskFor(Get(p), p, "REVIEW")
    BY <1>2 DEF IsFirst, From
  <2> QED BY <1>1, <2>1, AskForRun DEF AskingStates
<1>3. CASE StartDiscard("FAIL_REVIEW")
  BY <1>3, StartDiscardRun
<1>4. CASE state' = "AWAIT_DECISION" /\ UNCHANGED verifying
  BY <1>1, <1>4 DEF Run, AcceptedRead
<1> QED BY <1>2, <1>3, <1>4 DEF StartNextReview, EnterDecision

LEMMA StartNextWriteRun ==
  ASSUME IInv, Run, NEW from, StartNextWrite(from), state \in {"RESTORE", "WRITE"},
         UNCHANGED reviewing
  PROVE  Run'
<1>1. ~verifying /\ AcceptedRead
  BY DEF Run, AcceptedRead
<1>2. CASE UNCHANGED <<reviewOverflow, accepted, decision>> /\ ~WritesDone
  <2>1. AcceptedRead'
    BY <1>1, <1>2 DEF AcceptedRead
  <2>2. CASE \E p \in Params : AskFor(SetTo(p, Config[p]), p, "WRITE")
    BY <1>1, <2>1, <2>2, AskForRun DEF AskingStates
  <2>3. CASE CloseSession("FAIL_WRITE")
    BY <2>1, <2>3, CloseSessionRun
  <2> QED BY <1>2, <2>2, <2>3 DEF StartNextWrite
<1>3. CASE reviewing /\ accepted' = [p \in Params |-> None] /\ StartNextReview(1)
  <2>1. AcceptedRead'
    BY <1>3 DEF AcceptedRead
  <2> QED BY <1>3, <2>1, StartNextReviewRun
<1>4. CASE ~reviewing /\ StartCommit /\ UNCHANGED accepted
  <2>1. AcceptedRead'
    BY <1>1, <1>4 DEF AcceptedRead
  <2> QED BY <1>4, <2>1, StartCommitRun
<1> QED BY <1>2, <1>3, <1>4 DEF StartNextWrite, WritesDone

\* Every step keeps it.
LEMMA RunStep ==
  ASSUME IInv, Run, [Next]_vars
  PROVE  Run'
<1>0. AcceptedRead
  BY DEF Run, AcceptedRead
<1>1. ASSUME UNCHANGED <<state, verifying, tableIndex, restoreFellBack, wrCount, reviewing,
                         pendingResult, accepted>>,
             state = "COMMIT" => decision' = decision
      PROVE  Run'
  BY <1>1 DEF Run
<1>2. CASE FacadePass \/ RadioPass \/ EnvPass \/ UNCHANGED vars \/ ConsoleInit \/ ConsoleSets
           \/ ConsoleReset \/ ProvisionDecide \/ ProvisionAbort
  BY <1>1, <1>2 DEF FacadePass, RadioPass, EnvPass, vars, ConsoleInit, ConsoleSets,
     ConsoleReset, ProvisionDecide, ProvisionAbort, control, findings, hostSide, history
<1>3. CASE ProvisionInit \/ ProvisionStart
  <2>1. /\ verifying' = FALSE /\ restoreFellBack' = FALSE /\ accepted' = [p \in Params |-> None]
        /\ state' \in {"BRINGUP", "DONE"}
    BY <1>3 DEF ProvisionInit, ProvisionStart, PrepareRun, BeginRun, Finish
  <2> QED BY <2>1 DEF Run
<1>4. CASE IdlePass
  <2>1. UNCHANGED <<accepted, restoreFellBack, hostSide>>
    BY <1>4 DEF IdlePass, BringUpAborted, BringUpFailed, WrongMode, OpenSession, OpenRefused,
       OpenFailed, OpenAborted, StartReadPass, DecisionLapsed, DecisionSave, DecisionDiscard,
       KeepAlive, CloseExpired, CloseEnds, CloseResets, ResetDone, DiscardEnds, Quiet, findings
  <2>2. AcceptedRead' /\ UNCHANGED <<reviewing, decision>>
    BY <1>0, <2>1 DEF AcceptedRead, hostSide
  <2>3. CASE \E o : Finish(o) /\ UNCHANGED verifying
    BY <2>1, <2>3, FinishRun
  <2>4. CASE OpenSession
    BY <2>1, <2>4 DEF OpenSession, BringUpDone, Pass, Run
  <2>5. CASE OpenAborted
    BY <2>2, <2>5, CloseSessionRun DEF OpenAborted
  <2>6. CASE StartReadPass
    <3>1. CASE CloseSession("FAIL_AUDIT")
      BY <2>2, <3>1, CloseSessionRun
    <3>2. CASE StartNextRead(1)
      BY <2>1, <2>2, <2>6, <3>2, StartNextReadRun DEF StartReadPass, Pass
    <3> QED BY <2>6, <3>1, <3>2 DEF StartReadPass
  <2>7. CASE DecisionSave
    BY <2>2, <2>7, StartCommitRun DEF DecisionSave, Pass
  <2>8. CASE DecisionDiscard
    BY <2>2, <2>8, StartDiscardRun DEF DecisionDiscard, Pass
  <2>9. CASE KeepAlive
    <3>1. /\ AskFor(Get(AP), tableIndex, "AWAIT_DECISION") /\ ~verifying
          /\ tableIndex \in Params \cup {NoIndex}
      BY <2>9 DEF KeepAlive, Pass, Run, IInv, TypeOK, ProvisionTypeOK
    <3> QED BY <2>2, <3>1, AskForRun DEF AskingStates
  <2>10. CASE CloseResets /\ state' = "RESET"
    BY <2>2, <2>10 DEF CloseResets, Run, AcceptedRead
  <2>11. CASE ResetDone
    <3>1. verifying
      BY <2>11 DEF ResetDone, Pass, IInv, WriteInv
    <3> QED BY <2>2, <2>11, <3>1 DEF ResetDone, Run, AcceptedRead
  <2> QED
    BY <1>4, <2>3, <2>4, <2>5, <2>6, <2>7, <2>8, <2>9, <2>10, <2>11
    DEF IdlePass, BringUpAborted, BringUpFailed, WrongMode, OpenRefused, OpenFailed,
        DecisionLapsed, CloseExpired, CloseEnds, CloseResets, DiscardEnds
<1>5. CASE VerifyFails \/ AuditAborted \/ ReadContinues \/ VerifyCompletes \/ AuditCompletes
  <2>1. state = "AUDIT" /\ Noted
    BY <1>5 DEF VerifyFails, AuditAborted, ReadContinues, VerifyCompletes, AuditCompletes,
       ReadGoesOn, Completed
  <2>2. AcceptedRead' /\ restoreFellBack' = restoreFellBack
    BY <1>0, <2>1 DEF Noted, AcceptedRead
  <2>3. CASE ReadContinues
    BY <2>1, <2>2, <2>3, StartNextReadRun DEF ReadContinues
  <2>4. CASE AuditCompletes
    BY <2>2, <2>4, StartRestoreRun, CloseSessionRun DEF AuditCompletes
  <2>5. CASE VerifyFails \/ AuditAborted \/ VerifyCompletes
    BY <2>2, <2>5, CloseSessionRun DEF VerifyFails, AuditAborted, VerifyCompletes
  <2> QED BY <1>5, <2>3, <2>4, <2>5
<1>6. CASE RestoreFallsBack \/ RestoreFails \/ WriteFails \/ CommitFails \/ CommitDone
  <2>1. AcceptedRead'
    BY <1>0, <1>6 DEF RestoreFallsBack, RestoreFails, WriteFails, CommitFails, CommitDone,
       findings, AcceptedRead
  <2>2. CASE RestoreFallsBack
    <3>1. ~verifying
      BY <2>2 DEF RestoreFallsBack, Completed, Run
    <3> QED BY <2>1, <2>2, <3>1, StartRestoreRun DEF RestoreFallsBack
  <2>3. CASE RestoreFails \/ WriteFails \/ CommitFails \/ CommitDone
    BY <2>1, <2>3, CloseSessionRun DEF RestoreFails, WriteFails, CommitFails, CommitDone
  <2> QED BY <1>6, <2>2, <2>3
<1>7. CASE RestoreDone \/ WriteDone
  BY <1>7, StartNextWriteRun DEF RestoreDone, WriteDone, Completed
<1>8. CASE ReviewRead
  <2>1. state = "REVIEW" /\ tableIndex \in Readable
    BY <1>8 DEF ReviewRead, Completed, Run
  <2>2. AcceptedRead'
    <3>1. accepted' = accepted \/ accepted' = [accepted EXCEPT ![tableIndex] = req.value]
      BY <1>8 DEF ReviewRead
    <3>2. accepted \in [Params -> Readings \cup {None}]
      BY DEF IInv, TypeOK, ProvisionTypeOK
    <3> QED BY <1>0, <2>1, <3>1, <3>2 DEF AcceptedRead
  <2> QED BY <1>8, <2>1, <2>2, StartNextReviewRun DEF ReviewRead
<1>9. CASE KeepAliveDone
  BY <1>1, <1>9 DEF KeepAliveDone, Quiet, findings, hostSide, history
<1> QED
  BY <1>2, <1>3, <1>4, <1>5, <1>6, <1>7, <1>8, <1>9
  DEF Next, ProvisionStep, ResultPasses, HostCall

(***************************************************************************)
(* What is on the wire.                                                    *)
(***************************************************************************)
\* The facade has a request exactly while the transport is busy with one.
LEMMA BusyIsRequest ==
  ASSUME IInv, OneLine
  PROVE  /\ UserReq <=> cmd = "BUSY"
         /\ UserReq => reqActive /\ fac = "READY" /\ session = "OPEN" /\ state \in AskingStates
BY DEF IInv, RequestOwned, RequestInv, OneLine, IsReady

\* A line between the two ends is the only one.
LEMMA OnlyLine ==
  ASSUME OneLine
  PROVE  /\ toModule # <<>> => /\ Head(toModule) = Expecting /\ Tail(toModule) = <<>>
                               /\ toHost = <<>> /\ cmd \notin {"IDLE", "GUARD_PRE", "ACTIVE"}
         /\ toHost # <<>> => /\ Tail(toHost) = <<>> /\ toModule = <<>>
                             /\ cmd \notin {"IDLE", "GUARD_PRE", "ACTIVE"}
         /\ \A line : Append(<<>>, line) # <<>> /\ Head(Append(<<>>, line)) = line
                      /\ Append(<<>>, line) = <<line>>
<1>1. toHost # <<>> => Tail(toHost) = <<>>
  <2> SUFFICES ASSUME toHost # <<>> PROVE Tail(toHost) = <<>>
    OBVIOUS
  <2>1. PICK line : line = Head(toHost)
    OBVIOUS
  <2>2. toHost = <<line>>
    BY <2>1 DEF OneLine
  <2> QED BY <2>2
<1>2. toModule # <<>> => Head(toModule) = Expecting /\ Tail(toModule) = <<>>
  <2> SUFFICES ASSUME toModule # <<>>
               PROVE  Head(toModule) = Expecting /\ Tail(toModule) = <<>>
    OBVIOUS
  <2>1. PICK c : c = Expecting
    OBVIOUS
  <2>2. toModule = <<c>>
    BY <2>1 DEF OneLine
  <2> QED BY <2>1, <2>2
<1> QED BY <1>1, <1>2 DEF OneLine

\* A pass of the facade, the module and the faults leave the engine alone.
LEMMA LinkFrame ==
  ASSUME FacadePass \/ RadioPass \/ EnvPass
  PROVE  /\ UNCHANGED <<state, result, pendingResult, reqActive, tableIndex, verifying,
                        auditMismatch, unreadable, reviewOverflow, accepted, restoreFellBack,
                        reviewing, decision, abortRequested, sent, wrCount,
                        storedAtStart, ramAtStart>>
         /\ Awaited' = Awaited
BY DEF FacadePass, RadioPass, EnvPass, control, findings, hostSide, history, Awaited,
   Get, SetTo, Command

\* What the module, and what may go wrong, does to the line.
LEMMA RadioLine ==
  ASSUME IInv, OneLine, RadioPass \/ EnvPass
  PROVE  OneLine'
<1>1. /\ UNCHANGED facadeVars
      /\ UserReq' = UserReq /\ Expecting' = Expecting
  BY LinkFrame DEF RadioPass, EnvPass, RadioStep, EnvStep, RadioIgnores, RadioEnters,
     RadioObeys, RadioRefuses, RadioLapses, RadioReboots, LineLost, facadeVars, UserReq,
     Expecting, Command
<1>2. \/ UNCHANGED wires
      \/ toModule # <<>> /\ toModule' = <<>> /\ toHost' = <<>>
      \/ toModule # <<>> /\ toModule' = <<>> /\ \E line : toHost' = <<line>>
      \/ toHost # <<>> /\ toModule' = <<>> /\ toHost' = <<>>
  BY OnlyLine DEF RadioPass, EnvPass, RadioStep, EnvStep, RadioIgnores, RadioEnters, RadioObeys,
     RadioRefuses, RadioLapses, RadioReboots, LineLost, wires, Answer
<1>3. CASE UNCHANGED wires
  BY <1>1, <1>3 DEF OneLine, wires, facadeVars
<1>4. CASE toModule # <<>> \/ toHost # <<>>
  <2>1. cmd' \notin {"IDLE", "GUARD_PRE", "ACTIVE"} /\ (cmd' = "BUSY" => UserReq')
    BY <1>1, <1>4, OnlyLine DEF facadeVars, OneLine
  <2> QED BY <1>1, <1>2, <1>3, <2>1 DEF OneLine
<1> QED BY <1>2, <1>3, <1>4

\* What a pass of the facade does to it.
LEMMA FacadeLine ==
  ASSUME InTime, IInv, OneLine, FacadePass
  PROVE  OneLine'
<1>0. /\ UserReq <=> cmd = "BUSY"
      /\ UserReq => fac = "READY" /\ session = "OPEN"
  BY BusyIsRequest
<1>1. CASE BringUpReady
  <2>1. ~UserReq'
    BY <1>0, <1>1 DEF BringUpReady, UserReq
  <2>2. /\ toHost' = <<>>
        /\ \/ cmd' \in {"IDLE", "ACTIVE"} /\ toModule' = <<>>
           \/ cmd' = "EXITING" /\ toModule' = <<Command("CN")>>
    BY <1>1 DEF BringUpReady
  <2>3. cmd' = "EXITING" => Expecting' = Command("CN")
    BY <2>1 DEF Expecting
  <2> QED BY <2>2, <2>3 DEF OneLine
<1>2. CASE BringUpFails \/ SessionDropped
  BY <1>2, LinkFrame DEF BringUpFails, SessionDropped, OneLine, wires, radioVars, UserReq,
     Expecting, Command
<1>3. CASE EnterSession
  <2>1. toModule' = <<>> /\ toHost' = <<>> /\ cmd' = "GUARD_PRE"
    BY <1>3 DEF EnterSession, OneLine, wires
  <2> QED BY <2>1 DEF OneLine
<1>4. CASE SendEscape
  <2>1. toHost' = <<>> /\ cmd' = "WAIT_OK" /\ ~UserReq' /\ toModule' = Append(<<>>, Command("ESC"))
    BY <1>0, <1>4 DEF SendEscape, OneLine, TransportMovesTo, Send, UserReq
  <2>2. Expecting' = Command("ESC") /\ toModule' = <<Command("ESC")>>
    BY <2>1, OnlyLine DEF Expecting
  <2> QED BY <2>1, <2>2 DEF OneLine
<1>5. CASE LineArrives
  <2>1. toModule' = <<>> /\ toHost' = <<>>
    BY <1>5, OnlyLine DEF LineArrives
  <2>2. cmd' # "BUSY"
    BY <1>0, <1>5 DEF LineArrives, TransportMovesTo, UseCmd
  <2> QED BY <2>1, <2>2 DEF OneLine
<1>6. CASE RequestTimesOut \/ TransportTimesOut
  <2>1. toModule' = <<>> /\ toHost' = <<>>
    BY <1>6 DEF RequestTimesOut, TransportTimesOut, Overdue, InTime, OneLine, wires
  <2>2. cmd' \in {"ACTIVE", "IDLE"}
    BY <1>6 DEF RequestTimesOut, TransportTimesOut, TransportMovesTo
  <2> QED BY <2>1, <2>2 DEF OneLine
<1> QED
  BY <1>1, <1>2, <1>3, <1>4, <1>5, <1>6 DEF FacadePass, FacadeStep

\* A request of the engine's, its exit, and a reset leave one line or none.
LEMMA AskForLine ==
  ASSUME IInv, OneLine, NEW c, NEW p, NEW st \in AskingStates, AskFor(c, p, st),
         c = Awaited'
  PROVE  OneLine'
<1>1. /\ toModule' = Append(<<>>, c) /\ toHost' = <<>> /\ cmd' = "BUSY" /\ UserReq'
  BY DEF AskFor, Ask, Submit, CanSubmit, Send, OneLine, UserReq
<1>2. toModule' = <<c>> /\ Expecting' = c
  BY <1>1, OnlyLine DEF Expecting
<1> QED BY <1>1, <1>2 DEF OneLine

LEMMA SessionCloseLine ==
  ASSUME OneLine, SessionClose
  PROVE  OneLine'
<1>1. /\ toModule' = Append(<<>>, Command("CN")) /\ toHost' = <<>> /\ cmd' = "EXITING" /\ ~UserReq'
  BY DEF SessionClose, Send, OneLine, UserReq
<1>2. toModule' = <<Command("CN")>> /\ Expecting' = Command("CN")
  BY <1>1, OnlyLine DEF Expecting
<1> QED BY <1>1, <1>2 DEF OneLine

LEMMA ResetLine ==
  ASSUME OneLine, HwReset \/ (HwResetRefused /\ cmd \in {"IDLE", "ACTIVE"})
  PROVE  OneLine' /\ cmd' = "IDLE" /\ toModule' = <<>>
<1>1. toModule' = <<>> /\ toHost' = <<>> /\ cmd' = "IDLE"
  BY DEF HwReset, HwResetRefused, OneLine
<1> QED BY <1>1 DEF OneLine

\* Nothing else of the link's, with no request out: the engine may move on.
LEMMA QuietLine ==
  ASSUME IInv, OneLine, ~UserReq, UNCHANGED <<wires, cmd, req>>
  PROVE  OneLine'
<1>1. ~UserReq' /\ Expecting' = Expecting
  BY DEF UserReq, Expecting, Command
<1> QED BY <1>1 DEF OneLine, wires

(***************************************************************************)
(* Where the engine is, against the link and the module.                   *)
(***************************************************************************)
\* What a pass in a session ends with: the engine asks, closes the session,
\* discards, or waits for the host.
Onward ==
  \/ \E c, p : \E st \in AskingStates : AskFor(c, p, st) /\ c = Awaited'
  \/ \E outcome : CloseSession(outcome)
  \/ \E outcome : StartDiscard(outcome)
  \/ state' = "AWAIT_DECISION" /\ reqActive' = FALSE
     /\ UNCHANGED <<linkVars, verifying, history>>

\* Whichever it is keeps the line, the place and the module's registers.
LEMMA OnwardKeeps ==
  ASSUME IInv, OneLine, Kept, Onward,
         session = "OPEN", cmd = "ACTIVE", fac = "READY", ~UserReq, state # "DONE"
  PROVE  OneLine' /\ Place' /\ Kept'
<1>0. wrCount \in Nat
  BY DEF IInv, TypeOK, ProvisionTypeOK
<1>1. CASE \E c, p : \E st \in AskingStates : AskFor(c, p, st) /\ c = Awaited'
  <2>1. PICK c, p : \E st \in AskingStates : AskFor(c, p, st) /\ c = Awaited'
    BY <1>1
  <2>2. PICK st \in AskingStates : AskFor(c, p, st) /\ c = Awaited'
    BY <2>1
  <2>3. OneLine'
    BY <2>2, AskForLine
  <2>4. /\ state' = st /\ reqActive' = TRUE /\ fac' = "READY" /\ session' = "OPEN"
        /\ UNCHANGED <<ram, flash, applied, verifying, storedAtStart, ramAtStart>>
        /\ wrCount' = 0 => wrCount = 0
    BY <1>0, <2>2 DEF AskFor, Ask, Submit, radioVars
  <2>5. Place'
    BY <2>4 DEF Place, AskingStates
  <2>6. Kept'
    BY <2>4 DEF Kept, AskingStates
  <2> QED BY <2>3, <2>5, <2>6
<1>2. CASE \E outcome : CloseSession(outcome)
  <2>1. PICK outcome : CloseSession(outcome)
    BY <1>2
  <2>2. /\ reqActive' = FALSE /\ UNCHANGED <<verifying, wrCount, storedAtStart, ramAtStart>>
        /\ state' \in {"CLOSE", "DONE"}
        /\ SessionClose \/ UNCHANGED linkVars
    BY <2>1 DEF CloseSession, Finish, history
  <2>3. OneLine'
    BY <2>2, SessionCloseLine, QuietLine DEF linkVars, wires
  <2>4. /\ UNCHANGED <<fac, session, ram, flash, applied>>
        /\ cmd' \in {"ACTIVE", "EXITING"}
    BY <2>2 DEF SessionClose, linkVars, radioVars
  <2>5. Place'
    BY <2>2, <2>4 DEF Place, AskingStates
  <2>6. Kept'
    BY <2>2, <2>4 DEF Kept
  <2> QED BY <2>3, <2>5, <2>6
<1>3. CASE \E outcome : StartDiscard(outcome)
  <2>1. PICK outcome : StartDiscard(outcome)
    BY <1>3
  <2>2. /\ reqActive' = FALSE /\ UNCHANGED <<verifying, wrCount, storedAtStart, ramAtStart>>
        /\ \/ HwReset /\ state' = "DISCARD"
           \/ HwResetRefused /\ state' = "DONE"
    BY <2>1 DEF StartDiscard, Finish, history
  <2>3. OneLine'
    BY <2>2, ResetLine
  <2>4. CASE HwReset /\ state' = "DISCARD"
    BY <2>2, <2>3, <2>4 DEF HwReset, Restart, Place, Kept, AskingStates
  <2>5. CASE HwResetRefused /\ state' = "DONE"
    BY <2>2, <2>3, <2>5 DEF HwResetRefused, radioVars, Place, Kept, AskingStates
  <2> QED BY <2>2, <2>3, <2>4, <2>5
<1>4. CASE state' = "AWAIT_DECISION" /\ reqActive' = FALSE
           /\ UNCHANGED <<linkVars, verifying, history>>
  BY <1>4, QuietLine DEF linkVars, wires, history, Place, Kept, AskingStates
<1> QED BY <1>1, <1>2, <1>3, <1>4 DEF Onward

\* The chains of the engine are of this kind.
LEMMA ChainsAreOnward ==
  ASSUME NEW from, IInv, Run
  PROVE  /\ StartCommit => Onward
         /\ StartRestore("R1") /\ ~restoreFellBack' => Onward
         /\ StartRestore("RE") /\ restoreFellBack' => Onward
         /\ StartNextRead(from) => Onward
         /\ StartNextReview(from) => Onward
         /\ StartNextWrite(from) => Onward
<1>1. \A c, p : \A st \in AskingStates :
         AskFor(c, p, st) /\ c = Awaited' => Onward
  BY DEF Onward
<1>2. ASSUME NEW c, NEW p, NEW st \in AskingStates, AskFor(c, p, st)
      PROVE  state' = st /\ tableIndex' = p
  BY <1>2 DEF AskFor
<1>3. StartCommit => Onward
  <2>1. AskFor(Command("WR"), tableIndex, "COMMIT") => Awaited' = Command("WR")
    BY DEF AskFor, Awaited, Command
  <2> QED BY <1>1, <2>1 DEF StartCommit, Onward, AskingStates
<1>4. StartRestore("R1") /\ ~restoreFellBack' => Onward
  <2>1. AskFor(Command("R1"), tableIndex, "RESTORE") /\ ~restoreFellBack' => Awaited' = Command("R1")
    BY DEF AskFor, Awaited, Command
  <2> QED BY <1>1, <2>1 DEF StartRestore, Onward, AskingStates
<1>5. StartRestore("RE") /\ restoreFellBack' => Onward
  <2>1. AskFor(Command("RE"), tableIndex, "RESTORE") /\ restoreFellBack' => Awaited' = Command("RE")
    BY DEF AskFor, Awaited, Command
  <2> QED BY <1>1, <2>1 DEF StartRestore, Onward, AskingStates
<1>6. \A p : /\ AskFor(Get(p), p, "AUDIT") => Onward
             /\ AskFor(Get(p), p, "REVIEW") => Onward
             /\ AskFor(SetTo(p, Config[p]), p, "WRITE") => Onward
  <2> TAKE p
  <2>1. /\ AskFor(Get(p), p, "AUDIT") => Awaited' = Get(p)
        /\ AskFor(Get(p), p, "REVIEW") => Awaited' = Get(p)
        /\ AskFor(SetTo(p, Config[p]), p, "WRITE") => Awaited' = SetTo(p, Config[p])
    BY DEF AskFor, Awaited, Get, SetTo
  <2> QED BY <1>1, <2>1 DEF AskingStates
<1>7. StartNextRead(from) => Onward
  BY <1>6 DEF StartNextRead, Onward
<1>8. \A n : StartNextReview(n) => Onward
  BY <1>6 DEF StartNextReview, EnterDecision, Onward
<1>9. StartNextWrite(from) => Onward
  BY <1>3, <1>6, <1>8 DEF StartNextWrite, WritesDone, Onward
<1> QED BY <1>3, <1>4, <1>5, <1>7, <1>8, <1>9

\* A pass that finds its request completed goes onward, but for a keep-alive.
LEMMA ResultPassesOnward ==
  ASSUME IInv, Run, ResultPasses
  PROVE  /\ session = "OPEN" /\ cmd = "ACTIVE" /\ fac = "READY" /\ ~UserReq /\ reqActive
         /\ state \in AskingStates
         /\ Onward \/ KeepAliveDone
<1>1. ResultReady
  BY DEF ResultPasses, VerifyFails, AuditAborted, ReadContinues, ReadGoesOn, VerifyCompletes,
     AuditCompletes, RestoreFallsBack, RestoreFails, RestoreDone, WriteFails, WriteDone,
     ReviewRead, KeepAliveDone, CommitFails, CommitDone, Completed
<1>2. /\ session = "OPEN" /\ cmd = "ACTIVE" /\ fac = "READY" /\ ~UserReq /\ reqActive
      /\ state \in AskingStates
  BY <1>1 DEF ResultReady, UserReq, IInv, RequestOwned, RequestInv, IsReady
<1> SUFFICES Onward \/ KeepAliveDone
  BY <1>2
<1>3. \A outcome : CloseSession(outcome) => Onward
  BY DEF Onward
<1>4. PICK next : next = tableIndex + 1
  OBVIOUS
<1>5. CASE VerifyFails \/ AuditAborted \/ VerifyCompletes \/ RestoreFails \/ WriteFails
           \/ CommitFails \/ CommitDone
  BY <1>3, <1>5 DEF VerifyFails, AuditAborted, VerifyCompletes, RestoreFails, WriteFails,
     CommitFails, CommitDone
<1>6. CASE ReadContinues \/ RestoreDone \/ WriteDone \/ ReviewRead
  <2>1. \/ StartNextRead(next) \/ StartNextReview(next)
        \/ StartNextWrite(next) \/ StartNextWrite(1)
    BY <1>4, <1>6 DEF ReadContinues, RestoreDone, WriteDone, ReviewRead
  <2> QED BY <2>1, ChainsAreOnward
<1>7. CASE AuditCompletes
  <2>1. ~restoreFellBack'
    BY <1>7 DEF AuditCompletes, ReadGoesOn, Completed, Noted, Run
  <2>2. CloseSession("ALREADY_PROVISIONED") \/ StartRestore("R1")
    BY <1>7 DEF AuditCompletes
  <2>3. StartRestore("R1") /\ ~restoreFellBack' => Onward
    BY ChainsAreOnward
  <2> QED BY <1>3, <2>1, <2>2, <2>3
<1>8. CASE RestoreFallsBack
  <2>1. StartRestore("RE") /\ restoreFellBack' => Onward
    BY ChainsAreOnward
  <2> QED BY <1>8, <2>1 DEF RestoreFallsBack
<1> QED BY <1>5, <1>6, <1>7, <1>8 DEF ResultPasses

\* A pass with no request outstanding.
LEMMA IdlePassKeeps ==
  ASSUME IInv, OneLine, Place, Run, Kept, IdlePass
  PROVE  OneLine' /\ Place' /\ Kept'
<1>1. ~reqActive /\ ~UserReq
  <2>1. ~reqActive
    BY DEF IdlePass, BringUpAborted, BringUpFailed, WrongMode, OpenSession, OpenRefused,
       OpenFailed, OpenAborted, StartReadPass, DecisionLapsed, DecisionSave, DecisionDiscard,
       KeepAlive, CloseExpired, CloseEnds, CloseResets, ResetDone, DiscardEnds, BringUpDone, Pass
  <2> QED BY <2>1, NoRequest
<1>2. ASSUME state' = "DONE", UNCHANGED <<wires, cmd, req, flash, wrCount,
                                          storedAtStart, ramAtStart>>
      PROVE  OneLine' /\ Place' /\ Kept'
  BY <1>1, <1>2, QuietLine DEF Place, Kept, AskingStates
<1>3. CASE \E outcome : Finish(outcome) /\ Quiet
  BY <1>2, <1>3 DEF Finish, Quiet, linkVars, wires, history
<1>4. CASE OpenSession
  <2>1. /\ state' = "OPEN" /\ fac' = "READY" /\ reqActive' = FALSE
        /\ session' = "OPEN" => cmd' = "ACTIVE"
        /\ UNCHANGED <<wires, cmd, req, ram, applied, flash, verifying, wrCount,
                       storedAtStart, ramAtStart>>
        /\ state = "BRINGUP"
    BY <1>1, <1>4 DEF OpenSession, BringUpDone, Pass, SessionOpen, IsReady, radioVars, history,
       IInv, TypeOK, ProvisionTypeOK
  <2> QED BY <1>1, <2>1, QuietLine DEF Place, Kept, AskingStates
<1>5. CASE OpenFailed
  BY <1>2, <1>5 DEF OpenFailed, Finish, SessionOpenExpires, linkVars, wires, radioVars, history
<1>6. CASE OpenAborted \/ StartReadPass \/ DecisionSave \/ DecisionDiscard \/ KeepAlive
  <2>1. state \in {"OPEN", "AWAIT_DECISION"} /\ session = "OPEN"
    BY <1>6 DEF OpenAborted, StartReadPass, DecisionSave, DecisionDiscard, KeepAlive, Pass,
       SessionIsOpen, IInv, RequestInv
  <2>2. cmd = "ACTIVE" /\ fac = "READY"
    BY <1>1, <2>1 DEF Place, AskingStates
  <2>3. Onward
    <3>1. CASE KeepAlive
      BY <3>1 DEF KeepAlive, Onward, AskFor, Awaited, AskingStates
    <3>2. CASE StartReadPass
      <4>1. CloseSession("FAIL_AUDIT") \/ StartNextRead(1)
        BY <3>2 DEF StartReadPass
      <4> QED BY <4>1, ChainsAreOnward DEF Onward
    <3>3. CASE DecisionSave
      <4>1. StartCommit => Onward
        BY ChainsAreOnward
      <4> QED BY <3>3, <4>1 DEF DecisionSave
    <3>4. CASE OpenAborted \/ DecisionDiscard
      BY <3>4 DEF OpenAborted, DecisionDiscard, Onward
    <3> QED BY <1>6, <3>1, <3>2, <3>3, <3>4
  <2> QED BY <1>1, <2>1, <2>2, <2>3, OnwardKeeps
<1>7. CASE CloseResets
  <2>1. cmd = "IDLE" /\ UNCHANGED <<wrCount, storedAtStart, ramAtStart>>
    BY <1>7 DEF CloseResets, Pass, SessionIsOpen, Place, history
  <2>2. CASE HwReset /\ state' = "RESET"
    BY <2>1, <2>2, ResetLine DEF HwReset, Restart, Place, Kept, AskingStates
  <2>3. CASE HwResetRefused /\ state' = "DONE"
    BY <2>1, <2>3, ResetLine DEF HwResetRefused, radioVars, Place, Kept, AskingStates
  <2> QED BY <1>7, <2>2, <2>3 DEF CloseResets, Finish
<1>8. CASE ResetDone
  <2>1. /\ state = "RESET" /\ state' = "BRINGUP"
        /\ UNCHANGED <<wires, cmd, req, ram, applied, flash, verifying, wrCount,
                       storedAtStart, ramAtStart>>
    BY <1>8 DEF ResetDone, Pass, Quiet, linkVars, wires, history
  <2> QED BY <1>1, <2>1, QuietLine DEF Place, Kept, AskingStates
<1> QED
  BY <1>3, <1>4, <1>5, <1>6, <1>7, <1>8
  DEF IdlePass, BringUpAborted, BringUpFailed, WrongMode, OpenRefused, DecisionLapsed,
      CloseExpired, CloseEnds, DiscardEnds

\* A pass that finds its request completed.
LEMMA ResultPassKeeps ==
  ASSUME IInv, OneLine, Place, Run, Kept, ResultPasses
  PROVE  OneLine' /\ Place' /\ Kept'
<1>1. /\ session = "OPEN" /\ cmd = "ACTIVE" /\ fac = "READY" /\ ~UserReq /\ reqActive
      /\ state \in AskingStates
      /\ Onward \/ KeepAliveDone
  BY ResultPassesOnward
<1>2. CASE Onward
  BY <1>1, <1>2, OnwardKeeps DEF AskingStates
<1>3. CASE KeepAliveDone
  <2>1. /\ state = "AWAIT_DECISION" /\ state' = state
        /\ UNCHANGED <<linkVars, verifying, history>>
    BY <1>3 DEF KeepAliveDone, Completed, Quiet
  <2> QED BY <1>1, <2>1, QuietLine DEF linkVars, wires, history, Place, Kept, AskingStates
<1> QED BY <1>1, <1>2, <1>3

\* The host's calls, and the run at boot.
LEMMA HostKeeps ==
  ASSUME IInv, OneLine, Place, Run, Kept, ProvisionInit \/ HostCall
  PROVE  OneLine' /\ Place' /\ Kept'
<1>1. state \in {"IDLE", "DONE"} => ~reqActive /\ ~UserReq
  BY NoRequest DEF IInv, RequestInv, AskingStates
<1>2. CASE ProvisionInit \/ ProvisionStart
  <2>1. /\ state \in {"IDLE", "DONE"} /\ state' \in {"BRINGUP", "DONE"}
        /\ verifying' = FALSE /\ storedAtStart' = flash
        /\ UNCHANGED <<wires, cmd, req, flash>>
    BY <1>2 DEF ProvisionInit, ProvisionStart, PrepareRun, BeginRun, Finish, Init_Facade,
       linkVars, wires, radioVars
  <2> QED BY <1>1, <2>1, QuietLine DEF Place, Kept, AskingStates
<1>3. CASE ConsoleInit
  <2>1. /\ fac = "OFF" /\ ~UserReq /\ state \notin {"OPEN", "CLOSE"} \cup AskingStates
    BY <1>3, NoRequest DEF ConsoleInit, Init_Facade, IInv, RequestInv, IsReady, Place
  <2>2. UNCHANGED <<wires, cmd, req, session, ram, applied, flash, control, history>>
    BY <1>3 DEF ConsoleInit, Init_Facade, radioVars
  <2> QED BY <2>1, <2>2, QuietLine DEF Place, Kept, control, history, AskingStates
<1>4. CASE ConsoleSets
  <2>1. /\ state \in {"IDLE", "DONE"} /\ (verifying => state = "DONE")
        /\ UNCHANGED <<wires, cmd, req, flash, control, history>>
    BY <1>4 DEF ConsoleSets, facadeVars, Run
  <2> QED BY <1>1, <2>1, QuietLine DEF Place, Kept, control, history, AskingStates
<1>5. CASE ConsoleReset
  <2>1. state \in {"IDLE", "DONE"} /\ HwReset /\ UNCHANGED <<control, history>>
    BY <1>5 DEF ConsoleReset
  <2> QED
    BY <2>1, ResetLine DEF HwReset, Restart, Place, Kept, control, history, AskingStates
<1>6. CASE ProvisionDecide \/ ProvisionAbort
  <2>1. UNCHANGED <<linkVars, control, history, restoreFellBack>>
    BY <1>6 DEF ProvisionDecide, ProvisionAbort
  <2>2. Expecting' = Expecting /\ UserReq' = UserReq
    BY <2>1 DEF linkVars, control, Expecting, Awaited, UserReq, Get, SetTo, Command
  <2> QED
    BY <2>1, <2>2 DEF linkVars, control, history, OneLine, Place, Kept, AskingStates
<1> QED BY <1>2, <1>3, <1>4, <1>5, <1>6 DEF HostCall

\* What the module does with a line: the exit, or the engine's command.
LEMMA ObeyCases ==
  ASSUME IInv, OneLine, RadioObeys
  PROVE  /\ radioCmd /\ cmd' = cmd /\ session' = session /\ fac' = fac /\ req' = req
         /\ \/ /\ ~UserReq /\ UNCHANGED <<ram, flash>> /\ applied' = ram /\ ~radioCmd'
            \/ /\ UserReq /\ state \in {"AUDIT", "REVIEW", "AWAIT_DECISION"}
               /\ UNCHANGED <<ram, flash, applied>> /\ radioCmd'
               /\ state = "AUDIT" => toHost' = <<ValueLine(ram[tableIndex])>>
            \/ UserReq /\ state = "RESTORE" /\ UNCHANGED <<flash, applied>> /\ radioCmd'
            \/ /\ UserReq /\ state = "WRITE" /\ UNCHANGED <<flash, applied>> /\ radioCmd'
               /\ ram' = [ram EXCEPT ![tableIndex] = Config[tableIndex]]
            \/ /\ UserReq /\ state = "COMMIT" /\ UNCHANGED <<ram, applied>> /\ radioCmd'
               /\ flash' = ram
<1> DEFINE c == Head(toModule)
<1>1. c = Expecting /\ toHost = <<>>
  BY OnlyLine DEF RadioObeys
<1>2. /\ radioCmd /\ c.op # "ESC" /\ UNCHANGED facadeVars
      /\ toHost' = <<IF c.op = "GET" THEN ValueLine(ram[c.i]) ELSE OkLine>>
      /\ ram' = CASE c.op = "SET" -> [ram EXCEPT ![c.i] = c.v]
                  [] c.op = "R1"  -> Factory
                  [] c.op = "RE"  -> Custom
                  [] OTHER        -> ram
      /\ flash' = IF c.op = "WR" THEN ram ELSE flash
      /\ applied' = IF c.op = "CN" THEN ram ELSE applied
      /\ radioCmd' = (c.op # "CN")
  BY <1>1, OnlyLine DEF RadioObeys, Answer
<1>3. UserReq => state \in AskingStates
  BY BusyIsRequest
<1> HIDE DEF c
<1>4. CASE ~UserReq
  <2>1. c.op = "CN"
    BY <1>1, <1>2, <1>4 DEF Expecting, Command
  <2> QED BY <1>2, <1>4, <2>1 DEF facadeVars
<1>5. CASE UserReq /\ state \in {"AUDIT", "REVIEW", "AWAIT_DECISION"}
  <2>1. c.op = "GET" /\ (state = "AUDIT" => c.i = tableIndex)
    BY <1>1, <1>5 DEF Expecting, Awaited, Get
  <2> QED BY <1>2, <1>5, <2>1 DEF facadeVars
<1>6. CASE UserReq /\ state = "RESTORE"
  <2>1. c.op \in {"R1", "RE"}
    BY <1>1, <1>6 DEF Expecting, Awaited, Command
  <2> QED BY <1>2, <1>6, <2>1 DEF facadeVars
<1>7. CASE UserReq /\ state = "WRITE"
  <2>1. c.op = "SET" /\ c.i = tableIndex /\ c.v = Config[tableIndex]
    BY <1>1, <1>7 DEF Expecting, Awaited, SetTo
  <2> QED BY <1>2, <1>7, <2>1 DEF facadeVars
<1>8. CASE UserReq /\ state = "COMMIT"
  <2>1. c.op = "WR"
    BY <1>1, <1>8 DEF Expecting, Awaited, Command
  <2> QED BY <1>2, <1>8, <2>1 DEF facadeVars
<1> QED BY <1>3, <1>4, <1>5, <1>6, <1>7, <1>8 DEF AskingStates

\* Everything else that happens to its registers.
LEMMA RadioEffects ==
  ASSUME IInv, OneLine, FacadePass \/ RadioPass \/ EnvPass, ~RadioObeys
  PROVE  \/ /\ UNCHANGED <<ram, flash>> /\ applied' \in {applied, ram}
            /\ radioCmd' => radioCmd \/ fac = "BRINGUP" \/ cmd = "WAIT_OK"
         \/ ram' = flash /\ applied' = flash /\ flash' = flash /\ ~radioCmd'
<1>1. CASE FacadePass
  BY <1>1 DEF FacadePass, FacadeStep, BringUpReady, BringUpFails, EnterSession, SendEscape,
     LineArrives, RequestTimesOut, TransportTimesOut, SessionDropped, radioVars
<1>2. CASE RadioIgnores \/ RadioRefuses \/ RadioLapses \/ RadioReboots \/ LineLost
  BY <1>2 DEF RadioIgnores, RadioRefuses, RadioLapses, RadioReboots, LineLost, radioVars, Restart
<1>3. CASE RadioEnters
  <2>1. Expecting.op = "ESC"
    BY <1>3, OnlyLine DEF RadioEnters
  <2>2. cmd = "WAIT_OK"
    BY <2>1 DEF Expecting, Awaited, Get, SetTo, Command
  <2> QED BY <1>3, <2>2 DEF RadioEnters
<1> QED BY <1>1, <1>2, <1>3 DEF RadioPass, EnvPass, RadioStep, EnvStep

\* A pass of the facade, and everything the module and the line may do.
LEMMA LinkKeeps ==
  ASSUME InTime, IInv, OneLine, Place, Run, Kept, FacadePass \/ RadioPass \/ EnvPass
  PROVE  OneLine' /\ Place' /\ Kept'
<1>1. OneLine'
  BY RadioLine, FacadeLine
<1>2. Kept'
  <2>1. CASE RadioObeys
    BY <2>1, ObeyCases, LinkFrame DEF Kept, Run, Place, AskingStates
  <2>2. CASE ~RadioObeys
    BY <2>2, RadioEffects, LinkFrame DEF Kept
  <2> QED BY <2>1, <2>2
<1>3. Place'
  <2>1. CASE RadioPass \/ EnvPass
    <3>1. UNCHANGED facadeVars
      BY <2>1 DEF RadioPass, EnvPass, RadioStep, EnvStep, RadioIgnores, RadioEnters, RadioObeys,
         RadioRefuses, RadioLapses, RadioReboots, LineLost
    <3> QED BY <3>1, LinkFrame DEF facadeVars, Place
  <2>2. CASE FacadePass
    <3>1. /\ UNCHANGED <<state, reqActive>>
          /\ UserReq => cmd = "BUSY" /\ reqActive /\ session = "OPEN"
          /\ reqActive => UserReq
      BY <2>2, LinkFrame, BusyIsRequest DEF FacadePass, ResultReady, UserReq
    <3> QED
      BY <2>2, <3>1 DEF FacadePass, FacadeStep, BringUpReady, BringUpFails, EnterSession,
         SendEscape, LineArrives, RequestTimesOut, TransportTimesOut, SessionDropped,
         TransportMovesTo, SessionAfter, Place, IsReady, AskingStates
  <2> QED BY <2>1, <2>2
<1> QED BY <1>1, <1>2, <1>3

\* Nothing is on the wire before anything has run.
LEMMA LineInit == Init => LineInv
BY DEF Init, LinkInit, LineInv, OneLine, Place, Run, Kept, UserReq, AskingStates

\* Every step keeps what was said of the line, the place and the registers.
LEMMA LineStep ==
  ASSUME InTime, IInv, LineInv, [Next]_vars
  PROVE  LineInv'
<1>1. Run'
  BY RunStep DEF LineInv
<1>2. CASE UNCHANGED vars
  <2>1. UNCHANGED <<linkVars, control, restoreFellBack, history>>
    BY <1>2 DEF vars
  <2>2. Expecting' = Expecting /\ UserReq' = UserReq
    BY <2>1 DEF linkVars, control, Expecting, Awaited, UserReq, Get, SetTo, Command
  <2>3. OneLine' /\ Place' /\ Kept'
    BY <2>1, <2>2 DEF LineInv, linkVars, control, history, OneLine, Place, Kept, AskingStates
  <2> QED BY <1>1, <2>3 DEF LineInv
<1>3. CASE Next
  <2>1. OneLine' /\ Place' /\ Kept'
    BY <1>3, IdlePassKeeps, ResultPassKeeps, HostKeeps, LinkKeeps
    DEF LineInv, Next, ProvisionStep
  <2> QED BY <1>1, <2>1 DEF LineInv
<1> QED BY <1>2, <1>3

\* While the deadlines leave the module time to answer, at most one line is
\* under way, and it is the one the engine's position calls for.
THEOREM LineInvariance ==
  ASSUME InTime
  PROVE  Spec => [](IInv /\ LineInv)
<1>1. Init => IInv /\ LineInv
  BY InitStep, LineInit
<1>2. IInv /\ LineInv /\ [Next]_vars => IInv' /\ LineInv'
  BY NextStep, LineStep
<1> QED BY <1>1, <1>2, PTL DEF Spec

\* The engine itself never changes the flash.
LEMMA EngineLeavesFlash ==
  ASSUME IInv, Run, ProvisionStep \/ HostCall
  PROVE  flash' = flash
<1>1. /\ Onward => flash' = flash
      /\ (\E outcome : CloseSession(outcome)) => flash' = flash
  BY DEF Onward, AskFor, Ask, Submit, CloseSession, SessionClose, StartDiscard, HwReset,
     HwResetRefused, Restart, linkVars, radioVars
<1>2. CASE ResultPasses
  BY <1>1, <1>2, ResultPassesOnward DEF KeepAliveDone, Quiet, linkVars
<1>3. CASE OpenAborted \/ StartReadPass \/ DecisionSave \/ DecisionDiscard \/ KeepAlive
  <2>1. CASE StartReadPass
    <3>1. CloseSession("FAIL_AUDIT") \/ StartNextRead(1)
      BY <2>1 DEF StartReadPass
    <3> QED BY <1>1, <3>1, ChainsAreOnward
  <2>2. CASE DecisionSave
    <3>1. StartCommit => Onward
      BY ChainsAreOnward
    <3> QED BY <1>1, <2>2, <3>1 DEF DecisionSave
  <2>3. CASE OpenAborted \/ DecisionDiscard \/ KeepAlive
    BY <1>1, <2>3 DEF OpenAborted, DecisionDiscard, KeepAlive, StartDiscard, HwReset,
       HwResetRefused, Restart, AskFor, Ask, Submit, radioVars
  <2> QED BY <1>3, <2>1, <2>2, <2>3
<1>4. CASE BringUpAborted \/ BringUpFailed \/ WrongMode \/ OpenRefused \/ DecisionLapsed
           \/ CloseExpired \/ CloseEnds \/ ResetDone \/ DiscardEnds
  BY <1>4 DEF BringUpAborted, BringUpFailed, WrongMode, OpenRefused, DecisionLapsed,
     CloseExpired, CloseEnds, ResetDone, DiscardEnds, Quiet, linkVars
<1>5. CASE OpenSession \/ OpenFailed \/ CloseResets
  BY <1>5 DEF OpenSession, SessionOpen, OpenFailed, SessionOpenExpires, CloseResets, HwReset,
     HwResetRefused, Restart, linkVars, radioVars
<1>6. CASE ProvisionInit \/ HostCall
  BY <1>6 DEF ProvisionInit, HostCall, ConsoleInit, ProvisionStart, ConsoleSets, ConsoleReset,
     ProvisionDecide, ProvisionAbort, Init_Facade, HwReset, Restart, linkVars, radioVars
<1> QED BY <1>2, <1>3, <1>4, <1>5, <1>6 DEF ProvisionStep, IdlePass

\* Which passes end a run, and with what.
LEMMA Endings ==
  ASSUME IInv, Run, [Next]_vars, state # "DONE", state' = "DONE"
  PROVE  \/ DiscardEnds \/ CloseEnds \/ CloseExpired
         \/ AuditCompletes /\ CloseSession("ALREADY_PROVISIONED")
         \/ VerifyCompletes
         \/ result' \notin {"DECLINED", "FAIL_REVIEW", "ALREADY_PROVISIONED", "WRITTEN",
                            "WRITTEN_WITH_DIFFERENCES"}
<1> DEFINE Bad == {"FAIL_BRINGUP", "FAIL_SESSION", "FAIL_AUDIT", "FAIL_RESTORE", "FAIL_WRITE",
                   "FAIL_COMMIT", "FAIL_RESET", "FAIL_VERIFY", "ABORTED"}
<1>1. /\ \A c, p : \A st \in AskingStates : ~AskFor(c, p, st)
      /\ \A outcome : CloseSession(outcome) => result' = outcome
      /\ \A outcome : StartDiscard(outcome) => result' = "FAIL_RESET"
  BY DEF AskFor, CloseSession, StartDiscard, Finish, AskingStates
<1>2. /\ StartCommit => result' \in Bad
      /\ \A op : StartRestore(op) => result' \in Bad
      /\ \A from : StartNextRead(from) => result' \in Bad
      /\ \A from : StartNextReview(from) => result' \in Bad
  BY <1>1 DEF StartCommit, StartRestore, StartNextRead, StartNextReview, EnterDecision,
     AskingStates
<1>3. \A from : StartNextWrite(from) => result' \in Bad
  BY <1>1, <1>2 DEF StartNextWrite, WritesDone, AskingStates
<1>4. CASE ResultPasses
  <2>1. CASE VerifyFails \/ AuditAborted \/ RestoreFails \/ WriteFails \/ CommitFails
    BY <1>1, <2>1 DEF VerifyFails, AuditAborted, RestoreFails, WriteFails, CommitFails
  <2>2. CASE ReadContinues \/ RestoreFallsBack \/ RestoreDone \/ WriteDone \/ ReviewRead
    BY <1>2, <1>3, <2>2 DEF ReadContinues, RestoreFallsBack, RestoreDone, WriteDone, ReviewRead
  <2>3. CASE CommitDone
    BY <2>3 DEF CommitDone, CloseSession, Finish
  <2>4. CASE KeepAliveDone
    BY <2>4 DEF KeepAliveDone
  <2>5. CASE AuditCompletes
    BY <1>2, <2>5 DEF AuditCompletes
  <2> QED BY <1>4, <2>1, <2>2, <2>3, <2>4, <2>5 DEF ResultPasses
<1>5. CASE IdlePass
  <2>1. CASE BringUpAborted \/ BringUpFailed \/ WrongMode \/ OpenRefused \/ OpenFailed
             \/ DecisionLapsed \/ CloseResets
    BY <2>1 DEF BringUpAborted, BringUpFailed, WrongMode, OpenRefused, OpenFailed,
       DecisionLapsed, CloseResets, Finish
  <2>2. CASE OpenAborted \/ StartReadPass \/ DecisionSave \/ DecisionDiscard
    BY <1>1, <1>2, <2>2 DEF OpenAborted, StartReadPass, DecisionSave, DecisionDiscard
  <2>3. CASE OpenSession \/ KeepAlive \/ ResetDone
    BY <2>3 DEF OpenSession, KeepAlive, ResetDone, AskFor
  <2> QED BY <1>5, <2>1, <2>2, <2>3 DEF IdlePass
<1>6. CASE ProvisionInit
  BY <1>6 DEF ProvisionInit, BeginRun, Finish
<1>7. CASE HostCall \/ FacadePass \/ RadioPass \/ EnvPass \/ UNCHANGED vars
  BY <1>7 DEF HostCall, ConsoleInit, ProvisionStart, ConsoleSets, ConsoleReset, ProvisionDecide,
     ProvisionAbort, BeginRun, FacadePass, RadioPass, EnvPass, vars, control
<1> QED BY <1>4, <1>5, <1>6, <1>7 DEF Next, ProvisionStep

\* The stored configuration changes only while the engine waits for its one WR,
\* and on a reviewed run only after the host has said to save (start_commit).
THEOREM SavesOnlyByWr ==
  ASSUME InTime
  PROVE  Spec => FlashOnlyBySave
<1>1. IInv /\ LineInv /\ [Next]_vars =>
        [flash' # flash => state = "COMMIT" /\ wrCount = 1
                           /\ (reviewing => decision = "SAVE")]_vars
  <2> SUFFICES ASSUME IInv, LineInv, Next, flash' # flash
               PROVE  state = "COMMIT" /\ wrCount = 1 /\ (reviewing => decision = "SAVE")
    BY DEF vars, linkVars
  <2>1. IInv /\ OneLine /\ Run
    BY DEF LineInv
  <2>2. ~(ProvisionStep \/ HostCall)
    BY <2>1, EngineLeavesFlash
  <2>3. FacadePass \/ RadioPass \/ EnvPass
    BY <2>2 DEF Next
  <2>4. CASE RadioObeys
    BY <2>1, <2>4, ObeyCases DEF Run
  <2>5. CASE ~RadioObeys
    BY <2>1, <2>3, <2>5, RadioEffects
  <2> QED BY <2>4, <2>5
<1> QED BY <1>1, LineInvariance, PTL DEF Spec, FlashOnlyBySave

\* The engine sends nothing while its WR is on the wire (start_commit).
THEOREM WrGoesAlone ==
  ASSUME InTime
  PROVE  Spec => NothingSentBeforeWrAnswers
<1>1. IInv /\ LineInv /\ IInv' /\ LineInv' =>
        (Len(toModule') > Len(toModule) => \A k \in 1..Len(toModule) : toModule[k].op # "WR")
  <2> SUFFICES ASSUME LineInv, LineInv', Len(toModule') > Len(toModule)
               PROVE  Len(toModule) = 0
    OBVIOUS
  <2>1. /\ toModule = <<>> \/ \E c : toModule = <<c>>
        /\ toModule' = <<>> \/ \E c : toModule' = <<c>>
    BY DEF LineInv, OneLine
  <2>2. Len(<<>>) = 0 /\ \A c : Len(<<c>>) = 1
    OBVIOUS
  <2> QED BY <2>1, <2>2
<1> QED BY <1>1, LineInvariance, PTL DEF Spec, NothingSentBeforeWrAnswers

\* Declining the save, or failing the read-back, leaves the module on the
\* configuration it had stored when the run began (start_discard).
THEOREM DiscardsRestore ==
  ASSUME InTime
  PROVE  Spec => DiscardRestores
<1>1. IInv /\ LineInv /\ [Next]_vars =>
        [Finishes({"DECLINED", "FAIL_REVIEW"}) =>
           flash' = storedAtStart /\ ram' = flash' /\ applied' = flash']_vars
  <2> SUFFICES ASSUME IInv, LineInv, [Next]_vars, Finishes({"DECLINED", "FAIL_REVIEW"})
               PROVE  flash' = storedAtStart /\ ram' = flash' /\ applied' = flash'
    OBVIOUS
  <2>1. /\ DiscardEnds \/ CloseEnds \/ CloseExpired
        /\ result' \in {"DECLINED", "FAIL_REVIEW"}
    BY Endings DEF LineInv, Finishes, CloseSession, Finish, VerifyCompletes
  <2>2. CASE DiscardEnds
    BY <2>2 DEF DiscardEnds, Pass, Quiet, linkVars, LineInv, Run, Kept
  <2>3. CASE CloseEnds \/ CloseExpired
    BY <2>1, <2>3 DEF CloseEnds, CloseExpired, Pass, Finish, LineInv, Run
  <2> QED BY <2>1, <2>2, <2>3
<1> QED BY <1>1, LineInvariance, PTL DEF Spec, DiscardRestores

(***************************************************************************)
(* What a run knows of the module.                                         *)
(***************************************************************************)
\* The module has done what it was asked: its answer is on the wire, or taken.
Answered == \/ UserReq /\ toHost # <<>> /\ Head(toHost).kind # "ERROR"
            \/ req.state = "DONE"
AnswerRead == IF UserReq THEN Head(toHost).v ELSE req.value

\* The entries that rest on the module's acknowledgements alone.
Blind == Params \ (Readable \cup IsDefault)

\* Up to the first write of a run the module's registers are those it began with,
\* or, after a restart, what the flash holds.
Untouched == \/ ~verifying /\ state \in {"BRINGUP", "OPEN", "AUDIT"}
             \/ state = "CLOSE" /\ pendingResult = "ALREADY_PROVISIONED"
Since     == Untouched => ram \in {ramAtStart, flash}

\* The module holds v in entry p, or held it until such a restart: with that, a
\* value read, and an entry found right, stay so.
Held(v, p)   == ram[p] = v \/ (ramAtStart[p] = v /\ ram = flash)
SeenAs(v, p) == IF verifying THEN v = flash[p] ELSE Held(v, p)
Fine(p)      == IF verifying THEN flash[p] = Expected(p) ELSE Held(Config[p], p)

\* Every entry read, below n, is fine or noted.
ReadBelow(n) ==
  \A p \in Readable \ unreadable :
    p < n => Fine(p) \/ (~verifying /\ p \in auditMismatch)

Matches    == \A p \in Readable \ unreadable : Held(Config[p], p)
BlindIn(m) == \A p \in Blind : m[p] = Config[p]
Stored     == \A p \in (Readable \ unreadable) \cup Blind :
                flash[p] = IF accepted[p] # None THEN accepted[p] ELSE Config[p]
Success    == {"WRITTEN", "WRITTEN_WITH_DIFFERENCES"}

\* What the reads have shown so far, and what a closing session and a finished
\* run conclude from it.
Reads ==
  /\ state = "AUDIT" => ReadBelow(tableIndex)
  /\ state = "AUDIT" /\ Answered => SeenAs(AnswerRead, tableIndex)
  /\ state = "CLOSE" /\ pendingResult = "ALREADY_PROVISIONED" => Matches
  /\ state = "CLOSE" /\ pendingResult \in Success => Stored
  /\ result \in Success => Stored

\* How far the writes of the unreadable entries have come: in the registers, as
\* long as the module has not left the session, and in flash from the WR on.
Writes ==
  /\ state = "WRITE" /\ radioCmd =>
       /\ \A p \in Blind : p < tableIndex => ram[p] = Config[p]
       /\ Answered => ram[tableIndex] = Config[tableIndex]
  /\ state \in {"REVIEW", "AWAIT_DECISION", "COMMIT"} /\ radioCmd => BlindIn(ram)
  /\ \/ state = "COMMIT" /\ Answered
     \/ state = "CLOSE" /\ pendingResult = "RUNNING"
     \/ verifying
     => BlindIn(flash)

FoundInv == Reads /\ Writes /\ Since

\* A restart changes nothing of what was held.
LEMMA RestartKeepsHeld ==
  ASSUME ram \in {ramAtStart, flash}, flash' = flash, ramAtStart' = ramAtStart,
         ram' \in {ram, flash}, NEW v, NEW p
  PROVE  Held(v, p) => Held(v, p)'
BY DEF Held

\* An answer stays what it was, and comes of the module's obeying only.
LEMMA AnswerStays ==
  ASSUME IInv, OneLine, FacadePass \/ RadioPass \/ EnvPass, Answered'
  PROVE  \/ RadioObeys /\ UserReq
         \/ Answered /\ AnswerRead' = AnswerRead
<1>0. /\ UserReq <=> cmd = "BUSY"
      /\ UserReq => fac = "READY" /\ session = "OPEN" /\ req.state # "DONE"
  BY BusyIsRequest DEF UserReq
<1>1. ASSUME req' = req, ~UserReq \/ toHost' = toHost
      PROVE  Answered /\ AnswerRead' = AnswerRead
  BY <1>1 DEF Answered, AnswerRead, UserReq
<1>2. CASE BringUpReady \/ BringUpFails \/ EnterSession \/ SendEscape \/ SessionDropped
           \/ TransportTimesOut
  BY <1>0, <1>1, <1>2 DEF BringUpReady, BringUpFails, EnterSession, SendEscape, SessionDropped,
     TransportTimesOut, wires
<1>3. CASE RequestTimesOut
  <2>1. req'.state = "FAILED"
    BY <1>3 DEF RequestTimesOut, IInv, TypeOK, LinkTypeOK
  <2> QED BY <2>1 DEF Answered, UserReq
<1>4. CASE LineArrives
  <2>1. CASE UserReq
    <3>1. req' = [state |-> IF Head(toHost).kind = "ERROR" THEN "FAILED" ELSE "DONE",
                  value |-> Head(toHost).v]
      BY <1>0, <1>4, <2>1 DEF LineArrives, UseCmd
    <3>2. toHost # <<>> /\ ~UserReq'
      BY <1>4, <3>1 DEF LineArrives, UserReq
    <3>3. req'.state = "DONE"
      BY <3>2 DEF Answered
    <3>4. Head(toHost).kind # "ERROR" /\ req'.value = Head(toHost).v
      BY <3>1, <3>3
    <3> QED BY <2>1, <3>2, <3>4 DEF Answered, AnswerRead
  <2>2. CASE ~UserReq
    <3>1. req' = req
      BY <1>0, <1>4, <2>2 DEF LineArrives
    <3> QED BY <1>1, <2>2, <3>1
  <2> QED BY <2>1, <2>2
<1>5. CASE RadioIgnores \/ RadioLapses \/ RadioReboots
  BY <1>1, <1>5 DEF RadioIgnores, RadioLapses, RadioReboots, facadeVars, wires
<1>6. CASE RadioEnters
  <2>1. Expecting.op = "ESC"
    BY <1>6, OnlyLine DEF RadioEnters
  <2>2. ~UserReq
    BY <2>1 DEF Expecting, Awaited, Get, SetTo, Command
  <2> QED BY <1>1, <1>6, <2>2 DEF RadioEnters, facadeVars
<1>7. CASE RadioObeys
  <2>1. req' = req
    BY <1>7 DEF RadioObeys, facadeVars
  <2> QED BY <1>1, <1>7, <2>1
<1>8. CASE RadioRefuses
  <2>1. req' = req /\ toHost' = <<ErrorLine>>
    BY <1>8, OnlyLine DEF RadioRefuses, Answer, facadeVars
  <2>2. Head(toHost').kind = "ERROR"
    BY <2>1 DEF ErrorLine
  <2>3. req.state = "DONE"
    BY <2>1, <2>2 DEF Answered
  <2> QED BY <1>0, <1>1, <2>1, <2>3
<1>9. CASE LineLost
  <2>1. req' = req /\ (toHost' = toHost \/ toHost' = <<>>)
    BY <1>9, OnlyLine DEF LineLost, facadeVars
  <2>2. CASE toHost' = toHost
    BY <1>1, <2>1, <2>2
  <2>3. CASE toHost' = <<>>
    <3>1. req.state = "DONE"
      BY <2>1, <2>3 DEF Answered
    <3> QED BY <1>0, <1>1, <2>1, <3>1
  <2> QED BY <2>1, <2>2, <2>3
<1> QED
  BY <1>2, <1>3, <1>4, <1>5, <1>6, <1>7, <1>8, <1>9
  DEF FacadePass, FacadeStep, RadioPass, EnvPass, RadioStep, EnvStep

\* What is known survives the passes of the facade, and the module.
LEMMA LinkFound ==
  ASSUME IInv, LineInv, FoundInv, FacadePass \/ RadioPass \/ EnvPass
  PROVE  FoundInv'
<1>1. /\ OneLine /\ Place /\ Run /\ Kept
      /\ UNCHANGED <<state, result, pendingResult, reqActive, tableIndex, verifying,
                     auditMismatch, unreadable, accepted, ramAtStart>>
      /\ UserReq => state \in AskingStates
      /\ Answered' => \/ RadioObeys /\ UserReq
                      \/ Answered /\ AnswerRead' = AnswerRead
  BY LinkFrame, BusyIsRequest, AnswerStays DEF LineInv
<1>2. /\ state \in {"AUDIT", "REVIEW"} => tableIndex \in Params
      /\ state # "DONE" => result = "RUNNING"
      /\ ram \in [Params -> Values]
  BY DEF IInv, RequestInv, OutcomeInv, TypeOK, LinkTypeOK
<1>3. state \in {"WRITE", "REVIEW", "AWAIT_DECISION", "COMMIT"} =>
        fac = "READY" /\ cmd # "WAIT_OK"
  BY <1>1 DEF Place, IInv, RequestOwned, RequestInv, AskingStates
<1>4. CASE RadioObeys
  <2>1. Reads' /\ Since'
    <3>1. state # "COMMIT" => flash' = flash
      BY <1>1, <1>4, ObeyCases
    <3>2. state \in {"BRINGUP", "OPEN", "AUDIT", "CLOSE"} => ram' = ram
      BY <1>1, <1>4, ObeyCases DEF AskingStates
    <3>3. state \in {"AUDIT", "CLOSE"} => \A p : Fine(p)' = Fine(p)
      BY <1>1, <3>1, <3>2 DEF Fine, Expected, Held
    <3>4. state = "AUDIT" => ReadBelow(tableIndex)'
      BY <1>1, <3>3 DEF FoundInv, Reads, ReadBelow
    <3>5. state = "AUDIT" /\ Answered' => SeenAs(AnswerRead, tableIndex)'
      <4> SUFFICES ASSUME state = "AUDIT", Answered'
                   PROVE  SeenAs(AnswerRead, tableIndex)'
        OBVIOUS
      <4>1. CASE UserReq
        <5>1. UserReq' /\ toHost' = <<ValueLine(ram[tableIndex])>>
          BY <1>1, <1>4, <4>1, ObeyCases DEF UserReq
        <5>2. AnswerRead' = ram[tableIndex]
          BY <5>1 DEF AnswerRead, ValueLine
        <5>3. verifying => ram = flash
          BY <1>1 DEF Kept
        <5> QED BY <1>1, <3>1, <3>2, <5>2, <5>3 DEF SeenAs, Held
      <4>2. CASE ~UserReq
        <5>1. Answered /\ AnswerRead' = AnswerRead
          BY <1>1, <4>2
        <5> QED BY <1>1, <3>1, <3>2, <5>1 DEF SeenAs, Held, FoundInv, Reads
      <4> QED BY <4>1, <4>2
    <3>6. state = "CLOSE" /\ Matches => Matches'
      BY <1>1, <3>1, <3>2 DEF Matches, Held
    <3>7. state # "COMMIT" /\ Stored => Stored'
      BY <1>1, <3>1 DEF Stored
    <3>8. Since'
      BY <1>1, <3>1, <3>2 DEF FoundInv, Since, Untouched
    <3> QED
      BY <1>1, <1>2, <3>4, <3>5, <3>6, <3>7, <3>8 DEF FoundInv, Reads, Success
  <2>2. Writes'
    <3>1. state = "WRITE" /\ radioCmd' =>
            /\ \A p \in Blind : p < tableIndex => ram'[p] = Config[p]
            /\ Answered' => ram'[tableIndex] = Config[tableIndex]
      <4> SUFFICES ASSUME state = "WRITE", radioCmd'
                   PROVE  /\ \A p \in Blind : p < tableIndex => ram'[p] = Config[p]
                          /\ ram'[tableIndex] = Config[tableIndex]
        OBVIOUS
      <4>1. radioCmd /\ ram' = [ram EXCEPT ![tableIndex] = Config[tableIndex]]
        BY <1>1, <1>4, ObeyCases
      <4>2. tableIndex \in Params /\ Blind \subseteq Params
        BY DEF IInv, RequestInv, Blind
      <4>3. \A p \in Blind : p < tableIndex => ram[p] = Config[p]
        BY <4>1 DEF FoundInv, Writes
      <4> QED BY <1>2, <4>1, <4>2, <4>3
    <3>2. state \in {"REVIEW", "AWAIT_DECISION", "COMMIT"} => radioCmd /\ ram' = ram
      BY <1>1, <1>4, ObeyCases
    <3>3. state # "COMMIT" => flash' = flash
      BY <1>1, <1>4, ObeyCases
    <3>4. state = "COMMIT" /\ Answered' => BlindIn(flash)'
      <4> SUFFICES ASSUME state = "COMMIT", Answered'
                   PROVE  BlindIn(flash)'
        OBVIOUS
      <4>1. CASE UserReq
        <5>1. radioCmd /\ flash' = ram
          BY <1>1, <1>4, <4>1, ObeyCases
        <5> QED BY <5>1 DEF FoundInv, Writes, BlindIn
      <4>2. CASE ~UserReq
        <5>1. Answered /\ flash' = flash
          BY <1>1, <1>4, <4>2, ObeyCases
        <5> QED BY <5>1 DEF FoundInv, Writes, BlindIn
      <4> QED BY <4>1, <4>2
    <3>5. verifying => state # "COMMIT"
      BY <1>1 DEF Run
    <3> QED
      BY <1>1, <3>1, <3>2, <3>3, <3>4, <3>5 DEF FoundInv, Writes, BlindIn
  <2> QED BY <2>1, <2>2 DEF FoundInv
<1>5. CASE ~RadioObeys
  <2>1. /\ flash' = flash /\ (ram' = ram \/ (ram' = flash /\ ~radioCmd'))
        /\ radioCmd' => radioCmd \/ fac = "BRINGUP" \/ cmd = "WAIT_OK"
        /\ Answered' => Answered /\ AnswerRead' = AnswerRead
    BY <1>1, <1>5, RadioEffects
  <2>2. ASSUME Untouched, NEW v, NEW p
        PROVE  Held(v, p) => Held(v, p)'
    BY <1>1, <2>1, <2>2, RestartKeepsHeld DEF FoundInv, Since
  <2>3. Reads' /\ Since'
    <3>1. state = "AUDIT" => ReadBelow(tableIndex)'
      <4>1. state = "AUDIT" => \A p : Fine(p) => Fine(p)'
        BY <1>1, <2>1, <2>2 DEF Fine, Expected, Untouched
      <4> QED BY <1>1, <4>1 DEF FoundInv, Reads, ReadBelow
    <3>2. state = "AUDIT" /\ Answered' => SeenAs(AnswerRead, tableIndex)'
      BY <1>1, <2>1, <2>2 DEF FoundInv, Reads, SeenAs, Untouched
    <3>3. Untouched /\ Matches => Matches'
      BY <1>1, <2>2 DEF Matches
    <3>4. Stored => Stored'
      BY <1>1, <2>1 DEF Stored
    <3>5. Since'
      BY <1>1, <2>1 DEF FoundInv, Since, Untouched
    <3> QED BY <1>1, <3>1, <3>2, <3>3, <3>4, <3>5 DEF FoundInv, Reads, Untouched
  <2>4. Writes'
    <3>1. state \in {"WRITE", "REVIEW", "AWAIT_DECISION", "COMMIT"} /\ radioCmd' =>
            radioCmd /\ ram' = ram
      BY <1>3, <2>1
    <3> QED BY <1>1, <2>1, <3>1 DEF FoundInv, Writes, BlindIn
  <2> QED BY <2>3, <2>4 DEF FoundInv
<1> QED BY <1>4, <1>5

\* Asking and closing leave the module's registers alone.
moduleVars == <<ram, flash, radioCmd, verifying, ramAtStart>>

LEMMA AskingLeavesModule ==
  /\ \A c, p, st : AskFor(c, p, st) => UNCHANGED moduleVars
  /\ \A outcome : CloseSession(outcome) => UNCHANGED moduleVars
  /\ \A from : StartNextRead(from) => UNCHANGED moduleVars
BY DEF AskFor, Ask, Submit, CloseSession, SessionClose, StartNextRead, moduleVars, linkVars,
   radioVars, history

\* Where the engine is past its questions, little is claimed.
LEMMA AwayFound ==
  ASSUME flash' = flash,
         state' \in {"BRINGUP", "OPEN", "DISCARD", "RESET", "DONE"},
         verifying' => BlindIn(flash),
         result' \in Success => Stored',
         ~verifying' /\ state' \in {"BRINGUP", "OPEN"} => ram' \in {ramAtStart', flash}
  PROVE  FoundInv'
BY DEF FoundInv, Reads, Writes, BlindIn, Since, Untouched

\* A request needs what the state it moves to claims.
LEMMA AskForFound ==
  ASSUME IInv, LineInv, FoundInv, state # "DONE",
         NEW c, NEW p, NEW st \in AskingStates, AskFor(c, p, st),
         st = "AUDIT" => ReadBelow(p)' /\ state \in {"OPEN", "AUDIT"},
         st = "WRITE" /\ radioCmd => \A q \in Blind : q < p => ram[q] = Config[q],
         st \in {"REVIEW", "AWAIT_DECISION", "COMMIT"} /\ radioCmd => BlindIn(ram)
  PROVE  FoundInv'
<1>1. /\ state' = st /\ tableIndex' = p /\ result' = "RUNNING"
      /\ UNCHANGED <<ram, flash, radioCmd, verifying, ramAtStart>>
  BY AskingLeavesModule DEF moduleVars, AskFor, IInv, OutcomeInv
<1>2. ~Answered'
  <2>1. UserReq' /\ toHost' = <<>>
    BY DEF AskFor, Ask, Submit, CanSubmit, LineInv, OneLine, UserReq
  <2> QED BY <2>1 DEF Answered, UserReq
<1>3. Reads'
  BY <1>1, <1>2 DEF Reads, Success, AskingStates
<1>4. Writes'
  BY <1>1, <1>2 DEF FoundInv, Writes, BlindIn, AskingStates
<1>5. Since'
  BY <1>1 DEF FoundInv, Since, Untouched, AskingStates
<1> QED BY <1>3, <1>4, <1>5 DEF FoundInv

\* So does the outcome a session is closed with.
LEMMA CloseFound ==
  ASSUME IInv, LineInv, FoundInv, state # "DONE",
         NEW outcome, CloseSession(outcome),
         outcome = "ALREADY_PROVISIONED" => Matches' /\ Untouched,
         outcome \in Success => Stored',
         outcome = "RUNNING" => BlindIn(flash)
  PROVE  FoundInv'
<1>1. /\ state' \in {"CLOSE", "DONE"} /\ pendingResult' = outcome
      /\ result' \in {"RUNNING", outcome}
      /\ UNCHANGED <<ram, flash, radioCmd, verifying, ramAtStart>>
  BY AskingLeavesModule DEF moduleVars, CloseSession, Finish, IInv, OutcomeInv
<1>2. Reads'
  BY <1>1 DEF Reads, Success
<1>3. Writes'
  BY <1>1 DEF FoundInv, Writes, BlindIn
<1>4. Since'
  BY <1>1 DEF FoundInv, Since, Untouched
<1> QED BY <1>2, <1>3, <1>4 DEF FoundInv

LEMMA DiscardFound ==
  ASSUME IInv, LineInv, FoundInv, state # "DONE", ~verifying,
         NEW outcome, StartDiscard(outcome)
  PROVE  FoundInv'
BY AwayFound DEF StartDiscard, Finish, HwReset, HwResetRefused, Restart, radioVars, IInv,
   OutcomeInv, Success

\* The chains a pass can end with.
LEMMA StartCommitFound ==
  ASSUME IInv, LineInv, FoundInv, state # "DONE", StartCommit, radioCmd => BlindIn(ram)
  PROVE  FoundInv'
<1>1. CASE AskFor(Command("WR"), tableIndex, "COMMIT")
  <2>1. PICK c, p : AskFor(c, p, "COMMIT")
    BY <1>1
  <2> QED BY <2>1, AskForFound DEF AskingStates
<1>2. CASE CloseSession("FAIL_COMMIT")
  BY <1>2, CloseFound DEF Success
<1> QED BY <1>1, <1>2 DEF StartCommit

LEMMA StartRestoreFound ==
  ASSUME IInv, LineInv, FoundInv, state # "DONE", NEW op, StartRestore(op)
  PROVE  FoundInv'
<1>1. CASE AskFor(Command(op), tableIndex, "RESTORE")
  <2>1. PICK c, p : AskFor(c, p, "RESTORE")
    BY <1>1
  <2> QED BY <2>1, AskForFound DEF AskingStates
<1>2. CASE CloseSession("FAIL_RESTORE")
  BY <1>2, CloseFound DEF Success
<1> QED BY <1>1, <1>2 DEF StartRestore

LEMMA StartNextReadFound ==
  ASSUME IInv, LineInv, FoundInv, state # "DONE",
         state \in {"OPEN", "AUDIT"}, NEW from \in Nat, StartNextRead(from), ReadBelow(from)'
  PROVE  FoundInv'
<1>1. PICK p \in Params :
        /\ IsFirst(p, From(from, Readable))
        /\ \/ AskFor(Get(p), p, "AUDIT")
           \/ CloseSession(IF verifying THEN "FAIL_VERIFY" ELSE "FAIL_AUDIT")
  BY DEF StartNextRead
<1>2. CASE AskFor(Get(p), p, "AUDIT")
  <2>1. ASSUME NEW q \in Readable, q < p
        PROVE  q < from
    BY <1>1, <2>1, ProvisionAssumption, LinkAssumption DEF IsFirst, From, Params
  <2>2. ReadBelow(p)'
    BY <2>1 DEF ReadBelow
  <2> QED BY <1>2, <2>2, AskForFound DEF AskingStates
<1>3. CASE CloseSession(IF verifying THEN "FAIL_VERIFY" ELSE "FAIL_AUDIT")
  <2>1. PICK outcome \in {"FAIL_VERIFY", "FAIL_AUDIT"} : CloseSession(outcome)
    BY <1>3
  <2> QED BY <2>1, CloseFound DEF Success
<1> QED BY <1>1, <1>2, <1>3

LEMMA StartNextReviewFound ==
  ASSUME IInv, LineInv, FoundInv, state # "DONE", ~verifying,
         NEW from, StartNextReview(from), radioCmd => BlindIn(ram)
  PROVE  FoundInv'
<1>1. CASE \E p \in Params : AskFor(Get(p), p, "REVIEW")
  <2>1. PICK c, p : AskFor(c, p, "REVIEW")
    BY <1>1
  <2> QED BY <2>1, AskForFound DEF AskingStates
<1>2. CASE StartDiscard("FAIL_REVIEW")
  BY <1>2, DiscardFound
<1>3. CASE state' = "AWAIT_DECISION" /\ UNCHANGED <<linkVars, result, verifying>>
  BY <1>3 DEF linkVars, FoundInv, Reads, Writes, BlindIn, Since, Untouched, IInv, OutcomeInv,
     Success
<1> QED BY <1>1, <1>2, <1>3 DEF StartNextReview, EnterDecision

\* Every unreadable entry that is not a default deviates, so the walk of the
\* writes passes over none of them.
LEMMA StartNextWriteFound ==
  ASSUME IInv, LineInv, FoundInv, state # "DONE", ~verifying,
         NEW from \in Nat, StartNextWrite(from),
         radioCmd => \A q \in Blind : q < from => ram[q] = Config[q]
  PROVE  FoundInv'
<1>1. Blind \subseteq {q \in Params : Deviates(q)}
  BY DEF Blind, Deviates
<1>2. CASE \E p \in Params : /\ IsFirst(p, From(from, {q \in Params : Deviates(q)}))
                             /\ AskFor(SetTo(p, Config[p]), p, "WRITE")
  <2>1. PICK p \in Params : /\ IsFirst(p, From(from, {q \in Params : Deviates(q)}))
                            /\ AskFor(SetTo(p, Config[p]), p, "WRITE")
    BY <1>2
  <2>2. ASSUME NEW q \in Blind, q < p
        PROVE  q < from
    <3>1. q \in Params /\ q \in {r \in Params : Deviates(r)}
      BY <1>1
    <3> QED BY <2>1, <2>2, <3>1, LinkAssumption DEF IsFirst, From, Params
  <2>3. PICK c : AskFor(c, p, "WRITE")
    BY <2>1
  <2> QED BY <2>2, <2>3, AskForFound DEF AskingStates
<1>3. CASE CloseSession("FAIL_WRITE")
  BY <1>3, CloseFound DEF Success
<1>4. CASE From(from, {q \in Params : Deviates(q)}) = {} /\ WritesDone
  <2>1. ASSUME NEW q \in Blind
        PROVE  q < from
    <3>1. q \in Params /\ q \in {r \in Params : Deviates(r)}
      BY <1>1
    <3> QED BY <1>4, <3>1, LinkAssumption DEF From, Params
  <2>2. radioCmd => BlindIn(ram)
    BY <2>1 DEF BlindIn
  <2> QED BY <1>4, <2>2, StartNextReviewFound, StartCommitFound DEF WritesDone
<1> QED BY <1>2, <1>3, <1>4 DEF StartNextWrite

\* What a read adds to the findings covers the entry it was of.
LEMMA NotedFound ==
  ASSUME IInv, FoundInv, state = "AUDIT", ResultReady, ~(verifying /\ Differs(tableIndex)),
         Noted, UNCHANGED moduleVars, NEW next, next = tableIndex + 1
  PROVE  ReadBelow(next)'
<1> SUFFICES ASSUME NEW q \in Readable, q \notin unreadable', q < next
             PROVE  (Fine(q) \/ (~verifying /\ q \in auditMismatch))'
  BY DEF ReadBelow
<1>1. /\ unreadable' = IF ReqOK THEN unreadable ELSE unreadable \cup {tableIndex}
      /\ auditMismatch' = IF Differs(tableIndex) /\ ~verifying
                          THEN auditMismatch \cup {tableIndex} ELSE auditMismatch
      /\ accepted' = accepted
  BY DEF Noted
<1>2. Fine(q)' = Fine(q)
  BY <1>1 DEF Fine, Held, Expected, moduleVars
<1>3. tableIndex \in Nat /\ q \in Nat
  BY ProvisionAssumption, LinkAssumption DEF IInv, RequestInv, Params
<1>4. CASE q < tableIndex
  <2>1. Fine(q) \/ (~verifying /\ q \in auditMismatch)
    BY <1>1, <1>4 DEF FoundInv, Reads, ReadBelow
  <2> QED BY <1>1, <1>2, <2>1 DEF moduleVars
<1>5. CASE q = tableIndex
  <2>1. ReqOK /\ ~UserReq
    BY <1>1, <1>5 DEF ResultReady, UserReq
  <2>2. SeenAs(req.value, q)
    BY <1>5, <2>1 DEF FoundInv, Reads, Answered, AnswerRead, ReqOK
  <2>3. CASE Differs(q)
    BY <1>1, <1>5, <2>3 DEF moduleVars
  <2>4. CASE ~Differs(q)
    <3>1. req.value = Expected(q)
      BY <2>1, <2>4 DEF Differs
    <3>2. Fine(q)
      BY <2>2, <3>1 DEF SeenAs, Fine, Expected
    <3> QED BY <1>2, <3>2
  <2> QED BY <2>3, <2>4
<1> QED BY <1>3, <1>4, <1>5

\* The passes that end a read.
LEMMA ReadsFound ==
  ASSUME IInv, LineInv, FoundInv, ReadContinues \/ VerifyCompletes \/ AuditCompletes
  PROVE  FoundInv'
<1>1. /\ state = "AUDIT" /\ ResultReady /\ ~(verifying /\ Differs(tableIndex)) /\ Noted
      /\ ReadGoesOn
  BY DEF ReadContinues, VerifyCompletes, AuditCompletes, ReadGoesOn, Completed
<1>2. PICK next : next = tableIndex + 1
  OBVIOUS
<1>3. next \in Nat
  BY <1>1, <1>2, LinkAssumption DEF IInv, RequestInv, Params
<1>4. UNCHANGED moduleVars => ReadBelow(next)'
  BY <1>1, <1>2, NotedFound
<1>5. CASE ReadContinues
  <2>1. StartNextRead(next)
    BY <1>2, <1>5 DEF ReadContinues
  <2>2. ReadBelow(next)'
    BY <1>4, <2>1, AskingLeavesModule
  <2> QED BY <1>1, <1>3, <2>1, <2>2, StartNextReadFound
<1>6. ASSUME VerifyCompletes \/ AuditCompletes, NEW q \in Readable
      PROVE  q < next
  <2>1. From(next, Readable) = {}
    BY <1>2, <1>6 DEF VerifyCompletes, AuditCompletes, NoReadLeft
  <2>2. q \in Nat
    BY ProvisionAssumption, LinkAssumption DEF Params
  <2> QED BY <1>3, <2>1, <2>2 DEF From
<1>7. CASE VerifyCompletes
  <2>1. PICK outcome \in Success : CloseSession(outcome)
    BY <1>7 DEF VerifyCompletes, Success
  <2>2. verifying /\ UNCHANGED <<moduleVars, ram, flash, verifying, accepted>>
    BY <1>1, <1>7, <2>1, AskingLeavesModule DEF VerifyCompletes, Noted, moduleVars
  <2>3. \A q \in Readable \ unreadable' : Fine(q)'
    BY <1>4, <1>6, <1>7, <2>2 DEF ReadBelow
  <2>4. BlindIn(flash) /\ \A q \in Params \ Readable : accepted[q] = None
    BY <2>2 DEF FoundInv, Writes, LineInv, Run
  <2>5. Stored'
    BY <2>2, <2>3, <2>4 DEF Stored, Fine, Expected, BlindIn, Blind
  <2>6. outcome \notin {"ALREADY_PROVISIONED", "RUNNING"}
    BY <2>1 DEF Success
  <2> QED BY <1>1, <2>1, <2>5, <2>6, CloseFound
<1>8. CASE AuditCompletes
  <2>1. CASE StartRestore("R1")
    BY <1>1, <2>1, StartRestoreFound
  <2>2. CASE auditMismatch' = {} /\ CloseSession("ALREADY_PROVISIONED")
    <3>1. ~verifying /\ ~verifying' /\ UNCHANGED moduleVars
      BY <1>8, <2>2, AskingLeavesModule DEF AuditCompletes, moduleVars
    <3>2. \A q \in Readable \ unreadable' : Fine(q)'
      BY <1>4, <1>6, <1>8, <2>2, <3>1 DEF ReadBelow
    <3>3. Matches'
      BY <3>1, <3>2 DEF Matches, Fine
    <3>4. Untouched
      BY <1>1, <3>1 DEF Untouched
    <3> QED BY <1>1, <2>2, <3>3, <3>4, CloseFound DEF Success
  <2> QED BY <1>8, <2>1, <2>2 DEF AuditCompletes
<1> QED BY <1>5, <1>7, <1>8

\* The other passes that find their request completed.
LEMMA ResultPassFound ==
  ASSUME IInv, LineInv, FoundInv, ResultPasses
  PROVE  FoundInv'
<1>1. state # "DONE" /\ ~UserReq /\ (ReqOK => Answered)
  BY ResultPassesOnward DEF LineInv, AskingStates, ReqOK, Answered
<1>2. PICK next : next = tableIndex + 1
  OBVIOUS
<1>3. state \in {"WRITE", "REVIEW"} => tableIndex \in Nat /\ next \in Nat
  BY <1>2, LinkAssumption DEF IInv, RequestInv, Params
<1>4. CASE VerifyFails \/ AuditAborted \/ RestoreFails \/ WriteFails \/ CommitFails
  <2>1. PICK outcome : /\ CloseSession(outcome)
                       /\ outcome \notin Success \cup {"ALREADY_PROVISIONED", "RUNNING"}
    BY <1>4 DEF VerifyFails, AuditAborted, RestoreFails, WriteFails, CommitFails, Success
  <2> QED BY <1>1, <2>1, CloseFound
<1>5. CASE ReadContinues \/ VerifyCompletes \/ AuditCompletes
  BY <1>5, ReadsFound
<1>6. CASE RestoreFallsBack
  BY <1>1, <1>6, StartRestoreFound DEF RestoreFallsBack
<1>7. CASE RestoreDone
  <2>1. /\ StartNextWrite(1) /\ ~verifying
    BY <1>7 DEF RestoreDone, Completed, LineInv, Run
  <2>2. \A q \in Blind : ~(q < 1)
    BY LinkAssumption DEF Blind, Params
  <2> QED BY <1>1, <2>1, <2>2, StartNextWriteFound
<1>8. CASE WriteDone
  <2>1. state = "WRITE" /\ StartNextWrite(next) /\ ~verifying /\ Answered
    BY <1>1, <1>2, <1>8 DEF WriteDone, Completed, LineInv, Run
  <2>2. radioCmd => \A q \in Blind : q < next => ram[q] = Config[q]
    <3> SUFFICES ASSUME radioCmd, NEW q \in Blind, q < next
                 PROVE  ram[q] = Config[q]
      OBVIOUS
    <3>1. q \in Nat
      BY LinkAssumption DEF Blind, Params
    <3>2. q < tableIndex \/ q = tableIndex
      BY <1>2, <1>3, <2>1, <3>1
    <3> QED BY <2>1, <3>2 DEF FoundInv, Writes
  <2> QED BY <1>1, <1>3, <2>1, <2>2, StartNextWriteFound
<1>9. CASE ReviewRead
  <2>1. state = "REVIEW" /\ StartNextReview(next) /\ ~verifying
    BY <1>2, <1>9 DEF ReviewRead, Completed, LineInv, Run
  <2>2. radioCmd => BlindIn(ram)
    BY <2>1 DEF FoundInv, Writes
  <2> QED BY <1>1, <2>1, <2>2, StartNextReviewFound
<1>10. CASE KeepAliveDone
  <2>1. /\ state = "AWAIT_DECISION" /\ state' = state /\ result' = result
        /\ UNCHANGED <<linkVars, verifying>>
    BY <1>10 DEF KeepAliveDone, Completed, Quiet
  <2>2. result' = "RUNNING"
    BY <2>1 DEF IInv, OutcomeInv
  <2> QED
    BY <2>1, <2>2 DEF linkVars, FoundInv, Reads, Writes, BlindIn, Since, Untouched, Success
<1>11. CASE CommitDone
  <2>1. state = "COMMIT" /\ CloseSession("RUNNING") /\ Answered
    BY <1>1, <1>11 DEF CommitDone, Completed
  <2>2. BlindIn(flash)
    BY <2>1 DEF FoundInv, Writes
  <2> QED BY <1>1, <2>1, <2>2, CloseFound DEF Success
<1> QED
  BY <1>4, <1>5, <1>6, <1>7, <1>8, <1>9, <1>10, <1>11 DEF ResultPasses

\* A pass with no request outstanding.
LEMMA IdlePassFound ==
  ASSUME IInv, LineInv, FoundInv, IdlePass
  PROVE  FoundInv'
<1>1. flash' = flash
  BY EngineLeavesFlash DEF LineInv, ProvisionStep
<1>2. /\ verifying => BlindIn(flash)
      /\ state # "DONE" => result = "RUNNING"
      /\ state = "RESET" => verifying
  BY DEF FoundInv, Writes, IInv, OutcomeInv, WriteInv
<1>3. CASE \E outcome : /\ Finish(outcome) /\ UNCHANGED verifying
                        /\ outcome \in Success => Stored'
  BY <1>1, <1>2, <1>3, AwayFound DEF Finish
<1>4. CASE BringUpAborted \/ BringUpFailed \/ WrongMode \/ OpenRefused \/ OpenFailed
           \/ DecisionLapsed
  BY <1>3, <1>4 DEF BringUpAborted, BringUpFailed, WrongMode, OpenRefused, OpenFailed,
     DecisionLapsed, Success
<1>5. CASE OpenSession \/ ResetDone
  <2>1. ResetDone => verifying'
    BY <1>2 DEF ResetDone, Pass
  <2>2. OpenSession => state = "BRINGUP" /\ UNCHANGED <<ram, ramAtStart, verifying>>
    BY DEF OpenSession, BringUpDone, Pass, SessionOpen, radioVars, history
  <2>3. /\ state' \in {"BRINGUP", "OPEN"} /\ verifying' = verifying
        /\ result' = "RUNNING"
    BY <1>2, <1>5 DEF OpenSession, BringUpDone, Pass, ResetDone
  <2>4. ~verifying' => ram' \in {ramAtStart', flash}
    BY <1>5, <2>1, <2>2 DEF FoundInv, Since, Untouched
  <2> QED BY <1>1, <1>2, <2>3, <2>4, AwayFound DEF Success
<1>6. CASE OpenAborted
  BY <1>6, CloseFound DEF OpenAborted, Pass, Success
<1>7. CASE StartReadPass
  <2>1. state = "OPEN"
    BY <1>7 DEF StartReadPass, Pass
  <2>2. CASE CloseSession("FAIL_AUDIT")
    BY <2>1, <2>2, CloseFound DEF Success
  <2>3. CASE StartNextRead(1)
    <3>1. \A q \in Readable : ~(q < 1)
      BY ProvisionAssumption, LinkAssumption DEF Params
    <3>2. ReadBelow(1)'
      BY <3>1 DEF ReadBelow
    <3> QED BY <2>1, <2>3, <3>2, StartNextReadFound
  <2> QED BY <1>7, <2>2, <2>3 DEF StartReadPass
<1>8. CASE DecisionSave \/ DecisionDiscard \/ KeepAlive
  <2>1. /\ state = "AWAIT_DECISION" /\ ~verifying
        /\ radioCmd => BlindIn(ram)
    BY <1>8 DEF DecisionSave, DecisionDiscard, KeepAlive, Pass, LineInv, Run, FoundInv, Writes
  <2>2. CASE DecisionSave
    BY <2>1, <2>2, StartCommitFound DEF DecisionSave
  <2>3. CASE DecisionDiscard
    BY <2>1, <2>3, DiscardFound DEF DecisionDiscard
  <2>4. CASE KeepAlive
    <3>1. PICK c, p : AskFor(c, p, "AWAIT_DECISION")
      BY <2>4 DEF KeepAlive
    <3> QED BY <2>1, <3>1, AskForFound DEF AskingStates
  <2> QED BY <1>8, <2>2, <2>3, <2>4
<1>9. CASE CloseExpired \/ CloseEnds
  <2>1. state = "CLOSE" /\ UNCHANGED <<verifying, accepted, unreadable>>
    BY <1>9 DEF CloseExpired, CloseEnds, Pass, Quiet, findings
  <2>2. pendingResult \in Success => Stored'
    BY <1>1, <2>1 DEF FoundInv, Reads, Stored
  <2>3. \/ Finish(pendingResult)
        \/ Finish("FAIL_COMMIT")
    BY <1>9 DEF CloseExpired, CloseEnds
  <2> QED BY <1>3, <2>1, <2>2, <2>3 DEF Success
<1>10. CASE CloseResets
  <2>1. /\ state = "CLOSE" /\ pendingResult = "RUNNING" /\ BlindIn(flash)
        /\ state' \in {"RESET", "DONE"} /\ result' \in {"RUNNING", "FAIL_RESET"}
    BY <1>2, <1>10 DEF CloseResets, Pass, Finish, FoundInv, Writes
  <2> QED BY <1>1, <2>1, AwayFound DEF Success
<1>11. CASE DiscardEnds
  <2>1. pendingResult \in {"DECLINED", "FAIL_REVIEW"} /\ UNCHANGED verifying
    BY <1>11 DEF DiscardEnds, Pass, IInv, OutcomeInv
  <2> QED BY <1>3, <1>11, <2>1 DEF DiscardEnds, Success
<1> QED
  BY <1>4, <1>5, <1>6, <1>7, <1>8, <1>9, <1>10, <1>11 DEF IdlePass

\* The host's calls, and the run at boot.
LEMMA HostFound ==
  ASSUME IInv, LineInv, FoundInv, ProvisionInit \/ HostCall
  PROVE  FoundInv'
<1>1. flash' = flash
  BY EngineLeavesFlash DEF LineInv, ProvisionStep
<1>2. CASE ProvisionInit \/ ProvisionStart
  <2>1. /\ verifying' = FALSE /\ state' \in {"BRINGUP", "DONE"}
        /\ result' \in {"RUNNING", "FAIL_BRINGUP"}
        /\ ram' = ram /\ ramAtStart' = ram
    BY <1>2 DEF ProvisionInit, ProvisionStart, PrepareRun, BeginRun, Finish, Init_Facade,
       linkVars, radioVars
  <2> QED BY <1>1, <2>1, AwayFound DEF Success
<1>3. CASE ConsoleSets \/ ConsoleReset
  <2>1. /\ state \in {"IDLE", "DONE"} /\ UNCHANGED <<control, findings>>
    BY <1>3 DEF ConsoleSets, ConsoleReset
  <2> QED
    BY <1>1, <2>1 DEF control, findings, FoundInv, Reads, Writes, Stored, BlindIn, Since,
       Untouched
<1>4. CASE ConsoleInit \/ ProvisionDecide \/ ProvisionAbort
  <2>1. UNCHANGED <<control, findings, req, toHost, ram, flash, radioCmd, ramAtStart>>
    BY <1>4 DEF ConsoleInit, Init_Facade, ProvisionDecide, ProvisionAbort, linkVars, wires,
       radioVars, history
  <2>2. Answered' = Answered /\ AnswerRead' = AnswerRead
    BY <2>1 DEF Answered, AnswerRead, UserReq
  <2> QED
    BY <2>1, <2>2 DEF control, findings, FoundInv, Reads, Writes, ReadBelow, Fine, Expected,
       Held, SeenAs, Matches, Stored, BlindIn, Since, Untouched
<1> QED BY <1>2, <1>3, <1>4 DEF HostCall

\* Every step keeps what the run knows of the module.
LEMMA FoundStep ==
  ASSUME IInv, LineInv, FoundInv, [Next]_vars
  PROVE  FoundInv'
<1>1. CASE UNCHANGED vars
  <2>1. UNCHANGED <<control, findings, req, toHost, ram, flash, radioCmd, ramAtStart>>
    BY <1>1 DEF vars, linkVars, history
  <2>2. Answered' = Answered /\ AnswerRead' = AnswerRead
    BY <2>1 DEF Answered, AnswerRead, UserReq
  <2> QED
    BY <2>1, <2>2 DEF control, findings, FoundInv, Reads, Writes, ReadBelow, Fine, Expected,
       Held, SeenAs, Matches, Stored, BlindIn, Since, Untouched
<1>2. CASE Next
  BY <1>2, IdlePassFound, ResultPassFound, HostFound, LinkFound DEF Next, ProvisionStep
<1> QED BY <1>1, <1>2

\* What a run has read and written is what the module holds.
THEOREM FoundInvariance ==
  ASSUME InTime
  PROVE  Spec => [](IInv /\ LineInv /\ FoundInv)
<1>1. Init => IInv /\ LineInv /\ FoundInv
  <2>1. Init => FoundInv
    BY DEF Init, LinkInit, FoundInv, Reads, Writes, Success, Since, Untouched
  <2> QED BY <2>1, InitStep, LineInit
<1>2. IInv /\ LineInv /\ FoundInv /\ [Next]_vars => IInv' /\ LineInv' /\ FoundInv'
  BY NextStep, LineStep, FoundStep
<1> QED BY <1>1, <1>2, PTL DEF Spec

\* A run that reports its configuration written has it in flash, entry by
\* entry, whatever was lost, refused or restarted on the way (finish).
THEOREM WrittenIsStored ==
  ASSUME InTime
  PROVE  Spec => []WrittenMeansStored
<1>1. IInv /\ LineInv /\ FoundInv => WrittenMeansStored
  BY DEF FoundInv, Reads, Success, Stored, Blind, WrittenMeansStored
<1> QED BY <1>1, FoundInvariance, PTL

\* A run that reports that nothing had to be written has found every entry it
\* could read as configured: it still is, or it was when the run began, and the
\* module has restarted since (handle_read_result).
THEOREM AlreadyMatches ==
  ASSUME InTime
  PROVE  Spec => AlreadyMeansMatching
<1>1. IInv /\ LineInv /\ FoundInv /\ FoundInv' /\ [Next]_vars =>
        [Finishes({"ALREADY_PROVISIONED"}) =>
           \A p \in Readable \ unreadable' :
             \/ ram'[p] = Config[p]
             \/ ramAtStart'[p] = Config[p] /\ ram' = flash']_vars
  <2> SUFFICES ASSUME IInv, LineInv, FoundInv, [Next]_vars,
                      state # "DONE", state' = "DONE", result' = "ALREADY_PROVISIONED"
               PROVE  Matches'
    BY DEF Finishes, Matches, Held
  <2>1. DiscardEnds \/ CloseEnds \/ CloseExpired \/ VerifyCompletes \/ AuditCompletes
    BY Endings DEF LineInv
  <2>2. CASE CloseEnds \/ CloseExpired
    <3>1. /\ state = "CLOSE" /\ pendingResult = "ALREADY_PROVISIONED"
          /\ UNCHANGED <<ram, flash, ramAtStart, unreadable>>
      BY <2>2 DEF CloseEnds, CloseExpired, Pass, Finish, Quiet, linkVars, findings,
         history
    <3> QED BY <3>1 DEF FoundInv, Reads, Matches, Held
  <2>3. CASE DiscardEnds \/ VerifyCompletes
    BY <2>3 DEF DiscardEnds, VerifyCompletes, Pass, Finish, CloseSession, IInv, OutcomeInv
  <2>4. CASE AuditCompletes
    <3>1. ReadGoesOn /\ Noted /\ ~verifying /\ NoReadLeft(tableIndex + 1)
      BY <2>4 DEF AuditCompletes
    <3>2. auditMismatch' = {} /\ CloseSession("ALREADY_PROVISIONED")
      BY <2>4 DEF AuditCompletes, StartRestore, AskFor, CloseSession, Finish
    <3>3. PICK next : next = tableIndex + 1
      OBVIOUS
    <3>4. UNCHANGED moduleVars /\ verifying' = verifying
      BY <3>2, AskingLeavesModule DEF moduleVars
    <3>5. ReadBelow(next)'
      BY <3>1, <3>3, <3>4, NotedFound DEF ReadGoesOn, Completed
    <3>6. ASSUME NEW q \in Readable
          PROVE  q < next
      <4>1. next \in Nat /\ q \in Nat /\ From(next, Readable) = {}
        BY <3>1, <3>3, ProvisionAssumption, LinkAssumption
        DEF ReadGoesOn, Completed, NoReadLeft, IInv, RequestInv, Params
      <4> QED BY <4>1 DEF From
    <3> QED BY <3>1, <3>2, <3>4, <3>5, <3>6 DEF ReadBelow, Fine, Matches
  <2> QED BY <2>1, <2>2, <2>3, <2>4
<1> QED BY <1>1, FoundInvariance, PTL DEF Spec, AlreadyMeansMatching
=============================================================================
