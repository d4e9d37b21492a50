----------------------------- MODULE Provision -----------------------------
(***************************************************************************)
(* The provisioning engine, xbee_provision.c: one run audits the module,   *)
(* restores its defaults, writes what deviates, optionally has the host    *)
(* review the result, commits it with one WR, resets the module and        *)
(* verifies it.  Each action is one pass of xbee_provision_process(), or   *)
(* one call of the host (start, abort, decide); the engine sits on the     *)
(* facade of XBeeLink, whose passes interleave with its own.               *)
(***************************************************************************)
EXTENDS XBeeLink

CONSTANTS Config,      \* the configured value of each table entry
          Readable,    \* is_readable(): entries the module reports
          IsDefault,   \* entries whose value the command table calls the default
          MaxAccepted, \* XBEE_PROV_MAX_ACCEPTED
          Hosted,      \* the console runs the facade; else one run at boot
          Reviews,     \* what the host may ask for: review callback or not
          Touched      \* the entries the operator changes between runs

ASSUME ProvisionAssumption ==
  /\ Config \in [Params -> Values]
  /\ Readable \subseteq Params
  /\ IsDefault \subseteq Params
  /\ MaxAccepted \in Nat
  /\ Hosted \in BOOLEAN
  /\ Reviews \subseteq BOOLEAN
  /\ Touched \subseteq Params \ {AP}
  /\ "none" \notin Values

VARIABLES state, result, pendingResult,
          reqActive,       \* req_active
          tableIndex,      \* table_index
          verifying,
          auditMismatch,   \* audit_mismatch, and mismatch_count as its size
          unreadable,      \* the entries unreadable_count has counted
          restoreFellBack, \* restore_fell_back
          reviewing,       \* review_cb # NULL
          reviewOverflow,  \* review_overflow
          accepted,        \* accepted[], by table index
          decision,
          abortRequested,  \* abort_requested
          \* history of the current run, read by the properties only:
          sent,            \* the kinds of command the engine has issued
          wrCount,         \* how many of them were WR
          storedAtStart,   \* the module's flash when the run began
          ramAtStart       \* and its registers

control  == <<state, result, pendingResult, reqActive, tableIndex, verifying>>
findings == <<auditMismatch, unreadable, reviewOverflow, accepted>>
hostSide == <<reviewing, decision, abortRequested>>
history  == <<sent, wrCount, storedAtStart, ramAtStart>>
vars == <<linkVars, control, findings, restoreFellBack, hostSide, history>>

None == "none"

ResultPass == {"ALREADY_PROVISIONED", "WRITTEN"}
Results == ResultPass \cup
  {"RUNNING", "FAIL_BRINGUP", "FAIL_SESSION", "FAIL_AUDIT", "FAIL_RESTORE",
   "FAIL_WRITE", "FAIL_COMMIT", "FAIL_RESET", "FAIL_VERIFY", "ABORTED",
   "DECLINED", "WRITTEN_WITH_DIFFERENCES", "FAIL_REVIEW"}
States == {"IDLE", "BRINGUP", "OPEN", "AUDIT", "RESTORE", "WRITE", "REVIEW",
           "AWAIT_DECISION", "DISCARD", "COMMIT", "CLOSE", "RESET", "DONE"}

ProvisionTypeOK ==
  /\ state \in States
  /\ result \in Results
  /\ pendingResult \in Results
  /\ reqActive \in BOOLEAN
  /\ tableIndex \in Params \cup {NoIndex}
  /\ verifying \in BOOLEAN
  /\ auditMismatch \subseteq Params
  /\ unreadable \subseteq Params
  /\ restoreFellBack \in BOOLEAN
  /\ reviewing \in BOOLEAN
  /\ reviewOverflow \in BOOLEAN
  /\ accepted \in [Params -> Readings \cup {None}]
  /\ decision \in {"NONE", "SAVE", "DISCARD"}
  /\ abortRequested \in BOOLEAN
  /\ sent \subseteq {"GET"} \cup Writers
  /\ wrCount \in Nat
  /\ storedAtStart \in [Params -> Values] /\ ramAtStart \in [Params -> Values]

TypeOK == LinkTypeOK /\ ProvisionTypeOK

Init ==
  /\ LinkInit
  /\ state = "IDLE" /\ result = "RUNNING" /\ pendingResult = "RUNNING"
  /\ reqActive = FALSE /\ tableIndex = NoIndex /\ verifying = FALSE
  /\ auditMismatch = {} /\ unreadable = {} /\ restoreFellBack = FALSE
  /\ reviewing = FALSE /\ reviewOverflow = FALSE
  /\ accepted = [p \in Params |-> None]
  /\ decision = "NONE" /\ abortRequested = FALSE
  /\ sent = {} /\ wrCount = 0 /\ storedAtStart = flash /\ ramAtStart = ram

(***************************************************************************)
(* Building blocks.                                                        *)
(***************************************************************************)
Passed == result \in ResultPass  \* xbee_provision_passed()

\* Mutant: the table is walked from its end.
IsLast(p, S) == p \in S /\ \A q \in S : p >= q

IsFirst(p, S) == p \in S /\ \A q \in S : p <= q
From(n, S)    == {p \in S : p >= n}

Expected(p)   == IF verifying /\ accepted[p] # None THEN accepted[p] ELSE Config[p]
Deviates(p)   == ~(p \in IsDefault /\ p \notin auditMismatch)
AcceptedSet   == {p \in Params : accepted[p] # None}

Finish(outcome) ==
  /\ result' = outcome /\ state' = "DONE" /\ reqActive' = FALSE

\* Issue one request: the facade takes it.
Ask(c) ==
  /\ Submit(c) /\ reqActive' = TRUE
  /\ sent' = sent \cup {c.op}
  /\ wrCount' = IF c.op = "WR" THEN wrCount + 1 ELSE wrCount
  /\ UNCHANGED <<storedAtStart, ramAtStart>>

\* Close the session; with nothing to close, or the exit refused, the outcome
\* stands at once, except that a commit still waits in CLOSE.
CloseSession(outcome) ==
  /\ pendingResult' = outcome /\ reqActive' = FALSE
  /\ UNCHANGED <<tableIndex, verifying, history>>
  /\ \/ SessionClose /\ state' = "CLOSE" /\ UNCHANGED result
     \/ /\ ~SessionIsOpen \/ TxRefused
        /\ UNCHANGED linkVars
        /\ IF outcome = "RUNNING"
           THEN state' = "CLOSE" /\ UNCHANGED result
           ELSE Finish(outcome)

\* Mutant: the session is closed instead of the module being reset.
DiscardByClosing(outcome) == CloseSession(outcome)

\* Reset without writing, so that the staged values are dropped.
StartDiscard(outcome) ==
  /\ pendingResult' = outcome /\ reqActive' = FALSE
  /\ UNCHANGED <<tableIndex, verifying, history>>
  /\ \/ HwReset /\ state' = "DISCARD" /\ UNCHANGED result
     \/ HwResetRefused /\ Finish("FAIL_RESET")

\* A request for entry p that moves the engine to st, or the facade refusing
\* to send it.
AskFor(c, p, st) ==
  /\ Ask(c) /\ state' = st /\ tableIndex' = p
  /\ UNCHANGED <<result, pendingResult, verifying>>

StartCommit ==
  \/ AskFor(Command("WR"), tableIndex, "COMMIT")
  \/ TxRefused /\ CloseSession("FAIL_COMMIT")

StartRestore(op) ==
  \/ AskFor(Command(op), tableIndex, "RESTORE")
  \/ TxRefused /\ CloseSession("FAIL_RESTORE")

StartNextRead(from) ==
  \E p \in Params :
    /\ IsFirst(p, From(from, Readable))
    /\ \/ AskFor(Get(p), p, "AUDIT")
       \/ TxRefused /\ CloseSession(IF verifying THEN "FAIL_VERIFY" ELSE "FAIL_AUDIT")
NoReadLeft(from) == From(from, Readable) = {}

EnterDecision ==
  IF reviewOverflow'
  THEN StartDiscard("FAIL_REVIEW") /\ UNCHANGED decision
  ELSE /\ state' = "AWAIT_DECISION" /\ decision' = "NONE" /\ reqActive' = FALSE
       /\ UNCHANGED <<linkVars, result, pendingResult, tableIndex, verifying, history>>

StartNextReview(from) ==
  \/ \E p \in Params :
       /\ IsFirst(p, From(from, Readable))
       /\ \/ AskFor(Get(p), p, "REVIEW")
          \/ TxRefused /\ StartDiscard("FAIL_REVIEW")
       /\ UNCHANGED decision
  \/ NoReadLeft(from) /\ EnterDecision

\* Mutant: the review callback is ignored.
WritesDoneUnreviewed ==
  StartCommit /\ UNCHANGED <<reviewOverflow, accepted, decision>>

\* writes_done(): review first if the host asked for it, else commit.
WritesDone ==
  \/ /\ reviewing
     /\ reviewOverflow' = FALSE
     /\ accepted' = [p \in Params |-> None]
     /\ StartNextReview(1)
  \/ /\ ~reviewing
     /\ StartCommit
     /\ UNCHANGED <<reviewOverflow, accepted, decision>>

StartNextWrite(from) ==
  \/ \E p \in Params :
       /\ IsFirst(p, From(from, {q \in Params : Deviates(q)}))
       /\ \/ AskFor(SetTo(p, Config[p]), p, "WRITE")
          \/ TxRefused /\ CloseSession("FAIL_WRITE")
       /\ UNCHANGED <<reviewOverflow, accepted, decision>>
  \/ From(from, {q \in Params : Deviates(q)}) = {} /\ WritesDone

(***************************************************************************)
(* The host's calls.                                                       *)
(***************************************************************************)
PrepareRun(review) ==
  /\ pendingResult' = "RUNNING"
  /\ verifying' = FALSE /\ restoreFellBack' = FALSE /\ abortRequested' = FALSE
  /\ reviewOverflow' = FALSE /\ accepted' = [p \in Params |-> None]
  /\ auditMismatch' = {} /\ decision' = "NONE" /\ tableIndex' = NoIndex
  /\ reviewing' = review
  /\ sent' = {} /\ wrCount' = 0 /\ storedAtStart' = flash /\ ramAtStart' = ram
  /\ UNCHANGED unreadable

BeginRun == state' = "BRINGUP" /\ result' = "RUNNING" /\ reqActive' = FALSE

\* xbee_provision_init(), which starts the facade itself, or fails to.
ProvisionInit ==
  /\ ~Hosted /\ state = "IDLE"
  /\ PrepareRun(FALSE)
  /\ \/ Init_Facade /\ BeginRun
     \/ "dead" \in Faults /\ Finish("FAIL_BRINGUP") /\ UNCHANGED linkVars

\* The console starts the facade, and later a run on it.
ConsoleInit ==
  /\ Hosted /\ Init_Facade
  /\ UNCHANGED <<control, findings, restoreFellBack, hostSide, history>>

ProvisionStart ==
  /\ Hosted /\ state \in {"IDLE", "DONE"} /\ IsReady
  /\ BeginRun /\ \E review \in Reviews : PrepareRun(review)
  /\ UNCHANGED linkVars

\* Between runs the operator may change a parameter without saving it.
ConsoleSets ==
  /\ Hosted /\ state \in {"IDLE", "DONE"}
  /\ IsReady /\ session = "NONE" /\ cmd = "IDLE" /\ ~radioCmd /\ ram = flash
  /\ \E p \in Touched, v \in Values :
       ram' = [ram EXCEPT ![p] = v] /\ applied' = [applied EXCEPT ![p] = v]
  /\ UNCHANGED <<facadeVars, wires, flash, radioCmd,
                 control, findings, restoreFellBack, hostSide, history>>

\* The console's "reload" and "reset" reset the module, and its registers.
ConsoleReset ==
  /\ Hosted /\ state \in {"IDLE", "DONE"} /\ fac \in {"READY", "FAILED"}
  /\ HwReset
  /\ UNCHANGED <<control, findings, restoreFellBack, hostSide, history>>

ProvisionDecide ==
  /\ Hosted /\ state = "AWAIT_DECISION" /\ decision = "NONE"
  /\ decision' \in {"SAVE", "DISCARD"}
  /\ UNCHANGED <<linkVars, control, findings, restoreFellBack, reviewing,
                 abortRequested, history>>

\* Mutant: an abort is accepted whatever the run is doing.
AbortAnywhere ==
  /\ state # "DONE" /\ ~abortRequested
  /\ abortRequested' = TRUE
  /\ UNCHANGED <<linkVars, control, findings, restoreFellBack, reviewing,
                 decision, history>>

\* Mutant: an abort ends the run there and then.
AbortAtOnce ==
  /\ ~verifying /\ state \in {"BRINGUP", "OPEN", "AUDIT"}
  /\ ~abortRequested /\ abortRequested' = TRUE
  /\ Finish("ABORTED")
  /\ UNCHANGED <<linkVars, pendingResult, tableIndex, verifying, findings,
                 restoreFellBack, reviewing, decision, history>>

\* At the save decision an abort is a refusal to save, ProvisionDecide.
ProvisionAbort ==
  /\ ~verifying /\ state \in {"BRINGUP", "OPEN", "AUDIT"}
  /\ ~abortRequested
  /\ abortRequested' = TRUE
  /\ UNCHANGED <<linkVars, control, findings, restoreFellBack, reviewing,
                 decision, history>>

HostCall == \/ ConsoleInit \/ ProvisionStart \/ ConsoleSets \/ ConsoleReset
            \/ ProvisionDecide \/ ProvisionAbort

(***************************************************************************)
(* Passes with no request outstanding.                                     *)
(***************************************************************************)
Pass(st) == state = st /\ ~reqActive

\* Nothing but the engine's position changes.
Quiet == UNCHANGED <<linkVars, pendingResult, tableIndex, findings,
                     restoreFellBack, hostSide, history>>

BringUpAborted ==
  /\ Pass("BRINGUP") /\ abortRequested /\ ~verifying
  /\ Finish("ABORTED") /\ Quiet /\ UNCHANGED verifying

BringUpFailed ==
  /\ Pass("BRINGUP") /\ ~(abortRequested /\ ~verifying) /\ fac = "FAILED"
  /\ Finish("FAIL_BRINGUP") /\ Quiet /\ UNCHANGED verifying

BringUpDone == Pass("BRINGUP") /\ ~(abortRequested /\ ~verifying) /\ IsReady

WrongMode ==
  /\ BringUpDone /\ verifying /\ mode # Config[AP]
  /\ Finish("FAIL_RESET") /\ Quiet /\ UNCHANGED verifying

OpenSession ==
  /\ BringUpDone /\ ~(verifying /\ mode # Config[AP])
  /\ SessionOpen /\ state' = "OPEN"
  /\ UNCHANGED <<result, pendingResult, reqActive, tableIndex, verifying,
                 findings, restoreFellBack, hostSide, history>>

\* A session that an earlier run could not close is still standing.
OpenRefused ==
  /\ BringUpDone /\ ~(verifying /\ mode # Config[AP]) /\ session # "NONE"
  /\ Finish("FAIL_SESSION") /\ Quiet /\ UNCHANGED verifying

\* Mutant: the opening deadline is never looked at.
OpenFailedOnlyClosed ==
  /\ Pass("OPEN") /\ session = "NONE"
  /\ Finish("FAIL_SESSION") /\ Quiet /\ UNCHANGED verifying

OpenFailed ==
  /\ Pass("OPEN")
  /\ \/ SessionOpenExpires
     \/ session = "NONE" /\ UNCHANGED linkVars
  /\ Finish("FAIL_SESSION")
  /\ UNCHANGED <<pendingResult, tableIndex, verifying, findings,
                 restoreFellBack, hostSide, history>>

OpenAborted ==
  /\ Pass("OPEN") /\ session = "OPEN" /\ abortRequested
  /\ CloseSession("ABORTED")
  /\ UNCHANGED <<findings, restoreFellBack, hostSide>>

StartReadPass ==
  /\ Pass("OPEN") /\ session = "OPEN" /\ ~abortRequested
  /\ unreadable' = {}
  /\ IF NoReadLeft(1) THEN CloseSession("FAIL_AUDIT") ELSE StartNextRead(1)
  /\ UNCHANGED <<auditMismatch, reviewOverflow, accepted, restoreFellBack, hostSide>>

\* process_decision()
DecisionLapsed ==
  /\ Pass("AWAIT_DECISION") /\ ~SessionIsOpen
  /\ Finish("FAIL_SESSION") /\ Quiet /\ UNCHANGED verifying

DecisionSave ==
  /\ Pass("AWAIT_DECISION") /\ SessionIsOpen /\ decision = "SAVE"
  /\ StartCommit
  /\ UNCHANGED <<findings, restoreFellBack, hostSide>>

DecisionDiscard ==
  /\ Pass("AWAIT_DECISION") /\ SessionIsOpen /\ decision = "DISCARD"
  /\ StartDiscard("DECLINED")
  /\ UNCHANGED <<findings, restoreFellBack, hostSide>>

\* Mutant: keep-alives go on once the decision has been given.
KeepAliveAlways ==
  /\ Pass("AWAIT_DECISION") /\ SessionIsOpen
  /\ AskFor(Get(AP), tableIndex, "AWAIT_DECISION")
  /\ UNCHANGED <<findings, restoreFellBack, hostSide>>

\* The keep-alive, a read of CT: to the model, of no table entry but AP.
KeepAlive ==
  /\ Pass("AWAIT_DECISION") /\ SessionIsOpen /\ decision = "NONE"
  /\ AskFor(Get(AP), tableIndex, "AWAIT_DECISION")
  /\ UNCHANGED <<findings, restoreFellBack, hostSide>>

\* PROV_CLOSE: only a session whose exit could not be sent outlasts the
\* deadline, since an exit in flight is given up long before it.
CloseExpired ==
  /\ Pass("CLOSE") /\ SessionIsOpen /\ cmd = "ACTIVE"
  /\ Finish(IF pendingResult = "RUNNING" THEN "FAIL_COMMIT" ELSE pendingResult)
  /\ Quiet /\ UNCHANGED verifying

CloseEnds ==
  /\ Pass("CLOSE") /\ ~SessionIsOpen /\ pendingResult # "RUNNING"
  /\ Finish(pendingResult) /\ Quiet /\ UNCHANGED verifying

CloseResets ==
  /\ Pass("CLOSE") /\ ~SessionIsOpen /\ pendingResult = "RUNNING"
  /\ \/ /\ HwReset /\ state' = "RESET" /\ verifying' = TRUE
        /\ UNCHANGED <<result, reqActive>>
     \/ HwResetRefused /\ Finish("FAIL_RESET") /\ UNCHANGED verifying
  /\ UNCHANGED <<pendingResult, tableIndex, findings, restoreFellBack,
                 hostSide, history>>

ResetDone ==
  /\ Pass("RESET") /\ state' = "BRINGUP"
  /\ Quiet /\ UNCHANGED <<result, reqActive, verifying>>

DiscardEnds ==
  /\ Pass("DISCARD")
  /\ \/ fac = "FAILED" /\ Finish("FAIL_RESET")
     \/ IsReady /\ Finish(pendingResult)
  /\ Quiet /\ UNCHANGED verifying

IdlePass == \/ BringUpAborted \/ BringUpFailed \/ WrongMode \/ OpenSession
            \/ OpenRefused \/ OpenFailed \/ OpenAborted \/ StartReadPass
            \/ DecisionLapsed \/ DecisionSave \/ DecisionDiscard \/ KeepAlive
            \/ CloseExpired \/ CloseEnds \/ CloseResets \/ ResetDone \/ DiscardEnds

(***************************************************************************)
(* process_request(): the outstanding request has completed.               *)
(***************************************************************************)
ResultReady == reqActive /\ req.state # "PENDING"
Completed(st) == state = st /\ ResultReady
ReqOK == req.state = "DONE"

Differs(p)    == ReqOK /\ req.value # Expected(p)
Noted ==  \* what one read adds to the findings of the pass
  /\ unreadable' = IF ReqOK THEN unreadable ELSE unreadable \cup {tableIndex}
  /\ auditMismatch' = IF Differs(tableIndex) /\ ~verifying
                      THEN auditMismatch \cup {tableIndex} ELSE auditMismatch
  /\ UNCHANGED <<reviewOverflow, accepted, restoreFellBack, hostSide>>

VerifyFails ==
  /\ Completed("AUDIT") /\ verifying /\ Differs(tableIndex)
  /\ Noted /\ CloseSession("FAIL_VERIFY")

AuditAborted ==
  /\ Completed("AUDIT") /\ ~verifying /\ abortRequested
  /\ Noted /\ CloseSession("ABORTED")

\* Mutant: the abort is not looked at between reads.
ReadGoesOnRegardless == Completed("AUDIT") /\ ~(verifying /\ Differs(tableIndex))

ReadGoesOn ==
  Completed("AUDIT") /\ ~(verifying /\ Differs(tableIndex)) /\ ~(abortRequested /\ ~verifying)

ReadContinues ==
  ReadGoesOn /\ Noted /\ StartNextRead(tableIndex + 1)

VerifyCompletes ==
  /\ ReadGoesOn /\ NoReadLeft(tableIndex + 1) /\ verifying
  /\ Noted
  /\ CloseSession(IF AcceptedSet # {} THEN "WRITTEN_WITH_DIFFERENCES" ELSE "WRITTEN")

AuditCompletes ==
  /\ ReadGoesOn /\ NoReadLeft(tableIndex + 1) /\ ~verifying
  /\ Noted
  /\ IF auditMismatch' = {} THEN CloseSession("ALREADY_PROVISIONED")
                            ELSE StartRestore("R1")

RestoreFallsBack ==
  /\ Completed("RESTORE") /\ ~ReqOK /\ ~restoreFellBack
  /\ restoreFellBack' = TRUE
  /\ StartRestore("RE")
  /\ UNCHANGED <<findings, hostSide>>

RestoreFails ==
  /\ Completed("RESTORE") /\ ~ReqOK /\ restoreFellBack
  /\ CloseSession("FAIL_RESTORE")
  /\ UNCHANGED <<findings, restoreFellBack, hostSide>>

RestoreDone ==
  /\ Completed("RESTORE") /\ ReqOK
  /\ StartNextWrite(1)
  /\ UNCHANGED <<auditMismatch, unreadable, restoreFellBack, reviewing, abortRequested>>

WriteFails ==
  /\ Completed("WRITE") /\ ~ReqOK
  /\ CloseSession("FAIL_WRITE")
  /\ UNCHANGED <<findings, restoreFellBack, hostSide>>

\* Mutant: a refused write is passed over.
WriteDoneUnchecked ==
  /\ Completed("WRITE")
  /\ StartNextWrite(tableIndex + 1)
  /\ UNCHANGED <<auditMismatch, unreadable, restoreFellBack, reviewing, abortRequested>>

WriteDone ==
  /\ Completed("WRITE") /\ ReqOK
  /\ StartNextWrite(tableIndex + 1)
  /\ UNCHANGED <<auditMismatch, unreadable, restoreFellBack, reviewing, abortRequested>>

\* handle_review_result(): a value that differs is kept for the verification,
\* as long as there is room for it.
ReviewRead ==
  /\ Completed("REVIEW")
  /\ LET differs == ReqOK /\ req.value # Config[tableIndex]
         room    == Cardinality(AcceptedSet) < MaxAccepted
     IN /\ accepted' = IF differs /\ room
                       THEN [accepted EXCEPT ![tableIndex] = req.value] ELSE accepted
        /\ reviewOverflow' = (reviewOverflow \/ (differs /\ ~room))
  /\ StartNextReview(tableIndex + 1)
  /\ UNCHANGED <<auditMismatch, unreadable, restoreFellBack, reviewing, abortRequested>>

KeepAliveDone ==
  /\ Completed("AWAIT_DECISION")
  /\ reqActive' = FALSE
  /\ UNCHANGED <<state, result, verifying>> /\ Quiet

\* Mutant: a failed WR is tried again.
CommitRetried ==
  /\ Completed("COMMIT") /\ ~ReqOK
  /\ StartCommit
  /\ UNCHANGED <<findings, restoreFellBack, hostSide>>

CommitFails ==
  /\ Completed("COMMIT") /\ ~ReqOK
  /\ CloseSession("FAIL_COMMIT")
  /\ UNCHANGED <<findings, restoreFellBack, hostSide>>

CommitDone ==
  /\ Completed("COMMIT") /\ ReqOK
  /\ CloseSession("RUNNING")
  /\ UNCHANGED <<findings, restoreFellBack, hostSide>>

ResultPasses == \/ VerifyFails \/ AuditAborted \/ ReadContinues \/ VerifyCompletes
                \/ AuditCompletes \/ RestoreFallsBack \/ RestoreFails \/ RestoreDone
                \/ WriteFails \/ WriteDone \/ ReviewRead \/ KeepAliveDone
                \/ CommitFails \/ CommitDone

(***************************************************************************)
(* The pass that completes a request hands it to the engine before the     *)
(* facade runs again: xbee_process() comes first on every pass, and the    *)
(* engine's own pass second.                                               *)
(***************************************************************************)
ProvisionStep == ProvisionInit \/ IdlePass \/ ResultPasses
FacadePass == FacadeStep /\ ~ResultReady
              /\ UNCHANGED <<control, findings, restoreFellBack, hostSide, history>>
RadioPass  == RadioStep
              /\ UNCHANGED <<control, findings, restoreFellBack, hostSide, history>>
EnvPass    == EnvStep
              /\ UNCHANGED <<control, findings, restoreFellBack, hostSide, history>>

Next == ProvisionStep \/ FacadePass \/ RadioPass \/ EnvPass \/ HostCall

Spec == Init /\ [][Next]_vars

\* The super loop always makes another pass and the module always takes the
\* next line; nothing is assumed of the host, nor of what may go wrong.
Fairness == WF_vars(ProvisionStep) /\ WF_vars(FacadePass) /\ WF_vars(RadioPass)
FairSpec == Spec /\ Fairness

(***************************************************************************)
(* Properties.                                                             *)
(***************************************************************************)
\* The engine and the facade agree on what is in flight: a request of the
\* facade's always has the engine waiting for it, and the session it runs in
\* stays open under it until its result has been handled (xbee_provision.c
\* sets req_active apart from xbee.c's user_req, and finishes runs and resets
\* the module from many places).
RequestOwned ==
  /\ UserReq => reqActive
  /\ reqActive => session = "OPEN" /\ cmd = (IF UserReq THEN "BUSY" ELSE "ACTIVE")

\* One write to flash per run (xbee_provision.h:43), whatever the host decides
\* and however often requests fail, time out or are retried.
OneWritePerRun == wrCount <= 1

\* A run that ends ALREADY_PROVISIONED or ABORTED has told the module nothing
\* that could change it (xbee_provision.h:58 and 68).
NothingWritten ==
  result \in {"ALREADY_PROVISIONED", "ABORTED"} => sent \cap Writers = {}

\* An abort that was accepted is never overtaken by the restore, whatever is in
\* flight when it comes: the run goes no further than the audit, and ends
\* ABORTED unless its session never opens.
AbortHonoured ==
  abortRequested =>
    /\ sent \cap Writers = {} /\ ~verifying
    /\ state = "DONE" => result \in {"ABORTED", "FAIL_SESSION"}

\* A verified run has its configuration in flash: every entry the verification
\* did not report unreadable, and also those that can never be read back and
\* rest on the module's acknowledgements alone, unless they are left to the
\* restore, holds the configured value, or the different one the host accepted.
WrittenMeansStored ==
  result \in {"WRITTEN", "WRITTEN_WITH_DIFFERENCES"} =>
    \A p \in (Readable \ unreadable) \cup (Params \ (Readable \cup IsDefault)) :
      flash[p] = IF accepted[p] # None THEN accepted[p] ELSE Config[p]

\* The strengthening that makes the invariants above inductive: where the engine
\* may be with a request out, when the run's writing commands can have been
\* sent, which outcome a closing session carries, and where an abort leaves it.
AskingStates == {"AUDIT", "RESTORE", "WRITE", "REVIEW", "AWAIT_DECISION", "COMMIT"}
RequestInv ==
  /\ reqActive => IsReady /\ state \in AskingStates
  /\ state \in {"AUDIT", "WRITE", "REVIEW"} => tableIndex \in Params
  /\ state = "AWAIT_DECISION" => session \in {"OPEN", "NONE"}
WriteInv ==
  /\ state \in {"IDLE", "RESTORE", "WRITE", "REVIEW", "AWAIT_DECISION"} => wrCount = 0
  /\ state \in {"BRINGUP", "OPEN", "AUDIT"} /\ ~verifying =>
       wrCount = 0 /\ sent \cap Writers = {}
  /\ state = "RESET" => verifying
OutcomeInv ==
  /\ state # "DONE" => result = "RUNNING"
  /\ state = "CLOSE" /\ pendingResult \in {"ALREADY_PROVISIONED", "ABORTED"} =>
       sent \cap Writers = {}
  /\ state = "DISCARD" => pendingResult \in {"DECLINED", "FAIL_REVIEW"}
AbortInv ==
  abortRequested =>
    /\ state \in {"BRINGUP", "OPEN", "AUDIT", "CLOSE", "DONE"}
    /\ state = "CLOSE" => pendingResult = "ABORTED"
IInv == /\ TypeOK /\ RequestOwned /\ OneWritePerRun /\ NothingWritten /\ AbortHonoured
        /\ RequestInv /\ WriteInv /\ OutcomeInv /\ AbortInv

Finishes(outcomes) == state # "DONE" /\ state' = "DONE" /\ result' \in outcomes

\* Declining the save, or failing the read-back, leaves the module on the
\* configuration it had stored when the run began, in flash, in its registers
\* and in effect (xbee_provision.h:69 and 71).
DiscardRestores ==
  [][Finishes({"DECLINED", "FAIL_REVIEW"}) =>
       flash' = storedAtStart /\ ram' = flash' /\ applied' = flash']_vars

\* The stored configuration changes only while the engine waits for its one WR,
\* and on a reviewed run only after the host has said to save.
FlashOnlyBySave ==
  [][flash' # flash => state = "COMMIT" /\ wrCount = 1
                       /\ (reviewing => decision = "SAVE")]_vars

\* Nothing is sent to the module until it has answered the WR
\* (xbee_provision.c:382).
NothingSentBeforeWrAnswers ==
  [][Len(toModule') > Len(toModule) =>
       \A k \in 1..Len(toModule) : toModule[k].op # "WR"]_vars

\* A run that reports ALREADY_PROVISIONED has read each entry, and found those that
\* could be read as configured, in the module as it was then: they still are so,
\* or they were when the run began and the module has restarted since, which put
\* its stored configuration back (xbee_provision.c:877).
AlreadyMeansMatching ==
  [][Finishes({"ALREADY_PROVISIONED"}) =>
       \A p \in Readable \ unreadable' :
         \/ ram'[p] = Config[p]
         \/ ramAtStart'[p] = Config[p] /\ ram' = flash']_vars

\* A run once started ends, or waits for the host's decision; and it ends once
\* the host has decided.
RunEnds == state = "BRINGUP" ~> state \in {"DONE", "AWAIT_DECISION"}
DecisionEnds == decision # "NONE" ~> state = "DONE"

(***************************************************************************)
(* What the documentation says and the code does not do.                   *)
(***************************************************************************)
\* "The module already matched" (xbee_provision.h:58): every entry the module
\* can report does.  The code counts the reads that failed and then leaves the
\* count out of the verdict.
AlreadyMatched ==
  [][Finishes({"ALREADY_PROVISIONED"}) =>
       \A p \in Readable : ram'[p] = Config[p]]_vars
=============================================================================
