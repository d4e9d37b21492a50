------------------------------ MODULE Console ------------------------------
(***************************************************************************)
(* The console's state machine, cli.c and cli_show.c: the terminal's bytes *)
(* go through the line editor, a line through the parser to a command, and *)
(* a command that needs the module runs from pass to pass of the super     *)
(* loop, while bytes keep coming.                                          *)
(*                                                                         *)
(* A pass of cli_process() is some Feed steps, one per byte that was in    *)
(* the receive buffer (CLI_READ_CHUNK bounds them, the model does not),    *)
(* and an Advance; in the bridge's state it is the bridge's alone.  A      *)
(* variable that is set before it is next read is left at its first value. *)
(* The facade, the provisioning engine and the bridge are reduced to what  *)
(* the console sees of them; each has a module of its own.                 *)
(* What is printed, and the log level, are left out.                       *)
(***************************************************************************)
EXTENDS CliParser, LineEdit

CONSTANTS Fragments,   \* the pieces of text the operator types
          Endings,     \* what the terminal may send for Enter
          WalkLength   \* parameters "show xbee all" reads

\* The words a fragment of text is made of.
Texts == [ enable  |-> <<"enable">>, admin |-> <<"admin">>, disable |-> <<"disable">>,
           conf    |-> <<"configure", "terminal">>, end |-> <<"end">>, exit |-> <<"exit">>,
           set     |-> <<"xbee", "at", "CH", "C">>, unset |-> <<"no", "xbee", "at", "CH">>,
           get     |-> <<"show", "xbee", "at", "CH">>, walk |-> <<"show", "xbee", "all">>,
           info    |-> <<"show", "xbee", "info">>, log |-> <<"logging", "level", "info">>,
           write   |-> <<"write", "memory">>, reload |-> <<"reload">>,
           bridge  |-> <<"bridge">>, prov |-> <<"xbee", "provision", "all">>,
           part    |-> <<"xbee", "at">>, more |-> <<"enable", "now">>, y |-> <<"y">> ]

\* The words of anything that may come to stand in a line.
Words == [k \in DOMAIN Texts \cup {"[", "?", "junk"} |->
            IF k \in DOMAIN Texts THEN Texts[k] ELSE <<k>>]

ASSUME ConsoleAssumption ==
  /\ Fragments \subseteq DOMAIN Words
  /\ Endings \subseteq {"CR", "LF", "CRLF"}
  /\ WalkLength \in Nat \ {0}

Attempts == 3    \* CLI_PASSWORD_ATTEMPTS

VARIABLES cli,     \* cli.c: state, mode, password_attempts, pending_dispatched,
                   \* config_dirty, and whether the deadline in force is reached
          editor,  \* editor
          walk,    \* cli_show.c: table_index, req_active, abort_requested, stall_active
          turn,    \* flips with every pass: one that changes nothing else is a step
          fed,     \* the pass that entered the bridge is not over yet
          req,     \* the request in flight: none, waiting, or how it ended
          \* the parts the console drives:
          xbee,    \* the facade: busy, ready or failed
          engine,  \* the provisioning run
          differs, \* whether its read-back found a difference
          bridge,  \* whether the bridge is active
          unsaved, \* an acknowledged write of the console's that is not in the
                   \* module's flash; MATCHED once a run found nothing to write
          \* the terminal:
          ending,  \* what its Enter key sends
          owed,    \* the LF of a CR LF is still to come
          ended    \* lines an Enter of two bytes has ended

world == <<req, xbee, engine, differs, bridge, unsaved>>
vars  == <<cli, editor, walk, turn, fed, world, ending, owed, ended>>

Busy == {"GET", "SET", "EXEC", "WALK", "PROVISION"}      \* is_busy()
Asks == {"PASSWORD", "CONFIRM", "SAVE_CONFIRM"}

TypeOK ==
  /\ cli \in [state : Busy \cup Asks \cup {"BRINGUP", "PROMPT", "BRIDGE"}, mode : ALL,
              attempts : 0..Attempts, dispatched : BOOLEAN, dirty : BOOLEAN, due : BOOLEAN]
  /\ editor.line \in Seq(DOMAIN Words) /\ Len(editor.line) < LineMax
  /\ walk \in [at : 1..(WalkLength + 1), active : BOOLEAN, abort : BOOLEAN, stalled : BOOLEAN]
  /\ turn \in BOOLEAN /\ fed \in BOOLEAN /\ req \in {"NONE", "OUT", "OK", "FAIL"}
  /\ xbee \in {"BUSY", "READY", "FAILED"} /\ bridge \in BOOLEAN /\ differs \in BOOLEAN
  /\ engine \in {"IDLE", "AUDIT", "ABORT", "WRITE", "WAIT", "SAVE", "DISCARD"}
  /\ unsaved \in {"NO", "YES", "MATCHED"}
  /\ ending \in Endings /\ owed \in BOOLEAN /\ ended \in 0..2

\* cli_show_all_start()
FirstStep == [at |-> 1, active |-> FALSE, abort |-> FALSE, stalled |-> FALSE]

\* cli_init()
Init ==
  /\ cli = [state |-> "BRINGUP", mode |-> USER, attempts |-> 0, dispatched |-> FALSE,
            dirty |-> FALSE, due |-> FALSE]
  /\ editor = Fresh
  /\ walk = FirstStep
  /\ turn = FALSE /\ fed = FALSE /\ req = "NONE" /\ xbee = "BUSY" /\ engine = "IDLE" /\ differs = FALSE
  /\ bridge = FALSE /\ unsaved = "NO"
  /\ ending \in Endings /\ owed = FALSE /\ ended = 0

Goes(state) == [cli EXCEPT !.state = state, !.due = FALSE, !.attempts = 0, !.dispatched = FALSE]

\* back_to_prompt()
AtPrompt(c) ==
  [c EXCEPT !.state = "PROMPT", !.due = FALSE, !.attempts = 0, !.dispatched = FALSE]
ToPrompt(c) == cli' = AtPrompt(c) /\ editor' = [Clear(editor) EXCEPT !.masked = FALSE]

(***************************************************************************)
(* Commands.                                                               *)
(***************************************************************************)
\* cmd_show_at(), cmd_set_at() and start_request(): a name or a value the
\* tables refuse leaves the console at its prompt.
StartRequest(id) ==
  LET state == CASE id = "SHOW_AT" -> "GET" [] id = "WRITE_MEM" -> "EXEC" [] OTHER -> "SET"
  IN /\ \/ cli' = Goes(state)
        \/ id # "WRITE_MEM" /\ cli' = AtPrompt(cli)
     /\ UNCHANGED <<walk, world>>

\* The commands that change the mode only: exit, end, disable, configure.
ChangeMode(id) ==
  /\ cli' = [AtPrompt(cli) EXCEPT
               !.mode = CASE id = "CONF_TERM" -> CONF
                          [] id = "END" \/ (id = "EXIT" /\ cli.mode = CONF) -> PRIV
                          [] OTHER -> USER]
  /\ UNCHANGED <<walk, world>>

\* xbee_hw_reset() and what the module forgets.
Reload ==
  \/ /\ cli' = [Goes("BRINGUP") EXCEPT !.dirty = FALSE]
     /\ xbee' = "BUSY" /\ unsaved' = "NO"
     /\ UNCHANGED <<walk, req, engine, differs, bridge>>
  \/ cli' = AtPrompt(cli) /\ UNCHANGED <<walk, world>>

\* cmd_bridge(): refused while the bridge is on, and when a part of it fails.
EnterBridge ==
  \/ /\ ~bridge /\ bridge' = TRUE /\ cli' = Goes("BRIDGE")
     /\ UNCHANGED <<walk, req, xbee, engine, differs, unsaved>>
  \/ cli' = AtPrompt(cli) /\ UNCHANGED <<walk, world>>

\* execute()
Execute(id) ==
  \/ id \in {"SHOW_AT", "XBEE_AT_SET", "NO_XBEE_AT", "WRITE_MEM"} /\ StartRequest(id)
  \/ id \in {"CONF_TERM", "END", "EXIT", "DISABLE"} /\ ChangeMode(id)
  \/ id = "RELOAD" /\ Reload
  \/ id = "BRIDGE" /\ EnterBridge
  \/ /\ id = "SHOW_ALL"
     /\ cli' = Goes("WALK")
     /\ walk' = FirstStep
     /\ UNCHANGED world
  \/ id = "ENABLE" /\ cli' = Goes("PASSWORD") /\ UNCHANGED <<walk, world>>
  \/ /\ id = "XBEE_PROVISION_ALL"
     /\ cli' = IF xbee = "READY" THEN Goes("CONFIRM") ELSE AtPrompt(cli)
     /\ UNCHANGED <<walk, world>>
  \/ id \in {"SHOW_INFO", "SHOW_VERSION", "LOG"} /\ cli' = AtPrompt(cli) /\ UNCHANGED <<walk, world>>

\* handle_line()
HandleLine(e) ==
  LET words  == FlattenSeq([i \in DOMAIN e.line |-> Words[e.line[i]]])
      parsed == Parse(words, cli.mode)
  IN /\ editor' = [Clear(e) EXCEPT !.masked = parsed.id = "ENABLE"]
     /\ IF parsed.status = "OK" THEN Execute(parsed.id)
        ELSE cli' = AtPrompt(cli) /\ UNCHANGED <<walk, world>>

\* handle_password()
HandlePassword(e) ==
  LET right == e.line = <<"admin">>
      over  == right \/ cli.attempts + 1 >= Attempts
  IN /\ cli' = IF over THEN [AtPrompt(cli) EXCEPT !.mode = IF right THEN PRIV ELSE @]
               ELSE [cli EXCEPT !.attempts = @ + 1, !.due = FALSE]
     /\ editor' = [Clear(e) EXCEPT !.masked = ~over]
     /\ UNCHANGED <<walk, world>>

\* handle_confirm() and start_provision()
HandleConfirm(e) ==
  /\ editor' = Clear(e)
  /\ IF e.line \in {<<>>, <<"y">>} /\ xbee = "READY" /\ engine = "IDLE"
     THEN /\ engine' = "AUDIT" /\ differs' = FALSE /\ cli' = Goes("PROVISION")
          /\ UNCHANGED <<walk, req, xbee, bridge, unsaved>>
     ELSE cli' = AtPrompt(cli) /\ UNCHANGED <<walk, world>>

\* decide_save()
DecideSave(save, e) ==
  /\ cli' = Goes("PROVISION") /\ editor' = Clear(e)
  /\ engine' = IF engine = "WAIT" THEN IF save THEN "SAVE" ELSE "DISCARD" ELSE engine
  /\ differs' = FALSE
  /\ UNCHANGED <<walk, req, xbee, bridge, unsaved>>

\* interrupt_provision(), and xbee_provision_abort() as the engine answers it
InterruptProvision ==
  /\ engine' = IF engine = "AUDIT" THEN "ABORT" ELSE engine
  /\ UNCHANGED <<walk, req, xbee, differs, bridge, unsaved>>

(***************************************************************************)
(* A byte from the terminal.                                               *)
(***************************************************************************)
Ready(e) ==
  CASE cli.state = "PASSWORD"     -> HandlePassword(e)
    [] cli.state = "CONFIRM"      -> HandleConfirm(e)
    [] cli.state = "SAVE_CONFIRM" -> DecideSave(e.line = <<"y">> \/ (e.line = <<>> /\ differs), e)
    [] OTHER                      -> HandleLine(e)

\* Ctrl-C, and a line too long.  In the password's state the latter only prints.
GiveUp(event, e) ==
  IF cli.state = "SAVE_CONFIRM" THEN DecideSave(FALSE, e)
  ELSE /\ \/ /\ cli.state = "CONFIRM" \/ (cli.state = "PASSWORD" /\ event = "ABORT")
             /\ cli' = AtPrompt(cli)
          \/ /\ cli.state \notin {"CONFIRM"} \cup (IF event = "ABORT" THEN {"PASSWORD"} ELSE {})
             /\ UNCHANGED cli
       /\ editor' = [e EXCEPT !.masked = @ /\ event # "ABORT"]
       /\ UNCHANGED <<walk, world>>

Dropped == cli.state = "BRINGUP" \/ cli.state \in Busy

\* feed_byte()
FeedByte(key) ==
  LET told == FeedKey(editor, key)
  IN IF Dropped
     THEN /\ UNCHANGED <<cli, editor>>
          /\ IF key = "ETX" /\ cli.state = "WALK"
             THEN walk' = [walk EXCEPT !.abort = TRUE] /\ UNCHANGED world
             ELSE IF key = "ETX" /\ cli.state = "PROVISION"
             THEN InterruptProvision
             ELSE UNCHANGED <<walk, world>>
     ELSE CASE told.event = "READY" -> Ready(told.ed)
            [] told.event \in {"ABORT", "OVERFLOW"} -> GiveUp(told.event, told.ed)
            [] OTHER -> editor' = told.ed /\ UNCHANGED <<cli, walk, world>>

Keys == Fragments \cup {"ETX", "BS", "ESC", "?"}
        \cup (IF editor.esc = "NONE" THEN {} ELSE {"["})    \* an arrow key
Enter == IF ending = "LF" THEN "LF" ELSE "CR"
EndsLine(key) == ~Dropped /\ FeedKey(editor, key).event \in {"READY", "SWALLOWED"}

\* One byte of the pass's chunk.  While the bridge has the link at the start of
\* a pass, the console reads nothing.
Feed ==
  /\ fed \/ cli.state # "BRIDGE"
  /\ \/ /\ ~owed /\ FeedByte(Enter) /\ owed' = (ending = "CRLF")
        /\ ended' = IF ending = "CRLF" /\ EndsLine(Enter) THEN 1 ELSE 0
     \/ /\ owed /\ FeedByte("LF") /\ owed' = FALSE
        /\ ended' = IF ended = 1 /\ EndsLine("LF") THEN 2 ELSE 0
     \/ /\ ~owed /\ \E key \in Keys : FeedByte(key)
        /\ ended' = 0 /\ UNCHANGED owed
  /\ fed' = (cli'.state = "BRIDGE") /\ UNCHANGED <<turn, ending>>

(***************************************************************************)
(* The rest of a pass.                                                     *)
(***************************************************************************)
\* Mutant: a request the facade does not take is tried for ever.
RetriesForEver == TRUE

Retries == ~cli.due

\* advance_request(), before the transport has taken the request
Dispatch ==
  /\ ~cli.dispatched
  /\ \/ /\ xbee = "READY" /\ req' = "OUT"
        /\ cli' = [cli EXCEPT !.dispatched = TRUE] /\ UNCHANGED editor
     \/ Retries /\ UNCHANGED <<cli, editor, req>>
     \/ (xbee = "READY" \/ cli.due) /\ ToPrompt(cli) /\ UNCHANGED req
  /\ UNCHANGED <<walk, xbee, engine, differs, bridge, unsaved>>

\* finish_get(), finish_set(), finish_exec()
Finished ==
  [cli EXCEPT !.dirty = CASE cli.state = "SET"  /\ req = "OK" -> TRUE
                          [] cli.state = "EXEC" /\ req = "OK" -> FALSE
                          [] OTHER -> @]

\* advance_request(), once the transport has taken it
Complete ==
  /\ cli.dispatched
  /\ IF req = "OUT" THEN UNCHANGED <<cli, editor, req>> ELSE ToPrompt(Finished) /\ req' = "NONE"
  /\ UNCHANGED <<walk, xbee, engine, differs, bridge, unsaved>>

\* start_next_read(): the parameters before "to" were refused, or given up
\* after a stall; then one is taken, waited for, or the table has run out.
StartNextRead(from) ==
  \E to \in from..(WalkLength + 1) :
    \E stalled \in {walk.stalled} \cup (IF to > from /\ cli.due THEN {FALSE} ELSE {}) :
      \/ /\ to > WalkLength /\ ToPrompt(cli) /\ req' = "NONE"
         /\ walk' = FirstStep
      \/ /\ to <= WalkLength /\ xbee = "READY" /\ req' = "OUT"
         /\ walk' = [walk EXCEPT !.at = to, !.active = TRUE, !.stalled = FALSE]
         /\ cli' = [cli EXCEPT !.due = FALSE] /\ UNCHANGED editor
      \/ /\ to <= WalkLength /\ (~stalled \/ ~cli.due) /\ req' = "NONE" /\ UNCHANGED editor
         /\ walk' = [walk EXCEPT !.at = to, !.active = FALSE, !.stalled = TRUE]
         /\ cli' = [cli EXCEPT !.due = @ /\ stalled]

\* cli_show_all_process()
AdvanceWalk ==
  LET answered == walk.active /\ req # "OUT"
      next     == IF answered /\ ~walk.abort THEN walk.at + 1 ELSE walk.at
  IN /\ IF walk.active /\ req = "OUT" THEN UNCHANGED <<cli, editor, walk, req>>
        ELSE IF walk.abort
        THEN ToPrompt(cli) /\ walk' = FirstStep /\ req' = "NONE"
        ELSE StartNextRead(next)
     /\ UNCHANGED <<xbee, engine, differs, bridge, unsaved>>

\* What a run may come to, from each of its phases.
Outcomes ==
  [ AUDIT   |-> {"WRITE", "ALREADY_PROVISIONED", "FAILED"}, ABORT |-> {"ABORTED", "FAILED"},
    WRITE   |-> {"WAIT", "FAILED"},                         WAIT  |-> {"FAILED"},
    DISCARD |-> {"DECLINED", "FAILED"},
    SAVE    |-> {"WRITTEN", "WRITTEN_WITH_DIFFERENCES", "FAILED"} ]

\* What the module still holds of the console's writes when a run ends so.
LeftUnsaved(outcome) ==
  CASE outcome \in {"WRITTEN", "WRITTEN_WITH_DIFFERENCES", "DECLINED"} -> {"NO"}
    [] outcome = "ALREADY_PROVISIONED" -> {IF unsaved = "YES" THEN "MATCHED" ELSE unsaved}
    [] outcome = "ABORTED" -> {unsaved}
    [] OTHER -> {unsaved, "NO"}

\* Mutant: a run that failed clears the mark too.
AllClear(outcome) == TRUE

\* xbee_provision_passed(), and the outcome finish_provision() asks for itself
ClearsDirty(outcome) == outcome \in {"ALREADY_PROVISIONED", "WRITTEN", "DECLINED"}

\* xbee_provision_process(), as far as the next thing the console sees
EngineStep(next) ==
  IF next \in DOMAIN Outcomes
  THEN engine' = next /\ differs' \in (IF next = "WAIT" THEN BOOLEAN ELSE {differs})
       /\ UNCHANGED <<xbee, unsaved>>
  ELSE engine' = "IDLE" /\ differs' = FALSE /\ unsaved' \in LeftUnsaved(next)
       /\ xbee' \in (IF next = "FAILED" THEN {"READY", "FAILED"} ELSE {"READY"})

\* finish_provision()
FinishProvision(outcome) == ToPrompt([cli EXCEPT !.dirty = @ /\ ~ClearsDirty(outcome)])

\* ask_save(), or the run goes on
WatchEngine(next) ==
  IF next = "WAIT" THEN cli' = Goes("SAVE_CONFIRM") /\ editor' = Clear(editor)
  ELSE IF next \in DOMAIN Outcomes THEN UNCHANGED <<cli, editor>>
  ELSE FinishProvision(next)

\* cli_process(), in the states of a provisioning run.
EngineProgress ==
  /\ \E next \in Outcomes[engine] : EngineStep(next) /\ WatchEngine(next)
  /\ UNCHANGED <<walk, req, bridge>>

AdvanceProvision == \/ EngineProgress
                    \/ UNCHANGED <<cli, editor, walk, world>>

AdvanceQuestion == \/ EngineProgress
                   \/ cli.due /\ DecideSave(FALSE, editor)
                   \/ ~cli.due /\ UNCHANGED <<cli, editor, walk, world>>

\* advance_bringup(), and the two questions that time out by themselves.
AdvanceWait ==
  /\ IF (cli.state = "BRINGUP" /\ xbee # "BUSY") \/ (cli.state \in {"PASSWORD", "CONFIRM"} /\ cli.due)
     THEN ToPrompt(cli) ELSE UNCHANGED <<cli, editor>>
  /\ UNCHANGED <<walk, world>>

\* finish_bridge()
FinishBridge ==
  /\ cli.state = "BRIDGE" /\ ~fed /\ bridge' = FALSE /\ ToPrompt(cli)
  /\ UNCHANGED <<walk, req, xbee, engine, differs, unsaved>>

Working == cli.state \in {"PROVISION", "SAVE_CONFIRM"}
PassEnds == turn' = ~turn /\ fed' = FALSE /\ UNCHANGED <<ending, owed, ended>>

\* The switch of cli_process().
Advance ==
  /\ \/ cli.state \in {"GET", "SET", "EXEC"} /\ (Dispatch \/ Complete)
     \/ cli.state = "WALK" /\ AdvanceWalk
     \/ cli.state = "PROVISION" /\ AdvanceProvision
     \/ cli.state = "SAVE_CONFIRM" /\ AdvanceQuestion
     \/ cli.state \in {"BRINGUP", "PASSWORD", "CONFIRM", "PROMPT"} /\ AdvanceWait
     \/ cli.state = "BRIDGE" /\ fed /\ UNCHANGED <<cli, editor, walk, world>>
     \/ FinishBridge
  /\ PassEnds

(***************************************************************************)
(* The module and the clock.                                               *)
(***************************************************************************)
\* The facade's bring-up ends, one way or the other.
Settles ==
  /\ xbee = "BUSY" /\ xbee' \in {"READY", "FAILED"}
  /\ UNCHANGED <<cli, editor, walk, turn, fed, req, engine, differs, bridge, unsaved, ending, owed, ended>>

\* The request in flight completes; a value the module has acknowledged is
\* unsaved until an acknowledged WR.
Answers ==
  /\ req = "OUT" /\ req' \in {"OK", "FAIL"}
  /\ unsaved' \in CASE cli.state = "SET"  /\ req' = "OK" -> {"YES"}
                    [] cli.state = "EXEC" -> IF req' = "OK" THEN {"NO"} ELSE {unsaved, "NO"}
                    [] OTHER -> {unsaved}
  /\ UNCHANGED <<cli, editor, walk, turn, fed, xbee, engine, differs, bridge, ending, owed, ended>>

\* The module loses its supply for a moment: what was not saved is gone.
Restart ==
  /\ unsaved # "NO" /\ unsaved' = "NO"
  /\ UNCHANGED <<cli, editor, walk, turn, fed, req, xbee, engine, differs, bridge, ending, owed, ended>>

\* The deadline in force is reached.
Elapse ==
  /\ ~cli.due
  /\ \/ cli.state \in Asks
     \/ cli.state \in {"GET", "SET", "EXEC"} /\ ~cli.dispatched
     \/ cli.state = "WALK" /\ walk.stalled
  /\ cli' = [cli EXCEPT !.due = TRUE]
  /\ UNCHANGED <<editor, walk, turn, fed, world, ending, owed, ended>>

Next == Feed \/ Advance \/ Settles \/ Answers \/ Restart \/ Elapse
Spec == Init /\ [][Next]_vars

\* The super loop turns, the clock runs, the facade ends its bring-up and every
\* request it has taken, and the engine, which lives on such requests, moves on.
FairSpec ==
  Spec /\ WF_vars(Advance) /\ WF_vars(Elapse) /\ WF_vars(Settles) /\ WF_vars(Answers)
       /\ SF_vars(Advance /\ Working /\ engine' # engine)

(***************************************************************************)
(* Properties.                                                             *)
(***************************************************************************)
\* An Enter ends one line at most, whichever ending the terminal sends, whether
\* the two bytes of a CR LF come in one pass or in two, and whatever state the
\* first of them has moved the console to (line_edit.h:33): the LF of the Enter
\* that started a command never answers the question that command asks.  And the
\* editor hides what is typed exactly while the password is asked for.
OneLinePerEnter ==
  /\ TypeOK
  /\ ended <= 1
  /\ editor.masked <=> cli.state = "PASSWORD"

\* A value the module has acknowledged and that a reset would lose is known to
\* the console, whatever requests, saves, reloads and provisioning runs came
\* after it (config_dirty, cli.c:281), until the answer to it has been looked at.
\* The run that finds nothing to write, and clears the mark, is set apart.
UnsavedIsKnown ==
  unsaved = "YES" => cli.dirty \/ (cli.state = "SET" /\ req = "OK")

\* The operator gets the prompt back from everything a command starts: a request
\* the facade never takes, a walk that stalls, a question left unanswered, a run.
PromptReturns ==
  cli.state \notin {"PROMPT", "BRIDGE"} ~> cli.state = "PROMPT"

\* While the bridge is on, the console is not at its prompt (cli.c:103, 1603).
BridgeOwnsTerminal == bridge => cli.state = "BRIDGE"
=============================================================================
