---------------------------- MODULE ConsoleProofs ----------------------------
(***************************************************************************)
(* Proofs about Console: with any pieces of text, any buffer length and    *)
(* any number of parameters to walk, whatever keys come between which      *)
(* passes, an Enter ends one line at most, the password and nothing else   *)
(* is hidden, and no unsaved value is forgotten.                           *)
(*                                                                         *)
(* ConsoleInv is the inductive invariant.  Requests says in which states   *)
(* of the console a request or a run can be in flight: without it an       *)
(* answer that comes late could mark a value the console no longer looks   *)
(* at.  Marked adds to UnsavedIsKnown that an acknowledged WR has left     *)
(* nothing unsaved by the time it clears the mark.  Keyed says that while  *)
(* the LF of a CR LF that ended a line is owed, the editor remembers the   *)
(* CR and is outside an escape sequence: no handler and no pass forgets    *)
(* it, which is all that keeps that LF from ending a second line.          *)
(***************************************************************************)
EXTENDS Console, TLAPS

\* The values the variables take.
Cli == [state : Busy \cup Asks \cup {"BRINGUP", "PROMPT", "BRIDGE"}, mode : ALL,
        attempts : 0..Attempts, dispatched : BOOLEAN, dirty : BOOLEAN, due : BOOLEAN]
Lines == Seq(DOMAIN Words)
Editor == [line : Lines, over : BOOLEAN, lf : BOOLEAN,
           esc : {"NONE", "GOT_ESC", "GOT_CSI"}, masked : BOOLEAN]
Walk == [at : 1..WalkLength, active : BOOLEAN, abort : BOOLEAN, stalled : BOOLEAN]
Engines == {"IDLE", "AUDIT", "ABORT", "WRITE", "WAIT", "SAVE", "DISCARD"}

\* The types, with what TypeOK does not say of the editor and of the walk.
TypeInv ==
  /\ cli \in Cli /\ editor \in Editor /\ Len(editor.line) < LineMax /\ walk \in Walk
  /\ req \in {"NONE", "OUT", "OK", "FAIL"}
  /\ xbee \in {"BUSY", "READY", "FAILED"} /\ bridge \in BOOLEAN /\ differs \in BOOLEAN
  /\ engine \in Engines /\ unsaved \in {"NO", "YES", "MATCHED"}

\* The editor hides what is typed exactly while the password is asked for.
Hidden == editor.masked <=> cli.state = "PASSWORD"

\* The states of the console in which a request or a run is in flight.
Requests ==
  /\ cli.state \notin {"GET", "SET", "EXEC", "WALK"} => req = "NONE"
  /\ cli.state \in {"GET", "SET", "EXEC"} /\ ~cli.dispatched => req = "NONE"
  /\ cli.state \in {"PROVISION", "SAVE_CONFIRM"} <=> engine # "IDLE"

\* The mark is there when it must be, and may go when a WR is acknowledged.
Marked ==
  /\ cli.state = "EXEC" /\ req = "OK" => unsaved # "YES"
  /\ UnsavedIsKnown

\* What the console, the editor and the parts it drives keep between them.
Core == TypeInv /\ Hidden /\ Requests /\ Marked

\* What the terminal's keys keep: a CR whose line has ended is still remembered.
Keyed ==
  /\ turn \in BOOLEAN /\ fed \in BOOLEAN /\ ending \in Endings /\ owed \in BOOLEAN
  /\ ended \in 0..1
  /\ owed /\ ended = 1 => editor.lf /\ editor.esc = "NONE"

\* The inductive invariant.
ConsoleInv == Core /\ Keyed

-----------------------------------------------------------------------------
\* Every piece of text a line is made of has its words.
LEMMA WordsHold == {"junk", "?", "["} \subseteq DOMAIN Words /\ Fragments \subseteq DOMAIN Words
<1>1. Fragments \subseteq DOMAIN Words
  BY ConsoleAssumption
<1>2. {"junk", "?", "["} \subseteq DOMAIN Words
  BY DEF Words
<1> QED
  BY <1>1, <1>2

\* The lines of no piece of text and of one.
LEMMA LinesHold ==
  /\ <<>> \in Lines /\ Len(<<>>) = 0
  /\ \A w \in DOMAIN Words : <<w>> \in Lines
BY DEF Lines

\* Two lines joined are a line.
LEMMA LineAppend ==
  ASSUME NEW s \in Lines, NEW t \in Lines
  PROVE  /\ s \o t \in Lines /\ Len(s \o t) = Len(s) + Len(t)
         /\ Len(s) \in Nat /\ Len(t) \in Nat
<1>1. ASSUME NEW T, NEW p \in Seq(T), NEW q \in Seq(T)
      PROVE  /\ p \o q \in Seq(T) /\ Len(p \o q) = Len(p) + Len(q)
             /\ Len(p) \in Nat /\ Len(q) \in Nat
  OBVIOUS
<1> QED
  BY <1>1, Zenon DEF Lines

\* A line without its last piece is a shorter line.
LEMMA LineFront ==
  ASSUME NEW s \in Lines, s # <<>>
  PROVE  /\ Front(s) \in Lines /\ Len(Front(s)) < Len(s)
         /\ Len(s) \in Nat /\ Len(Front(s)) \in Nat
<1>1. ASSUME NEW T, NEW p \in Seq(T), p # <<>>
      PROVE  /\ Front(p) \in Seq(T) /\ Len(Front(p)) < Len(p)
             /\ Len(p) \in Nat /\ Len(Front(p)) \in Nat
  <2>1. Front(p) = SubSeq(p, 1, Len(p) - 1)
    BY DEF Front
  <2>2. Len(p) \in Nat /\ Len(p) >= 1
    BY <1>1
  <2> QED
    BY <2>1, <2>2
<1> QED
  BY <1>1, Zenon DEF Lines

\* clear_line(): the line is empty and nothing else is touched.
LEMMA ClearEffect ==
  ASSUME NEW e \in Editor
  PROVE  /\ Clear(e) \in Editor /\ Clear(e).line = <<>> /\ Clear(e).lf = e.lf
         /\ Clear(e).esc = e.esc /\ Clear(e).masked = e.masked
         /\ Len(Clear(e).line) < LineMax
<1>1. PICK n : n = <<>> /\ n \in Lines /\ Len(n) = 0
  BY LinesHold
<1>2. PICK d : d = [e EXCEPT !.line = n, !.over = FALSE]
  OBVIOUS
<1>3. d \in Editor /\ d.line = n /\ d.lf = e.lf /\ d.esc = e.esc /\ d.masked = e.masked
  BY <1>1, <1>2 DEF Editor
<1>4. d = Clear(e)
  BY <1>1, <1>2 DEF Clear
<1>5. Len(n) < LineMax
  BY <1>1, LineAssumption
<1> QED
  BY <1>1, <1>3, <1>4, <1>5

\* append_char(): the line stays within the buffer.
LEMMA AppendTextEffect ==
  ASSUME NEW e \in Editor, Len(e.line) < LineMax, NEW text \in Lines
  PROVE  /\ AppendText(e, text).event \in {"NONE", "OVERFLOW"}
         /\ AppendText(e, text).ed \in Editor
         /\ Len(AppendText(e, text).ed.line) < LineMax
         /\ AppendText(e, text).ed.masked = e.masked
<1>1. CASE e.over
  BY <1>1 DEF AppendText, Told
<1>2. CASE ~e.over /\ Len(e.line) + Len(text) >= LineMax
  <2>1. PICK n : n = <<>> /\ n \in Lines /\ Len(n) = 0
    BY LinesHold
  <2>2. PICK d : d = [e EXCEPT !.over = TRUE, !.line = n]
    OBVIOUS
  <2>3. AppendText(e, text) = [event |-> "OVERFLOW", ed |-> d]
    BY <1>2, <2>1, <2>2 DEF AppendText, Told
  <2>4. d \in Editor /\ d.line = n /\ d.masked = e.masked
    BY <2>1, <2>2 DEF Editor
  <2>5. Len(n) < LineMax
    BY <2>1, LineAssumption
  <2> QED
    BY <2>3, <2>4, <2>5
<1>3. CASE ~e.over /\ ~(Len(e.line) + Len(text) >= LineMax)
  <2>1. PICK n : n = e.line \o text
    OBVIOUS
  <2>2. n \in Lines /\ Len(n) < LineMax
    <3>1. e.line \in Lines
      BY DEF Editor
    <3>2. n \in Lines /\ Len(n) = Len(e.line) + Len(text) /\ Len(e.line) \in Nat /\ Len(text) \in Nat
      BY <2>1, <3>1, LineAppend, Zenon
    <3> QED
      BY <1>3, <3>2, LineAssumption
  <2>3. AppendText(e, text) = [event |-> "NONE", ed |-> [e EXCEPT !.line = n]]
    BY <1>3, <2>1 DEF AppendText, Told
  <2> QED
    BY <2>2, <2>3 DEF Editor
<1> QED
  BY <1>1, <1>2, <1>3

\* line_edit_feed(): the buffer holds, the mask is left alone, a CR that ends a line is
\* remembered, and an LF that follows a remembered CR ends none.
LEMMA FeedKeyEffect ==
  ASSUME NEW e \in Editor, Len(e.line) < LineMax,
         NEW key \in Fragments \cup Controls
  PROVE  LET told == FeedKey(e, key)
         IN /\ told.event \in {"NONE", "READY", "SWALLOWED", "ABORT", "HELP", "OVERFLOW"}
            /\ told.ed \in Editor /\ Len(told.ed.line) < LineMax /\ told.ed.masked = e.masked
            /\ told.event \in {"READY", "SWALLOWED"} /\ key = "CR" =>
                 told.ed.lf /\ told.ed.esc = "NONE"
            /\ told.event \in {"READY", "SWALLOWED"} /\ key = "LF" => ~(e.lf /\ e.esc = "NONE")
<1> DEFINE told == FeedKey(e, key)
<1> DEFINE seen == [e EXCEPT !.lf = FALSE]
<1>1. seen \in Editor /\ seen.line = e.line /\ seen.masked = e.masked /\ seen.esc = e.esc
  BY DEF Editor
<1>2. CASE e.esc # "NONE"
  <2>1. told = ConsumeEscape(e, key)
    BY <1>2 DEF FeedKey
  <2>2. told.event \in {"NONE", "OVERFLOW"} /\ told.ed \in Editor
        /\ Len(told.ed.line) < LineMax /\ told.ed.masked = e.masked
    <3>1. CASE key \in Controls
      BY <2>1, <3>1 DEF ConsumeEscape, Told, Controls, Editor
    <3>2. CASE key \notin Controls
      <4>1. Cut(key) \in Lines
        BY WordsHold, LinesHold DEF Cut
      <4> DEFINE d == [e EXCEPT !.esc = "NONE", !.lf = @ /\ Cut(key) = <<>>]
      <4>2. d \in Editor /\ d.line = e.line /\ d.masked = e.masked
        BY DEF Editor
      <4>3. told = AppendText(d, Cut(key))
        BY <2>1, <3>2 DEF ConsumeEscape, Controls
      <4> HIDE DEF d, told
      <4> QED
        BY <4>1, <4>2, <4>3, AppendTextEffect
    <3> QED
      BY <3>1, <3>2
  <2> QED
    BY <2>2
<1>3. CASE e.esc = "NONE" /\ key = "CR"
  <2> DEFINE d == [seen EXCEPT !.lf = TRUE]
  <2>1. /\ d \in Editor /\ d.line = e.line /\ d.masked = e.masked /\ d.lf /\ d.esc = "NONE"
        /\ told = FinishLine(d)
    BY <1>3 DEF FeedKey, Editor
  <2> HIDE DEF d, told
  <2>2. \/ told = [event |-> "SWALLOWED", ed |-> Clear(d)]
        \/ told = [event |-> "READY", ed |-> d]
    BY <2>1 DEF FinishLine, Told
  <2>3. /\ told.event \in {"READY", "SWALLOWED"} /\ told.ed \in Editor
        /\ Len(told.ed.line) < LineMax /\ told.ed.masked = e.masked
        /\ told.ed.lf /\ told.ed.esc = "NONE"
    BY <2>1, <2>2, ClearEffect
  <2> QED
    BY <1>3, <2>3 DEF told
<1>4. CASE e.esc = "NONE" /\ key = "LF"
  <2>1. CASE e.lf
    <3>1. told = [event |-> "NONE", ed |-> seen]
      BY <1>4, <2>1 DEF FeedKey, Told
    <3> HIDE DEF seen, told
    <3>2. told.event = "NONE" /\ told.ed = seen
      BY <3>1
    <3> QED
      BY <1>1, <3>2 DEF told
  <2>2. CASE ~e.lf
    <3>1. told = FinishLine(seen)
      BY <1>4, <2>2 DEF FeedKey
    <3> HIDE DEF seen, told
    <3>2. \/ told = [event |-> "SWALLOWED", ed |-> Clear(seen)]
          \/ told = [event |-> "READY", ed |-> seen]
      BY <3>1 DEF FinishLine, Told
    <3>3. /\ told.event \in {"READY", "SWALLOWED"} /\ told.ed \in Editor
          /\ Len(told.ed.line) < LineMax /\ told.ed.masked = e.masked
      BY <1>1, <3>2, ClearEffect
    <3> QED
      BY <1>4, <2>2, <3>3 DEF told
  <2> QED
    BY <2>1, <2>2
<1>5. CASE e.esc = "NONE" /\ key = "BS"
  <2>1. told = Erase(seen)
    BY <1>5 DEF FeedKey
  <2> HIDE DEF seen, told
  <2>2. /\ told.event = "NONE" /\ told.ed \in Editor /\ Len(told.ed.line) < LineMax
        /\ told.ed.masked = e.masked
    <3>1. CASE seen.line = <<>> \/ seen.over
      BY <1>1, <2>1, <3>1 DEF Erase, Told
    <3>2. CASE ~(seen.line = <<>> \/ seen.over)
      <4>1. PICK n : n = Front(seen.line)
        OBVIOUS
      <4>2. n \in Lines /\ Len(n) < LineMax
        <5>1. seen.line \in Lines /\ seen.line # <<>>
          BY <1>1, <3>2 DEF Editor
        <5>2. n \in Lines /\ Len(n) < Len(seen.line) /\ Len(seen.line) \in Nat /\ Len(n) \in Nat
          BY <4>1, <5>1, LineFront, Zenon
        <5> QED
          BY <1>1, <5>2, LineAssumption
      <4>3. told = [event |-> "NONE", ed |-> [seen EXCEPT !.line = n]]
        BY <2>1, <3>2, <4>1 DEF Erase, Told
      <4> QED
        BY <1>1, <4>2, <4>3 DEF Editor
    <3> QED
      BY <3>1, <3>2
  <2> QED
    BY <1>5, <2>2 DEF told
<1>6. CASE e.esc = "NONE" /\ key = "ETX"
  <2>1. told = [event |-> "ABORT", ed |-> Clear(seen)]
    BY <1>6 DEF FeedKey, Told
  <2> HIDE DEF seen, told
  <2>2. told.event = "ABORT" /\ told.ed = Clear(seen)
    BY <2>1
  <2> QED
    BY <1>1, <2>2, ClearEffect DEF told
<1>7. CASE e.esc = "NONE" /\ key = "ESC"
  BY <1>7, LineAssumption DEF FeedKey, Told, Editor
<1>8. CASE e.esc = "NONE" /\ key = "?" /\ ~e.masked
  BY <1>8, LineAssumption DEF FeedKey, Told, Editor
<1>9. CASE e.esc = "NONE" /\ key \notin {"CR", "LF", "BS", "ETX", "ESC"} /\ ~(key = "?" /\ ~e.masked)
  <2>1. told = AppendText(seen, <<key>>)
    BY <1>9 DEF FeedKey
  <2>2. <<key>> \in Lines
    BY <1>9, WordsHold, LinesHold DEF Controls
  <2> HIDE DEF seen, told
  <2>3. told.event \in {"NONE", "OVERFLOW"} /\ told.ed \in Editor
        /\ Len(told.ed.line) < LineMax /\ told.ed.masked = e.masked
    BY <1>1, <2>1, <2>2, AppendTextEffect
  <2> QED
    BY <2>3 DEF told
<1> QED
  BY <1>2, <1>3, <1>4, <1>5, <1>6, <1>7, <1>8, <1>9

-----------------------------------------------------------------------------
\* The states of the console.
States == Busy \cup Asks \cup {"BRINGUP", "PROMPT", "BRIDGE"}

\* A change of state keeps the mode and the mark.
LEMMA GoesIs ==
  ASSUME cli \in Cli, NEW st \in States
  PROVE  /\ Goes(st) \in Cli /\ Goes(st).state = st /\ Goes(st).dirty = cli.dirty
         /\ Goes(st).dispatched = FALSE
<1>1. 0 \in 0..Attempts
  BY DEF Attempts
<1>2. Goes(st) = [cli EXCEPT !.state = st, !.due = FALSE, !.attempts = 0, !.dispatched = FALSE]
  BY DEF Goes
<1> QED
  BY <1>1, <1>2 DEF Cli, States

\* The prompt keeps the mode and the mark.
LEMMA AtPromptIs ==
  ASSUME NEW c \in Cli
  PROVE  /\ AtPrompt(c) \in Cli /\ AtPrompt(c).state = "PROMPT" /\ AtPrompt(c).dirty = c.dirty
         /\ AtPrompt(c).dispatched = FALSE
<1>1. 0 \in 0..Attempts
  BY DEF Attempts
<1>2. AtPrompt(c) = [c EXCEPT !.state = "PROMPT", !.due = FALSE, !.attempts = 0,
                              !.dispatched = FALSE]
  BY DEF AtPrompt
<1> QED
  BY <1>1, <1>2 DEF Cli

\* back_to_prompt(): the line is cleared and shown, the CR stays remembered.
LEMMA PromptEffect ==
  ASSUME editor \in Editor, NEW c \in Cli, ToPrompt(c)
  PROVE  /\ cli' \in Cli /\ cli'.state = "PROMPT" /\ cli'.dirty = c.dirty
         /\ cli'.dispatched = FALSE
         /\ editor' \in Editor /\ Len(editor'.line) < LineMax /\ editor'.masked = FALSE
         /\ editor'.lf = editor.lf /\ editor'.esc = editor.esc
<1>1. PICK d : d = Clear(editor)
  OBVIOUS
<1>2. d \in Editor /\ d.lf = editor.lf /\ d.esc = editor.esc /\ Len(d.line) < LineMax
  BY <1>1, ClearEffect
<1>3. editor' = [d EXCEPT !.masked = FALSE]
  BY <1>1 DEF ToPrompt
<1>4. /\ editor' \in Editor /\ editor'.line = d.line /\ editor'.masked = FALSE
      /\ editor'.lf = d.lf /\ editor'.esc = d.esc
  BY <1>2, <1>3 DEF Editor
<1> QED
  BY <1>2, <1>4, AtPromptIs DEF ToPrompt

\* At the prompt, at a question and in the bridge nothing is in flight.
LEMMA AtRest ==
  ASSUME Core, cli.state \in {"PROMPT", "BRIDGE", "PASSWORD", "CONFIRM", "BRINGUP"}
  PROVE  /\ req = "NONE" /\ engine = "IDLE"
         /\ unsaved = "YES" => cli.dirty
BY DEF Core, Requests, Marked, UnsavedIsKnown

\* A walk that starts is a walk.
LEMMA FirstStepIs == FirstStep \in Walk
BY ConsoleAssumption DEF FirstStep, Walk

\* execute(): a command starts with nothing in flight, only "enable" asks for the
\* password, and the mark goes with what it marks.
LEMMA ExecuteEffect ==
  ASSUME Core, cli.state \in {"PROMPT", "BRIDGE"}, NEW id, Execute(id)
  PROVE  /\ cli' \in Cli /\ cli'.dispatched = FALSE /\ walk' \in Walk
         /\ cli'.state = "PASSWORD" <=> id = "ENABLE"
         /\ cli'.state \notin {"PROVISION", "SAVE_CONFIRM"}
         /\ req' = "NONE" /\ engine' = "IDLE" /\ differs' \in BOOLEAN /\ bridge' \in BOOLEAN
         /\ xbee' \in {"BUSY", "READY", "FAILED"} /\ unsaved' \in {"NO", "YES", "MATCHED"}
         /\ unsaved' = "YES" => cli'.dirty
<1> DEFINE P == AtPrompt(cli)
<1>1. /\ cli \in Cli /\ walk \in Walk /\ req = "NONE" /\ engine = "IDLE" /\ differs \in BOOLEAN
      /\ bridge \in BOOLEAN /\ xbee \in {"BUSY", "READY", "FAILED"}
      /\ unsaved \in {"NO", "YES", "MATCHED"} /\ (unsaved = "YES" => cli.dirty)
  BY AtRest DEF Core, TypeInv
<1>2. /\ P \in Cli /\ P.state = "PROMPT" /\ P.dirty = cli.dirty /\ P.dispatched = FALSE
  BY <1>1, AtPromptIs
<1>3. \A st \in States : /\ Goes(st) \in Cli /\ Goes(st).state = st /\ Goes(st).dirty = cli.dirty
                         /\ Goes(st).dispatched = FALSE
  BY <1>1, GoesIs
<1>4. /\ {"GET", "SET", "EXEC", "WALK", "PASSWORD", "CONFIRM", "BRIDGE", "BRINGUP"} \subseteq States
      /\ "PROMPT" \notin {"PASSWORD", "PROVISION", "SAVE_CONFIRM"}
  BY DEF States, Busy, Asks
<1> HIDE DEF P
<1>5. CASE id \in {"SHOW_AT", "XBEE_AT_SET", "NO_XBEE_AT", "WRITE_MEM"} /\ StartRequest(id)
  <2>1. PICK st : st = (CASE id = "SHOW_AT" -> "GET" [] id = "WRITE_MEM" -> "EXEC" [] OTHER -> "SET")
    OBVIOUS
  <2>2. st \in {"GET", "SET", "EXEC"}
    BY <2>1
  <2>3. (cli' = Goes(st) \/ cli' = P) /\ UNCHANGED <<walk, world>>
    BY <1>5, <2>1 DEF StartRequest, P
  <2> QED
    BY <1>1, <1>2, <1>3, <1>4, <1>5, <2>2, <2>3 DEF world
<1>6. CASE id \in {"CONF_TERM", "END", "EXIT", "DISABLE"} /\ ChangeMode(id)
  <2>1. PICK mo \in ALL : cli' = [P EXCEPT !.mode = mo]
    BY <1>6 DEF ChangeMode, P, ALL
  <2>2. cli' \in Cli /\ cli'.state = "PROMPT" /\ cli'.dirty = cli.dirty /\ cli'.dispatched = FALSE
    BY <1>2, <2>1 DEF Cli
  <2> QED
    BY <1>1, <1>6, <2>2 DEF ChangeMode, world
<1>7. CASE id = "RELOAD" /\ Reload
  <2>1. CASE /\ cli' = [Goes("BRINGUP") EXCEPT !.dirty = FALSE]
             /\ xbee' = "BUSY" /\ unsaved' = "NO"
             /\ UNCHANGED <<walk, req, engine, differs, bridge>>
    <3>1. PICK g : g = Goes("BRINGUP")
      OBVIOUS
    <3>2. g \in Cli /\ g.state = "BRINGUP" /\ g.dispatched = FALSE
      BY <1>3, <1>4, <3>1
    <3>3. cli' \in Cli /\ cli'.state = "BRINGUP" /\ cli'.dispatched = FALSE
      BY <2>1, <3>1, <3>2 DEF Cli
    <3> QED
      BY <1>1, <1>7, <2>1, <3>3
  <2>2. CASE cli' = AtPrompt(cli) /\ UNCHANGED <<walk, world>>
    BY <1>1, <1>2, <1>7, <2>2 DEF world, P
  <2> QED
    BY <1>7, <2>1, <2>2 DEF Reload
<1>8. CASE id = "BRIDGE" /\ EnterBridge
  BY <1>1, <1>2, <1>3, <1>4, <1>8 DEF EnterBridge, world, P
<1>9. CASE id = "SHOW_ALL" /\ cli' = Goes("WALK") /\ walk' = FirstStep /\ UNCHANGED world
  BY <1>1, <1>3, <1>4, <1>9, FirstStepIs DEF world
<1>10. CASE id = "ENABLE" /\ cli' = Goes("PASSWORD") /\ UNCHANGED <<walk, world>>
  BY <1>1, <1>3, <1>4, <1>10 DEF world
<1>11. CASE /\ id = "XBEE_PROVISION_ALL"
            /\ cli' = IF xbee = "READY" THEN Goes("CONFIRM") ELSE AtPrompt(cli)
            /\ UNCHANGED <<walk, world>>
  BY <1>1, <1>2, <1>3, <1>4, <1>11 DEF world, P
<1>12. CASE /\ id \in {"SHOW_INFO", "SHOW_VERSION", "LOG"} /\ cli' = AtPrompt(cli)
            /\ UNCHANGED <<walk, world>>
  BY <1>1, <1>2, <1>12 DEF world, P
<1> QED
  BY <1>5, <1>6, <1>7, <1>8, <1>9, <1>10, <1>11, <1>12 DEF Execute

\* A line that is no command names none: the mask follows the command.
LEMMA ParseNames ==
  ASSUME NEW words, NEW mode
  PROVE  Parse(words, mode).id = "ENABLE" => Parse(words, mode).status = "OK"
<1>1. PICK end : end = Walked(words, mode)
  OBVIOUS
<1> QED
  BY <1>1 DEF Parse, NONE

\* handle_line() keeps the invariant and the editor's memory of a CR.
LEMMA HandleLineEffect ==
  ASSUME Core, cli.state \in {"PROMPT", "BRIDGE"}, NEW e \in Editor, HandleLine(e)
  PROVE  Core' /\ editor'.lf = e.lf /\ editor'.esc = e.esc
<1>1. PICK words : words = FlattenSeq([i \in DOMAIN e.line |-> Words[e.line[i]]])
  OBVIOUS
<1>2. PICK parsed : parsed = Parse(words, cli.mode)
  OBVIOUS
<1>3. /\ editor' = [Clear(e) EXCEPT !.masked = parsed.id = "ENABLE"]
      /\ IF parsed.status = "OK" THEN Execute(parsed.id)
         ELSE cli' = AtPrompt(cli) /\ UNCHANGED <<walk, world>>
  BY <1>1, <1>2 DEF HandleLine
<1>4. parsed.id = "ENABLE" => parsed.status = "OK"
  BY <1>2, ParseNames
<1>5. /\ editor' \in Editor /\ Len(editor'.line) < LineMax
      /\ editor'.lf = e.lf /\ editor'.esc = e.esc
      /\ editor'.masked <=> parsed.id = "ENABLE"
  <2>1. PICK d : d = Clear(e)
    OBVIOUS
  <2>2. d \in Editor /\ d.lf = e.lf /\ d.esc = e.esc /\ Len(d.line) < LineMax
    BY <2>1, ClearEffect
  <2>3. editor' = [d EXCEPT !.masked = parsed.id = "ENABLE"]
    BY <1>3, <2>1
  <2> QED
    BY <2>2, <2>3 DEF Editor
<1>6. /\ cli' \in Cli /\ cli'.dispatched = FALSE /\ walk' \in Walk
      /\ cli'.state = "PASSWORD" <=> parsed.id = "ENABLE"
      /\ cli'.state \notin {"PROVISION", "SAVE_CONFIRM"}
      /\ req' = "NONE" /\ engine' = "IDLE" /\ differs' \in BOOLEAN /\ bridge' \in BOOLEAN
      /\ xbee' \in {"BUSY", "READY", "FAILED"} /\ unsaved' \in {"NO", "YES", "MATCHED"}
      /\ unsaved' = "YES" => cli'.dirty
  <2>1. CASE parsed.status = "OK"
    <3>1. PICK id : id = parsed.id
      OBVIOUS
    <3>2. Execute(id)
      BY <1>3, <2>1, <3>1
    <3> HIDE DEF Core
    <3> QED
      BY <3>1, <3>2, ExecuteEffect
  <2>2. CASE parsed.status # "OK"
    <3>1. cli' = AtPrompt(cli) /\ UNCHANGED <<walk, world>>
      BY <1>3, <2>2
    <3>2. /\ cli \in Cli /\ walk \in Walk /\ req = "NONE" /\ engine = "IDLE" /\ differs \in BOOLEAN
          /\ bridge \in BOOLEAN /\ xbee \in {"BUSY", "READY", "FAILED"}
          /\ unsaved \in {"NO", "YES", "MATCHED"} /\ (unsaved = "YES" => cli.dirty)
      BY AtRest DEF Core, TypeInv
    <3> QED
      BY <1>4, <2>2, <3>1, <3>2, AtPromptIs DEF world
  <2> QED
    BY <2>1, <2>2
<1> QED
  BY <1>5, <1>6 DEF Core, TypeInv, Hidden, Requests, Marked, UnsavedIsKnown, Engines

\* handle_password() does: it shows the line again when it leaves the question.
LEMMA HandlePasswordEffect ==
  ASSUME Core, cli.state = "PASSWORD", NEW e \in Editor, HandlePassword(e)
  PROVE  Core' /\ editor'.lf = e.lf /\ editor'.esc = e.esc
<1> DEFINE right == e.line = <<"admin">>
           over  == right \/ cli.attempts + 1 >= Attempts
<1>1. PICK d : d = Clear(e)
  OBVIOUS
<1>2. d \in Editor /\ d.lf = e.lf /\ d.esc = e.esc /\ Len(d.line) < LineMax
  BY <1>1, ClearEffect
<1>3. editor' = [d EXCEPT !.masked = ~over]
  BY <1>1 DEF HandlePassword
<1>4. /\ editor' \in Editor /\ Len(editor'.line) < LineMax
      /\ editor'.lf = e.lf /\ editor'.esc = e.esc /\ (editor'.masked <=> ~over)
  BY <1>2, <1>3 DEF Editor
<1>5. UNCHANGED <<walk, world>>
  BY DEF HandlePassword
<1>6. cli \in Cli
  BY DEF Core, TypeInv
<1>7. cli' \in Cli /\ (cli'.state = "PASSWORD" <=> ~over) /\ cli'.state \in {"PROMPT", "PASSWORD"}
      /\ cli'.dirty = cli.dirty
  <2>1. CASE over
    <3>1. PICK p : p = AtPrompt(cli)
      OBVIOUS
    <3>2. p \in Cli /\ p.state = "PROMPT" /\ p.dirty = cli.dirty
      BY <1>6, <3>1, AtPromptIs
    <3>3. cli' = [p EXCEPT !.mode = IF right THEN PRIV ELSE @]
      BY <2>1, <3>1 DEF HandlePassword
    <3> QED
      BY <2>1, <3>2, <3>3 DEF Cli, ALL
  <2>2. CASE ~over
    <3>1. cli' = [cli EXCEPT !.attempts = @ + 1, !.due = FALSE]
      BY <2>2 DEF HandlePassword
    <3>2. cli.attempts + 1 \in 0..Attempts
      BY <1>6, <2>2 DEF Cli, Attempts
    <3> HIDE DEF over
    <3>3. cli' \in Cli /\ cli'.state = cli.state /\ cli'.dirty = cli.dirty
      BY <1>6, <3>1, <3>2 DEF Cli
    <3> QED
      BY <2>2, <3>3
  <2> QED
    BY <2>1, <2>2
<1> HIDE DEF over
<1> QED
  BY <1>4, <1>5, <1>7, AtRest
  DEF Core, TypeInv, Hidden, Requests, Marked, UnsavedIsKnown, world

\* handle_confirm() does: it starts a run only with nothing in flight.
LEMMA HandleConfirmEffect ==
  ASSUME Core, cli.state = "CONFIRM", NEW e \in Editor, e.masked = editor.masked,
         HandleConfirm(e)
  PROVE  Core' /\ editor'.lf = e.lf /\ editor'.esc = e.esc
<1>1. /\ editor' \in Editor /\ Len(editor'.line) < LineMax
      /\ editor'.lf = e.lf /\ editor'.esc = e.esc /\ editor'.masked = e.masked
  BY ClearEffect DEF HandleConfirm
<1>2. req = "NONE" /\ engine = "IDLE" /\ (unsaved = "YES" => cli.dirty)
  BY AtRest
<1>3. cli \in Cli /\ editor.masked = FALSE
  BY DEF Core, TypeInv, Hidden, Editor
<1>4. CASE /\ engine' = "AUDIT" /\ differs' = FALSE /\ cli' = Goes("PROVISION")
           /\ UNCHANGED <<walk, req, xbee, bridge, unsaved>>
  <2>1. cli' \in Cli /\ cli'.state = "PROVISION" /\ cli'.dirty = cli.dirty
    BY <1>3, <1>4, GoesIs DEF States, Busy
  <2> QED
    BY <1>1, <1>2, <1>3, <1>4, <2>1
    DEF Core, TypeInv, Hidden, Requests, Marked, UnsavedIsKnown, Engines
<1>5. CASE cli' = AtPrompt(cli) /\ UNCHANGED <<walk, world>>
  <2>1. cli' \in Cli /\ cli'.state = "PROMPT" /\ cli'.dirty = cli.dirty
    BY <1>3, <1>5, AtPromptIs
  <2> QED
    BY <1>1, <1>2, <1>3, <1>5, <2>1
    DEF Core, TypeInv, Hidden, Requests, Marked, UnsavedIsKnown, Engines, world
<1> QED
  BY <1>4, <1>5 DEF HandleConfirm

\* decide_save() does, whatever is decided.
LEMMA DecideSaveEffect ==
  ASSUME Core, cli.state = "SAVE_CONFIRM", NEW e \in Editor, e.masked = editor.masked,
         NEW save, DecideSave(save, e)
  PROVE  Core' /\ editor'.lf = e.lf /\ editor'.esc = e.esc
<1>1. /\ editor' \in Editor /\ Len(editor'.line) < LineMax
      /\ editor'.lf = e.lf /\ editor'.esc = e.esc /\ editor'.masked = e.masked
  BY ClearEffect DEF DecideSave
<1>2. /\ cli \in Cli /\ editor.masked = FALSE /\ req = "NONE" /\ engine \in Engines \ {"IDLE"}
      /\ unsaved = "YES" => cli.dirty
  BY DEF Core, TypeInv, Hidden, Editor, Requests, Marked, UnsavedIsKnown
<1>3. cli' \in Cli /\ cli'.state = "PROVISION" /\ cli'.dirty = cli.dirty
  BY <1>2, GoesIs DEF DecideSave, States, Busy
<1>4. engine' \in Engines \ {"IDLE"}
  BY <1>2 DEF DecideSave, Engines
<1> QED
  BY <1>1, <1>2, <1>3, <1>4
  DEF DecideSave, Core, TypeInv, Hidden, Requests, Marked, UnsavedIsKnown

\* A line that has ended keeps the invariant, in whichever state it ends.
LEMMA ReadyEffect ==
  ASSUME Core, ~Dropped, NEW e \in Editor, e.masked = editor.masked, Ready(e)
  PROVE  Core' /\ editor'.lf = e.lf /\ editor'.esc = e.esc
<1>1. cli.state \in Asks \cup {"PROMPT", "BRIDGE"}
  BY DEF Core, TypeInv, Cli, Dropped
<1>2. CASE cli.state = "PASSWORD"
  BY <1>2, HandlePasswordEffect DEF Ready
<1>3. CASE cli.state = "CONFIRM"
  BY <1>3, HandleConfirmEffect DEF Ready
<1>4. CASE cli.state = "SAVE_CONFIRM"
  <2>1. PICK save : save = (e.line = <<"y">> \/ (e.line = <<>> /\ differs))
    OBVIOUS
  <2>2. DecideSave(save, e)
    BY <1>4, <2>1 DEF Ready
  <2> QED
    BY <1>4, <2>2, DecideSaveEffect
<1>5. CASE cli.state \in {"PROMPT", "BRIDGE"}
  BY <1>5, HandleLineEffect DEF Ready
<1> QED
  BY <1>1, <1>2, <1>3, <1>4, <1>5 DEF Asks

\* Ctrl-C and a line too long keep it.
LEMMA GiveUpEffect ==
  ASSUME Core, ~Dropped, NEW e \in Editor, Len(e.line) < LineMax, e.masked = editor.masked,
         NEW event \in {"ABORT", "OVERFLOW"}, GiveUp(event, e)
  PROVE  Core'
<1>1. CASE cli.state = "SAVE_CONFIRM"
  <2>1. DecideSave(FALSE, e)
    BY <1>1 DEF GiveUp
  <2> QED
    BY <1>1, <2>1, DecideSaveEffect
<1>2. CASE cli.state # "SAVE_CONFIRM"
  <2>1. PICK g : g = (e.masked /\ event # "ABORT")
    OBVIOUS
  <2>2. editor' = [e EXCEPT !.masked = g]
    BY <1>2, <2>1 DEF GiveUp
  <2>3. editor' \in Editor /\ Len(editor'.line) < LineMax /\ (editor'.masked <=> g)
    BY <2>1, <2>2 DEF Editor
  <2>4. UNCHANGED <<walk, world>>
    BY <1>2 DEF GiveUp
  <2>5. cli.state \in {"PASSWORD", "CONFIRM", "PROMPT", "BRIDGE"}
    BY <1>2 DEF Core, TypeInv, Cli, Dropped, Asks
  <2>6. req = "NONE" /\ engine = "IDLE" /\ (unsaved = "YES" => cli.dirty) /\ cli \in Cli
    BY <2>5, AtRest DEF Core, TypeInv
  <2>7. CASE /\ cli.state = "CONFIRM" \/ (cli.state = "PASSWORD" /\ event = "ABORT")
             /\ cli' = AtPrompt(cli)
    <3>1. cli' \in Cli /\ cli'.state = "PROMPT" /\ cli'.dirty = cli.dirty
      BY <2>6, <2>7, AtPromptIs
    <3>2. ~g
      BY <2>1, <2>7 DEF Core, Hidden
    <3> QED
      BY <2>3, <2>4, <2>6, <3>1, <3>2
      DEF Core, TypeInv, Hidden, Requests, Marked, UnsavedIsKnown, world
  <2>8. CASE /\ cli.state \notin {"CONFIRM"} \cup (IF event = "ABORT" THEN {"PASSWORD"} ELSE {})
             /\ UNCHANGED cli
    <3>1. g <=> cli.state = "PASSWORD"
      BY <2>1, <2>5, <2>8 DEF Core, Hidden
    <3> QED
      BY <2>3, <2>4, <2>8, <3>1
      DEF Core, TypeInv, Hidden, Requests, Marked, UnsavedIsKnown, world
  <2> QED
    BY <1>2, <2>7, <2>8 DEF GiveUp
<1> QED
  BY <1>1, <1>2

\* feed_byte() keeps it, and what the editor remembers of the byte survives the handler.
LEMMA FeedByteEffect ==
  ASSUME Core, NEW key \in Fragments \cup Controls, FeedByte(key)
  PROVE  /\ Core'
         /\ EndsLine(key) => LET told == FeedKey(editor, key)
                             IN told.event = "SWALLOWED" \/ told.event = "READY"
         /\ EndsLine(key) => /\ editor'.lf = FeedKey(editor, key).ed.lf
                             /\ editor'.esc = FeedKey(editor, key).ed.esc
<1>1. PICK told : told = FeedKey(editor, key)
  OBVIOUS
<1>2. editor \in Editor /\ Len(editor.line) < LineMax
  BY DEF Core, TypeInv
<1>3. /\ told.event \in {"NONE", "READY", "SWALLOWED", "ABORT", "HELP", "OVERFLOW"}
      /\ told.ed \in Editor /\ Len(told.ed.line) < LineMax /\ told.ed.masked = editor.masked
  <2>1. PICK ed \in Editor : ed = editor
    BY <1>2
  <2>2. Len(ed.line) < LineMax /\ told = FeedKey(ed, key)
    BY <1>1, <1>2, <2>1
  <2> QED
    BY <2>1, <2>2, FeedKeyEffect
<1>4. EndsLine(key) <=> ~Dropped /\ told.event \in {"READY", "SWALLOWED"}
  BY <1>1 DEF EndsLine
<1>5. CASE Dropped
  <2>1. UNCHANGED <<cli, editor>>
    BY <1>5 DEF FeedByte
  <2>2. CASE key = "ETX" /\ cli.state = "WALK"
    <3>1. walk' = [walk EXCEPT !.abort = TRUE] /\ UNCHANGED world
      BY <1>5, <2>2 DEF FeedByte
    <3>2. walk' \in Walk
      BY <3>1 DEF Core, TypeInv, Walk
    <3> QED
      BY <1>4, <1>5, <2>1, <3>1, <3>2
      DEF Core, TypeInv, Hidden, Requests, Marked, UnsavedIsKnown, world
  <2>3. CASE key = "ETX" /\ cli.state = "PROVISION"
    <3>1. InterruptProvision
      BY <1>5, <2>3 DEF FeedByte
    <3> QED
      BY <1>4, <1>5, <2>1, <2>3, <3>1
      DEF InterruptProvision, Core, TypeInv, Hidden, Requests, Marked, UnsavedIsKnown, Engines
  <2>4. CASE ~(key = "ETX" /\ cli.state = "WALK") /\ ~(key = "ETX" /\ cli.state = "PROVISION")
    <3>1. UNCHANGED <<walk, world>>
      BY <1>5, <2>4 DEF FeedByte
    <3> QED
      BY <1>4, <1>5, <2>1, <3>1
      DEF Core, TypeInv, Hidden, Requests, Marked, UnsavedIsKnown, world
  <2> QED
    BY <2>2, <2>3, <2>4
<1>6. CASE ~Dropped /\ told.event = "READY"
  <2>1. Ready(told.ed)
    BY <1>1, <1>6 DEF FeedByte
  <2>2. PICK e \in Editor : e = told.ed
    BY <1>3
  <2>3. Ready(e) /\ e.masked = editor.masked
    BY <1>3, <2>1, <2>2
  <2>4. Core' /\ editor'.lf = e.lf /\ editor'.esc = e.esc
    BY <1>6, <2>3, ReadyEffect
  <2> QED
    BY ONLY <1>1, <1>4, <1>6, <2>2, <2>4
<1>7. CASE ~Dropped /\ told.event \in {"ABORT", "OVERFLOW"}
  <2>1. GiveUp(told.event, told.ed)
    BY <1>1, <1>7 DEF FeedByte
  <2>2. PICK e \in Editor : e = told.ed
    BY <1>3
  <2>3. PICK event \in {"ABORT", "OVERFLOW"} : event = told.event
    BY <1>7
  <2>4. GiveUp(event, e) /\ e.masked = editor.masked /\ Len(e.line) < LineMax
    BY <1>3, <2>1, <2>2, <2>3
  <2>5. Core'
    BY <1>7, <2>4, GiveUpEffect
  <2> QED
    BY <1>4, <1>7, <2>5
<1>8. CASE ~Dropped /\ told.event \in {"NONE", "HELP", "SWALLOWED"}
  <2>1. editor' = told.ed /\ UNCHANGED <<cli, walk, world>>
    BY <1>1, <1>8 DEF FeedByte
  <2>2. Core'
    BY <1>3, <2>1
    DEF Core, TypeInv, Hidden, Requests, Marked, UnsavedIsKnown, world
  <2> QED
    BY <1>1, <1>4, <2>1, <2>2
<1> QED
  BY <1>3, <1>5, <1>6, <1>7, <1>8

\* The bytes of an Enter and of any other key keep the whole invariant.
LEMMA FeedEffect ==
  ASSUME ConsoleInv, Feed
  PROVE  ConsoleInv'
<1>1. editor \in Editor /\ Len(editor.line) < LineMax
  BY DEF ConsoleInv, Core, TypeInv
<1>2. PICK ed \in Editor : ed = editor
  BY <1>1
<1>3. fed' \in BOOLEAN /\ turn' \in BOOLEAN /\ ending' \in Endings
  BY DEF Feed, ConsoleInv, Keyed
<1>4. \A key \in Fragments \cup Controls :
        LET told == FeedKey(editor, key)
        IN told.event \in {"READY", "SWALLOWED"} =>
             /\ key = "CR" => told.ed.lf /\ told.ed.esc = "NONE"
             /\ key = "LF" => ~(editor.lf /\ editor.esc = "NONE")
  BY <1>1, <1>2, FeedKeyEffect
<1>5. CASE /\ ~owed /\ FeedByte(Enter) /\ owed' = (ending = "CRLF")
           /\ ended' = IF ending = "CRLF" /\ EndsLine(Enter) THEN 1 ELSE 0
  <2>1. PICK key \in Controls : key = Enter /\ (ending = "CRLF" => key = "CR")
    BY DEF Enter, Controls
  <2>2. FeedByte(key)
    BY <1>5, <2>1
  <2>3. /\ Core'
        /\ EndsLine(key) => /\ FeedKey(editor, key).event \in {"READY", "SWALLOWED"}
                            /\ editor'.lf = FeedKey(editor, key).ed.lf
                            /\ editor'.esc = FeedKey(editor, key).ed.esc
    BY <2>2, FeedByteEffect DEF ConsoleInv
  <2>4. ended' = 1 => editor'.lf /\ editor'.esc = "NONE"
    BY <1>4, <1>5, <2>1, <2>3
  <2>5. owed' \in BOOLEAN /\ ended' \in 0..1
    BY <1>5
  <2> QED
    BY <1>3, <2>3, <2>4, <2>5 DEF ConsoleInv, Keyed
<1>6. CASE /\ owed /\ FeedByte("LF") /\ owed' = FALSE
           /\ ended' = IF ended = 1 /\ EndsLine("LF") THEN 2 ELSE 0
  <2>1. Core' /\ (EndsLine("LF") => FeedKey(editor, "LF").event \in {"READY", "SWALLOWED"})
    BY <1>6, FeedByteEffect DEF ConsoleInv, Controls
  <2>2. ended = 1 => ~EndsLine("LF")
    BY <1>4, <1>6, <2>1 DEF ConsoleInv, Keyed, Controls
  <2>3. ended' \in 0..1
    <3>1. ended' = 0
      BY <1>6, <2>2, Zenon
    <3> QED
      BY <3>1
  <2>4. owed' = FALSE
    BY <1>6, Zenon
  <2>5. owed' \in BOOLEAN /\ ~owed'
    BY <2>4
  <2> QED
    BY <1>3, <2>1, <2>3, <2>5 DEF ConsoleInv, Keyed
<1>7. CASE /\ ~owed /\ \E key \in Keys : FeedByte(key)
           /\ ended' = 0 /\ UNCHANGED owed
  <2>1. PICK key \in Keys : FeedByte(key)
    BY <1>7
  <2>2. key \in Fragments \cup Controls
    BY DEF Keys, Controls
  <2>3. Core'
    BY <2>1, <2>2, FeedByteEffect DEF ConsoleInv
  <2> QED
    BY <1>3, <1>7, <2>3 DEF ConsoleInv, Keyed
<1> QED
  BY <1>5, <1>6, <1>7 DEF Feed

-----------------------------------------------------------------------------
\* A step that brings the prompt back keeps it, if nothing stays in flight and what is
\* unsaved stays marked.
LEMMA PromptStep ==
  ASSUME Core, NEW c \in Cli, ToPrompt(c),
         req' = "NONE", engine' = "IDLE", walk' \in Walk,
         xbee' \in {"BUSY", "READY", "FAILED"}, bridge' \in BOOLEAN, differs' \in BOOLEAN,
         unsaved' \in {"NO", "YES", "MATCHED"},
         unsaved' = "YES" => c.dirty
  PROVE  Core' /\ editor'.lf = editor.lf /\ editor'.esc = editor.esc
<1>1. editor \in Editor
  BY DEF Core, TypeInv
<1>2. /\ cli' \in Cli /\ cli'.state = "PROMPT" /\ cli'.dirty = c.dirty
      /\ editor' \in Editor /\ Len(editor'.line) < LineMax /\ editor'.masked = FALSE
      /\ editor'.lf = editor.lf /\ editor'.esc = editor.esc
  BY <1>1, PromptEffect
<1> QED
  BY <1>2 DEF Core, TypeInv, Hidden, Requests, Marked, UnsavedIsKnown, Engines

\* advance_request(), until the transport has taken the request.
LEMMA DispatchEffect ==
  ASSUME Core, cli.state \in {"GET", "SET", "EXEC"}, Dispatch
  PROVE  Core' /\ editor'.lf = editor.lf /\ editor'.esc = editor.esc
<1>1. /\ cli \in Cli /\ req = "NONE" /\ engine = "IDLE" /\ (unsaved = "YES" => cli.dirty)
  BY DEF Dispatch, Core, TypeInv, Requests, Marked, UnsavedIsKnown
<1>2. UNCHANGED <<walk, xbee, engine, differs, bridge, unsaved>>
  BY DEF Dispatch
<1>3. CASE xbee = "READY" /\ req' = "OUT" /\ cli' = [cli EXCEPT !.dispatched = TRUE] /\ UNCHANGED editor
  <2>1. /\ cli' \in Cli /\ cli'.state = cli.state /\ cli'.dirty = cli.dirty
        /\ cli'.dispatched = TRUE
    BY <1>1, <1>3 DEF Cli
  <2> QED
    BY <1>1, <1>2, <1>3, <2>1 DEF Core, TypeInv, Hidden, Requests, Marked, UnsavedIsKnown
<1>4. CASE Retries /\ UNCHANGED <<cli, editor, req>>
  BY <1>2, <1>4 DEF Core, TypeInv, Hidden, Requests, Marked, UnsavedIsKnown
<1>5. CASE (xbee = "READY" \/ cli.due) /\ ToPrompt(cli) /\ UNCHANGED req
  <2>1. PICK c \in Cli : c = cli
    BY <1>1
  <2>2. ToPrompt(c) /\ (unsaved = "YES" => c.dirty)
    BY <1>1, <1>5, <2>1
  <2>3. /\ req' = "NONE" /\ engine' = "IDLE" /\ walk' \in Walk
        /\ xbee' \in {"BUSY", "READY", "FAILED"} /\ bridge' \in BOOLEAN /\ differs' \in BOOLEAN
        /\ unsaved' \in {"NO", "YES", "MATCHED"} /\ (unsaved' = "YES" => c.dirty)
    BY <1>1, <1>2, <1>5, <2>2 DEF Core, TypeInv
  <2> QED
    BY <2>2, <2>3, PromptStep
<1> QED
  BY <1>3, <1>4, <1>5 DEF Dispatch

\* advance_request(), from then on: the mark follows the answer.
LEMMA CompleteEffect ==
  ASSUME Core, cli.state \in {"GET", "SET", "EXEC"}, Complete
  PROVE  Core' /\ editor'.lf = editor.lf /\ editor'.esc = editor.esc
<1>1. cli \in Cli /\ engine = "IDLE"
  BY DEF Core, TypeInv, Requests
<1>2. UNCHANGED <<walk, xbee, engine, differs, bridge, unsaved>>
  BY DEF Complete
<1>3. CASE req = "OUT"
  <2>1. UNCHANGED <<cli, editor, req>>
    BY <1>3 DEF Complete
  <2> QED
    BY <1>2, <2>1 DEF Core, TypeInv, Hidden, Requests, Marked, UnsavedIsKnown
<1>4. CASE req # "OUT"
  <2>1. PICK b : b = (CASE cli.state = "SET"  /\ req = "OK" -> TRUE
                        [] cli.state = "EXEC" /\ req = "OK" -> FALSE
                        [] OTHER -> cli.dirty)
    OBVIOUS
  <2>2. PICK c : c = [cli EXCEPT !.dirty = b]
    OBVIOUS
  <2>3. c = Finished
    BY <2>1, <2>2 DEF Finished
  <2>4. b \in BOOLEAN
    <3>1. cli.dirty \in BOOLEAN
      BY <1>1 DEF Cli
    <3> QED
      BY <2>1, <3>1
  <2>5. c \in Cli /\ (c.dirty <=> b)
    BY <1>1, <2>2, <2>4 DEF Cli
  <2>6. unsaved = "YES" => b
    BY <2>1 DEF Core, Marked, UnsavedIsKnown
  <2>7. ToPrompt(c) /\ req' = "NONE"
    BY <1>4, <2>3 DEF Complete
  <2>8. /\ engine' = "IDLE" /\ walk' \in Walk
        /\ xbee' \in {"BUSY", "READY", "FAILED"} /\ bridge' \in BOOLEAN /\ differs' \in BOOLEAN
        /\ unsaved' \in {"NO", "YES", "MATCHED"} /\ (unsaved' = "YES" => c.dirty)
    BY <1>1, <1>2, <2>5, <2>6 DEF Core, TypeInv
  <2> QED
    BY <2>5, <2>7, <2>8, PromptStep
<1> QED
  BY <1>3, <1>4

\* cli_show_all_process().
LEMMA AdvanceWalkEffect ==
  ASSUME Core, cli.state = "WALK", AdvanceWalk
  PROVE  Core' /\ editor'.lf = editor.lf /\ editor'.esc = editor.esc
<1>1. /\ cli \in Cli /\ walk \in Walk /\ engine = "IDLE" /\ (unsaved = "YES" => cli.dirty)
  BY DEF Core, TypeInv, Requests, Marked, UnsavedIsKnown
<1>2. UNCHANGED <<xbee, engine, differs, bridge, unsaved>>
  BY DEF AdvanceWalk
<1>3. ASSUME ToPrompt(cli), walk' = FirstStep, req' = "NONE"
      PROVE  Core' /\ editor'.lf = editor.lf /\ editor'.esc = editor.esc
  <2>1. PICK c \in Cli : c = cli
    BY <1>1
  <2>2. ToPrompt(c)
    BY <1>3, <2>1
  <2>3. /\ req' = "NONE" /\ engine' = "IDLE" /\ walk' \in Walk
        /\ xbee' \in {"BUSY", "READY", "FAILED"} /\ bridge' \in BOOLEAN /\ differs' \in BOOLEAN
        /\ unsaved' \in {"NO", "YES", "MATCHED"} /\ (unsaved' = "YES" => c.dirty)
    BY <1>1, <1>2, <1>3, <2>1, FirstStepIs DEF Core, TypeInv
  <2> QED
    BY <2>2, <2>3, PromptStep
<1>4. ASSUME NEW c \in Cli, cli' = c, c.state = "WALK", c.dirty = cli.dirty, UNCHANGED editor,
             walk' \in Walk, req' \in {"NONE", "OUT", "OK", "FAIL"}
      PROVE  Core' /\ editor'.lf = editor.lf /\ editor'.esc = editor.esc
  BY <1>1, <1>2, <1>4 DEF Core, TypeInv, Hidden, Requests, Marked, UnsavedIsKnown
<1>5. CASE walk.active /\ req = "OUT"
  <2>1. UNCHANGED <<cli, editor, walk, req>>
    BY <1>5 DEF AdvanceWalk
  <2> QED
    BY <1>1, <1>4, <2>1 DEF Core, TypeInv
<1>6. CASE ~(walk.active /\ req = "OUT") /\ walk.abort
  BY <1>3, <1>6 DEF AdvanceWalk
<1>7. CASE ~(walk.active /\ req = "OUT") /\ ~walk.abort
  <2>1. PICK from : from \in Nat \ {0} /\ StartNextRead(from)
    <3>1. walk.at \in Nat \ {0} /\ walk.at + 1 \in Nat \ {0}
      BY <1>1, ConsoleAssumption DEF Walk
    <3>2. StartNextRead(walk.at + 1) \/ StartNextRead(walk.at)
      BY <1>7 DEF AdvanceWalk
    <3> QED
      BY <3>1, <3>2
  <2>2. PICK to \in from..(WalkLength + 1) :
          \E stalled \in {walk.stalled} \cup (IF to > from /\ cli.due THEN {FALSE} ELSE {}) :
            \/ /\ to > WalkLength /\ ToPrompt(cli) /\ req' = "NONE"
               /\ walk' = FirstStep
            \/ /\ to <= WalkLength /\ xbee = "READY" /\ req' = "OUT"
               /\ walk' = [walk EXCEPT !.at = to, !.active = TRUE, !.stalled = FALSE]
               /\ cli' = [cli EXCEPT !.due = FALSE] /\ UNCHANGED editor
            \/ /\ to <= WalkLength /\ (~stalled \/ ~cli.due) /\ req' = "NONE" /\ UNCHANGED editor
               /\ walk' = [walk EXCEPT !.at = to, !.active = FALSE, !.stalled = TRUE]
               /\ cli' = [cli EXCEPT !.due = @ /\ stalled]
    BY <2>1 DEF StartNextRead
  <2>3. PICK stalled \in {walk.stalled} \cup (IF to > from /\ cli.due THEN {FALSE} ELSE {}) :
          \/ /\ to > WalkLength /\ ToPrompt(cli) /\ req' = "NONE"
             /\ walk' = FirstStep
          \/ /\ to <= WalkLength /\ xbee = "READY" /\ req' = "OUT"
             /\ walk' = [walk EXCEPT !.at = to, !.active = TRUE, !.stalled = FALSE]
             /\ cli' = [cli EXCEPT !.due = FALSE] /\ UNCHANGED editor
          \/ /\ to <= WalkLength /\ (~stalled \/ ~cli.due) /\ req' = "NONE" /\ UNCHANGED editor
             /\ walk' = [walk EXCEPT !.at = to, !.active = FALSE, !.stalled = TRUE]
             /\ cli' = [cli EXCEPT !.due = @ /\ stalled]
    BY <2>2
  <2>4. to <= WalkLength => to \in 1..WalkLength
    BY <2>1, ConsoleAssumption
  <2>5. stalled \in BOOLEAN
    BY <1>1 DEF Walk
  <2>6. CASE to > WalkLength /\ ToPrompt(cli) /\ req' = "NONE" /\ walk' = FirstStep
    BY <1>3, <2>6
  <2>7. CASE /\ to <= WalkLength /\ xbee = "READY" /\ req' = "OUT"
             /\ walk' = [walk EXCEPT !.at = to, !.active = TRUE, !.stalled = FALSE]
             /\ cli' = [cli EXCEPT !.due = FALSE] /\ UNCHANGED editor
    <3>1. walk' \in Walk
      BY <1>1, <2>4, <2>7 DEF Walk
    <3>2. cli' \in Cli /\ cli'.state = "WALK" /\ cli'.dirty = cli.dirty
      BY <1>1, <2>7 DEF Cli
    <3> QED
      BY <1>4, <2>7, <3>1, <3>2
  <2>8. CASE /\ to <= WalkLength /\ (~stalled \/ ~cli.due) /\ req' = "NONE" /\ UNCHANGED editor
             /\ walk' = [walk EXCEPT !.at = to, !.active = FALSE, !.stalled = TRUE]
             /\ cli' = [cli EXCEPT !.due = @ /\ stalled]
    <3>1. walk' \in Walk
      BY <1>1, <2>4, <2>8 DEF Walk
    <3>2. PICK g : g = (cli.due /\ stalled)
      OBVIOUS
    <3>3. cli' = [cli EXCEPT !.due = g] /\ g \in BOOLEAN
      BY <2>8, <3>2
    <3>4. cli' \in Cli /\ cli'.state = "WALK" /\ cli'.dirty = cli.dirty
      BY <1>1, <3>3 DEF Cli
    <3> QED
      BY <1>4, <2>8, <3>1, <3>4
  <2> QED
    BY <2>3, <2>6, <2>7, <2>8
<1> QED
  BY <1>5, <1>6, <1>7

\* Where a run goes from each of its phases: to another, or to an outcome.
LEMMA OutcomesAre ==
  /\ DOMAIN Outcomes = Engines \ {"IDLE"}
  /\ \A e \in Engines \ {"IDLE"} : \A next \in Outcomes[e] :
       next \in (Engines \ {"IDLE"})
         \cup {"ALREADY_PROVISIONED", "FAILED", "ABORTED", "DECLINED", "WRITTEN",
               "WRITTEN_WITH_DIFFERENCES"}
BY DEF Outcomes, Engines

\* The engine moves and the console follows: a run that ends clears the mark only if
\* what it marked is gone, stored or matched.
LEMMA EngineProgressEffect ==
  ASSUME Core, cli.state \in {"PROVISION", "SAVE_CONFIRM"}, EngineProgress
  PROVE  Core' /\ editor'.lf = editor.lf /\ editor'.esc = editor.esc
<1>1. /\ cli \in Cli /\ editor \in Editor /\ ~editor.masked /\ req = "NONE"
      /\ engine \in Engines \ {"IDLE"} /\ (unsaved = "YES" => cli.dirty)
  BY DEF Core, TypeInv, Hidden, Requests, Marked, UnsavedIsKnown
<1>2. PICK next \in Outcomes[engine] : EngineStep(next) /\ WatchEngine(next)
  BY DEF EngineProgress
<1>3. UNCHANGED <<walk, req, bridge>>
  BY DEF EngineProgress
<1>4. CASE next = "WAIT"
  <2>1. next \in DOMAIN Outcomes
    BY <1>4, OutcomesAre DEF Engines
  <2>2. engine' = "WAIT" /\ differs' \in BOOLEAN /\ UNCHANGED <<xbee, unsaved>>
    BY <1>2, <1>4, <2>1 DEF EngineStep
  <2>3. cli' = Goes("SAVE_CONFIRM") /\ editor' = Clear(editor)
    BY <1>2, <1>4 DEF WatchEngine
  <2>4. cli' \in Cli /\ cli'.state = "SAVE_CONFIRM" /\ cli'.dirty = cli.dirty
    BY <1>1, <2>3, GoesIs DEF States, Asks
  <2>5. PICK e \in Editor : e = editor
    BY <1>1
  <2>6. PICK d : d = Clear(e)
    OBVIOUS
  <2>7. /\ d \in Editor /\ Len(d.line) < LineMax /\ d.lf = e.lf /\ d.esc = e.esc
        /\ d.masked = e.masked /\ editor' = d
    BY <2>3, <2>5, <2>6, ClearEffect
  <2> QED
    BY <1>1, <1>3, <2>2, <2>4, <2>5, <2>7
    DEF Core, TypeInv, Hidden, Requests, Marked, UnsavedIsKnown, Engines
<1>5. CASE next # "WAIT" /\ next \in DOMAIN Outcomes
  <2>1. UNCHANGED <<cli, editor, xbee, unsaved, differs>> /\ engine' = next
    BY <1>2, <1>5 DEF WatchEngine, EngineStep
  <2>2. engine' \in Engines \ {"IDLE"}
    BY <1>5, <2>1, OutcomesAre
  <2> QED
    BY <1>3, <2>1, <2>2 DEF Core, TypeInv, Hidden, Requests, Marked, UnsavedIsKnown
<1>6. CASE next \notin DOMAIN Outcomes
  <2>1. next \in {"ALREADY_PROVISIONED", "FAILED", "ABORTED", "DECLINED", "WRITTEN",
                  "WRITTEN_WITH_DIFFERENCES"}
    BY <1>1, <1>2, <1>6, OutcomesAre
  <2>2. /\ engine' = "IDLE" /\ differs' = FALSE /\ unsaved' \in LeftUnsaved(next)
        /\ xbee' \in (IF next = "FAILED" THEN {"READY", "FAILED"} ELSE {"READY"})
    BY <1>2, <1>6 DEF EngineStep
  <2>3. PICK b : b = (cli.dirty /\ ~ClearsDirty(next))
    OBVIOUS
  <2>4. PICK c : c = [cli EXCEPT !.dirty = b]
    OBVIOUS
  <2>5. c \in Cli /\ c.dirty = b
    BY <1>1, <2>3, <2>4 DEF Cli
  <2>6. ToPrompt(c)
    <3>1. next # "WAIT"
      BY <2>1
    <3> QED
      BY <1>2, <1>6, <2>3, <2>4, <3>1 DEF WatchEngine, FinishProvision
  <2>7. unsaved' \in {"NO", "YES", "MATCHED"} /\ (unsaved' = "YES" => b)
    <3>1. CASE next \in {"WRITTEN", "WRITTEN_WITH_DIFFERENCES", "DECLINED"}
      BY <2>2, <3>1 DEF LeftUnsaved
    <3>2. CASE next = "ALREADY_PROVISIONED"
      BY <2>2, <3>2 DEF LeftUnsaved, Core, TypeInv
    <3>3. CASE next \in {"ABORTED", "FAILED"}
      <4>1. b <=> cli.dirty
        BY <2>3, <3>3 DEF ClearsDirty
      <4>2. unsaved' \in {unsaved, "NO"}
        BY <2>2, <3>3 DEF LeftUnsaved
      <4> QED
        BY <1>1, <4>1, <4>2 DEF Core, TypeInv
    <3> QED
      BY <2>1, <3>1, <3>2, <3>3
  <2>8. /\ req' = "NONE" /\ walk' \in Walk /\ xbee' \in {"BUSY", "READY", "FAILED"}
        /\ bridge' \in BOOLEAN /\ differs' \in BOOLEAN
    BY <1>1, <1>3, <2>2 DEF Core, TypeInv
  <2> QED
    BY <2>2, <2>5, <2>6, <2>7, <2>8, PromptStep
<1> QED
  BY <1>4, <1>5, <1>6

\* advance_bringup() and the two questions that time out.
LEMMA AdvanceWaitEffect ==
  ASSUME Core, cli.state \in {"BRINGUP", "PASSWORD", "CONFIRM", "PROMPT"}, AdvanceWait
  PROVE  Core' /\ editor'.lf = editor.lf /\ editor'.esc = editor.esc
<1>1. UNCHANGED <<walk, world>>
  BY DEF AdvanceWait
<1>2. CASE ToPrompt(cli)
  <2>1. PICK c \in Cli : c = cli
    BY DEF Core, TypeInv
  <2>2. /\ req' = "NONE" /\ engine' = "IDLE" /\ walk' \in Walk
        /\ xbee' \in {"BUSY", "READY", "FAILED"} /\ bridge' \in BOOLEAN /\ differs' \in BOOLEAN
        /\ unsaved' \in {"NO", "YES", "MATCHED"} /\ (unsaved' = "YES" => c.dirty)
    BY <1>1, <2>1, AtRest DEF Core, TypeInv, world
  <2> QED
    BY <1>2, <2>1, <2>2, PromptStep
<1>3. CASE UNCHANGED <<cli, editor>>
  BY <1>1, <1>3 DEF Core, TypeInv, Hidden, Requests, Marked, UnsavedIsKnown, world
<1> QED
  BY <1>2, <1>3 DEF AdvanceWait

\* finish_bridge().
LEMMA FinishBridgeEffect ==
  ASSUME Core, FinishBridge
  PROVE  Core' /\ editor'.lf = editor.lf /\ editor'.esc = editor.esc
<1>1. cli.state = "BRIDGE"
  BY DEF FinishBridge
<1>2. PICK c \in Cli : c = cli
  BY DEF Core, TypeInv
<1>3. /\ req' = "NONE" /\ engine' = "IDLE" /\ walk' \in Walk
      /\ xbee' \in {"BUSY", "READY", "FAILED"} /\ bridge' \in BOOLEAN /\ differs' \in BOOLEAN
      /\ unsaved' \in {"NO", "YES", "MATCHED"} /\ (unsaved' = "YES" => c.dirty)
  BY <1>1, <1>2, AtRest DEF Core, TypeInv, FinishBridge
<1>4. ToPrompt(c)
  BY <1>2 DEF FinishBridge
<1> QED
  BY <1>2, <1>3, <1>4, PromptStep

\* The rest of a pass, in every state.
LEMMA AdvanceEffect ==
  ASSUME ConsoleInv, Advance
  PROVE  ConsoleInv'
<1>1. Core' /\ editor'.lf = editor.lf /\ editor'.esc = editor.esc
  <2>1. CASE cli.state \in {"GET", "SET", "EXEC"} /\ (Dispatch \/ Complete)
    BY <2>1, DispatchEffect, CompleteEffect DEF ConsoleInv
  <2>2. CASE cli.state = "WALK" /\ AdvanceWalk
    BY <2>2, AdvanceWalkEffect DEF ConsoleInv
  <2>3. CASE UNCHANGED <<cli, editor, walk, world>>
    BY <2>3 DEF ConsoleInv, Core, TypeInv, Hidden, Requests, Marked, UnsavedIsKnown, world
  <2>4. CASE cli.state \in {"PROVISION", "SAVE_CONFIRM"} /\ EngineProgress
    BY <2>4, EngineProgressEffect DEF ConsoleInv
  <2>5. CASE cli.state = "SAVE_CONFIRM" /\ DecideSave(FALSE, editor)
    <3>1. PICK e \in Editor : e = editor
      BY DEF ConsoleInv, Core, TypeInv
    <3>2. DecideSave(FALSE, e) /\ e.masked = editor.masked
      BY <2>5, <3>1
    <3>3. Core' /\ editor'.lf = e.lf /\ editor'.esc = e.esc
      BY <2>5, <3>2, DecideSaveEffect DEF ConsoleInv
    <3> QED
      BY <3>1, <3>3
  <2>6. CASE cli.state \in {"BRINGUP", "PASSWORD", "CONFIRM", "PROMPT"} /\ AdvanceWait
    BY <2>6, AdvanceWaitEffect DEF ConsoleInv
  <2>7. CASE FinishBridge
    BY <2>7, FinishBridgeEffect DEF ConsoleInv
  <2> QED
    BY <2>1, <2>2, <2>3, <2>4, <2>5, <2>6, <2>7 DEF Advance, AdvanceProvision, AdvanceQuestion
<1> QED
  BY <1>1 DEF Advance, PassEnds, ConsoleInv, Keyed

-----------------------------------------------------------------------------
\* The module: a bring-up ends, an answer comes, the supply fails.
LEMMA OutsideEffect ==
  ASSUME ConsoleInv, Settles \/ Answers \/ Restart
  PROVE  ConsoleInv'
<1>1. UNCHANGED <<cli, editor, walk, turn, fed, engine, differs, bridge, ending, owed, ended>>
  BY DEF Settles, Answers, Restart
<1>2. CASE Settles
  BY <1>1, <1>2 DEF Settles, ConsoleInv, Core, TypeInv, Hidden, Requests, Marked, UnsavedIsKnown, Keyed
<1>3. CASE Answers
  <2>1. req = "OUT" /\ req' \in {"OK", "FAIL"} /\ UNCHANGED xbee
    BY <1>3 DEF Answers
  <2>2. CASE cli.state = "SET" /\ req' = "OK"
    <3>1. unsaved' = "YES"
      BY <1>3, <2>2 DEF Answers
    <3> QED
      BY <1>1, <2>1, <2>2, <3>1
      DEF ConsoleInv, Core, TypeInv, Hidden, Requests, Marked, UnsavedIsKnown, Keyed
  <2>3. CASE cli.state = "EXEC"
    <3>1. IF req' = "OK" THEN unsaved' = "NO" ELSE unsaved' \in {unsaved, "NO"}
      BY <1>3, <2>3 DEF Answers
    <3> QED
      BY <1>1, <2>1, <2>3, <3>1
      DEF ConsoleInv, Core, TypeInv, Hidden, Requests, Marked, UnsavedIsKnown, Keyed
  <2>4. CASE ~(cli.state = "SET" /\ req' = "OK") /\ cli.state # "EXEC"
    <3>1. unsaved' = unsaved
      BY <1>3, <2>4 DEF Answers
    <3> QED
      BY <1>1, <2>1, <2>4, <3>1
      DEF ConsoleInv, Core, TypeInv, Hidden, Requests, Marked, UnsavedIsKnown, Keyed
  <2> QED
    BY <2>2, <2>3, <2>4
<1>4. CASE Restart
  BY <1>1, <1>4 DEF Restart, ConsoleInv, Core, TypeInv, Hidden, Requests, Marked, UnsavedIsKnown, Keyed
<1> QED
  BY <1>2, <1>3, <1>4

\* The clock.
LEMMA ElapseEffect ==
  ASSUME ConsoleInv, Elapse
  PROVE  ConsoleInv'
<1>1. UNCHANGED <<editor, walk, turn, fed, world, ending, owed, ended>>
  BY DEF Elapse
<1>2. /\ cli' \in Cli /\ cli'.state = cli.state /\ cli'.dirty = cli.dirty
      /\ cli'.dispatched = cli.dispatched
  BY DEF Elapse, ConsoleInv, Core, TypeInv, Cli
<1> QED
  BY <1>1, <1>2
  DEF ConsoleInv, Core, TypeInv, Hidden, Requests, Marked, UnsavedIsKnown, Keyed, world

\* The first state.
LEMMA InitInv == Init => ConsoleInv
<1> SUFFICES ASSUME Init PROVE ConsoleInv
  OBVIOUS
<1>1. cli \in Cli
  BY DEF Init, Cli, Busy, Asks, ALL, Attempts
<1>2. editor \in Editor /\ Len(editor.line) < LineMax
  <2>1. PICK n : n = <<>> /\ n \in Lines /\ Len(n) = 0
    BY LinesHold
  <2>2. editor = [line |-> n, over |-> FALSE, lf |-> FALSE, esc |-> "NONE", masked |-> FALSE]
    BY <2>1 DEF Init, Fresh
  <2>3. Len(n) < LineMax
    BY <2>1, LineAssumption
  <2> QED
    BY <2>1, <2>2, <2>3 DEF Editor
<1>3. walk \in Walk
  BY FirstStepIs DEF Init
<1>4. TypeInv
  BY <1>1, <1>2, <1>3 DEF Init, TypeInv, Engines
<1>5. Hidden /\ Requests /\ Marked
  BY DEF Init, Fresh, Hidden, Requests, Marked, UnsavedIsKnown
<1>6. Keyed
  <2>1. turn = FALSE /\ fed = FALSE /\ ending \in Endings /\ owed = FALSE /\ ended = 0
    BY DEF Init
  <2>2. turn \in BOOLEAN /\ fed \in BOOLEAN /\ owed \in BOOLEAN /\ ~owed
    BY <2>1, Zenon
  <2>3. ended \in 0..1
    BY <2>1
  <2> QED
    BY <2>1, <2>2, <2>3, Zenon DEF Keyed
<1> QED
  BY <1>4, <1>5, <1>6 DEF ConsoleInv, Core

\* Every step.
LEMMA StepInv == ConsoleInv /\ [Next]_vars => ConsoleInv'
<1> SUFFICES ASSUME ConsoleInv, [Next]_vars PROVE ConsoleInv'
  OBVIOUS
<1>1. CASE Feed
  BY <1>1, FeedEffect
<1>2. CASE Advance
  BY <1>2, AdvanceEffect
<1>3. CASE Settles \/ Answers \/ Restart
  BY <1>3, OutsideEffect
<1>4. CASE Elapse
  BY <1>4, ElapseEffect
<1>5. CASE UNCHANGED vars
  BY <1>5
  DEF vars, world, ConsoleInv, Core, TypeInv, Hidden, Requests, Marked, UnsavedIsKnown, Keyed
<1> QED
  BY <1>1, <1>2, <1>3, <1>4, <1>5 DEF Next

\* The invariant holds in every state.
THEOREM Invariance == Spec => []ConsoleInv
<1> QED
  BY InitInv, StepInv, PTL DEF Spec

\* The invariant gives the two properties.
LEMMA InvImplies == ConsoleInv => OneLinePerEnter /\ UnsavedIsKnown
<1> SUFFICES ASSUME ConsoleInv PROVE OneLinePerEnter /\ UnsavedIsKnown
  OBVIOUS
<1>1. UnsavedIsKnown
  BY DEF ConsoleInv, Core, Marked
<1>2. TypeOK
  <2>1. /\ cli \in [state : Busy \cup Asks \cup {"BRINGUP", "PROMPT", "BRIDGE"}, mode : ALL,
                    attempts : 0..Attempts, dispatched : BOOLEAN, dirty : BOOLEAN,
                    due : BOOLEAN]
    BY DEF ConsoleInv, Core, TypeInv, Cli
  <2>2. editor.line \in Seq(DOMAIN Words) /\ Len(editor.line) < LineMax
    BY Zenon DEF ConsoleInv, Core, TypeInv, Editor, Lines
  <2>3. walk \in [at : 1..(WalkLength + 1), active : BOOLEAN, abort : BOOLEAN, stalled : BOOLEAN]
    BY ConsoleAssumption DEF ConsoleInv, Core, TypeInv, Walk
  <2>4. ended \in 0..2
    BY DEF ConsoleInv, Keyed
  <2> QED
    BY <2>1, <2>2, <2>3, <2>4 DEF TypeOK, ConsoleInv, Core, TypeInv, Keyed, Engines
<1>3. ended <= 1 /\ (editor.masked <=> cli.state = "PASSWORD")
  BY DEF ConsoleInv, Core, Keyed, Hidden
<1> QED
  BY <1>1, <1>2, <1>3 DEF OneLinePerEnter

\* An Enter ends one line at most, for every line ending and every text, and the line is
\* hidden exactly while the password is asked for (line_edit.h:33, cli.c:99).
THEOREM EnterEndsOneLine == Spec => []OneLinePerEnter
<1> QED
  BY Invariance, InvImplies, PTL

\* A value the module has acknowledged and would lose is known to the console
\* (config_dirty, cli.c:281).
THEOREM UnsavedStaysKnown == Spec => []UnsavedIsKnown
<1> QED
  BY Invariance, InvImplies, PTL
=============================================================================
