------------------------------ MODULE LineEdit ------------------------------
(***************************************************************************)
(* The line discipline of the console, line_edit.c: what one key does to   *)
(* the line being typed and what the caller is told.  Echo is left out.    *)
(*                                                                         *)
(* A key is one byte, or a fragment of text that stands for the characters *)
(* it is made of; a line holds one fragment less than LineMax.  BS stands  *)
(* for as many as it takes to erase a fragment.                            *)
(***************************************************************************)
EXTENDS Naturals, Sequences, SequencesExt

CONSTANTS LineMax    \* the buffer's capacity, its terminator included

ASSUME LineAssumption == LineMax \in Nat \ {0, 1}

Controls == {"CR", "LF", "ETX", "BS", "ESC", "[", "?"}

\* A fragment that has lost its first character to an escape sequence.
Cut(text) == IF text = "y" THEN <<>> ELSE <<"junk">>

\* line_edit_init()
Fresh == [line |-> <<>>, over |-> FALSE, lf |-> FALSE, esc |-> "NONE", masked |-> FALSE]

\* Mutant: the second half of a CR LF is forgotten with the line.
ClearAll(e) == [e EXCEPT !.line = <<>>, !.over = FALSE, !.lf = FALSE]

\* clear_line() and line_edit_reset(): a CR that has been seen stays seen.
Clear(e) == [e EXCEPT !.line = <<>>, !.over = FALSE]

Told(event, e) == [event |-> event, ed |-> e]

\* append_char(), for every character of a piece of text.
AppendText(e, text) ==
  IF e.over THEN Told("NONE", e)
  ELSE IF Len(e.line) + Len(text) >= LineMax
       THEN Told("OVERFLOW", [e EXCEPT !.over = TRUE, !.line = <<>>])
       ELSE Told("NONE", [e EXCEPT !.line = @ \o text])

\* erase_char()
Erase(e) ==
  IF e.line = <<>> \/ e.over THEN Told("NONE", e)
  ELSE Told("NONE", [e EXCEPT !.line = Front(@)])

\* finish_line(): a line that was too long has been reported already.
FinishLine(e) == IF e.over THEN Told("SWALLOWED", Clear(e)) ELSE Told("READY", e)

\* consume_escape()
ConsumeEscape(e, key) ==
  IF key = "[" /\ e.esc = "GOT_ESC" THEN Told("NONE", [e EXCEPT !.esc = "GOT_CSI"])
  ELSE IF key \in Controls \ {"[", "?"}
       THEN Told("NONE", IF e.esc = "GOT_ESC" THEN [e EXCEPT !.esc = "NONE"] ELSE e)
  ELSE IF key \in {"[", "?"}
       THEN Told("NONE", IF e.esc = "GOT_CSI" /\ key = "?" THEN e ELSE [e EXCEPT !.esc = "NONE"])
  ELSE AppendText([e EXCEPT !.esc = "NONE", !.lf = @ /\ Cut(key) = <<>>], Cut(key))

\* line_edit_feed()
FeedKey(e, key) ==
  LET seen == [e EXCEPT !.lf = FALSE]
  IN IF e.esc # "NONE" THEN ConsumeEscape(e, key)
     ELSE CASE key = "CR"  -> FinishLine([seen EXCEPT !.lf = TRUE])
            [] key = "LF"  -> IF e.lf THEN Told("NONE", seen) ELSE FinishLine(seen)
            [] key = "BS"  -> Erase(seen)
            [] key = "ETX" -> Told("ABORT", Clear(seen))
            [] key = "ESC" -> Told("NONE", [seen EXCEPT !.esc = "GOT_ESC"])
            [] key = "?" /\ ~e.masked -> Told("HELP", seen)
            [] OTHER -> AppendText(seen, <<key>>)
=============================================================================
