----------------------------- MODULE CliParser -----------------------------
(***************************************************************************)
(* The command tree of the console (cli.c) and the walk that matches a     *)
(* line against it (cli_parser.c).  A line is a sequence of words: cutting *)
(* it at the blanks is left out, and so is help, which changes nothing.    *)
(***************************************************************************)
EXTENDS Naturals, Sequences, SequencesExt

USER == "USER"
PRIV == "PRIV"
CONF == "CONF"
ALL  == {USER, PRIV, CONF}
ARG  == "<ARG>"     \* CLI_NODE_ARG: matches any word no keyword claims
NONE == "NONE"      \* CLI_CMD_NONE: the node only leads to others

MaxTokens == 8      \* CLI_PARSER_MAX_TOKENS

Node(path, modes, id) == [path |-> path, modes |-> modes, id |-> id]

\* The tree as the set of its nodes, each with the words that lead to it.
Tree ==
  { Node(<<"show">>, ALL, NONE),
    Node(<<"show", "version">>, ALL, "SHOW_VERSION"),
    Node(<<"show", "xbee">>, ALL, NONE),
    Node(<<"show", "xbee", "all">>, ALL, "SHOW_ALL"),
    Node(<<"show", "xbee", "info">>, ALL, "SHOW_INFO"),
    Node(<<"show", "xbee", "at">>, ALL, NONE),
    Node(<<"show", "xbee", "at", ARG>>, ALL, "SHOW_AT"),
    Node(<<"exit">>, ALL, "EXIT"),
    Node(<<"enable">>, {USER}, "ENABLE"),
    Node(<<"disable">>, {PRIV}, "DISABLE"),
    Node(<<"bridge">>, {PRIV}, "BRIDGE"),
    Node(<<"reload">>, {PRIV}, "RELOAD"),
    Node(<<"configure">>, {PRIV}, NONE),
    Node(<<"configure", "terminal">>, {PRIV}, "CONF_TERM"),
    Node(<<"write">>, {PRIV}, NONE),
    Node(<<"write", "memory">>, {PRIV}, "WRITE_MEM"),
    Node(<<"logging">>, {PRIV}, NONE),
    Node(<<"logging", "level">>, {PRIV}, NONE),
    Node(<<"end">>, {CONF}, "END"),
    Node(<<"xbee">>, {CONF}, NONE),
    Node(<<"xbee", "at">>, {CONF}, NONE),
    Node(<<"xbee", "at", ARG>>, {CONF}, NONE),
    Node(<<"xbee", "at", ARG, ARG>>, {CONF}, "XBEE_AT_SET"),
    Node(<<"xbee", "provision">>, {CONF}, NONE),
    Node(<<"xbee", "provision", "all">>, {CONF}, "XBEE_PROVISION_ALL"),
    Node(<<"no">>, {CONF}, NONE),
    Node(<<"no", "xbee">>, {CONF}, NONE),
    Node(<<"no", "xbee", "at">>, {CONF}, NONE),
    Node(<<"no", "xbee", "at", ARG>>, {CONF}, "NO_XBEE_AT") }
  \cup { Node(<<"logging", "level", level>>, {PRIV}, "LOG") :
           level \in {"verbose", "info", "warning", "error", "none"} }

\* The nodes a mode sees below a path.
Children(path, mode) ==
  { n \in Tree : mode \in n.modes /\ Len(n.path) = Len(path) + 1 /\ IsPrefix(path, n.path) }

\* match_child(): a keyword first, then whatever argument the level takes.
MatchChild(path, word, mode) ==
  LET level   == Children(path, mode)
      keyword == { n \in level : Last(n.path) = word }
      arg     == { n \in level : Last(n.path) = ARG }
  IN IF keyword # {} THEN keyword ELSE arg

\* One word of cli_parser_parse(): the walk goes on, or has failed.
Step(walk, word, mode) ==
  IF walk.status # "OK" THEN walk
  ELSE LET next == MatchChild(walk.node.path, word, mode)
       IN IF next # {} THEN [walk EXCEPT !.node = CHOOSE n \in next : TRUE]
          ELSE [walk EXCEPT !.status = IF Children(walk.node.path, mode) # {}
                                       THEN "UNKNOWN" ELSE "TOO_MANY"]

\* The walk of a whole line, from above the tree.
Walked(words, mode) ==
  FoldLeft(LAMBDA walk, word : Step(walk, word, mode),
           [status |-> "OK", node |-> Node(<<>>, ALL, NONE)], words)

\* cli_parser_parse(): what the line is, and the command it names if it names one.
Parse(words, mode) ==
  LET end    == Walked(words, mode)
      status == IF Len(words) > MaxTokens THEN "TOO_MANY"
                ELSE IF words = <<>> THEN "EMPTY"
                ELSE IF end.status = "OK" /\ end.node.id = NONE THEN "INCOMPLETE"
                ELSE end.status
  IN [status |-> status, id |-> IF status = "OK" THEN end.node.id ELSE NONE]
=============================================================================
