SPECIFICATION FairSpec
CONSTANTS
  LineMax = 2
  Fragments = {"enable", "admin", "disable", "conf", "end", "exit", "set", "unset", "get", "walk", "info", "log", "write", "reload", "bridge", "prov", "part", "more", "y"}
  Endings = {"CR", "LF", "CRLF"}
  WalkLength = 2
INVARIANTS OneLinePerEnter UnsavedIsKnown
PROPERTIES PromptReturns
