---------------------------- MODULE MCProvision ----------------------------
(* Small instances of Provision: entry 1 is AP, the entries in IsDefault    *)
(* are parameters the command table calls defaults, an entry not in         *)
(* Readable is the write-only key.                                          *)
EXTENDS Provision

MCValues  == {"0", "1"}
MCConfig  == [p \in Params |-> "1"]

\* The defaults of a module the command table describes, of one it is wrong
\* about, and the custom defaults of a module that was given its own.
MCFactory      == [p \in Params |-> IF p \in IsDefault THEN "1" ELSE "0"]
MCOtherFactory == [p \in Params |-> "0"]
MCCustom       == [p \in Params |-> "0"]
=============================================================================
