----------------------------- MODULE MCXBeeApi -----------------------------
(* Small instances of XBeeApi.  The request objects are interchangeable.    *)
EXTENDS XBeeApi, TLC

Objects == Permutations(Requests)
=============================================================================
