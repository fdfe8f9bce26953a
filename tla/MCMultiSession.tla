--------------------------- MODULE MCMultiSession ---------------------------
(* Instances of MultiSession for TLC: see the MultiSession*.cfg files.       *)
EXTENDS MultiSession
=============================================================================
