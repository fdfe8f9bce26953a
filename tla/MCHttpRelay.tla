---------------------------- MODULE MCHttpRelay ----------------------------
(* Instances of HttpRelay for TLC: see HttpRelay.cfg.                       *)
EXTENDS HttpRelay
=============================================================================
