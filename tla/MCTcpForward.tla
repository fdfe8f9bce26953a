---------------------------- MODULE MCTcpForward ----------------------------
(* Instances of TcpForward for TLC: see TcpForward.cfg.                      *)
EXTENDS TcpForward
=============================================================================
