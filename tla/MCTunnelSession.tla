-------------------------- MODULE MCTunnelSession --------------------------
(* Instances of TunnelSession for TLC: see the TunnelSession*.cfg files.    *)
EXTENDS TunnelSession
=============================================================================
