-------------------------- MODULE MCTunnelRegistry --------------------------
(* Instances of TunnelRegistry for TLC.                                    *)
EXTENDS TunnelRegistry, TLC

\* Sessions are interchangeable, and so are subdomains.
RegistrySymmetry == Permutations(Sessions) \cup Permutations(Subdomains)
=============================================================================
