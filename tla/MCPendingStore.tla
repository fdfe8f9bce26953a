--------------------------- MODULE MCPendingStore ---------------------------
(* Instances of PendingStore for TLC.                                      *)
EXTENDS PendingStore, TLC

\* Handlers differ only in their request id.
RequestSymmetry == Permutations(Requests)
=============================================================================
