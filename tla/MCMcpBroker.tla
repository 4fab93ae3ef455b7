----------------------------- MODULE MCMcpBroker -----------------------------
(* Small instances of McpBroker for TLC.  The bounds are in the .cfg files.  *)
EXTENDS McpBroker, TLC

CONSTANTS t1, t2, k1, k2

Symmetry == Permutations(Calls) \cup Permutations(Sources)

OneEach == [t \in Tools |-> IF t = t1 THEN k1 ELSE k2]
=============================================================================
