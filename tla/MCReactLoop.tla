----------------------------- MODULE MCReactLoop -----------------------------
(* Small instances of ReactLoop for TLC.  The bounds are in the .cfg files.  *)
EXTENDS ReactLoop, TLC

\* Session, request and call ids are interchangeable in every safety property.
Symmetry == Permutations(Sessions) \cup Permutations(Requests)
                \cup Permutations(Calls)

NoFaults == {}
BusAndRpc == {"rpc", "rpcLate", "publish"}
SaveOnly == {"save"}
==============================================================================
