------------------------------ MODULE MCPaper ------------------------------
(* Two signals that may name the same token; the tokens are interchangeable. *)
EXTENDS RealtimeCoordinator, TLC

TokenSymmetry == Permutations(Mints)
=============================================================================
