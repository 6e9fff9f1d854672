------------------------------ MODULE MCLiveExit ------------------------------
(* Small instances of LiveExit; order ids are interchangeable. *)
EXTENDS LiveExit, TLC

Interchangeable == Permutations(Orders)
=============================================================================
