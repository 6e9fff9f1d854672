----------------------------- MODULE MCLiveEntry -----------------------------
(* Small instances of LiveEntry, with its inductive invariant at hand.       *)
EXTENDS LiveEntryInvariant
=============================================================================
