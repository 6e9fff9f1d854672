---------------------------- MODULE ExposureLimit ----------------------------
(***************************************************************************)
(* What the entry side of the live engine promises, whatever it is made    *)
(* of: money is pledged to one token at a time, only while fewer than      *)
(* MaxOpen other tokens have money pledged to them.                        *)
(***************************************************************************)
EXTENDS Naturals, FiniteSets

CONSTANTS Tokens, MaxOpen

VARIABLE pledged

Init == pledged = {}

\* Money goes to t; some other tokens may be given up in the same step.
Pledge(t) ==
    /\ t \in pledged'
    /\ pledged' \subseteq pledged \cup {t}
    /\ Cardinality(pledged' \ {t}) < MaxOpen

GiveUp == pledged' \subseteq pledged

Next == GiveUp \/ \E t \in Tokens : Pledge(t)

Spec == Init /\ [][Next]_pledged
=============================================================================
