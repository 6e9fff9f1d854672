-------------------------- MODULE PositionLifecycle --------------------------
(***************************************************************************)
(* What the classic engine promises of its positions, whatever the threads,*)
(* the quotes and the deaths: a token is traded once, a bounded number of  *)
(* positions at a time, each is halved at most twice and goes through its  *)
(* phases without ever turning back.                                       *)
(***************************************************************************)
EXTENDS Naturals, FiniteSets

CONSTANTS Signals, Mints, Quantity, MaxOpenPositions

VARIABLES
  mintOf,    \* the token of each signal, given once and for all
  life       \* [Signals -> [phase, halvings, held]]

lifeVars == <<mintOf, life>>

Phases == <<"ENTRY_PENDING", "OPEN", "EXIT_TRIGGERED", "CLOSED">>

InPhase(some) == {p \in Signals : \E i \in some : life[p].phase = Phases[i]}
Held == InPhase(1..3)
Used == InPhase(1..4)

Living(phase, halvings, held) == [phase |-> phase, halvings |-> halvings, held |-> held]

Init ==
  /\ mintOf \in [Signals -> Mints]
  /\ life = [p \in Signals |-> Living("none", 0, 0)]

Open(p) ==
  /\ life[p].phase = "none"
  /\ Cardinality(Held) < MaxOpenPositions
  /\ \A q \in Used : mintOf[q] # mintOf[p]
  /\ life' = [life EXCEPT ![p] = Living(Phases[1], 0, Quantity)]

Forward(p) ==
  /\ \E i \in 1..3, j \in 1..3 :
       /\ i < j /\ life[p].phase = Phases[i]
       /\ life' = [life EXCEPT ![p].phase = Phases[j]]

Halve(p) ==
  /\ p \in Held
  /\ life[p].halvings < 2
  /\ life' = [life EXCEPT ![p].halvings = @ + 1, ![p].held = @ \div 2]

Close(p) ==
  /\ p \in Held
  /\ life' = [life EXCEPT ![p].phase = Phases[4], ![p].held = 0]

Next ==
  /\ \E p \in Signals : Open(p) \/ Forward(p) \/ Halve(p) \/ Close(p)
  /\ UNCHANGED mintOf

Spec == Init /\ [][Next]_lifeVars
=============================================================================
