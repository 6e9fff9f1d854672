------------------------ MODULE SimulationConstants ------------------------
(***************************************************************************)
(* What the ledger and the executor of a Paper, Shadow or Live run share.  *)
(***************************************************************************)
EXTENDS Naturals

CONSTANTS
  Signals,     \* candidate signals the source may ever deliver
  Mints,       \* the tokens they name
  Quantity     \* entry_quantity_token, in units that two halvings divide

ASSUME QuantityAssumption == Quantity \in Nat /\ Quantity % 4 = 0 /\ Quantity > 0
=============================================================================
