-------------------------- MODULE SimulationLedger --------------------------
(***************************************************************************)
(* engines/ledger.py: the virtual positions of one Paper, Shadow or Live   *)
(* engine.  Every operation changes the memory objects and commits its own *)
(* SQLite statement, so a handler of the engine is a sequence of           *)
(* operations between any two of which the process can die.  Rows and      *)
(* memory positions move together and are one variable here; what the two  *)
(* can disagree on, the exit snapshots and the loss counter, is kept apart.*)
(* A signal stands for its candidate and for the position opened from it.  *)
(***************************************************************************)
EXTENDS SimulationConstants, FiniteSets, Functions, BaselineStrategy

VARIABLES
  mintOf,      \* the token of each signal
  candidates,  \* candidates rows: none, ACCEPTED or REJECTED
  rows,        \* virtual_positions rows: status, take profits done, units left
  lastMark,    \* last_return_pct of the row, read back only on BSC
  saved,       \* exit snapshot status in the row, per kind
  snapshot,    \* exit snapshot status in memory, per kind
  entries,     \* positions with an entry execution row
  attempts,    \* positions with an exit_attempt row (live)
  sales,       \* exit and partial_exit rows: their units, exits and large losses
  outcomes,    \* shadow_outcomes rows
  largeLosses  \* large_loss_count, in memory only

durableVars == <<mintOf, candidates, rows, saved, entries, attempts, sales, outcomes, lastMark>>
ledgerVars == <<durableVars, snapshot, largeLosses>>

Kinds == {"holders", "market"}
Statuses == {"none", "ENTRY_PENDING", "OPEN", "EXIT_TRIGGERED", "CLOSED"}
SnapshotStatuses == {"none", "pending", "completed", "unavailable"}

Active == {p \in Signals : rows[p].status \in {"ENTRY_PENDING", "OPEN", "EXIT_TRIGGERED"}}
Closed == {p \in Signals : rows[p].status = "CLOSED"}

RowOf(status, stage, units) == [status |-> status, stage |-> stage, units |-> units]

CandidateExists(p) == candidates[p] # "none"

RecordCandidate(p, verdict) == candidates' = [candidates EXCEPT ![p] = verdict]

(* open_position: a second INSERT of a position id is refused.             *)
OpenPosition(p) ==
  /\ rows[p].status = "none"
  /\ rows' = [rows EXCEPT ![p] = RowOf("ENTRY_PENDING", 0, Quantity)]

TransitionPosition(p, status) ==
  /\ p \in Active
  /\ rows' = [rows EXCEPT ![p].status = status]

RecordEntry(p) == entries' = entries \cup {p}
RecordAttempt(p) == attempts' = attempts \cup {p}

RecordPartialTakeProfitWhole(p, stage, units) ==
  /\ p \in Active
  /\ 2 * units = rows[p].units
  /\ rows[p].stage = stage - 1
  /\ rows' = [rows EXCEPT ![p].stage = stage]

(* record_partial_take_profit: exactly half of the active balance, the     *)
(* first step before the second, each of them once.                        *)
RecordPartialTakeProfit(p, stage, units) ==
  /\ p \in Active
  /\ 2 * units = rows[p].units
  /\ rows[p].stage = stage - 1
  /\ rows' = [rows EXCEPT ![p].stage = stage, ![p].units = @ - units]

ClosePosition(p) ==
  /\ p \in Active
  /\ rows' = [rows EXCEPT ![p].status = "CLOSED", ![p].units = 0]

RecordSale(p, units, exits, large) ==
  sales' = [sales EXCEPT ![p] = [sold |-> @.sold + units,
                                 exits |-> @.exits + exits,
                                 large |-> @.large + large]]

RecordShadowOutcome(p, outcome) == outcomes' = [outcomes EXCEPT ![p] = outcome]

SetExitSnapshotInRow(kind, p, status, committed) ==
  IF committed
  THEN /\ snapshot' = [snapshot EXCEPT ![kind][p] = status]
       /\ saved' = [saved EXCEPT ![kind][p] = status]
  ELSE UNCHANGED <<snapshot, saved>>

(* set_exit_holders_snapshot and set_exit_market_snapshot change the       *)
(* memory object before the statement runs; a statement that fails leaves  *)
(* the row as it was.                                                      *)
SetExitSnapshot(kind, p, status, committed) ==
  /\ snapshot' = [snapshot EXCEPT ![kind][p] = status]
  /\ saved' = IF committed THEN [saved EXCEPT ![kind][p] = status] ELSE saved

HasOpenMintLifecycle(p) == \E q \in Active : mintOf[q] = mintOf[p]

HasMintLifecycle(p) == \E q \in Active \cup Closed : mintOf[q] = mintOf[p]

(* What recover() counts again from the exit rows.                         *)
LargeLossRows == SumFunction([p \in Signals |-> sales[p].large])

(* recover(): memory is rebuilt from the rows and the loss counter from    *)
(* the exit rows; a missing snapshot of a closed row may be found in a     *)
(* stored event.                                                           *)
RecoverLossesForgotten == largeLosses' = 0

RecoverLosses == largeLosses' = LargeLossRows

RecoverSnapshotsRefilling(found) ==
  /\ found \subseteq {x \in Kinds \X Closed : saved[x[1]][x[2]] # "completed"}
  /\ saved' = [k \in Kinds |-> [p \in Signals |->
                IF <<k, p>> \in found THEN "completed" ELSE saved[k][p]]]
  /\ snapshot' = saved'

RecoverSnapshots(found) ==
  /\ found \subseteq {x \in Kinds \X Closed : saved[x[1]][x[2]] = "none"}
  /\ saved' = [k \in Kinds |-> [p \in Signals |->
                IF <<k, p>> \in found THEN "completed" ELSE saved[k][p]]]
  /\ snapshot' = saved'

RecoverReopened(found) ==
  /\ RecoverSnapshots(found)
  /\ RecoverLosses
  /\ rows' = [p \in Signals |-> IF p \in Active THEN [rows[p] EXCEPT !.status = "OPEN"] ELSE rows[p]]
  /\ UNCHANGED <<mintOf, candidates, entries, attempts, sales, outcomes, lastMark>>

Recover(found) ==
  /\ RecoverSnapshots(found)
  /\ RecoverLosses
  /\ UNCHANGED <<mintOf, candidates, rows, entries, attempts, sales, outcomes, lastMark>>

LedgerInit ==
  /\ mintOf \in [Signals -> Mints]
  /\ candidates = [p \in Signals |-> "none"]
  /\ rows = [p \in Signals |-> RowOf("none", 0, 0)]
  /\ lastMark = [p \in Signals |-> NoRule]
  /\ saved = [k \in Kinds |-> [p \in Signals |-> "none"]]
  /\ snapshot = saved
  /\ entries = {}
  /\ attempts = {}
  /\ sales = [p \in Signals |-> [sold |-> 0, exits |-> 0, large |-> 0]]
  /\ outcomes = [p \in Signals |-> "none"]
  /\ largeLosses = 0
=============================================================================
