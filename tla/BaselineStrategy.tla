-------------------------- MODULE BaselineStrategy --------------------------
(***************************************************************************)
(* The rules of strategies/baseline.py: which candidates may enter and     *)
(* which exit rule fires on a quote.  A market price is abstracted to a    *)
(* mark, the interval of the unit return in which it lies; the thresholds  *)
(* of solana_baseline_config and bsc_baseline_config separate the marks.   *)
(***************************************************************************)
EXTENDS Naturals

(* A usable sell quote prices the unit return at one of these marks:       *)
(* crash <= -40% < stop <= the stop loss < down <= 0 < up < first take     *)
(* profit <= tp1 < second take profit <= tp2.                              *)
AllMarks == {"crash", "stop", "down", "up", "tp1", "tp2"}

Ages == {"young", "held", "overdue"}   \* below max_hold_sec, below max_hold_sec + 10, above

NoRule == "none"

TakeProfitStages == [take_profit_1 |-> 1, take_profit_2 |-> 2]

(* Only the Solana configuration sells by halves.                          *)
PartialTakeProfit(chain) == chain = "solana"

(* Whether each rule of _paper_exit_reason holds, in the order the code    *)
(* tries them.                                                             *)
ExitRules(chain, stage, mark, age) ==
  LET partial == PartialTakeProfit(chain) IN
    << <<"stop_loss", mark \in {"crash", "stop"}>>,
       <<"tp2_breakeven_exit", partial /\ stage = 2 /\ mark = "down">>,
       <<"take_profit_1", partial /\ stage = 0 /\ mark \in {"tp1", "tp2"}>>,
       <<"take_profit_2", partial /\ stage = 1 /\ mark = "tp2">>,
       <<"take_profit", ~partial /\ mark \in {"tp1", "tp2"}>>,
       <<"max_hold_timeout", age # "young">> >>

PaperExitReason(chain, stage, mark, age) ==
  LET rules == ExitRules(chain, stage, mark, age)
      firing == {i \in DOMAIN rules : rules[i][2]}
  IN  IF firing = {} THEN NoRule
      ELSE rules[CHOOSE i \in firing : \A j \in firing : i <= j][1]

(* _cost_breakdown against large_loss_threshold_pct: a whole position sold *)
(* at the crash mark lost more than 40%; one that took a profit first has  *)
(* the proceeds of the halves against it.                                  *)
LargeLoss(stage, mark) == stage = 0 /\ mark = "crash"

(* A candidate's features: whether every local check passes, and whether   *)
(* both route quotes pass theirs.                                          *)
EntryFeatures == [local : BOOLEAN, quoted : BOOLEAN]

LocalEntryEligible(f) == f.local
EvaluateEntry(f) == f.local /\ f.quoted

(* A quote is a number of units and the mark at which it prices them; a    *)
(* fetch that fails yields NoQuote, and one that outlived its TTL is not   *)
(* usable any more.                                                        *)
NoQuote == [units |-> 0, mark |-> "down", usable |-> FALSE]

ValidSellQuote(q, units) == q.usable /\ q.units = units
=============================================================================
