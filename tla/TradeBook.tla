------------------------------ MODULE TradeBook ------------------------------
(***************************************************************************)
(* What the survivor engine promises of the trades of one token, whatever  *)
(* prices, quotes and deaths it goes through: one trade at a time, sold    *)
(* down a ladder, closed by one last sale, and then only ever forgotten.   *)
(***************************************************************************)
EXTENDS Naturals, Sequences

CONSTANT Ids

VARIABLE book      \* [Ids -> [status, sold]], sold being the reasons sold for

TP1 == "TP1_PLUS_50"
TP2 == "TP2_PLUS_100"
TP3 == "TP3_PLUS_200"
HALF == "NO_TRADE_PNL_GT_10_PARTIAL"

Trims == {TP1, TP2, HALF}
Closings == {TP3, HALF, "HARD_STOP_PNL", "TRAILING_25_PERCENT", "TP1_HIGH_RETRACE_35_PERCENT",
             "TP1_BREAK_EVEN", "EMERGENCY_LIQUIDITY_DROP", "EMERGENCY_DUMP", "TIME_STOP",
             "NO_TRADE_PNL_LT_10"}

With(status) == {i \in Ids : book[i].status = status}

Has(sold, reason) == \E k \in DOMAIN sold : sold[k] = reason

\* A part may be sold for each of three reasons, once, the second take profit
\* after the first.
MayTrim(sold, reason) ==
  /\ reason \in Trims
  /\ ~Has(sold, reason)
  /\ reason = TP2 => Has(sold, TP1)

\* The whole is never sold for the first two take profits, for the third and
\* the trailing stop only after the second, for the retrace between the first
\* and the second, at break even after the first, and in place of the
\* no-trade half once that half was sold.
MayClose(sold, reason) ==
  /\ reason \in Closings
  /\ reason \in {TP3, "TRAILING_25_PERCENT"} => Has(sold, TP2)
  /\ reason \in {"TP1_HIGH_RETRACE_35_PERCENT", "TP1_BREAK_EVEN"} => Has(sold, TP1)
  /\ reason = "TP1_HIGH_RETRACE_35_PERCENT" => ~Has(sold, TP2)
  /\ reason = HALF => Has(sold, HALF)

Init == book = [i \in Ids |-> [status |-> "none", sold |-> << >>]]

Open(i) ==
  /\ With("OPEN") = {}
  /\ book' = [book EXCEPT ![i] = [status |-> "OPEN", sold |-> << >>]]

\* One sale more: the last one closes the trade or leaves it open.
Sell(i) ==
  LET sold == book[i].sold
      now == book'[i]
  IN /\ Len(now.sold) = Len(sold) + 1
     /\ LET reason == now.sold[Len(now.sold)]
        IN /\ now.sold = Append(sold, reason)
           /\ \/ now.status = "OPEN" /\ MayTrim(sold, reason)
              \/ now.status = "CLOSED" /\ MayClose(sold, reason)
     /\ book' = [book EXCEPT ![i] = [status |-> now.status, sold |-> now.sold]]

Forget ==
  \E some \in (SUBSET With("CLOSED")) \ {{}} :
    book' = [i \in Ids |-> IF i \in some THEN [status |-> "gone", sold |-> << >>] ELSE book[i]]

Next ==
  \/ \E i \in With("none") : Open(i)
  \/ \E i \in With("OPEN") : Sell(i)
  \/ Forget

Spec == Init /\ [][Next]_book
=============================================================================
