-------------------------- MODULE SurvivorPosition --------------------------
(***************************************************************************)
(* strategies/survivor_reversal.py, one position of the Paper engine: its  *)
(* mark, the latched take profits, the exit rules in the order the code    *)
(* tries them, and what a sale changes.  A position is a record; the units *)
(* left and the BNB realized are what the sequence of booked sales says.   *)
(* Every entry is quoted at EntryPrice.                                    *)
(***************************************************************************)
EXTENDS SurvivorCandidate, Sequences

CONSTANT EntryPrice    \* input / output of the buy quote

ASSUME EntryAssumption == EntryPrice \in Prices

TakeProfits == {"TP1_PLUS_50", "TP2_PLUS_100", "TP3_PLUS_200"}
Protections == {"HARD_STOP_PNL", "TRAILING_25_PERCENT", "TP1_HIGH_RETRACE_35_PERCENT",
                "TP1_BREAK_EVEN", "EMERGENCY_LIQUIDITY_DROP", "EMERGENCY_DUMP", "TIME_STOP",
                "NO_TRADE_PNL_LT_10"}
HalfSale == "NO_TRADE_PNL_GT_10_PARTIAL"
Reasons == TakeProfits \cup Protections \cup {HalfSale}

(* reason.startswith("TP"): the intents _evaluate_positions does not       *)
(* commit to.                                                              *)
StartsWithTP == TakeProfits \cup {"TP1_HIGH_RETRACE_35_PERCENT", "TP1_BREAK_EVEN"}

(* What a sale sells: 30 %, one half or the whole of what is left.         *)
Parts == {"TP", "HALF", "ALL"}
PartOf(reason) ==
  CASE reason \in {"TP1_PLUS_50", "TP2_PLUS_100"} -> "TP"
    [] reason = HalfSale -> "HALF"
    [] OTHER -> "ALL"

NoIntent == [reason |-> "none", part |-> "none"]
Intents == [reason : Reasons, part : Parts] \cup {NoIntent}

Positions == [
  mark : Prices, markSrc : Sources,          \* position_mark_price_native and its source
  trig : SUBSET TakeProfits, filled : SUBSET TakeProfits,
  high1 : Prices \cup {0},                   \* high_since_tp1_native
  high2 : Prices \cup {0},                   \* high_after_tp2, in memory only
  half : BOOLEAN,                            \* no_trade_profit_partial_done
  intent : Intents,                          \* in memory; durable under its own key
  dirty : BOOLEAN,                           \* in _position_mark_dirty
  sold : Seq(Reasons)]

NewPosition(mark) == [
  mark |-> mark, markSrc |-> "none", trig |-> {}, filled |-> {}, high1 |-> 0, high2 |-> 0,
  half |-> FALSE, intent |-> NoIntent, dirty |-> FALSE, sold |-> << >>]

(* What the row of survivor_positions keeps of it.                         *)
Rowed(p) == [p EXCEPT !.high2 = 0, !.intent = NoIntent, !.dirty = FALSE]

(* _load_positions: the row and the intent stored under the position's key.*)
LoadPositionAfresh(row, intent) == row

LoadPosition(row, intent) == [row EXCEPT !.intent = intent]

Tp1(p) == "TP1_PLUS_50" \in p.filled
Tp2(p) == "TP2_PLUS_100" \in p.filled

SetPositionMark(p, price, src) ==
  [p EXCEPT !.mark = price, !.markSrc = src,
            !.dirty = @ \/ p.mark # price \/ p.markSrc # src]

(* The mark the candidate gives: none before a native price is known.      *)
CandidatePositionMark(p, c) ==
  IF c # NoCandidate /\ c.native # 0 THEN SetPositionMark(p, c.native, c.src) ELSE p

PnlAtLeast(p, pct) == 100 * p.mark >= (100 + pct) * EntryPrice

HardStopPct(profile) == IF profile = "BALANCED" THEN 30 ELSE 20

-----------------------------------------------------------------------------
(* The exit rules.  Observations: what the flow samples and the clock say. *)

Observations == {"calm", "quiet", "unverified", "liquidity", "dump", "late"}

HighSinceTp1(p) ==
  [p EXCEPT !.high1 = IF Tp1(p) /\ ~Tp2(p) /\ p.mark > @ THEN p.mark ELSE @]

ProtectionHolds(profile, p, obs, reason) ==
  CASE reason = "HARD_STOP_PNL" -> 100 * p.mark <= (100 - HardStopPct(profile)) * EntryPrice
    [] reason = "TRAILING_25_PERCENT" -> Tp2(p) /\ p.high2 # 0 /\ 100 * p.mark <= 75 * p.high2
    [] reason = "TP1_HIGH_RETRACE_35_PERCENT" ->
         Tp1(p) /\ ~Tp2(p) /\ p.high1 # 0 /\ 100 * p.mark <= 65 * p.high1
    [] reason = "TP1_BREAK_EVEN" -> Tp1(p) /\ 100 * p.mark <= 99 * EntryPrice
    [] reason = "EMERGENCY_LIQUIDITY_DROP" -> obs = "liquidity"
    [] reason = "EMERGENCY_DUMP" -> obs = "dump"
    [] reason = "TIME_STOP" -> obs = "late" /\ ~PnlAtLeast(p, 10)

ProtectionOrder == <<"HARD_STOP_PNL", "TRAILING_25_PERCENT", "TP1_HIGH_RETRACE_35_PERCENT",
                     "TP1_BREAK_EVEN", "EMERGENCY_LIQUIDITY_DROP", "EMERGENCY_DUMP", "TIME_STOP">>

(* The first protection that holds, or none.                               *)
ExitReason(profile, p, obs) ==
  LET holding == {i \in DOMAIN ProtectionOrder : ProtectionHolds(profile, p, obs, ProtectionOrder[i])}
  IN IF holding = {} THEN "none"
     ELSE ProtectionOrder[CHOOSE i \in holding : \A j \in holding : i <= j]

(* The no-trade rule of a verified quiet pool: all below +10 %, one half   *)
(* once above it.                                                          *)
NoTradeReason(p) ==
  CASE ~PnlAtLeast(p, 10) -> "NO_TRADE_PNL_LT_10"
    [] 100 * p.mark > 110 * EntryPrice /\ ~p.half -> HalfSale
    [] OTHER -> "none"

LatchTpTriggers(p) ==
  [p EXCEPT !.trig = @ \cup {tp \in TakeProfits :
     PnlAtLeast(p, CASE tp = "TP1_PLUS_50" -> 50
                     [] tp = "TP2_PLUS_100" -> 100
                     [] tp = "TP3_PLUS_200" -> 200)}]

TakeProfitOrder == <<"TP1_PLUS_50", "TP2_PLUS_100", "TP3_PLUS_200">>

NextLatchedTpAgain(p) ==
  LET open == {i \in DOMAIN TakeProfitOrder : TakeProfitOrder[i] \in p.trig}
  IN IF open = {} THEN "none" ELSE TakeProfitOrder[CHOOSE i \in open : \A j \in open : i <= j]

NextLatchedTp(p) ==
  LET open == {i \in DOMAIN TakeProfitOrder : TakeProfitOrder[i] \in p.trig \ p.filled}
  IN IF open = {} THEN "none" ELSE TakeProfitOrder[CHOOSE i \in open : \A j \in open : i <= j]

(* _mark_tp_filled: only a booked sale moves the trailing highs.           *)
MarkTpFilled(p, reason) ==
  CASE reason \in {"TP1_PLUS_50", "TP1_HIGH_RETRACE_35_PERCENT", "TP1_BREAK_EVEN"} ->
         [p EXCEPT !.filled = @ \cup {"TP1_PLUS_50"}, !.high1 = p.mark]
    [] reason = "TP2_PLUS_100" -> [p EXCEPT !.filled = @ \cup {reason}, !.high2 = p.mark]
    [] reason = "TP3_PLUS_200" -> [p EXCEPT !.filled = @ \cup {reason}]
    [] OTHER -> p

Booked(p, reason) ==
  MarkTpFilled([p EXCEPT !.sold = Append(@, reason),
                         !.half = @ \/ reason = HalfSale], reason)

HighAfterTp2(p) ==
  [p EXCEPT !.high2 = IF Tp2(p) /\ p.mark > @ THEN p.mark ELSE @]
=============================================================================
