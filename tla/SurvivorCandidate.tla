------------------------- MODULE SurvivorCandidate -------------------------
(***************************************************************************)
(* strategies/survivor_reversal.py, the lifecycle of one token of the      *)
(* Paper engine: what the discovery feed, a price, the clock and the       *)
(* evaluator make of a candidate.  A candidate is a record and each        *)
(* function of the engine an operator from record to record; the clock's   *)
(* comparisons are flags of the record that time flips.                    *)
(*                                                                         *)
(* Prices are small numbers in one unit: a price in USD and the price in   *)
(* BNB of the same venue event are the same number.  0 stands for None.    *)
(***************************************************************************)
EXTENDS Naturals

CONSTANTS
  Prices,        \* the prices that occur
  Floor,         \* min_entry_price_usd of the Balanced profile
  Ceiling        \* max_entry_price_usd of the Balanced profile

ASSUME PricesAssumption ==
  /\ Prices \subseteq Nat \ {0}
  /\ Floor \in Nat /\ Ceiling \in Nat /\ Floor <= Ceiling

Profiles == {"SURVIVOR", "BALANCED"}
PullbackStates == {"PULLBACK_ZONE", "STOP_CONFIRMED", "REVERSAL_CONFIRMED", "READY_TO_BUY"}
StickyStates == PullbackStates \cup {"POSITION_OPEN"}
States == StickyStates \cup {"DISCOVERED", "LIGHT_TRACKING", "PRE_CANDIDATE_PRICE_PENDING",
                             "ACTIVE_CANDIDATE", "REJECTED", "EXPIRED", "POSITION_CLOSED"}
Sources == {"none", "MEME_RUSH", "TOKEN_INFO", "BSC_WSS", "BSC_POOL_WSS"}
Drawdowns == {"none", "flat", "watch", "zone", "deep"}

Candidates == [
  rank : 0 .. 3,                              \* latest_rank_type: 0 unknown, then 10, 20, 30
  gates : {"none", "active", "universe"},     \* what capital, liquidity and holders reach
  inAge : BOOLEAN,                            \* min_age_sec <= age <= max_age_sec
  idle : {"no", "records", "data"},           \* nothing seen for idle_ttl_sec
  audit : {"UNKNOWN", "PASS", "FAIL"},        \* what the audit fields of its record say
  known : BOOLEAN,                            \* a record is kept
  usd : Prices \cup {0}, native : Prices \cup {0},
  priced : BOOLEAN,                           \* price_status is VALID
  src : Sources, switch : BOOLEAN,            \* PRICE_SOURCE_SWITCH_PENDING
  ath : Prices \cup {0}, dd : Drawdowns,
  low : Prices \cup {0}, stable : {"none", "since", "due"},
  state : States, eligible : BOOLEAN, active : BOOLEAN]

NoCandidate == [rank |-> 4]

NewCandidate(inAge) == [
  rank |-> 0, gates |-> "none", inAge |-> inAge, idle |-> "no", audit |-> "UNKNOWN",
  known |-> FALSE, usd |-> 0, native |-> 0, priced |-> FALSE, src |-> "none",
  switch |-> FALSE, ath |-> 0, dd |-> "none", low |-> 0, stable |-> "none",
  state |-> "DISCOVERED", eligible |-> FALSE, active |-> FALSE]

(* price / reference - 1 is at most -pct percent.                          *)
DownBy(price, reference, pct) == 100 * price <= (100 - pct) * reference

HasPrice(c) == c.priced /\ c.usd # 0

HistoryAllowsPullback(c) == c.priced /\ c.ath # 0 /\ ~c.switch

NonPriceEligible(c) == c.inAge /\ c.gates # "none"

CandidateEligible(profile, c) ==
  /\ NonPriceEligible(c)
  /\ HasPrice(c)
  /\ profile = "BALANCED" => c.usd \in Floor .. Ceiling

IsBalancedPriceCeilingTerminal(profile, c) == profile = "BALANCED" /\ c.usd > Ceiling

RejectBalancedPriceCeiling(c) ==
  [c EXCEPT !.state = "REJECTED", !.eligible = FALSE, !.active = FALSE]

DiscoveryState(profile, c) ==
  LET eligible == CandidateEligible(profile, c)
      state == CASE ~NonPriceEligible(c) -> "LIGHT_TRACKING"
                 [] NonPriceEligible(c) /\ ~HasPrice(c) -> "PRE_CANDIDATE_PRICE_PENDING"
                 [] NonPriceEligible(c) /\ HasPrice(c) /\ ~eligible -> "LIGHT_TRACKING"
                 [] OTHER -> IF profile = "SURVIVOR" /\ ~HistoryAllowsPullback(c)
                             THEN "ACTIVE_CANDIDATE"
                             ELSE IF c.state \in StickyStates THEN c.state ELSE "ACTIVE_CANDIDATE"
  IN IF IsBalancedPriceCeilingTerminal(profile, c)
     THEN RejectBalancedPriceCeiling(c)
     ELSE [c EXCEPT !.eligible = eligible, !.active = eligible, !.state = state]

-----------------------------------------------------------------------------
(* _update_price.                                                          *)

(* A venue price more than 15 % away from a reference price is another     *)
(* convention until a second venue price confirms it.                      *)
SourceSwitches(c, price, src) ==
  /\ src = "BSC_WSS"
  /\ c.src \in {"MEME_RUSH", "TOKEN_INFO"}
  /\ c.usd # 0
  /\ 100 * price > 115 * c.usd \/ 100 * price < 85 * c.usd

Repriced(c, price, src) ==
  [c EXCEPT !.usd = price, !.native = IF src = "BSC_WSS" THEN price ELSE @,
            !.priced = TRUE, !.src = src,
            !.switch = IF src = "BSC_WSS" THEN SourceSwitches(c, price, src) ELSE @]

DrawdownOf(price, ath) ==
  CASE 2 * price < ath -> "deep"
    [] 2 * price >= ath /\ DownBy(price, ath, 30) -> "zone"
    [] ~DownBy(price, ath, 30) /\ DownBy(price, ath, 20) -> "watch"
    [] OTHER -> "flat"

NewHigh(c, price) ==
  [c EXCEPT !.ath = price, !.dd = "flat", !.low = 0, !.stable = "none",
            !.state = IF @ \in {"ACTIVE_CANDIDATE", "LIGHT_TRACKING"} THEN @ ELSE "ACTIVE_CANDIDATE"]

(* In the zone of 30 to 50 % the lowest price is kept; once it has held    *)
(* for low_stable_sec the fall has stopped.  A lower low starts the wait   *)
(* anew, the state stays.                                                  *)
InPullback(c, price) ==
  LET zoned == [c EXCEPT !.state = IF c.eligible /\ c.state \in {"ACTIVE_CANDIDATE", "LIGHT_TRACKING"}
                                   THEN "PULLBACK_ZONE" ELSE @]
  IN IF c.low = 0 \/ price < c.low
     THEN [zoned EXCEPT !.low = price, !.stable = "none"]
     ELSE [zoned EXCEPT !.stable = IF @ = "none" THEN "since" ELSE @,
                        !.state = IF c.stable = "due" THEN "STOP_CONFIRMED" ELSE @]

Tracked(profile, c, price) ==
  LET down == [c EXCEPT !.dd = DrawdownOf(price, c.ath)]
  IN CASE price > c.ath -> NewHigh(c, price)
       [] price <= c.ath /\ profile = "BALANCED" -> down
       [] price <= c.ath /\ profile = "SURVIVOR" ->
            CASE down.dd = "deep" -> [down EXCEPT !.state = "REJECTED"]
              [] down.dd = "zone" -> InPullback(down, price)
              [] OTHER -> down

UpdatePrice(profile, c, price, src) ==
  LET now == Repriced(c, price, src)
  IN CASE c.ath = 0 -> [now EXCEPT !.ath = price, !.dd = "flat"]
       [] c.ath # 0 /\ SourceSwitches(c, price, src) -> now
       [] OTHER -> Tracked(profile, now, price)

(* _recompute_pool_canonical_price when the quote asset has no USD price.  *)
Unpriced(c) == [c EXCEPT !.usd = 0, !.priced = FALSE, !.src = "BSC_POOL_WSS"]

-----------------------------------------------------------------------------
(* on_records, one record.  A record of a lower rank than the candidate's  *)
(* is late: its snapshot is not taken, its price is.                       *)

Records == [
  okx : BOOLEAN,                              \* the OKX feed, not Meme Rush
  rank : 0 .. 3, gates : {"absent", "none", "active", "universe"},
  price : Prices \cup {0}, audit : {"UNKNOWN", "PASS", "FAIL"},
  info : Prices \cup {0}]                     \* what the token lookup would answer

LateRecord(c, r) == r.rank # 0 /\ c.rank # 0 /\ r.rank < c.rank

MergeRecordWhole(c, r) ==
  IF LateRecord(c, r) THEN [c EXCEPT !.idle = "no"]
  ELSE [c EXCEPT !.idle = "no", !.rank = IF r.rank = 0 THEN @ ELSE r.rank,
                 !.gates = r.gates, !.audit = r.audit, !.known = TRUE]

MergeRecord(c, r) ==
  IF LateRecord(c, r) THEN [c EXCEPT !.idle = "no"]
  ELSE [c EXCEPT !.idle = "no",
                 !.rank = IF r.rank = 0 THEN @ ELSE r.rank,
                 !.gates = IF r.gates = "absent" THEN @ ELSE r.gates,
                 !.audit = IF r.okx /\ c.known THEN @ ELSE r.audit,
                 !.known = TRUE]

RecordPrice(profile, c, r) ==
  CASE ~r.okx /\ r.price # 0 -> UpdatePrice(profile, c, r.price, "MEME_RUSH")
    [] OTHER -> [c EXCEPT !.priced = @ /\ c.usd # 0]

(* _supplement_pending_price: a token without a price is asked for one at  *)
(* most every 30 s; r.info is the answer, 0 when none is sought or found.  *)
SupplementPendingPrice(profile, c, r) ==
  IF ~HasPrice(c) /\ r.info # 0
  THEN DiscoveryState(profile, UpdatePrice(profile, c, r.info, "TOKEN_INFO"))
  ELSE c

OnRecord(profile, c, r) ==
  SupplementPendingPrice(profile, DiscoveryState(profile, RecordPrice(profile, MergeRecord(c, r), r)), r)

-----------------------------------------------------------------------------
(* The evaluator.                                                          *)

ShouldRetainCandidate(c) ==
  \/ c.state \in StickyStates
  \/ /\ c.eligible
     /\ HistoryAllowsPullback(c)
     /\ c.dd \in {"watch", "zone", "deep"} \/ c.idle # "data"

Rebound(c) == IF c.native # 0 THEN c.native ELSE c.usd

ReboundTooHigh(c) == c.low # 0 /\ 100 * Rebound(c) > 120 * c.low
ReboundReached(c) == c.low # 0 /\ 100 * Rebound(c) >= 110 * c.low

(* The gates of _universe_reason, drawdown, audit and one minute of flow.  *)
EntryGatesPass(c, flow) ==
  /\ c.gates = "universe" /\ c.inAge
  /\ c.dd \in {"zone", "deep"}
  /\ c.audit = "PASS"
  /\ flow

Expires(c) == c.idle # "no" /\ ~ShouldRetainCandidate(c)

Reversed(c) ==
  [c EXCEPT !.state = IF @ = "STOP_CONFIRMED" /\ ReboundReached(c) THEN "REVERSAL_CONFIRMED" ELSE @]

Turned(c) == Reversed(c).state \in {"REVERSAL_CONFIRMED", "READY_TO_BUY"}

(* An expired token that moves again is a candidate again.                 *)
Woken(c) ==
  IF c.state = "EXPIRED" /\ ShouldRetainCandidate(c)
  THEN [c EXCEPT !.state = "ACTIVE_CANDIDATE", !.active = TRUE]
  ELSE c

(* _evaluate_candidate after the expiry, the pullback profile.             *)
EvaluatePullback(c, wired, flow) ==
  CASE c.eligible /\ ~wired ->
         [c EXCEPT !.state = IF @ \in PullbackStates THEN "ACTIVE_CANDIDATE" ELSE @]
    [] c.eligible /\ wired /\ ~HistoryAllowsPullback(c) -> c
    [] c.eligible => (wired /\ HistoryAllowsPullback(c)) ->
         CASE ReboundTooHigh(c) -> [c EXCEPT !.state = "REJECTED"]
           [] ~ReboundTooHigh(c) /\ Turned(c) /\ EntryGatesPass(c, flow) ->
                [c EXCEPT !.state = "READY_TO_BUY"]
           [] OTHER -> Reversed(c)

(* _evaluate_candidate up to the call of _try_buy.                         *)
EvaluateCandidate(profile, c0, wired, flow) ==
  LET c == Woken(c0)
  IN CASE Expires(c) -> [c EXCEPT !.state = "EXPIRED"]
       [] ~Expires(c) /\ ~(HasPrice(c) /\ c.ath # 0) -> c
       [] OTHER -> IF profile = "SURVIVOR" THEN EvaluatePullback(c, wired, flow)
                   ELSE [c EXCEPT !.state = IF c.eligible THEN "READY_TO_BUY" ELSE @]

(* Whether that evaluation calls _try_buy.                                 *)
WantsToBuy(profile, c0, wired, flow) ==
  LET c == Woken(c0)
  IN /\ ~Expires(c)
     /\ HasPrice(c) /\ c.ath # 0
     /\ CASE profile = "BALANCED" -> c.eligible
          [] profile = "SURVIVOR" -> /\ c.eligible => (wired /\ HistoryAllowsPullback(c))
                                     /\ ~ReboundTooHigh(c)
                                     /\ Turned(c)
                                     /\ EntryGatesPass(c, flow)
=============================================================================
