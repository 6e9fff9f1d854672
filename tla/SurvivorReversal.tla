-------------------------- MODULE SurvivorReversal --------------------------
(***************************************************************************)
(* The Paper engine of strategies/survivor_reversal.py around one token:   *)
(* the discovery feed, the owner loop's evaluate(), the quote workers      *)
(* (AsyncRoundTripQuoteProvider), the operator's pause and the clock, on   *)
(* top of a database that outlives the process.                            *)
(*                                                                         *)
(* evaluate() is cut where the database commits and where the provider is  *)
(* asked: events, positions, the second commit of a sale, candidates, and  *)
(* the final prune and commit.  The process may die at any cut.            *)
(***************************************************************************)
EXTENDS SurvivorPosition, FiniteSets

CONSTANTS
  Ids,            \* positions that can be opened, 1 .. n
  Scenarios       \* what one behaviour may meet: [profile, records, prices,
                  \* observations, controls, max], max bounding the feed
                  \* records, the venue events (ticks), the days that pass
                  \* and the deaths of the process

ASSUME ScenarioAssumption ==
  \A s \in Scenarios : /\ s.profile \in Profiles
                       /\ s.prices \subseteq Prices
                       /\ s.observations \subseteq Observations
                       /\ s.records \subseteq Records
                       /\ s.max \in [records : Nat, ticks : Nat, days : Nat, deaths : Nat]

NoPosition == [mark |-> 0]
NoRow == [status |-> "none", today |-> FALSE, recent |-> FALSE, p |-> NoPosition]

VARIABLES
  scenario,
  pc,             \* where the owner loop is
  cand,           \* the candidate in memory
  tx,             \* its row as written, perhaps not yet committed
  candRow,        \* its row as committed
  wired,          \* a descriptor is attached and its pool subscribed
  pos, posId,     \* the OPEN position in memory and its id
  rows,           \* survivor_positions
  intentRow,      \* runtime_state, exit_intent:<id>
  buyQ, sellQ,    \* the provider's answer per key
  paused,         \* paper_new_entries_paused in the control file
  ticks, records, days, deaths

memoryVars == <<cand, tx, wired, pos, posId, buyQ, sellQ>>
diskVars == <<candRow, rows, intentRow>>
boundVars == <<ticks, records, days, deaths>>
vars == <<scenario, pc, memoryVars, diskVars, paused, boundVars>>

profile == scenario.profile

Answers == {"none", "pending", "ok", "bad"}
Locations == {"down", "idle", "positions", "clearing", "closing", "candidates", "commit"}

RowsWith(status) == {i \in Ids : rows[i].status = status}
Unused == RowsWith("none")

NoAnswers == [k \in Parts |-> "none"]

Commit == candRow' = tx

-----------------------------------------------------------------------------
(* The discovery feed.                                                     *)

(* on_records: applied and committed in one hold of the owner's lock.      *)
OnRecords(r, inAge) ==
  LET c0 == IF cand = NoCandidate THEN NewCandidate(inAge) ELSE cand
      c == OnRecord(profile, c0, r)
      repriced == (~r.okx /\ r.price # 0) \/ (c.src = "TOKEN_INFO" /\ c0.src # "TOKEN_INFO")
  IN /\ pc = "idle"
     /\ records < scenario.max.records
     /\ records' = records + 1
     /\ cand' = c /\ tx' = c /\ candRow' = c
     /\ pos' = IF pos # NoPosition /\ repriced THEN CandidatePositionMark(pos, c) ELSE pos
     /\ UNCHANGED <<scenario, pc, wired, posId, rows, intentRow, buyQ, sellQ, paused, ticks, days, deaths>>

-----------------------------------------------------------------------------
(* evaluate().                                                             *)

MarketEvents == scenario.prices \cup {0}

(* A queued venue event: a price, or 0 when its quote asset has no USD     *)
(* mark.  The candidate's row is written, not committed; eligibility is    *)
(* not recomputed.                                                         *)
ApplyEvent(price) ==
  LET seen == [cand EXCEPT !.idle = IF @ = "data" THEN "records" ELSE @]
      c == IF price = 0 THEN Unpriced(seen) ELSE UpdatePrice(profile, seen, price, "BSC_WSS")
  IN /\ wired
     /\ ticks < scenario.max.ticks
     /\ ticks' = ticks + 1
     /\ cand' = c /\ tx' = c
     /\ pos' = IF pos # NoPosition /\ price # 0 THEN CandidatePositionMark(pos, c) ELSE pos

BeginEvaluate ==
  /\ pc = "idle"
  /\ pc' = "positions"
  /\ \/ \E price \in MarketEvents : ApplyEvent(price)
     \/ UNCHANGED <<cand, tx, pos, ticks>>
  /\ UNCHANGED <<scenario, candRow, wired, posId, rows, intentRow, buyQ, sellQ, paused, records, days, deaths>>

PersistPosition(p) == rows' = [rows EXCEPT ![posId].p = Rowed(p)]

(* sell_quote gave a usable answer.  A partial sale commits the row and    *)
(* then clears the intent, a closing one clears the intent and then        *)
(* commits the row.                                                        *)
BookSale(p, reason, part) ==
  LET sold == [Booked(p, reason) EXCEPT !.dirty = FALSE]
  IN /\ sellQ' = NoAnswers
     /\ Commit
     /\ IF part = "ALL"
        THEN /\ pos' = [sold EXCEPT !.intent = NoIntent]
             /\ intentRow' = NoIntent
             /\ pc' = "closing"
             /\ UNCHANGED rows
        ELSE /\ pos' = sold
             /\ PersistPosition(sold)
             /\ pc' = "clearing"
             /\ UNCHANGED intentRow

(* It gave none: the intent is kept for the next evaluation, and a refused *)
(* quote is asked for again then.  "persists" is whether the caller goes   *)
(* on to write the position.                                               *)
AwaitQuote(p, reason, part, persists) ==
  LET waiting == [p EXCEPT !.intent = [reason |-> reason, part |-> part],
                           !.dirty = @ /\ ~persists]
  IN /\ sellQ' = [sellQ EXCEPT ![part] = IF @ = "bad" THEN "none" ELSE "pending"]
     /\ Commit
     /\ pos' = waiting
     /\ intentRow' = waiting.intent
     /\ IF persists THEN PersistPosition(waiting) ELSE UNCHANGED rows
     /\ pc' = "candidates"

Sell(p, reason, part, persists) ==
  \/ sellQ[part] = "ok" /\ BookSale(p, reason, part)
  \/ sellQ[part] # "ok" /\ AwaitQuote(p, reason, part, persists)

(* A position that waits for the quote of an exit other than a TP... one   *)
(* is not evaluated again: that exit is tried until it is booked.  A half  *)
(* whose sale is already in the row leaves no smaller quantity than the    *)
(* intent's: the rest is sold.                                             *)
CommittedPartStale == pos.intent.part

CommittedPart ==
  IF pos.intent.part = "HALF" /\ \A k \in DOMAIN pos.sold : pos.sold[k] # HalfSale
  THEN "HALF" ELSE "ALL"

Committed == pos.intent # NoIntent /\ pos.intent.reason \notin StartsWithTP

RetryCommittedExit ==
  /\ Committed
  /\ Sell(pos, pos.intent.reason, CommittedPart, FALSE)

(* Latch every take profit the mark has crossed, sell the first unfilled   *)
(* one.  _execute_latched_tp reports the whole sale of TP3 as persisted    *)
(* even while its quote is awaited.                                        *)
TakeProfit(p) ==
  LET latched == IF p.dirty THEN LatchTpTriggers(p) ELSE p
      next == NextLatchedTp(latched)
      high == HighAfterTp2(latched)
  IN IF next # "none"
     THEN Sell(IF sellQ[PartOf(next)] = "ok" THEN latched ELSE high,
               next, PartOf(next), p.dirty /\ PartOf(next) = "TP")
     ELSE /\ pos' = [high EXCEPT !.dirty = FALSE]
          /\ IF p.dirty THEN PersistPosition(high) /\ Commit ELSE UNCHANGED <<rows, candRow>>
          /\ pc' = "candidates"
          /\ UNCHANGED <<intentRow, sellQ>>

EvaluateMark(p, obs) ==
  LET quiet == IF obs = "quiet" THEN NoTradeReason(p) ELSE "none"
      high == HighSinceTp1(p)
      reason == ExitReason(profile, high, obs)
  IN CASE obs = "unverified" ->
            /\ pos' = p
            /\ pc' = "candidates"
            /\ UNCHANGED <<rows, intentRow, candRow, sellQ>>
       [] obs # "unverified" /\ quiet # "none" -> Sell(p, quiet, PartOf(quiet), FALSE)
       [] obs # "unverified" /\ quiet = "none" /\ reason # "none" -> Sell(high, reason, "ALL", FALSE)
       [] OTHER -> TakeProfit(high)

EvaluateOpenPosition(obs) ==
  /\ pc = "positions"
  /\ pos # NoPosition
  /\ obs \in {"quiet", "unverified"} => wired /\ cand # NoCandidate
  /\ \/ RetryCommittedExit
     \/ ~Committed /\ EvaluateMark(CandidatePositionMark(pos, cand), obs)
  /\ UNCHANGED <<scenario, cand, tx, wired, posId, buyQ, paused, boundVars>>

EvaluateNoPosition ==
  /\ pc = "positions"
  /\ pos = NoPosition
  /\ pc' = "candidates"
  /\ UNCHANGED <<scenario, memoryVars, diskVars, paused, boundVars>>

(* The second commit of a partial sale.                                    *)
ClearExitIntent ==
  /\ pc = "clearing"
  /\ pc' = "candidates"
  /\ pos' = [pos EXCEPT !.intent = NoIntent]
  /\ intentRow' = NoIntent
  /\ Commit
  /\ UNCHANGED <<scenario, cand, tx, wired, posId, rows, buyQ, sellQ, paused, boundVars>>

(* The second commit of a closing sale.                                    *)
PersistClosed ==
  /\ pc = "closing"
  /\ pc' = "candidates"
  /\ rows' = [rows EXCEPT ![posId].status = "CLOSED", ![posId].recent = TRUE, ![posId].p = Rowed(pos)]
  /\ pos' = NoPosition
  /\ cand' = IF cand = NoCandidate THEN cand ELSE [cand EXCEPT !.state = "POSITION_CLOSED"]
  /\ Commit
  /\ UNCHANGED <<scenario, tx, wired, posId, intentRow, buyQ, sellQ, paused, boundVars>>

-----------------------------------------------------------------------------
(* _try_buy.                                                               *)

SameTokenOpen == pos # NoPosition \/ RowsWith("OPEN") # {}

CoolingDown == profile = "BALANCED" /\ \E i \in RowsWith("CLOSED") : rows[i].recent

TradedToday ==
  profile = "SURVIVOR" /\ \E i \in Ids : rows[i].status \in {"OPEN", "CLOSED"} /\ rows[i].today

MayBuyUncooled(c) == ~paused /\ ~SameTokenOpen /\ ~TradedToday /\ (c.native # 0 \/ profile = "BALANCED")

MayBuy(c) ==
  /\ ~paused
  /\ ~SameTokenOpen
  /\ ~CoolingDown
  /\ ~TradedToday
  /\ c.native # 0 \/ profile = "BALANCED"

(* The INSERT is committed before the candidate becomes POSITION_OPEN.     *)
OpenPosition(c) ==
  LET native == IF c.native = 0 THEN EntryPrice ELSE c.native
      id == CHOOSE i \in Unused : TRUE
      p == NewPosition(native)
      opened == [c EXCEPT !.native = native, !.state = "POSITION_OPEN"]
  IN /\ Unused # {}
     /\ pos' = p
     /\ posId' = id
     /\ rows' = [rows EXCEPT ![id] = [status |-> "OPEN", today |-> TRUE, recent |-> FALSE, p |-> Rowed(p)]]
     /\ intentRow' = NoIntent
     /\ buyQ' = "none"
     /\ Commit
     /\ cand' = opened
     /\ tx' = IF opened.active THEN opened ELSE tx

AskQuote(c) ==
  /\ buyQ' = IF buyQ = "bad" THEN "none" ELSE "pending"
  /\ cand' = c
  /\ tx' = IF c.active THEN c ELSE tx
  /\ UNCHANGED <<pos, posId, rows, intentRow, candRow>>

(* The candidate pass: _evaluate_candidate, _try_buy, and the row of an    *)
(* active candidate.                                                       *)
EvaluateCandidates(flow) ==
  LET c == EvaluateCandidate(profile, cand, wired, flow)
      buys == WantsToBuy(profile, cand, wired, flow) /\ MayBuy(c)
  IN /\ pc = "candidates"
     /\ pc' = "commit"
     /\ \/ /\ cand = NoCandidate
           /\ UNCHANGED <<cand, tx, candRow, pos, posId, rows, intentRow, buyQ>>
        \/ /\ cand # NoCandidate
           /\ \/ buys /\ buyQ = "ok" /\ OpenPosition(c)
              \/ buys /\ buyQ # "ok" /\ AskQuote(c)
              \/ /\ ~buys
                 /\ cand' = c
                 /\ tx' = IF c.active \/ c.state = "EXPIRED" THEN c ELSE tx
                 /\ UNCHANGED <<candRow, pos, posId, rows, intentRow, buyQ>>
     /\ UNCHANGED <<scenario, wired, sellQ, paused, boundVars>>

(* _prune_runtime_history, once a minute, and the final commit.  A token   *)
(* with an open position keeps its candidate, in memory and in the row.    *)
PrunableAnyway(c, open) == c # NoCandidate /\ ~c.active /\ c.idle # "no"

Prunable(c, open) == c # NoCandidate /\ ~c.active /\ c.idle # "no" /\ ~open

Finish(prunes) ==
  LET row == IF prunes /\ Prunable(tx, RowsWith("OPEN") # {}) THEN NoCandidate ELSE tx
  IN /\ pc = "commit"
     /\ pc' = "idle"
     /\ tx' = row
     /\ candRow' = row
     /\ cand' = IF prunes /\ Prunable(cand, pos # NoPosition) THEN NoCandidate ELSE cand
     /\ wired' = (wired /\ cand' # NoCandidate)
     /\ rows' = [i \in Ids |-> IF prunes /\ rows[i].status = "CLOSED" /\ ~rows[i].recent
                               THEN [rows[i] EXCEPT !.status = "gone", !.p = NoPosition] ELSE rows[i]]
     /\ UNCHANGED <<scenario, pos, posId, intentRow, buyQ, sellQ, paused, boundVars>>

-----------------------------------------------------------------------------
(* The rest of the process.                                                *)

(* A quote worker answers; the answer waits under its key until a pass     *)
(* asks again: it comes before the positions or before the candidates.     *)
QuoteWorker ==
  /\ pc \in {"idle", "candidates"}
  /\ \/ /\ buyQ = "pending"
        /\ buyQ' \in {"ok", "bad"}
        /\ UNCHANGED sellQ
     \/ \E k \in Parts : /\ sellQ[k] = "pending"
                         /\ \E answer \in {"ok", "bad"} : sellQ' = [sellQ EXCEPT ![k] = answer]
                         /\ UNCHANGED buyQ
  /\ UNCHANGED <<scenario, pc, cand, tx, wired, pos, posId, diskVars, paused, boundVars>>

(* RuntimeControl.set_paused from Telegram or the dashboard; paused()      *)
(* reads the file again whenever it changed; only _try_buy reads it.       *)
SetPaused ==
  /\ scenario.controls
  /\ pc \in {"idle", "candidates", "down"}
  /\ paused' = ~paused
  /\ UNCHANGED <<scenario, pc, memoryVars, diskVars, boundVars>>

(* The venue of the token is resolved and subscribed, or is lost.          *)
WireVenue ==
  /\ pc = "idle"
  /\ cand # NoCandidate
  /\ wired' = ~wired
  /\ UNCHANGED <<scenario, pc, cand, tx, pos, posId, buyQ, sellQ, diskVars, paused, boundVars>>

(* Time passes: a low has held for a minute, an age limit is crossed, the  *)
(* token has been silent for the idle time.                                *)
Aged(c) == [c EXCEPT !.inAge = profile = "SURVIVOR"]

Clock ==
  /\ pc = "idle"
  /\ cand # NoCandidate
  /\ \/ /\ cand.stable = "since"
        /\ cand' = [cand EXCEPT !.stable = "due"]
     \/ cand' = Aged(cand)
     \/ \E silent \in {"records", "data"} : cand' = [Aged(cand) EXCEPT !.idle = silent]
  /\ UNCHANGED <<scenario, pc, tx, wired, pos, posId, buyQ, sellQ, diskVars, paused, boundVars>>

Silent(c) == IF c = NoCandidate THEN c ELSE [Aged(c) EXCEPT !.idle = "data"]

DayPassed(i) == [rows[i] EXCEPT !.today = FALSE, !.recent = FALSE]

(* A day passes, the process up or down.                                   *)
NextDay ==
  /\ pc \in {"idle", "down"}
  /\ days < scenario.max.days
  /\ days' = days + 1
  /\ rows' = [i \in Ids |-> DayPassed(i)]
  /\ cand' = Silent(cand) /\ tx' = Silent(tx) /\ candRow' = Silent(candRow)
  /\ UNCHANGED <<scenario, pc, intentRow, wired, pos, posId, buyQ, sellQ, paused, ticks, records, deaths>>

Die ==
  /\ pc # "down"
  /\ deaths < scenario.max.deaths
  /\ deaths' = deaths + 1
  /\ pc' = "down"
  /\ cand' = NoCandidate
  /\ tx' = candRow
  /\ wired' = FALSE
  /\ pos' = NoPosition
  /\ posId' = 0
  /\ buyQ' = "none"
  /\ sellQ' = NoAnswers
  /\ UNCHANGED <<scenario, diskVars, paused, ticks, records, days>>

(* _load_candidates and _load_positions.  How old the restored times are   *)
(* by now is open.                                                         *)
Restart ==
  /\ pc = "down"
  /\ pc' = "idle"
  /\ \/ candRow = NoCandidate /\ cand' = NoCandidate
     \/ candRow # NoCandidate /\ \E c \in {candRow, Aged(candRow)} : cand' = c
  /\ LET open == RowsWith("OPEN")
     IN IF open = {}
        THEN UNCHANGED <<pos, posId>>
        ELSE /\ posId' = CHOOSE i \in open : TRUE
             /\ pos' = LoadPosition(rows[posId'].p, intentRow)
  /\ UNCHANGED <<scenario, tx, wired, buyQ, sellQ, diskVars, paused, boundVars>>

-----------------------------------------------------------------------------
Init ==
  /\ scenario \in Scenarios
  /\ pc = "idle"
  /\ cand = NoCandidate /\ tx = NoCandidate /\ candRow = NoCandidate
  /\ wired = FALSE
  /\ pos = NoPosition /\ posId = 0
  /\ rows = [i \in Ids |-> NoRow]
  /\ intentRow = NoIntent
  /\ buyQ = "none" /\ sellQ = NoAnswers
  /\ paused = FALSE
  /\ ticks = 0 /\ records = 0 /\ days = 0 /\ deaths = 0

Next ==
  \/ \E r \in scenario.records, inAge \in BOOLEAN : OnRecords(r, inAge)
  \/ BeginEvaluate
  \/ \E obs \in scenario.observations : EvaluateOpenPosition(obs)
  \/ EvaluateNoPosition
  \/ ClearExitIntent
  \/ PersistClosed
  \/ \E flow \in BOOLEAN : EvaluateCandidates(flow)
  \/ \E prunes \in BOOLEAN : Finish(prunes)
  \/ QuoteWorker
  \/ SetPaused
  \/ WireVenue
  \/ Clock
  \/ NextDay
  \/ Die
  \/ Restart

Spec == Init /\ [][Next]_vars

-----------------------------------------------------------------------------
(* The variables hold what the code can put there.                         *)
TypeOK ==
  /\ scenario \in Scenarios
  /\ pc \in Locations
  /\ cand \in Candidates \cup {NoCandidate}
  /\ tx \in Candidates \cup {NoCandidate}
  /\ candRow \in Candidates \cup {NoCandidate}
  /\ pos \in Positions \cup {NoPosition}
  /\ \A i \in Ids : rows[i].status \in {"none", "OPEN", "CLOSED", "gone"}
  /\ \A i \in Ids : rows[i].p \in Positions \cup {NoPosition}
  /\ intentRow \in Intents
  /\ buyQ \in Answers /\ sellQ \in [Parts -> Answers]
  /\ posId \in Ids \cup {0}

(* A token is entered only while it has no position, in memory or in the   *)
(* database, not within the cooldown after its last exit (Balanced) and    *)
(* not on a day that already had a trade (Survivor): _try_buy reads rows   *)
(* that a prune may have deleted and a process that died may have left.    *)
EntryRules ==
  [][\A i \in Ids : rows[i].status = "none" /\ rows'[i].status = "OPEN" =>
       /\ pos = NoPosition
       /\ RowsWith("OPEN") = {}
       /\ ~\E j \in Ids : IF profile = "BALANCED" THEN rows[j].recent ELSE rows[j].today]_vars

(* Once the wait for the quote of a stop, a no-trade, a trailing or an     *)
(* emergency exit is in the database, it stays there until that exit is    *)
(* sold, and the next sale of the position is that exit, whatever the      *)
(* price does meanwhile and through a restart (_evaluate_positions,        *)
(* _load_positions).                                                       *)
CommittedExitSold ==
  [][intentRow # NoIntent /\ intentRow.reason \notin StartsWithTP =>
       LET sells == pos' # NoPosition /\ pos'.sold # << >>
                    /\ pos'.sold[Len(pos'.sold)] = intentRow.reason
       IN /\ intentRow'.reason # intentRow.reason => sells
          /\ pos # NoPosition /\ pos' # NoPosition /\ Len(pos'.sold) > Len(pos.sold) => sells]_vars

SalesOf(sold, reason) == {k \in DOMAIN sold : sold[k] = reason}

LadderOf(sold) ==
  /\ \A tp \in TakeProfits : Cardinality(SalesOf(sold, tp)) <= 1
  /\ \A k, l \in DOMAIN sold : sold[k] = "TP1_PLUS_50" /\ sold[l] = "TP2_PLUS_100" => k < l
  /\ \A k \in DOMAIN sold : PartOf(sold[k]) = "ALL" => k = Len(sold)
  /\ \A k \in DOMAIN sold :
       /\ sold[k] = "TRAILING_25_PERCENT" => SalesOf(sold, "TP2_PLUS_100") # {}
       /\ sold[k] \in {"TP1_HIGH_RETRACE_35_PERCENT", "TP1_BREAK_EVEN"}
            => SalesOf(sold, "TP1_PLUS_50") # {}

(* Each take profit is sold once and in order, the protections that follow *)
(* one only after it, nothing after a sale of the whole; the row is what   *)
(* memory has or lags behind it, and a closed row has a closing sale.      *)
StagesBookedOnce ==
  /\ pos # NoPosition =>
       /\ LadderOf(pos.sold)
       /\ rows[posId].status = "OPEN"
       /\ \E n \in 0 .. Len(pos.sold) : rows[posId].p.sold = SubSeq(pos.sold, 1, n)
  /\ \A i \in RowsWith("OPEN") : LadderOf(rows[i].p.sold)
  /\ \A i \in RowsWith("CLOSED") : /\ LadderOf(rows[i].p.sold)
                                   /\ rows[i].p.sold # << >>
                                   /\ PartOf(rows[i].p.sold[Len(rows[i].p.sold)]) # "TP"

(* An open position keeps its candidate, the source of its mark: the prune *)
(* deletes neither the memory entry nor the row, and a restart finds both. *)
OpenKeepsCandidate ==
  /\ RowsWith("OPEN") # {} => candRow # NoCandidate
  /\ pos # NoPosition => cand # NoCandidate

Traded(i) == rows[i].status \in {"OPEN", "CLOSED"}

Trades == [i \in Ids |-> [status |-> rows[i].status,
                          sold |-> IF Traded(i) THEN rows[i].p.sold ELSE << >>]]

Book == INSTANCE TradeBook WITH book <- Trades

(* What the rows of survivor_positions say is a trade book: one trade at a *)
(* time, each part sold once for a reason the ladder admits then, one last *)
(* sale, and nothing after it but the prune, whatever is committed apart,  *)
(* retried or restored from a row in between (_partial_exit,               *)
(* _close_position, _load_positions).                                      *)
ImplementsTradeBook == Book!Spec
=============================================================================
