----------------------- MODULE DeterministicSimulation -----------------------
(***************************************************************************)
(* engines/simulation.py: the handlers of one engine.  A handler decides   *)
(* on the memory objects and then runs a fixed series of ledger operations *)
(* and executor calls, each committed on its own.  It holds _db_lock all   *)
(* along (RealtimeCoordinator), so nothing but a death interleaves with    *)
(* the series: op is the handler in progress, and one action runs its next *)
(* operation.                                                              *)
(***************************************************************************)
EXTENDS SimulationLedger, BscLiveExecutor, Sequences

CONSTANTS
  Marks,            \* the marks at which quotes price in this instance
  MaxOpenPositions, \* max_open_positions
  MaxLargeLosses,   \* pause_new_entries_after_large_losses
  LiveMaxEntries    \* live_max_entries (0 would mean no limit)

ASSUME MarksAssumption == Marks \subseteq AllMarks
ASSUME LimitsAssumption ==
  /\ MaxOpenPositions \in Nat \ {0}
  /\ MaxLargeLosses \in Nat \ {0}
  /\ LiveMaxEntries \in Nat \ {0}

VARIABLES
  chain, mode,      \* what the runner was started for
  age,              \* how long each position has been held
  op,               \* the handler in progress, under _db_lock
  liveAttempted,    \* _live_exit_attempted, in memory
  calls,            \* executor.buy and executor.sell calls made, per position
  followups         \* _shadow_followups, in memory

engineVars == <<chain, mode, age, op, liveAttempted, calls, followups>>

(* The ledger operations and executor calls of each handler, in the order  *)
(* of its code, with those that _process_exit adds after a close.          *)
RejectOps == <<"candidate">>
EntryOps == <<"candidate", "open", "opened", "entry_row">>
LiveEntryOps == <<"candidate", "buy", "send", "receipt", "open", "opened", "entry_row">>
PartialOps == <<"partial", "partial_row">>
PaperExitOps == <<"exit_row", "trigger", "close", "count", "holders", "market">>
ShadowExitOps == <<"trigger", "exit_row", "close", "outcome", "holders", "market", "followup">>
TriggeredOps == <<"trigger", "close", "exit_row", "count", "outcome">>
WaitingOps == <<"trigger">>
TimeoutOps == <<"trigger", "close", "exit_row", "count", "outcome", "holders", "market">>
UnavailableOps == <<"trigger", "close", "unknown_row", "outcome", "holders">>
LiveExitOps == <<"attempt_row", "approve", "send", "receipt", "sell", "send", "receipt",
                 "trigger", "close", "exit_row", "count">>

Order == [
  reject |-> RejectOps, entry |-> EntryOps, live_entry |-> LiveEntryOps,
  partial |-> PartialOps, paper_exit |-> PaperExitOps, shadow_exit |-> ShadowExitOps,
  triggered |-> TriggeredOps, waiting |-> WaitingOps, timeout |-> TimeoutOps,
  unavailable |-> UnavailableOps, live_exit |-> LiveExitOps]

Idle == [handler |-> "none", at |-> 0, p |-> CHOOSE p \in Signals : TRUE,
         units |-> 0, large |-> 0, early |-> FALSE]

Handle(handler, p, units, large, early) ==
  [handler |-> handler, at |-> 1, p |-> p, units |-> units, large |-> large, early |-> early]

LockFree == op.handler = "none"

LastMarks == Marks \cup {NoRule}

-----------------------------------------------------------------------------
(* Decisions: the handler a call starts, Idle when it changes no row.      *)

LifecycleChecksOpenOnly(p) ==
  /\ Cardinality({q \in Signals : rows[q].status = "OPEN"}) < MaxOpenPositions
  /\ ~HasMintLifecycle(p)
  /\ largeLosses < MaxLargeLosses

LifecycleChecks(p) ==
  /\ Cardinality(Active) < MaxOpenPositions
  /\ ~HasMintLifecycle(p)
  /\ largeLosses < MaxLargeLosses

(* process_entry: a blocked or rejected candidate is recorded as such.     *)
EntryPlan(p, f, blocked) ==
  IF EvaluateEntry(f) /\ ~blocked /\ LifecycleChecks(p)
  THEN Handle(IF mode = "live" THEN "live_entry" ELSE "entry", p, Quantity, 0, FALSE)
  ELSE Handle("reject", p, 0, 0, FALSE)

LossOf(p, mark) == IF LargeLoss(rows[p].stage, mark) THEN 1 ELSE 0

(* _process_staged_take_profit: the quote of the half must be usable and   *)
(* for exactly half of what the position holds now.                        *)
PartialPlan(p, half) ==
  IF half.usable /\ 2 * half.units = rows[p].units
  THEN Handle("partial", p, half.units, 0, FALSE) ELSE Idle

UnavailablePlan(p) == Handle("unavailable", p, 0, 0, FALSE)

(* The exit rule that fires although a BSC sell quote could not be had:    *)
(* the deadline, or the last return that was observed.                     *)
UnquotedReason(p) ==
  IF age[p] # "young" THEN "max_hold_timeout"
  ELSE IF lastMark[p] = NoRule THEN NoRule
  ELSE PaperExitReason(chain, 0, lastMark[p], "young")

ExitReason(p, q) == PaperExitReason(chain, rows[p].stage, q.mark, age[p])

(* process_paper_exit                                                      *)
PaperPlan(p, q, half) ==
  IF chain = "bsc" /\ q = NoQuote /\ UnquotedReason(p) # NoRule THEN UnavailablePlan(p)
  ELSE IF ~ValidSellQuote(q, rows[p].units) \/ ExitReason(p, q) = NoRule THEN Idle
  ELSE IF ExitReason(p, q) \in DOMAIN TakeProfitStages THEN PartialPlan(p, half)
  ELSE Handle("paper_exit", p, q.units, LossOf(p, q.mark), FALSE)

(* process_shadow_exit: early is none, plain for a structural rule, or     *)
(* followed for one of the two whose outcome is followed up.               *)
ShadowPlan(p, q, half, early) ==
  IF chain = "bsc" /\ q = NoQuote /\ age[p] # "young" THEN UnavailablePlan(p)
  ELSE IF ~ValidSellQuote(q, rows[p].units) THEN Idle
  ELSE IF early = "none" /\ ExitReason(p, q) = NoRule THEN Idle
  ELSE IF early = "none" /\ ExitReason(p, q) \in DOMAIN TakeProfitStages THEN PartialPlan(p, half)
  ELSE Handle("shadow_exit", p, q.units, LossOf(p, q.mark), early = "followed")

TimeoutPlanInsisting(p, q, fallback) ==
  LET settlement == IF ValidSellQuote(q, rows[p].units) THEN q ELSE fallback IN
    IF age[p] = "young" THEN Idle
    ELSE IF ValidSellQuote(settlement, rows[p].units)
      THEN Handle("timeout", p, settlement.units, LossOf(p, settlement.mark), FALSE)
    ELSE Handle("waiting", p, 0, 0, FALSE)

(* process_timeout_exit: Jupiter's quote first; the fallback, or no        *)
(* valuation at all, once the ten seconds of grace are over.               *)
TimeoutPlan(p, q, fallback) ==
  LET settlement == IF ValidSellQuote(q, rows[p].units) THEN q ELSE fallback IN
    IF age[p] = "young" THEN Idle
    ELSE IF ~ValidSellQuote(q, rows[p].units) /\ age[p] = "held"
      THEN Handle("waiting", p, 0, 0, FALSE)
    ELSE IF ValidSellQuote(settlement, rows[p].units)
      THEN Handle("timeout", p, settlement.units, LossOf(p, settlement.mark), FALSE)
    ELSE Handle("timeout", p, 0, 0, FALSE)

(* process_triggered_indicative_exit: a take profit is evaluated again, a  *)
(* full exit settles with the quote it was given.                          *)
TriggeredPlan(p, reason, q, half) ==
  IF reason \notin DOMAIN TakeProfitStages
  THEN Handle("triggered", p, q.units, LossOf(p, q.mark), FALSE)
  ELSE IF ValidSellQuote(q, rows[p].units) /\ ExitReason(p, q) \in DOMAIN TakeProfitStages
  THEN PartialPlan(p, half)
  ELSE Idle

(* process_live_exit: one attempt per position, ever.                      *)
LivePlan(p, q) ==
  IF ValidSellQuote(q, rows[p].units) /\ ExitReason(p, q) # NoRule /\ p \notin liveAttempted
  THEN Handle("live_exit", p, q.units, LossOf(p, q.mark), FALSE) ELSE Idle

(* record_observation: a quote for what is held now marks the position.    *)
Observe(p, q) ==
  lastMark' = IF chain = "bsc" /\ ValidSellQuote(q, rows[p].units)
              THEN [lastMark EXCEPT ![p] = q.mark] ELSE lastMark

-----------------------------------------------------------------------------
(* The operations of the handler in progress.                              *)

At(step) == ~LockFree /\ Order[op.handler][op.at] = step

Advance ==
  op' = IF op.at = Len(Order[op.handler]) THEN Idle ELSE [op EXCEPT !.at = @ + 1]

CandidateStep ==
  /\ At("candidate")
  /\ RecordCandidate(op.p, IF op.handler = "reject" THEN "REJECTED" ELSE "ACCEPTED")
  /\ Advance
  /\ UNCHANGED <<mintOf, rows, saved, snapshot, entries, attempts, sales, outcomes, lastMark,
                 largeLosses, liveAttempted, calls, followups>>

(* A call of the executor that raises ends the handler, whether or not the *)
(* transaction will be mined.                                              *)
Raise == op' = Idle

(* The live branch: at the entry limit nothing is bought; the checks of    *)
(* buy may raise before anything is signed.                                *)
BuyStep ==
  /\ At("buy")
  /\ IF Cardinality(entries) >= LiveMaxEntries
     THEN Raise /\ UNCHANGED <<calls, executorVars>>
     ELSE /\ calls' = [calls EXCEPT !.buy[op.p] = @ + 1]
          /\ \/ Sign("buy", op.p, PendingNonce) /\ Advance
             \/ Raise /\ UNCHANGED executorVars
  /\ UNCHANGED <<ledgerVars, liveAttempted, followups>>

(* sell: the checks, then the approval of a token that was never sold.     *)
ApproveStep ==
  /\ At("approve")
  /\ calls' = [calls EXCEPT !.sell[op.p] = @ + 1]
  /\ \/ op.p \in Wallet /\ Sign("approve", op.p, PendingNonce) /\ Advance
     \/ Raise /\ UNCHANGED executorVars
  /\ UNCHANGED <<ledgerVars, liveAttempted, followups>>

(* Once the approval is mined, a fresh quote and the swap.                 *)
SellStep ==
  /\ At("sell")
  /\ \/ Sign("sell", op.p, signed.tx.nonce + 1) /\ Advance
     \/ Raise /\ UNCHANGED executorVars
  /\ UNCHANGED <<ledgerVars, liveAttempted, calls, followups>>

(* _send_once: sign, offer, wait.  The wait ends without a receipt, or the *)
(* receipt or the settlement is not good enough: the call raises.          *)
SendStep ==
  /\ At("send")
  /\ \/ Delivered /\ Advance
     \/ Undelivered /\ (IF OffersLeft THEN UNCHANGED op ELSE Raise)
  /\ UNCHANGED <<ledgerVars, liveAttempted, calls, followups>>

ReceiptStepUnverified ==
  /\ At("receipt")
  /\ Advance
  /\ UNCHANGED <<executorVars, ledgerVars, liveAttempted, calls, followups>>

ReceiptStep ==
  /\ At("receipt")
  /\ \/ Settled /\ Advance
     \/ Raise
  /\ UNCHANGED <<executorVars, ledgerVars, liveAttempted, calls, followups>>

OpenStep ==
  /\ At("open")
  /\ OpenPosition(op.p)
  /\ Advance
  /\ UNCHANGED <<mintOf, candidates, saved, snapshot, entries, attempts, sales, outcomes,
                 lastMark, largeLosses, liveAttempted, calls, followups>>

TransitionStep ==
  /\ \/ At("opened") /\ TransitionPosition(op.p, "OPEN")
     \/ At("trigger") /\ TransitionPosition(op.p, "EXIT_TRIGGERED")
  /\ Advance
  /\ UNCHANGED <<mintOf, candidates, saved, snapshot, entries, attempts, sales, outcomes,
                 lastMark, largeLosses, liveAttempted, calls, followups>>

EntryRowStep ==
  /\ At("entry_row")
  /\ RecordEntry(op.p)
  /\ Advance
  /\ UNCHANGED <<mintOf, candidates, rows, saved, snapshot, attempts, sales, outcomes,
                 lastMark, largeLosses, liveAttempted, calls, followups>>

PartialStep ==
  /\ At("partial")
  /\ RecordPartialTakeProfit(op.p, rows[op.p].stage + 1, op.units)
  /\ Advance
  /\ UNCHANGED <<mintOf, candidates, saved, snapshot, entries, attempts, sales, outcomes,
                 lastMark, largeLosses, liveAttempted, calls, followups>>

CloseStep ==
  /\ At("close")
  /\ ClosePosition(op.p)
  /\ Advance
  /\ UNCHANGED <<mintOf, candidates, saved, snapshot, entries, attempts, sales, outcomes,
                 lastMark, largeLosses, liveAttempted, calls, followups>>

(* A partial row carries no loss, an exit row without a price no units.    *)
SaleRowStep ==
  /\ \/ At("partial_row") /\ RecordSale(op.p, op.units, 0, 0)
     \/ At("exit_row") /\ RecordSale(op.p, op.units, 1, op.large)
     \/ At("unknown_row") /\ RecordSale(op.p, 0, 1, 0)
  /\ Advance
  /\ UNCHANGED <<mintOf, candidates, rows, saved, snapshot, entries, attempts, outcomes,
                 lastMark, largeLosses, liveAttempted, calls, followups>>

AttemptRowStep ==
  /\ At("attempt_row")
  /\ RecordAttempt(op.p)
  /\ Advance
  /\ UNCHANGED <<mintOf, candidates, rows, saved, snapshot, entries, sales, outcomes,
                 lastMark, largeLosses, liveAttempted, calls, followups>>

(* _record_loss_counters                                                   *)
CountStep ==
  /\ At("count")
  /\ largeLosses' = largeLosses + op.large
  /\ Advance
  /\ UNCHANGED <<durableVars, snapshot, liveAttempted, calls, followups>>

OutcomeStep ==
  /\ At("outcome")
  /\ IF mode = "shadow" THEN RecordShadowOutcome(op.p, "initial") ELSE UNCHANGED outcomes
  /\ Advance
  /\ UNCHANGED <<mintOf, candidates, rows, saved, snapshot, entries, attempts, sales,
                 lastMark, largeLosses, liveAttempted, calls, followups>>

FollowupStep ==
  /\ At("followup")
  /\ followups' = IF op.early THEN followups \cup {op.p} ELSE followups
  /\ Advance
  /\ UNCHANGED <<ledgerVars, liveAttempted, calls>>

EngineInit ==
  /\ ExecutorInit
  /\ chain \in {"solana", "bsc"}
  /\ mode \in IF chain = "bsc" THEN {"paper", "shadow", "live"} ELSE {"paper", "shadow"}
  /\ age = [p \in Signals |-> "young"]
  /\ op = Idle
  /\ liveAttempted = {}
  /\ calls = [buy |-> [p \in Signals |-> 0], sell |-> [p \in Signals |-> 0]]
  /\ followups = {}

EngineRecoverForgetting ==
  /\ op' = Idle
  /\ signed' = Unsigned
  /\ liveAttempted' = {}
  /\ followups' = {}

(* What a restart rebuilds: the positions whose attempt row was committed. *)
EngineRecover ==
  /\ op' = Idle
  /\ signed' = Unsigned
  /\ liveAttempted' = attempts
  /\ followups' = {}
=============================================================================
