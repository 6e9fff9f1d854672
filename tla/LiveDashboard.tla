--------------------------- MODULE LiveDashboard ---------------------------
(***************************************************************************)
(* The Live dashboard (live_dashboard.py) beside the engine, each a        *)
(* process of its own, on one open position: both sell it through the      *)
(* Bitget executor, and both write its row in survivor_positions.  The     *)
(* engine's ladder, its exit reasons and its worker queue are in LiveExit; *)
(* here it sells all or half whenever its guard lets it.                   *)
(***************************************************************************)
EXTENDS BitgetExecutor

CONSTANT MaxDeaths  \* bound on process deaths in one behaviour

VARIABLES
  row,     \* the row in survivor_positions
  manual,  \* runtime_state live_exit_intent: what the dashboard last noted
  intent,  \* runtime_state exit_intent holds a reason of the engine
  pos,     \* the SurvivorPosition in the engine's memory
  ctx,     \* _live_sell_context: the quantity of its sell, 0 for none
  tracked, \* _live_orders: the order it follows
  answer,  \* the order_status answer the engine has not drained
  engine,  \* where _submit_live_sell is
  request, \* the HTTP thread in request_sell
  poll,    \* the thread in _poll_loop
  deaths

engineVars == <<pos, ctx, tracked, answer, engine>>
dashboardVars == <<request, poll>>
vars == <<row, manual, intent, engineVars, dashboardVars, deaths, executorVars>>

\* ACTIVE_SELL_STATES, and the states _submit_live_sell stops at
InFlight == {"MANUAL_SUBMITTING", "SWAP_SUBMITTING", "SWAP_SUBMITTED", "SWAP_PENDING",
             "WAITING_CONFIRMATION", "SWAP_UNKNOWN", "BALANCE_SYNC_PENDING"}

NoPoll == [pc |-> "idle", order |-> NoOrder, stage |-> "none", percentage |-> 0, balance |-> 0]
Note(state, percentage) == [state |-> state, percentage |-> percentage]
Memory(r) == [status |-> r.status, remaining |-> r.remaining, realized |-> r.realized]

TypeOK ==
  /\ ExecutorTypeOK
  /\ row \in [status : {"OPEN", "CLOSED"}, remaining : 0 .. Quantity, realized : Nat,
              swap : InFlight \union {"none", "SWAP_FAILED", "SWAP_CONFIRMED"},
              order : Orders \union {NoOrder}]
  /\ manual \in [state : InFlight \union {"none", "SELLING", "SWAP_FAILED", "FINISHED"},
                 percentage : {0, 25, 50, 100}]
  /\ intent \in BOOLEAN
  /\ pos \in [status : {"OPEN", "CLOSED"}, remaining : 0 .. Quantity, realized : Nat]
  /\ ctx \in 0 .. Quantity /\ tracked \in Orders \union {NoOrder}
  /\ answer \in {"none", "SWAP_PENDING", "SWAP_UNKNOWN", "SWAP_FAILED", "SWAP_CONFIRMED"}
  /\ engine \in {"idle", "decided", "armed"}
  /\ request \in {"idle", "claimed", "selling"}
  /\ poll.pc \in {"idle", "asking", "answered", "finishing"}
  /\ deaths \in 0 .. MaxDeaths

Init ==
  /\ ExecutorInit
  /\ row = [status |-> "OPEN", remaining |-> Quantity, realized |-> 0, swap |-> "none",
            order |-> NoOrder]
  /\ manual = Note("none", 0) /\ intent = FALSE
  /\ pos = Memory(row)
  /\ ctx = 0 /\ tracked = NoOrder /\ answer = "none" /\ engine = "idle"
  /\ request = "idle" /\ poll = NoPoll
  /\ deaths = 0

-----------------------------------------------------------------------------
(* The engine: _submit_live_sell reads the row, then writes the intent,    *)
(* then claims the row, each committed on its own.                         *)

Decide ==
  /\ engine = "idle" /\ pos.status = "OPEN"
  /\ row.swap \notin InFlight
  /\ engine' = "decided"
  /\ UNCHANGED <<row, manual, intent, pos, ctx, tracked, answer, dashboardVars, deaths, executorVars>>

\* Without a quote, or with a context still there, that is all.
Arm ==
  /\ engine = "decided"
  /\ intent' = TRUE
  /\ engine' \in IF ctx = 0 THEN {"idle", "armed"} ELSE {"idle"}
  /\ UNCHANGED <<row, manual, pos, ctx, tracked, answer, dashboardVars, deaths, executorVars>>

ClaimRow ==
  /\ engine = "armed"
  /\ engine' = "idle"
  /\ row' = [row EXCEPT !.swap = "SWAP_SUBMITTING"]
  /\ \E quantity \in {pos.remaining, pos.remaining \div 2} \ {0} :
       ctx' = quantity /\ call' = [call EXCEPT !["engine"] = Sell("engine", quantity)]
  /\ UNCHANGED <<manual, intent, pos, tracked, answer, dashboardVars, deaths, journalVars, reserved,
                 chainVars>>

(* _drain_live_events, action "sell"                                       *)
HandleSell ==
  LET c == call["engine"]
  IN /\ engine = "idle" /\ c.phase = "done"
     /\ call' = [call EXCEPT !["engine"] = NoCall]
     /\ IF c.stage = "SWAP_SUBMITTED"
          THEN /\ row' = [row EXCEPT !.swap = c.stage, !.order = c.order]
               /\ tracked' = c.order
               /\ UNCHANGED <<ctx, intent>>
          ELSE /\ row' = [row EXCEPT !.swap = IF c.stage = "SWAP_FAILED" THEN c.stage
                                              ELSE "SWAP_UNKNOWN"]
               /\ ctx' = 0 /\ intent' = TRUE
               /\ UNCHANGED tracked
     /\ UNCHANGED <<manual, pos, answer, engine, dashboardVars, deaths, journalVars, reserved, chainVars>>

AskStatus ==
  /\ tracked # NoOrder /\ answer = "none"
  /\ \E stage \in Stages(tracked) : answer' = stage /\ StatusAsked("engine", tracked, stage)
  /\ UNCHANGED <<row, manual, intent, pos, ctx, tracked, engine, dashboardVars, deaths>>

(* A confirmed sell is booked in memory, and the whole row is written.     *)
Booked(proceeds) ==
  LET left == IF pos.remaining > ctx THEN pos.remaining - ctx ELSE 0
  IN [status |-> IF left = 0 THEN "CLOSED" ELSE pos.status, remaining |-> left,
      realized |-> pos.realized + proceeds]

Persisted(p) ==
  [row EXCEPT !.status = p.status, !.remaining = p.remaining, !.realized = p.realized]

(* action "order_status"; a failed order leaves its context behind.        *)
HandleStatus ==
  /\ engine = "idle" /\ answer # "none"
  /\ answer' = "none"
  /\ \/ /\ answer \in {"SWAP_PENDING", "SWAP_UNKNOWN"}
        /\ row' = [row EXCEPT !.swap = answer]
        /\ UNCHANGED <<intent, pos, ctx, tracked>>
     \/ /\ answer = "SWAP_FAILED"
        /\ row' = [row EXCEPT !.swap = answer]
        /\ intent' = TRUE /\ tracked' = NoOrder
        /\ UNCHANGED <<pos, ctx>>
     \/ /\ answer = "SWAP_CONFIRMED"
        /\ pos' = Booked(amount[tracked])
        /\ row' = [Persisted(pos') EXCEPT !.swap = answer, !.order = tracked]
        /\ intent' = FALSE /\ ctx' = 0 /\ tracked' = NoOrder
  /\ UNCHANGED <<manual, engine, dashboardVars, deaths, executorVars>>

(* reconcile_open_positions_with_wallet                                    *)
Reconcile ==
  /\ engine = "idle" /\ pos.status = "OPEN" /\ held < pos.remaining
  /\ pos' = [pos EXCEPT !.status = IF held = 0 THEN "CLOSED" ELSE @, !.remaining = held]
  /\ row' = [row EXCEPT !.status = IF held = 0 THEN "CLOSED" ELSE @, !.remaining = held]
  /\ UNCHANGED <<manual, intent, ctx, tracked, answer, engine, dashboardVars, deaths, executorVars>>

(* The write that ends a round of _evaluate_positions.                     *)
Persist ==
  /\ engine = "idle" /\ pos.status = "OPEN"
  /\ row' = Persisted(pos)
  /\ UNCHANGED <<manual, intent, engineVars, dashboardVars, deaths, executorVars>>

(* _load_positions and _restore_executor_orders: an order the journal      *)
(* still holds active is followed again.                                   *)
EngineRestart ==
  LET restored == row.status = "OPEN" /\ journal.state \in ActiveStates /\ journal.order # NoOrder
  IN /\ deaths < MaxDeaths
     /\ deaths' = deaths + 1
     /\ pos' = Memory(row)
     /\ ctx' = IF restored THEN journal.quantity ELSE 0
     /\ tracked' = IF restored THEN journal.order ELSE NoOrder
     /\ answer' = "none" /\ engine' = "idle"
     /\ call' = [call EXCEPT !["engine"] = NoCall]
     /\ reserved' = [reserved EXCEPT !["engine"] = {}]
     /\ UNCHANGED <<row, manual, intent, dashboardVars, journalVars, chainVars>>

-----------------------------------------------------------------------------
(* The dashboard                                                           *)

(* _active_intent                                                          *)
IntentHeld ==
  IF manual.state # "none" THEN manual.state \in {"SELLING", "WAITING_CONFIRMATION"} ELSE intent

(* request_sell up to its first commit, under BEGIN IMMEDIATE.             *)
RequestSell(percentage) ==
  /\ request = "idle" /\ row.status = "OPEN"
  /\ row.swap \notin InFlight
  /\ ~IntentHeld \/ row.swap = "SWAP_FAILED"
  /\ request' = "claimed"
  /\ row' = [row EXCEPT !.swap = "MANUAL_SUBMITTING"]
  /\ manual' = Note("SELLING", percentage)
  /\ intent' = TRUE
  /\ UNCHANGED <<engineVars, poll, deaths, executorVars>>

(* The wallet probe, the balance and the quote; _mark_failed ends it.      *)
MarkFailed ==
  row' = [row EXCEPT !.swap = "SWAP_FAILED"] /\ manual' = Note("SWAP_FAILED", 0)

PrepareSell ==
  LET quantity == (held * manual.percentage) \div 100
  IN /\ request = "claimed"
     /\ \/ /\ MarkFailed
           /\ request' = "idle"
           /\ UNCHANGED call
        \/ /\ quantity > 0
           /\ request' = "selling"
           /\ call' = [call EXCEPT !["dashboard"] = Sell("dashboard", quantity)]
           /\ UNCHANGED <<row, manual>>
     /\ UNCHANGED <<intent, engineVars, poll, deaths, journalVars, reserved, chainVars>>

(* The result is written; what _swap does not catch ends the request.      *)
FinishRequest ==
  LET c == call["dashboard"]
  IN /\ request = "selling" /\ c.phase = "done"
     /\ request' = "idle"
     /\ call' = [call EXCEPT !["dashboard"] = NoCall]
     /\ IF c.stage = "RAISED"
          THEN UNCHANGED <<row, manual>>
          ELSE /\ row' = [row EXCEPT !.swap = c.stage, !.order = c.order]
               /\ manual' = Note(c.stage, manual.percentage)
     /\ UNCHANGED <<intent, engineVars, poll, deaths, journalVars, reserved, chainVars>>

(* _poll_loop: the row, the order's status, then what it means.  The       *)
(* executor's lock is held while request_sell sells.                       *)
PollRow ==
  /\ poll.pc = "idle"
  /\ row.status = "OPEN" /\ row.order # NoOrder
  /\ row.swap \in {"SWAP_SUBMITTED", "SWAP_PENDING", "BALANCE_SYNC_PENDING"}
  /\ poll' = [NoPoll EXCEPT !.pc = "asking", !.order = row.order]
  /\ UNCHANGED <<row, manual, intent, engineVars, request, deaths, executorVars>>

PollStatus ==
  /\ poll.pc = "asking"
  /\ call["dashboard"].phase \in {"idle", "done"}
  /\ \E stage \in Stages(poll.order) :
       /\ StatusAsked("dashboard", poll.order, stage)
       /\ poll' = IF stage = "SWAP_PENDING" THEN NoPoll
                  ELSE [poll EXCEPT !.pc = "answered", !.stage = stage]
  /\ UNCHANGED <<row, manual, intent, engineVars, request, deaths>>

(* A confirmed order reads the noted percentage and the balance, which may *)
(* be unknown; the other answers are written at once.                      *)
PollAnswered ==
  /\ poll.pc = "answered"
  /\ \/ /\ poll.stage = "SWAP_CONFIRMED"
        /\ poll' = [poll EXCEPT !.pc = "finishing", !.percentage = manual.percentage,
                                !.balance = held]
        /\ UNCHANGED <<row, manual>>
     \/ /\ poll.stage = "SWAP_CONFIRMED"
        /\ poll' = NoPoll
        /\ row' = [row EXCEPT !.swap = "BALANCE_SYNC_PENDING"]
        /\ manual' = Note("BALANCE_SYNC_PENDING", 0)
     \/ /\ poll.stage = "SWAP_FAILED"
        /\ poll' = NoPoll
        /\ MarkFailed
     \/ /\ poll.stage = "SWAP_UNKNOWN"
        /\ poll' = NoPoll
        /\ row' = [row EXCEPT !.swap = "SWAP_UNKNOWN"]
        /\ manual' = Note("SWAP_UNKNOWN", 0)
  /\ UNCHANGED <<intent, engineVars, request, deaths, executorVars>>

(* _apply_finished: the proceeds are added to what the row holds now, and  *)
(* the status is OPEN unless a full sale emptied the wallet.               *)
ApplyFinished ==
  LET closed == poll.percentage = 100 /\ poll.balance = 0
  IN /\ poll.pc = "finishing"
     /\ poll' = NoPoll
     /\ row' = [row EXCEPT !.status = IF closed THEN "CLOSED" ELSE "OPEN",
                           !.remaining = IF closed THEN 0 ELSE poll.balance,
                           !.realized = @ + amount[poll.order],
                           !.swap = "SWAP_CONFIRMED", !.order = poll.order]
     /\ manual' = Note("FINISHED", 0)
     /\ intent' = FALSE
     /\ UNCHANGED <<engineVars, request, deaths, executorVars>>

DashboardRestart ==
  /\ deaths < MaxDeaths
  /\ deaths' = deaths + 1
  /\ request' = "idle" /\ poll' = NoPoll
  /\ call' = [call EXCEPT !["dashboard"] = NoCall]
  /\ reserved' = [reserved EXCEPT !["dashboard"] = {}]
  /\ UNCHANGED <<row, manual, intent, engineVars, journalVars, chainVars>>

-----------------------------------------------------------------------------
Engine ==
  \/ Decide \/ Arm \/ ClaimRow \/ HandleSell \/ AskStatus \/ HandleStatus \/ Reconcile \/ Persist

Dashboard ==
  \/ \E percentage \in {25, 50, 100} : RequestSell(percentage)
  \/ PrepareSell \/ FinishRequest \/ PollRow \/ PollStatus \/ PollAnswered \/ ApplyFinished

Executor == \E p \in Processes : Swap(p)
Chain == \E o \in Orders : Settle(o)

Next ==
  \/ Engine \/ Dashboard \/ EngineRestart \/ DashboardRestart
  \/ (Executor \/ Chain) /\ UNCHANGED <<row, manual, intent, engineVars, dashboardVars, deaths>>

Spec == Init /\ [][Next]_vars

-----------------------------------------------------------------------------
(* Never two sells of the position under way at the provider: "Claim the   *)
(* position in SQLite before submitting the external request so a          *)
(* concurrent Dashboard click cannot race the automatic exit" (the comment *)
(* in _submit_live_sell).                                                  *)
OneSellAtATime == Cardinality({o \in Orders : fate[o] = "submitted"}) <= 1
=============================================================================
