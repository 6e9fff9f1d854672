------------------------ MODULE RealtimeCoordinator ------------------------
(***************************************************************************)
(* realtime.py around one engine: the discovery of candidates, the exits,  *)
(* the exit snapshot backfill, and the threads of run_realtime.py.  On     *)
(* Solana the main loop and the position scheduler both evaluate exits;    *)
(* _db_lock serialises what they do to the ledger, but a position is read, *)
(* and a quote for it fetched, before the lock is taken.  On BSC one       *)
(* thread does everything.                                                 *)
(*                                                                         *)
(* A handler runs under _db_lock and no action below reads the ledger      *)
(* while one is in progress: what a thread reads without the lock during a *)
(* handler it could as well have read before it.                           *)
(***************************************************************************)
EXTENDS DeterministicSimulation

CONSTANTS
  SolanaSignals,   \* the signals a Solana run delivers (a BSC run delivers all)
  MaxRestarts      \* bound: restarts explored

ASSUME CoordinatorAssumption ==
  /\ IsFiniteSet(Signals) /\ Signals # {}
  /\ SolanaSignals \subseteq Signals
  /\ MaxRestarts \in Nat

VARIABLES
  pending,         \* pending_observations
  excluded,        \* _live_startup_excluded_mints
  thread,          \* what each thread is doing, with the position it read
  quotes,          \* _position_quotes
  workers,         \* backfill per kind: idle, running, or its queued result
  finished,        \* _completed keys of each backfill
  restarts

coordinatorVars == <<pending, excluded, thread, quotes, workers, finished>>
vars == <<ledgerVars, engineVars, executorVars, coordinatorVars, restarts>>

Threads == {"main", "scheduler"}
NoRow == RowOf("none", 0, 0)
Resting == [pc |-> "idle", p |-> Idle.p, row |-> NoRow, mark |-> NoRule, reason |-> NoRule]
Dead == [Resting EXCEPT !.pc = "dead"]
Holding(pc, p, row, mark, reason) ==
  [pc |-> pc, p |-> p, row |-> row, mark |-> mark, reason |-> reason]

Free(t) == thread[t].pc = "idle"

(* What quote_for_position(position) may return, used now or after its TTL.*)
QuotesFor(units) ==
  {NoQuote} \cup {[units |-> units, mark |-> m, usable |-> u] : m \in Marks, u \in BOOLEAN}

Aged(q) == {q, [q EXCEPT !.usable = FALSE]}

(* _solana_partial_take_profit_quote asks for half of the position it was  *)
(* handed, when that position would take a profit.                         *)
HalfQuotes(p, row, q) ==
  IF /\ ValidSellQuote(q, row.units)
     /\ PaperExitReason(chain, row.stage, q.mark, age[p]) \in DOMAIN TakeProfitStages
  THEN {NoQuote, [q EXCEPT !.units = row.units \div 2]}
  ELSE {NoQuote}

-----------------------------------------------------------------------------
(* Candidates.                                                             *)

(* run_cycle: a new record starts its observation window.                  *)
DiscoverSignal(p) ==
  /\ Free("main") /\ LockFree
  /\ chain = "solana" => p \in SolanaSignals
  /\ mintOf[p] \notin excluded
  /\ \A q \in pending : mintOf[q] # mintOf[p]
  /\ ~CandidateExists(p)
  /\ pending' = pending \cup {p}
  /\ UNCHANGED <<ledgerVars, engineVars, excluded, thread, quotes, workers, finished, restarts, executorVars>>

(* _evaluate_observation on BSC; on Solana the local checks only, a        *)
(* candidate that passes them waits for its quotes outside the lock.       *)
EvaluateObservation(p) ==
  /\ Free("main") /\ LockFree
  /\ p \in pending
  /\ pending' = pending \ {p}
  /\ \E f \in EntryFeatures, blocked \in BOOLEAN :
       IF CandidateExists(p) THEN UNCHANGED <<op, thread>>
       ELSE IF chain = "bsc" THEN op' = EntryPlan(p, f, blocked) /\ UNCHANGED thread
       ELSE IF blocked \/ ~LocalEntryEligible(f)
         THEN op' = Handle("reject", p, 0, 0, FALSE) /\ UNCHANGED thread
       ELSE /\ thread' = [thread EXCEPT !["main"] = Holding("quoting", p, NoRow, NoRule, NoRule)]
            /\ UNCHANGED op
  /\ UNCHANGED <<ledgerVars, chain, mode, age, liveAttempted, calls, followups,
                 excluded, quotes, workers, finished, restarts, executorVars>>

(* The rest of _evaluate_solana_observation, once the quotes are there or  *)
(* the signal has grown too old for them.                                  *)
EnterQuoted ==
  /\ thread["main"].pc = "quoting" /\ LockFree
  /\ \E quoted \in BOOLEAN, expired \in BOOLEAN :
       op' = EntryPlan(thread["main"].p, [local |-> TRUE, quoted |-> quoted], expired)
  /\ thread' = [thread EXCEPT !["main"] = Resting]
  /\ UNCHANGED <<ledgerVars, chain, mode, age, liveAttempted, calls, followups,
                 pending, excluded, quotes, workers, finished, restarts, executorVars>>

-----------------------------------------------------------------------------
(* Exits on Solana.                                                        *)

(* refresh_position_quotes reads the positions, fetches outside the lock,  *)
(* and leaves the quotes for whoever takes them.                           *)
FetchQuote(p) ==
  /\ chain = "solana" /\ Free("scheduler") /\ LockFree
  /\ p \in Active
  /\ thread' = [thread EXCEPT !["scheduler"] = Holding("fetch", p, rows[p], NoRule, NoRule)]
  /\ UNCHANGED <<ledgerVars, engineVars, pending, excluded, quotes, workers, finished, restarts, executorVars>>

StoreQuote ==
  LET v == thread["scheduler"] IN
    /\ v.pc = "fetch" /\ LockFree
    /\ \E q \in {x \in QuotesFor(v.row.units) : x.usable \/ x = NoQuote} :
         quotes' = [p \in DOMAIN quotes \cup {v.p} |-> IF p = v.p THEN q ELSE quotes[p]]
    /\ thread' = [thread EXCEPT !["scheduler"] = Resting]
    /\ UNCHANGED <<ledgerVars, engineVars, pending, excluded, workers, finished, restarts, executorVars>>

(* process_queued_position_exits reads the active positions, ...           *)
ReadPosition(t, p) ==
  /\ chain = "solana" /\ Free(t) /\ LockFree
  /\ p \in Active
  /\ thread' = [thread EXCEPT ![t] = Holding("exit", p, rows[p], NoRule, NoRule)]
  /\ UNCHANGED <<ledgerVars, engineVars, pending, excluded, quotes, workers, finished, restarts, executorVars>>

(* ... and _process_exit decides the path by the position it was handed,   *)
(* the rest by the one in the ledger.  A KeyError or a ValueError is       *)
(* swallowed there.                                                        *)
ExitPlans(p, row, taken) ==
  IF p \notin Active THEN {Idle}
  ELSE IF row.status = "EXIT_TRIGGERED" \/ age[p] # "young"
  THEN {TimeoutPlan(p, q, fallback) : q \in taken, fallback \in QuotesFor(row.units)}
  ELSE IF mode = "paper"
  THEN UNION {{PaperPlan(p, q, half) : half \in HalfQuotes(p, row, q)} : q \in taken}
  ELSE UNION {{ShadowPlan(p, q, half, early) :
                 half \in HalfQuotes(p, row, q), early \in {"none", "plain", "followed"}}
              : q \in taken}

ProcessQueuedExit(t) ==
  LET p == thread[t].p
      row == thread[t].row
  IN  /\ thread[t].pc = "exit" /\ LockFree
      /\ IF p \notin DOMAIN quotes /\ row.status # "EXIT_TRIGGERED" /\ age[p] = "young"
         THEN UNCHANGED <<op, quotes>>
         ELSE /\ op' \in ExitPlans(p, row,
                           IF p \in DOMAIN quotes THEN Aged(quotes[p]) ELSE QuotesFor(row.units))
              /\ quotes' = [x \in DOMAIN quotes \ {p} |-> quotes[x]]
      /\ thread' = [thread EXCEPT ![t] = Resting]
      /\ UNCHANGED <<ledgerVars, chain, mode, age, liveAttempted, calls, followups,
                     pending, excluded, workers, finished, restarts, executorVars>>

(* process_solana_wss_events: a pool price arrives for an active position, *)
ReadPriceEvent(p, m) ==
  /\ chain = "solana" /\ Free("scheduler") /\ LockFree
  /\ p \in Active
  /\ thread' = [thread EXCEPT !["scheduler"] = Holding("tick", p, rows[p], m, NoRule)]
  /\ UNCHANGED <<ledgerVars, engineVars, pending, excluded, quotes, workers, finished, restarts, executorVars>>

(* is recorded and evaluated under the lock: a position that has been      *)
(* closed meanwhile raises KeyError, which nothing in the thread catches;  *)
ObservePrice ==
  LET v == thread["scheduler"]
      reason == IF v.row.units # rows[v.p].units THEN NoRule
                ELSE PaperExitReason(chain, rows[v.p].stage, v.mark, age[v.p])
  IN  /\ v.pc = "tick" /\ LockFree
      /\ thread' = [thread EXCEPT !["scheduler"] =
           IF v.p \notin Active THEN Dead
           ELSE IF reason \in {NoRule, "max_hold_timeout"} THEN Resting
           ELSE Holding("settle", v.p, rows[v.p], NoRule, reason)]
      /\ UNCHANGED <<ledgerVars, engineVars, pending, excluded, quotes, workers, finished, restarts, executorVars>>

SettleTriggeredUnchecked ==
  LET v == thread["scheduler"] IN
    /\ v.pc = "settle" /\ LockFree
    /\ \/ UNCHANGED op
       \/ \E m \in Marks, half \in QuotesFor(v.row.units \div 2) :
            op' = TriggeredPlan(v.p, v.reason,
                                [units |-> v.row.units, mark |-> m, usable |-> TRUE], half)
    /\ thread' = [thread EXCEPT !["scheduler"] = Resting]
    /\ UNCHANGED <<ledgerVars, chain, mode, age, liveAttempted, calls, followups,
                   pending, excluded, quotes, workers, finished, restarts, executorVars>>

(* and a rule that fired settles with a Jupiter quote fetched in between.  *)
SettleTriggered ==
  LET v == thread["scheduler"] IN
    /\ v.pc = "settle" /\ LockFree
    /\ \/ thread' = [thread EXCEPT !["scheduler"] = Resting] /\ UNCHANGED op
       \/ v.p \notin Active /\ thread' = [thread EXCEPT !["scheduler"] = Dead] /\ UNCHANGED op
       \/ /\ v.p \in Active
          /\ \E m \in Marks, half \in QuotesFor(v.row.units \div 2) :
               op' = TriggeredPlan(v.p, v.reason,
                                   [units |-> v.row.units, mark |-> m, usable |-> TRUE], half)
          /\ thread' = [thread EXCEPT !["scheduler"] = Resting]
    /\ UNCHANGED <<ledgerVars, chain, mode, age, liveAttempted, calls, followups,
                   pending, excluded, quotes, workers, finished, restarts, executorVars>>

-----------------------------------------------------------------------------
(* Exits on BSC: run_position_cycle fetches and evaluates on one thread.   *)
PositionCycle(p) ==
  /\ chain = "bsc" /\ Free("main") /\ LockFree
  /\ p \in Active
  /\ \E q \in QuotesFor(rows[p].units) :
       /\ Observe(p, q)
       /\ \/ /\ mode = "paper"
             /\ op' = PaperPlan(p, q, NoQuote) /\ UNCHANGED liveAttempted
          \/ /\ mode = "shadow"
             /\ \E early \in {"none", "plain", "followed"} :
                  op' = ShadowPlan(p, q, NoQuote, early)
             /\ UNCHANGED liveAttempted
          \/ /\ mode = "live"
             /\ op' = LivePlan(p, q)
             /\ liveAttempted' = liveAttempted \cup (IF op' = Idle THEN {} ELSE {p})
  /\ UNCHANGED <<mintOf, candidates, rows, saved, snapshot, entries, attempts, sales, outcomes,
                 largeLosses, chain, mode, age, calls, followups, coordinatorVars, restarts, executorVars>>

-----------------------------------------------------------------------------
(* The exit snapshots.                                                     *)

(* ExitHoldersBackfill.submit and ExitMarketBackfill.submit.               *)
Accepts(kind, p) == workers[kind][p] = "idle" /\ p \notin finished[kind]

(* _finalize_exit_holders and _finalize_exit_market: what is at hand is    *)
(* final, what is missing is marked pending and handed to the worker; BSC  *)
(* has no market snapshot.                                                 *)
FinalizeSnapshot(kind) ==
  /\ At(kind)
  /\ IF kind = "market" /\ chain = "bsc" THEN UNCHANGED <<saved, snapshot, workers>>
     ELSE \/ SetExitSnapshot(kind, op.p, "completed", TRUE) /\ UNCHANGED workers
          \/ /\ Accepts(kind, op.p)
             /\ SetExitSnapshot(kind, op.p, "pending", TRUE)
             /\ workers' = [workers EXCEPT ![kind][op.p] = "running"]
          \/ /\ ~Accepts(kind, op.p)
             /\ SetExitSnapshot(kind, op.p, "unavailable", TRUE)
             /\ UNCHANGED workers
  /\ Advance
  /\ UNCHANGED <<mintOf, candidates, rows, entries, attempts, sales, outcomes, lastMark, largeLosses,
                 chain, mode, age, liveAttempted, calls, followups,
                 pending, excluded, thread, quotes, finished, restarts, executorVars>>

(* _run: the attempts of a worker end in a value or in none.               *)
BackfillAnswer(kind, p) ==
  /\ LockFree
  /\ workers[kind][p] = "running"
  /\ \E answer \in {"success", "failure"} : workers' = [workers EXCEPT ![kind][p] = answer]
  /\ UNCHANGED <<ledgerVars, engineVars, pending, excluded, thread, quotes, finished, restarts, executorVars>>

(* _drain_exit_backfill_results: a result that no longer fits is counted   *)
(* and dropped; the key is completed whether or not the write succeeded (the   *)
(* database may be locked).                                                *)
DrainBackfill(kind, p) ==
  LET answer == workers[kind][p] IN
    /\ Free("main") /\ LockFree
    /\ answer \in {"success", "failure"}
    /\ IF p \in Closed /\ snapshot[kind][p] = "pending"
       THEN \E committed \in BOOLEAN :
              SetExitSnapshot(kind, p, IF answer = "success" THEN "completed" ELSE "unavailable",
                              committed)
       ELSE UNCHANGED <<saved, snapshot>>
    /\ workers' = [workers EXCEPT ![kind][p] = "idle"]
    /\ finished' = [finished EXCEPT ![kind] = @ \cup {p}]
    /\ UNCHANGED <<mintOf, candidates, rows, entries, attempts, sales, outcomes, lastMark,
                   largeLosses, engineVars, pending, excluded, thread, quotes, restarts, executorVars>>

(* _process_shadow_followups, the five windows taken together.             *)
FollowUp(p) ==
  /\ Free("main") /\ LockFree
  /\ p \in followups
  /\ RecordShadowOutcome(p, "complete")
  /\ followups' = followups \ {p}
  /\ UNCHANGED <<mintOf, candidates, rows, saved, snapshot, entries, attempts, sales, lastMark,
                 largeLosses, chain, mode, age, op, liveAttempted, calls, coordinatorVars, restarts, executorVars>>

-----------------------------------------------------------------------------

Age(p) ==
  /\ LockFree
  /\ p \in Active
  /\ age[p] # "overdue"
  /\ age' = [age EXCEPT ![p] = IF @ = "young" THEN "held" ELSE "overdue"]
  /\ UNCHANGED <<ledgerVars, chain, mode, op, liveAttempted, calls, followups,
                 coordinatorVars, restarts, executorVars>>

ResubmittedHolders ==
  [k \in Kinds |-> [p \in Signals |->
     IF k = "holders" /\ p \in Closed /\ saved[k][p] = "pending" THEN "running" ELSE "idle"]]

(* The coordinator hands what is still pending to the workers again.       *)
Resubmitted ==
  [k \in Kinds |-> [p \in Signals |->
     IF p \in Closed /\ saved[k][p] = "pending" THEN "running" ELSE "idle"]]

(* The process dies, perhaps within a handler, and is started again.       *)
Restart ==
  /\ restarts < MaxRestarts
  /\ restarts' = restarts + 1
  /\ \E found \in SUBSET (Kinds \X Closed) : Recover(found)
  /\ EngineRecover
  /\ pending' = {}
  /\ excluded' = IF mode = "live"
                 THEN {mintOf[p] : p \in {x \in Signals : CandidateExists(x)}} ELSE {}
  /\ thread' = [t \in Threads |-> Resting]
  /\ quotes' = <<>>
  /\ workers' = Resubmitted
  /\ finished' = [k \in Kinds |-> {}]
  /\ UNCHANGED <<chain, mode, age, calls, mempool, mined>>

Init ==
  /\ LedgerInit
  /\ EngineInit
  /\ pending = {}
  /\ excluded = {}
  /\ thread = [t \in Threads |-> Resting]
  /\ quotes = <<>>
  /\ workers = [k \in Kinds |-> [p \in Signals |-> "idle"]]
  /\ finished = [k \in Kinds |-> {}]
  /\ restarts = 0

LedgerStep ==
  /\ \/ CandidateStep \/ OpenStep \/ TransitionStep \/ EntryRowStep \/ PartialStep \/ CloseStep
     \/ SaleRowStep \/ AttemptRowStep \/ CountStep \/ OutcomeStep \/ FollowupStep
  /\ UNCHANGED executorVars

ExecutorStep == BuyStep \/ ApproveStep \/ SellStep \/ SendStep \/ ReceiptStep

EngineStep ==
  /\ LedgerStep \/ ExecutorStep
  /\ UNCHANGED <<chain, mode, age, coordinatorVars, restarts>>

(* External: the chain goes on whatever the process does.                  *)
ChainStep ==
  /\ \E tx \in mempool : Mine(tx) \/ Forget(tx)
  /\ UNCHANGED <<ledgerVars, engineVars, coordinatorVars, restarts>>

HandlerStep == EngineStep \/ \E kind \in Kinds : FinalizeSnapshot(kind)

Next ==
  \/ \E p \in Signals : DiscoverSignal(p) \/ EvaluateObservation(p)
  \/ EnterQuoted
  \/ \E p \in Signals : FetchQuote(p)
  \/ StoreQuote
  \/ \E t \in Threads : ProcessQueuedExit(t) \/ \E p \in Signals : ReadPosition(t, p)
  \/ \E p \in Signals, m \in Marks : ReadPriceEvent(p, m)
  \/ ObservePrice
  \/ SettleTriggered
  \/ \E p \in Signals : PositionCycle(p)
  \/ HandlerStep
  \/ ChainStep
  \/ \E kind \in Kinds, p \in Signals : BackfillAnswer(kind, p) \/ DrainBackfill(kind, p)
  \/ \E p \in Signals : FollowUp(p) \/ Age(p)
  \/ Restart

Spec == Init /\ [][Next]_vars
(* The main loop comes to every position and every queued result although  *)
(* the scheduler takes the lock as well, a handler runs to its end, a      *)
(* backfill worker ends, and time passes.  The scheduler owes nothing: it  *)
(* may be dead.                                                            *)
Fairness ==
  /\ WF_vars(HandlerStep)
  /\ WF_vars(EnterQuoted)
  /\ SF_vars(ProcessQueuedExit("main"))
  /\ \A p \in Signals :
       /\ SF_vars(ReadPosition("main", p))
       /\ SF_vars(Age(p))
       /\ SF_vars(\E kind \in Kinds : BackfillAnswer(kind, p) \/ DrainBackfill(kind, p))

FairSpec == Spec /\ Fairness

-----------------------------------------------------------------------------
(* Properties                                                              *)

Halves == {0, Quantity, Quantity \div 2, Quantity \div 4}
Rows == [status : Statuses, stage : 0..2, units : Halves]
Quotes == [units : Halves \cup {Quantity \div 8}, mark : AllMarks, usable : BOOLEAN]
Handlers == [handler : {"none"} \cup DOMAIN Order, at : Nat, p : Signals,
             units : Halves, large : {0, 1}, early : BOOLEAN]
ReasonNames == {NoRule, "stop_loss", "tp2_breakeven_exit", "take_profit_1", "take_profit_2",
                "take_profit", "max_hold_timeout"}
Txs == [kind : Kind \cup {"none"}, p : Signals, nonce : Nat]

(* Every variable ranges over the values the code can give it; a position  *)
(* is whole, half or a quarter.                                            *)
TypeOK ==
  /\ mintOf \in [Signals -> Mints]
  /\ candidates \in [Signals -> {"none", "ACCEPTED", "REJECTED"}]
  /\ rows \in [Signals -> Rows]
  /\ lastMark \in [Signals -> LastMarks]
  /\ saved \in [Kinds -> [Signals -> SnapshotStatuses]]
  /\ snapshot \in [Kinds -> [Signals -> SnapshotStatuses]]
  /\ entries \subseteq Signals /\ attempts \subseteq Signals /\ liveAttempted \subseteq Signals
  /\ sales \in [Signals -> [sold : Nat, exits : Nat, large : Nat]]
  /\ outcomes \in [Signals -> {"none", "initial", "complete"}]
  /\ largeLosses \in Nat
  /\ chain \in {"solana", "bsc"} /\ mode \in {"paper", "shadow", "live"}
  /\ age \in [Signals -> Ages]
  /\ op \in Handlers /\ (LockFree \/ op.at \in DOMAIN Order[op.handler])
  /\ calls \in [buy : [Signals -> Nat], sell : [Signals -> Nat]]
  /\ signed \in [tx : Txs, offers : Nat] /\ mempool \subseteq Txs
  /\ mined \subseteq [tx : Txs, ok : BOOLEAN]
  /\ followups \subseteq Signals /\ pending \subseteq Signals /\ excluded \subseteq Mints
  /\ thread \in [Threads -> [pc : {"idle", "dead", "quoting", "fetch", "exit", "tick", "settle"},
                             p : Signals, row : Rows, mark : LastMarks, reason : ReasonNames]]
  /\ DOMAIN quotes \subseteq Signals /\ \A p \in DOMAIN quotes : quotes[p] \in Quotes
  /\ workers \in [Kinds -> [Signals -> {"idle", "running", "success", "failure"}]]
  /\ finished \in [Kinds -> SUBSET Signals]
  /\ restarts \in 0..MaxRestarts

(* max_open_positions: never more positions than allowed between an entry  *)
(* that was accepted and the exits that two threads and restarts interrupt.*)
CapacityRespected == Cardinality(Active) <= MaxOpenPositions

(* one_trade_per_mint: no token gets a second position, whatever became of *)
(* the first.                                                              *)
OneLifecyclePerMint ==
  \A p, q \in Signals :
    rows[p].status # "none" /\ rows[q].status # "none" /\ mintOf[p] = mintOf[q] => p = q

(* The execution rows of the take-profit ladder against the position: no   *)
(* half is booked twice although both threads see its quote; a death       *)
(* between the two commits loses a row and never sells more than was held. *)
(* It stops at the row of the whole exit, which carries the quantity that  *)
(* was quoted (simulation.py 574-617): quoted before the other thread sold *)
(* half, it counts that half again.                                        *)
LadderBooked ==
  \A p \in Active :
    sales[p].exits = 0 =>
      /\ sales[p].sold + rows[p].units <= Quantity
      /\ LockFree /\ restarts = 0 => sales[p].sold + rows[p].units = Quantity

(* No operation of a handler raises in the middle, after others were       *)
(* committed: what a handler decided on still holds when it commits.       *)
HandlersComplete == ~LockFree => ENABLED HandlerStep

(* "pending" in an exit snapshot is a promise: while the process lives     *)
(* some worker, or a queued result, will settle it, after restarts too.    *)
PendingIsOwned ==
  LockFree => \A kind \in Kinds, p \in Signals :
                snapshot[kind][p] = "pending" => p \in Closed /\ workers[kind][p] # "idle"

(* "Execute one exact-input swap at a time, with no automatic retry"       *)
(* (BscLiveExecutor): the executor is called once per position and side,   *)
(* and one swap of each is mined, through lost answers, a second node,     *)
(* time-outs and restarts.  Of a token there may be more: a buy that       *)
(* raised leaves no lifecycle row, and another signal may buy it again.    *)
OneSwapMined ==
  \A p \in Signals :
    /\ calls.buy[p] <= 1 /\ calls.sell[p] <= 1
    /\ \A side \in {"buy", "sell"} :
         Cardinality({m \in mined : m.tx.kind = side /\ m.tx.p = p}) <= 1

(* Ledger and wallet: an open live position that no sell was tried for has *)
(* its tokens in the wallet, a closed one has left it.                     *)
WalletBacked ==
  mode = "live" =>
    /\ \A p \in Active \ attempts : p \in Wallet
    /\ \A p \in Closed : Succeeded("sell", p)

(* pause_new_entries_after_large_losses: after that many losses on record  *)
(* no position opens any more, before and after restarts.  Shadow exits    *)
(* are not counted by the code.                                            *)
PausedAfterLosses ==
  [][(\E p \in Signals : rows[p].status = "none" /\ rows'[p].status # "none") =>
       mode = "shadow" \/ LargeLossRows < MaxLargeLosses]_vars

(* A closed lifecycle is final: no late quote, price event, result or      *)
(* restart changes its row, and a settled snapshot is not overwritten.     *)
ClosedIsFinal ==
  [][\A p \in Closed :
       /\ rows'[p] = rows[p]
       /\ \A kind \in Kinds :
            saved[kind][p] \in {"completed", "unavailable"} => saved'[kind][p] = saved[kind][p]]_vars

(* process_timeout_exit: "never lets quote errors extend the deadline": a  *)
(* Solana position closes, whatever quotes come, even if the scheduler's   *)
(* thread is dead.                                                         *)
DeadlineHolds ==
  \A p \in Signals : (chain = "solana" /\ p \in Active) ~> (p \notin Active)

(* Every pending exit snapshot is settled at last, across restarts: time   *)
(* and again no snapshot of any position is pending.                       *)
SnapshotSettles == []<>(\A kind \in Kinds, p \in Signals : snapshot[kind][p] # "pending")

-----------------------------------------------------------------------------
(* The abstract specification.                                             *)

Lives == [p \in Signals |-> [phase |-> rows[p].status, halvings |-> rows[p].stage, held |-> rows[p].units]]

Life == INSTANCE PositionLifecycle WITH life <- Lives

(* The rows of the positions: decided before the lock is taken, in series  *)
(* of commits that a death may cut anywhere, they are the lifecycles that  *)
(* PositionLifecycle promises, the slot and the token free at the very     *)
(* commit that opens one.                                                  *)
ImplementsLifecycle == Life!Spec
=============================================================================
