------------------------------- MODULE LiveExit -------------------------------
(***************************************************************************)
(* How BscBalancedLiveEngine sells one OPEN position: the exit decision,   *)
(* the TP1/TP2/TP3 ladder and its latched crossings, the durable exit      *)
(* intent, the claim in exit_swap_status, the SELL in the bridge, its      *)
(* order and journal row, the wallet reconciliation that shrinks or closes *)
(* the position from balanceOf, and what a restart rebuilds.  A sell from  *)
(* the dashboard is the subject of LiveDashboard.                          *)
(***************************************************************************)
EXTENDS Naturals, Sequences, FiniteSetsExt, GmgnJournal

CONSTANTS
    Orders,             \* provider order ids; their number bounds a behaviour
    Quantity,           \* tokens the position opened with, in indivisible units
    MaxRestarts,        \* bound on process deaths in one behaviour
    DbMayFail,          \* reading and writing exit_swap_status may raise
    ErrorMayHideOrder   \* the CLI may exit with an error after placing an order

ASSUME ExitAssumption ==
    /\ IsFiniteSet(Orders)
    /\ NoOrder \notin Orders
    /\ Quantity \in Nat \ {0}
    /\ MaxRestarts \in Nat
    /\ DbMayFail \in BOOLEAN
    /\ ErrorMayHideOrder \in BOOLEAN

VARIABLES
    pos,      \* the SurvivorPosition in memory
    row,      \* its row in survivor_positions
    intent,   \* runtime_state row exit_intent:<position_id>
    ctx,      \* _live_sell_context of the position
    tracked,  \* _live_orders: per order id the context it was submitted with
    sell,     \* the one SELL call the bridge may have for the position
    asked,    \* order_status calls in the worker pool
    reading,  \* a wallet_reconcile call is in the worker pool
    queue,    \* the completion queue
    journal,  \* the executor's journal row "sell:<token>"
    claimed,  \* its quantity column
    fate,     \* per order id: what the provider did with it
    amount,   \* per order id: the tokens it sells
    held,     \* tokens in the wallet
    restarts

owned   == <<pos, row, intent, ctx, sell>>
pool    == <<asked, reading>>
jrnl    == <<journal, claimed>>
world   == <<fate, amount, held>>
vars == <<owned, tracked, pool, queue, jrnl, world, restarts>>

-----------------------------------------------------------------------------
(* What the owner loop alone changes, as one record: its operations are      *)
(* functions from such a state to the set of states it may leave behind.     *)

Owned == [pos |-> pos, row |-> row, intent |-> intent, ctx |-> ctx, sell |-> sell]

Becomes(s) ==
    /\ pos' = s.pos /\ row' = s.row /\ intent' = s.intent
    /\ ctx' = s.ctx /\ sell' = s.sell

Stages == 1..3
TPReason == <<"TP1", "TP2", "TP3">>
IsTP(reason) == \E k \in Stages : reason = TPReason[k]
\* HALF is NO_TRADE_*_PNL_GT_10_PARTIAL; STOP is any reason to sell everything.
Reasons == {TPReason[k] : k \in Stages} \cup {"STOP", "HALF", "RESTORED"}

NoIntent == [reason |-> "none", want |-> 0]
NoContext == [reason |-> "none", quantity |-> 0, partial |-> FALSE]
Context(reason, quantity, partial) ==
    [reason |-> reason, quantity |-> quantity, partial |-> partial]

SellCall(phase, quantity) == [phase |-> phase, quantity |-> quantity, order |-> NoOrder]
Idle == SellCall("idle", 0)

\* The persisted states in which _submit_live_sell does nothing.
InFlight == {"MANUAL_SUBMITTING", "SWAP_SUBMITTING", "SWAP_SUBMITTED", "SWAP_PENDING",
             "WAITING_CONFIRMATION", "SWAP_UNKNOWN", "BALANCE_SYNC_PENDING"}

\* _persist_live_exit_status swallows a failed write.
ExitStatus(s, status) ==
    {[s EXCEPT !.row.swap = status]} \cup (IF DbMayFail THEN {s} ELSE {})

\* _set_exit_intent
WithIntent(s, reason, quantity) ==
    [s EXCEPT !.pos.reason = reason, !.pos.want = quantity,
              !.intent = [reason |-> reason, want |-> quantity]]

\* Mutation: only the reason in the database is cleared.
WithoutDurableIntent(s) == [s EXCEPT !.intent = NoIntent]

\* _clear_exit_intent
WithoutIntent(s) ==
    [s EXCEPT !.pos.reason = "none", !.pos.want = 0, !.intent = NoIntent]

\* _persist_position
Persisted(s) ==
    [s EXCEPT !.row.status = s.pos.status, !.row.remaining = s.pos.remaining,
              !.row.triggered = s.pos.triggered, !.row.filled = s.pos.filled,
              !.row.halfDone = s.pos.halfDone, !.row.realized = s.pos.realized]

-----------------------------------------------------------------------------
(* Selling *)

\* A failed sell is retried automatically for a take-profit stage only.
Blocked(s, reason) ==
    \/ s.row.swap \in InFlight
    \/ s.row.swap = "SWAP_FAILED" /\ ~IsTP(reason)

\* Mutation: the call is handed to the bridge without a claim in the row.
AttemptedUnclaimed(s, reason, quantity, partial) ==
    LET armed == WithIntent(s, reason, quantity) IN
    {armed} \cup
    (IF s.ctx # NoContext THEN {}
     ELSE {[armed EXCEPT !.ctx = Context(reason, quantity, partial),
                         !.sell = SellCall("queued", quantity)]})

\* The intent is durable first; without an executable quote, or with a sell
\* context still there, that is all.  Else the position is claimed in its row and
\* the call handed to the bridge, whose key is free: a sell in it has a context.
Attempted(s, reason, quantity, partial) ==
    LET armed == WithIntent(s, reason, quantity) IN
    {armed} \cup
    {[c EXCEPT !.ctx = Context(reason, quantity, partial),
               !.sell = SellCall("queued", quantity)] :
        c \in IF s.ctx = NoContext THEN ExitStatus(armed, "SWAP_SUBMITTING") ELSE {}}

\* _submit_live_sell; a status that cannot be read blocks nothing.
Submitted(s, reason, quantity, partial) ==
    (IF Blocked(s, reason) THEN {s} ELSE {}) \cup
    (IF Blocked(s, reason) /\ ~DbMayFail THEN {} ELSE Attempted(s, reason, quantity, partial))

CloseAll(s, reason) == Submitted(s, reason, s.pos.remaining, FALSE)

\* The fractions 0.50 and 0.30, in whole units: a sell of none is refused.
Fraction(q, reason) == IF reason = "HALF" THEN q \div 2 ELSE q \div 3
PartialExit(s, reason) == Submitted(s, reason, Fraction(s.pos.remaining, reason), TRUE)

\* Mutation: the highest stage crossed goes first.
NextLatchedHighest(p) ==
    LET due == p.triggered \ p.filled IN
    IF due = {} THEN 0 ELSE Max(due)

\* _next_latched_tp: 0 when nothing is latched and unfilled.
NextLatched(p) ==
    LET due == p.triggered \ p.filled IN
    IF due = {} THEN 0 ELSE Min(due)

\* _execute_latched_tp
ExecuteLatched(s) ==
    LET k == NextLatched(s.pos) IN
    CASE k = 0 -> {s}
      [] k = 3 -> CloseAll(s, "TP3")
      [] OTHER -> PartialExit(s, TPReason[k])

\* Mutation: the row is closed, the position in memory is not.
ReconciledRowOnly(s, balance) ==
    CASE s.pos.status # "OPEN" \/ balance >= s.pos.remaining -> s
      [] s.pos.status = "OPEN" /\ balance = 0 ->
            [s EXCEPT !.pos.remaining = 0,
                      !.row.status = "CLOSED", !.row.remaining = 0,
                      !.row.unpriced = s.ctx = NoContext \/ @]
      [] OTHER ->
            [s EXCEPT !.pos.remaining = balance,
                      !.row.remaining = balance, !.row.unpriced = TRUE]

\* reconcile_open_positions_with_wallet once the balance is known.
Reconciled(s, balance) ==
    CASE s.pos.status # "OPEN" \/ balance >= s.pos.remaining -> s
      [] s.pos.status = "OPEN" /\ balance = 0 ->
            [s EXCEPT !.pos.status = "CLOSED", !.pos.remaining = 0,
                      !.row.status = "CLOSED", !.row.remaining = 0,
                      !.row.unpriced = s.ctx = NoContext \/ @]
      [] OTHER ->
            [s EXCEPT !.pos.remaining = balance,
                      !.row.remaining = balance, !.row.unpriced = TRUE]

\* Mutation: what the wallet lost meanwhile is not subtracted twice, but below zero.
BookedUnclamped(s, c, proceeds) ==
    [Persisted([s EXCEPT !.pos.realized = @ + proceeds,
                         !.pos.remaining = @ - c.quantity])
     EXCEPT !.row.swap = "SWAP_CONFIRMED"]

\* Mutation: the proceeds are those of the quantity asked for, not of the receipt.
BookedAsRequested(s, c, proceeds) ==
    [Persisted([s EXCEPT !.pos.realized = @ + c.quantity,
                         !.pos.remaining = IF @ > c.quantity THEN @ - c.quantity ELSE 0])
     EXCEPT !.row.swap = "SWAP_CONFIRMED"]

\* A SELL is confirmed: book its proceeds, and commit the position.
Booked(s, c, proceeds) ==
    LET left == IF s.pos.remaining > c.quantity THEN s.pos.remaining - c.quantity ELSE 0
        stage == {k \in Stages : c.partial /\ c.reason = TPReason[k]}
    IN
    [Persisted([s EXCEPT !.pos.realized = @ + proceeds,
                         !.pos.remaining = left,
                         !.pos.filled = @ \cup stage,
                         !.pos.halfDone = @ \/ (c.partial /\ c.reason = "HALF"),
                         !.pos.status = IF left = 0 THEN "CLOSED" ELSE @])
     EXCEPT !.row.swap = "SWAP_CONFIRMED"]

\* Mutation: a stage counts as filled once the latch submitted it.
SettledMarkingNext(s) ==
    LET done == [WithoutIntent(s) EXCEPT !.ctx = NoContext] IN
    {[e EXCEPT !.pos.filled = @ \cup ({NextLatched(done.pos)} \cap Stages)] :
        e \in IF done.pos.status = "OPEN" THEN ExecuteLatched(done) ELSE {done}}

\* The rest of the handler: the intent and the context go, and a stage latched
\* meanwhile is next.
Settled(s) ==
    LET done == [WithoutIntent(s) EXCEPT !.ctx = NoContext] IN
    IF done.pos.status = "OPEN" THEN ExecuteLatched(done) ELSE {done}

-----------------------------------------------------------------------------
(* The owner loop *)

\* A durable intent that is no take-profit goes before everything else.
Reexecuted(s) ==
    IF s.pos.want < s.pos.remaining
    THEN Submitted(s, s.pos.reason, s.pos.want, TRUE)
    ELSE CloseAll(s, s.pos.reason)

\* The mark is high enough for the first k stages.
Latched(s, k) == [s EXCEPT !.pos.triggered = @ \cup 1..k]

\* One round of _evaluate_positions, up to the write that ends it.  When
\* TP3 is next, _execute_latched_tp claims to have persisted the position.
Evaluations(s) ==
    LET urgent == s.pos.reason # "none" /\ ~IsTP(s.pos.reason) IN
    IF urgent
    THEN {[state |-> e, persist |-> FALSE] : e \in Reexecuted(s)}
    ELSE {[state |-> e, persist |-> FALSE] :
             e \in CloseAll(s, "STOP") \cup
                   (IF s.pos.halfDone THEN {} ELSE PartialExit(s, "HALF"))}
         \cup
         UNION {{[state |-> e, persist |-> NextLatched(Latched(s, k).pos) # 3] :
                    e \in ExecuteLatched(Latched(s, k))} : k \in 0..3}

Evaluate ==
    /\ pos.status = "OPEN"
    /\ \E e \in Evaluations(Owned) :
          Becomes(IF e.persist THEN Persisted(e.state) ELSE e.state)
    /\ UNCHANGED <<tracked, pool, queue, jrnl, world, restarts>>

Arrived(kind) == queue # <<>> /\ Head(queue).kind = kind
Event(kind, o, result, balance) ==
    [kind |-> kind, order |-> o, result |-> result, balance |-> balance]

StatusKeyFree(o) ==
    /\ o \notin asked
    /\ \A i \in DOMAIN queue : ~(queue[i].kind = "order_status" /\ queue[i].order = o)

\* _drain_live_events, action "sell"; the call's context is there.
HandleSell ==
    LET e == Head(queue)
        quiet == [Owned EXCEPT !.sell = Idle]
    IN
    /\ Arrived("sell")
    /\ queue' = Tail(queue)
    /\ \/ /\ e.result = "submitted"
          /\ \E s \in ExitStatus(quiet, "SWAP_SUBMITTED") : Becomes(s)
          /\ tracked' = [tracked EXCEPT ![e.order] = ctx]
          /\ asked' = asked \cup {e.order}
       \/ /\ e.result \in {"failed", "unknown"}
          /\ LET status == IF e.result = "failed" THEN "SWAP_FAILED" ELSE "SWAP_UNKNOWN"
                 armed  == WithIntent(quiet, ctx.reason, ctx.quantity)
             IN \E s \in ExitStatus(armed, status) : Becomes([s EXCEPT !.ctx = NoContext])
          /\ UNCHANGED <<tracked, asked>>
    /\ UNCHANGED <<reading, jrnl, world, restarts>>

\* action "order_status"; an order no longer tracked is ignored.
HandleStatus ==
    LET e == Head(queue)
        o == e.order
        c == tracked[o]
    IN
    /\ Arrived("order_status")
    /\ queue' = Tail(queue)
    /\ \/ /\ c # NoContext
          /\ e.result \in {"SWAP_PENDING", "SWAP_UNKNOWN"}
          /\ \E s \in ExitStatus(Owned, e.result) : Becomes(s)
          /\ asked' \in {asked, asked \cup {o}}     \* due in two seconds
          /\ UNCHANGED tracked
       \/ \* the context stays in _live_sell_context
          /\ c # NoContext
          /\ e.result = "SWAP_FAILED"
          /\ \E s \in ExitStatus(WithIntent(Owned, c.reason, c.quantity), "SWAP_FAILED") :
                Becomes(s)
          /\ tracked' = [tracked EXCEPT ![o] = NoContext]
          /\ UNCHANGED asked
       \/ \* a report that cannot be read counts as no proceeds
          /\ c # NoContext
          /\ e.result = "SWAP_CONFIRMED"
          /\ \E proceeds \in {0, amount[o]} :
             \E s \in Settled(Booked(Owned, c, proceeds)) : Becomes(s)
          /\ tracked' = [tracked EXCEPT ![o] = NoContext]
          /\ UNCHANGED asked
       \/ /\ c = NoContext
          /\ UNCHANGED <<owned, tracked, asked>>
    /\ UNCHANGED <<reading, jrnl, world, restarts>>

\* A balance that could not be read (None) changes nothing; neither does one
\* the position cannot exceed.
Unread == Quantity

\* action "wallet_reconcile"
HandleBalance ==
    /\ Arrived("balance")
    /\ queue' = Tail(queue)
    /\ Becomes(Reconciled(Owned, Head(queue).balance))
    /\ UNCHANGED <<tracked, pool, jrnl, world, restarts>>

\* Mutation: an order whose row reads SWAP_UNKNOWN is not polled any more.
PollKnownOrder(o) ==
    /\ tracked[o] # NoContext /\ row.swap # "SWAP_UNKNOWN"
    /\ StatusKeyFree(o)
    /\ asked' = asked \cup {o}
    /\ UNCHANGED <<owned, tracked, reading, queue, jrnl, world, restarts>>

\* evaluate: poll every tracked order, read the balance every five seconds.
PollOrder(o) ==
    /\ tracked[o] # NoContext
    /\ StatusKeyFree(o)
    /\ asked' = asked \cup {o}
    /\ UNCHANGED <<owned, tracked, reading, queue, jrnl, world, restarts>>

AskBalance ==
    /\ pos.status = "OPEN"
    /\ ~reading
    /\ \A i \in DOMAIN queue : queue[i].kind # "balance"
    /\ reading' = TRUE
    /\ UNCHANGED <<owned, tracked, asked, queue, jrnl, world, restarts>>

\* _try_buy of some other token reconciles with a balance read on the spot.
ReconcileForced ==
    /\ pos.status = "OPEN" /\ held < pos.remaining
    /\ Becomes(Reconciled(Owned, held))
    /\ UNCHANGED <<tracked, pool, queue, jrnl, world, restarts>>

-----------------------------------------------------------------------------
(* The worker threads: GmgnCliLiveExecutor._swap and get_order_status *)

Return(o, result) ==
    /\ sell' = [sell EXCEPT !.phase = "done"]
    /\ queue' = Append(queue, Event("sell", o, result, 0))

ClaimSell ==
    /\ sell.phase = "queued"
    /\ IF sell.quantity > 0 /\ Claimable(journal)
       THEN /\ journal' = Claimed
            /\ claimed' = sell.quantity
            /\ sell' = [sell EXCEPT !.phase = "claimed"]
            /\ UNCHANGED queue
       ELSE \* INVALID_REQUEST, or DUPLICATE_ORDER_BLOCKED
            /\ Return(NoOrder, IF sell.quantity > 0 THEN "unknown" ELSE "failed")
            /\ UNCHANGED jrnl
    /\ UNCHANGED <<pos, row, intent, ctx, tracked, pool, world, restarts>>

\* TOKEN_BALANCE_UNAVAILABLE (also when the balance could not be read).
RefuseSell ==
    /\ sell.phase = "claimed"
    /\ journal' = Updated(journal, "FAILED")
    /\ Return(NoOrder, "failed")
    /\ UNCHANGED <<pos, row, intent, ctx, tracked, pool, claimed, world, restarts>>

\* At most what the wallet holds is sold.
PlaceSell ==
    /\ sell.phase = "claimed" /\ held > 0
    /\ \E o \in Orders :
          /\ fate[o] = "unused"
          /\ fate' = [fate EXCEPT ![o] = "placed"]
          /\ amount' = [amount EXCEPT ![o] = IF sell.quantity < held THEN sell.quantity ELSE held]
          /\ sell' = [sell EXCEPT !.phase = "sent", !.order = o]
    /\ UNCHANGED <<pos, row, intent, ctx, tracked, pool, queue, jrnl, held, restarts>>

SellReturns ==
    /\ sell.phase \in {"claimed", "sent"}
    /\ \/ /\ sell.phase = "sent"
          /\ journal' = Bound(sell.order)
          /\ Return(sell.order, "submitted")
       \/ \* REQUEST_TIMEOUT or ORDER_ID_MISSING
          /\ journal' = Updated(journal, "SUBMIT_UNKNOWN")
          /\ Return(NoOrder, "unknown")
       \/ \* the CLI exited with an error
          /\ sell.phase = "claimed" \/ ErrorMayHideOrder
          /\ journal' = Updated(journal, "FAILED")
          /\ Return(NoOrder, "failed")
       \/ \* the worker raised
          /\ Return(NoOrder, "unknown")
          /\ UNCHANGED journal
    /\ UNCHANGED <<pos, row, intent, ctx, tracked, pool, claimed, world, restarts>>

AnswerStatus(o) ==
    LET Says(result, state) ==
          /\ queue' = Append(queue, Event("order_status", o, result, 0))
          /\ journal' = UpdatedByOrder(journal, o, state)
    IN
    /\ o \in asked
    /\ asked' = asked \ {o}
    /\ \/ fate[o] = "placed" /\ Says("SWAP_PENDING", "PENDING")
       \/ fate[o] = "filled" /\ Says("SWAP_CONFIRMED", "CONFIRMED")
       \/ fate[o] = "failed" /\ Says("SWAP_FAILED", "FAILED")
    /\ UNCHANGED <<owned, tracked, reading, claimed, world, restarts>>

LoseStatus(o) ==
    /\ o \in asked
    /\ asked' = asked \ {o}
    /\ queue' = Append(queue, Event("order_status", o, "SWAP_UNKNOWN", 0))
    /\ UNCHANGED <<owned, tracked, reading, jrnl, world, restarts>>

ReadBalance ==
    /\ reading
    /\ reading' = FALSE
    /\ \E balance \in {held, Unread} : queue' = Append(queue, Event("balance", NoOrder, "none", balance))
    /\ UNCHANGED <<owned, tracked, asked, jrnl, world, restarts>>

-----------------------------------------------------------------------------
(* The provider and the wallet *)

\* Tokens that left the wallet meanwhile make the order fail instead.
Fill(o) ==
    /\ fate[o] = "placed" /\ amount[o] <= held
    /\ fate' = [fate EXCEPT ![o] = "filled"]
    /\ held' = held - amount[o]
    /\ UNCHANGED <<owned, tracked, pool, queue, jrnl, amount, restarts>>

Reject(o) ==
    /\ fate[o] = "placed"
    /\ fate' = [fate EXCEPT ![o] = "failed"]
    /\ UNCHANGED <<owned, tracked, pool, queue, jrnl, amount, held, restarts>>

\* Somebody sells the tokens, or half of them, with another wallet tool.
TokensLeave ==
    /\ held > 0
    /\ held' \in {0, held \div 2}
    /\ UNCHANGED <<owned, tracked, pool, queue, jrnl, fate, amount, restarts>>

-----------------------------------------------------------------------------
(* Process death and restart *)

\* _load_positions on what the dead process left in s: an OPEN row and its intent.
Loaded(s) ==
    [pos |-> [status |-> s.row.status, remaining |-> s.row.remaining,
              triggered |-> s.row.triggered, filled |-> s.row.filled,
              halfDone |-> s.row.halfDone, realized |-> s.row.realized,
              reason |-> s.intent.reason, want |-> s.intent.want],
     row |-> s.row, intent |-> s.intent, ctx |-> NoContext, sell |-> Idle]

\* _restore_executor_orders: the context of a sell the journal can reconnect.
Restored(s) ==
    IF s.row.status = "OPEN" /\ Reconnectable(journal)
    THEN Context(IF s.pos.reason = "none" THEN "RESTORED" ELSE s.pos.reason,
                 claimed, claimed < s.pos.remaining)
    ELSE NoContext

\* _resume_latched_tp_exits
Resumed(s) ==
    IF s.pos.status = "OPEN" /\ s.ctx = NoContext THEN ExecuteLatched(s) ELSE {s}

RestartFrom(s) ==
    /\ restarts < MaxRestarts
    /\ restarts' = restarts + 1
    /\ LET loaded == Loaded(s)
           c == Restored(loaded)
       IN /\ \E balance \in {held, Unread} :
             \E resumed \in Resumed(Reconciled([loaded EXCEPT !.ctx = c], balance)) :
                Becomes(resumed)
          /\ tracked' = [o \in Orders |-> IF c # NoContext /\ o = journal.order
                                          THEN c ELSE NoContext]
    /\ asked' = {} /\ reading' = FALSE /\ queue' = <<>>
    /\ UNCHANGED <<jrnl, world>>

Restart == RestartFrom(Owned)

\* The process dies in the handler of a confirmed SELL, after the position was
\* committed and before the intent is cleared.
RestartBeforeClear ==
    /\ Arrived("order_status")
    /\ LET e == Head(queue)
           c == tracked[e.order]
       IN /\ e.result = "SWAP_CONFIRMED" /\ c # NoContext
          /\ RestartFrom(Booked(Owned, c, amount[e.order]))

\* The process dies in _evaluate_positions after a sell was armed or submitted
\* and before the position, with the stages just latched, is persisted.
RestartBeforePersist ==
    /\ pos.status = "OPEN"
    /\ \E e \in Evaluations(Owned) : e.persist /\ RestartFrom(e.state)

-----------------------------------------------------------------------------
Init ==
    /\ pos = [status |-> "OPEN", remaining |-> Quantity, triggered |-> {}, filled |-> {},
              halfDone |-> FALSE, realized |-> 0, reason |-> "none", want |-> 0]
    /\ row = [status |-> "OPEN", remaining |-> Quantity, triggered |-> {}, filled |-> {},
              halfDone |-> FALSE, realized |-> 0, swap |-> "none", unpriced |-> FALSE]
    /\ intent = NoIntent
    /\ ctx = NoContext
    /\ tracked = [o \in Orders |-> NoContext]
    /\ sell = Idle
    /\ asked = {} /\ reading = FALSE /\ queue = <<>>
    /\ journal = NoRow /\ claimed = 0
    /\ fate = [o \in Orders |-> "unused"]
    /\ amount = [o \in Orders |-> 0]
    /\ held = Quantity
    /\ restarts = 0

Owner == \/ Evaluate \/ HandleSell \/ HandleStatus \/ HandleBalance
         \/ AskBalance \/ ReconcileForced
         \/ \E o \in Orders : PollOrder(o)

Worker == \/ ClaimSell \/ RefuseSell \/ PlaceSell \/ SellReturns \/ ReadBalance
          \/ \E o \in Orders : AnswerStatus(o) \/ LoseStatus(o)

World == TokensLeave \/ \E o \in Orders : Fill(o) \/ Reject(o)

Death == Restart \/ RestartBeforeClear \/ RestartBeforePersist

Next == Owner \/ Worker \/ World \/ Death

Spec == Init /\ [][Next]_vars

\* The owner loop keeps draining, polling and evaluating, the pool keeps running
\* calls, the provider settles every order it accepted, and a query that keeps
\* being asked is not lost for ever.
Fairness ==
    /\ WF_vars(Evaluate)
    /\ WF_vars(HandleSell) /\ WF_vars(HandleStatus) /\ WF_vars(HandleBalance)
    /\ WF_vars(ClaimSell) /\ WF_vars(RefuseSell \/ PlaceSell \/ SellReturns)
    /\ \A o \in Orders : /\ WF_vars(PollOrder(o))
                         /\ WF_vars(Fill(o) \/ Reject(o))
                         /\ WF_vars(AnswerStatus(o) \/ LoseStatus(o))
                         /\ SF_vars(AnswerStatus(o))

FairSpec == Spec /\ Fairness

-----------------------------------------------------------------------------
(* Properties *)

SwapStates == InFlight \cup {"none", "SWAP_FAILED", "SWAP_CONFIRMED"}
Amounts == 0..Quantity
Memory == [status : {"OPEN", "CLOSED"}, remaining : Amounts, triggered : SUBSET Stages,
           filled : SUBSET Stages, halfDone : BOOLEAN, realized : Amounts,
           reason : Reasons \cup {"none"}, want : Amounts]
PositionRows == [status : {"OPEN", "CLOSED"}, remaining : Amounts, triggered : SUBSET Stages,
                 filled : SUBSET Stages, halfDone : BOOLEAN, realized : Amounts,
                 swap : SwapStates, unpriced : BOOLEAN]
Contexts == [reason : Reasons, quantity : Amounts, partial : BOOLEAN] \cup {NoContext}
SomeOrder == Orders \cup {NoOrder}
Events == [kind : {"sell", "order_status", "balance"}, order : SomeOrder,
           result : {"none", "submitted", "failed", "unknown",
                     "SWAP_PENDING", "SWAP_UNKNOWN", "SWAP_FAILED", "SWAP_CONFIRMED"},
           balance : Amounts]

\* Every variable ranges over the values the code can give it; no quantity is
\* ever negative or above what the position opened with.
TypeOK ==
    /\ pos \in Memory
    /\ row \in PositionRows
    /\ intent \in [reason : Reasons \cup {"none"}, want : Amounts]
    /\ ctx \in Contexts
    /\ tracked \in [Orders -> Contexts]
    /\ sell \in [phase : {"idle", "queued", "claimed", "sent", "done"},
                 quantity : Amounts, order : SomeOrder]
    /\ asked \in SUBSET Orders
    /\ reading \in BOOLEAN
    /\ queue \in Seq(Events)
    /\ journal \in [state : JournalStates, order : SomeOrder]
    /\ claimed \in Amounts
    /\ fate \in [Orders -> {"unused", "placed", "filled", "failed"}]
    /\ amount \in [Orders -> Amounts]
    /\ held \in Amounts
    /\ restarts \in 0..MaxRestarts

Filled == {o \in Orders : fate[o] = "filled"}

\* Two sells of the position never wait at the provider together, even when the
\* status column can be neither read nor written (the executor's journal).
OneSellOrder ==
    \A o, p \in Orders : fate[o] = "placed" /\ fate[p] = "placed" => o = p

\* "Claim the position in SQLite before submitting the external request" (the
\* comment in _submit_live_sell): while a sell is under way the row shows it,
\* through time-outs, failures and restarts.
ClaimCoversOrder ==
    sell.phase \in {"queued", "claimed", "sent"} \/ (\E o \in Orders : fate[o] = "placed") =>
        row.swap \in InFlight \/ row.status = "CLOSED"

\* realized_bnb only holds proceeds of orders that filled, each counted once.
RealizedIsReal ==
    row.realized <= MapThenSumSet(LAMBDA o : amount[o], Filled)

\* Each ladder stage and the no-trade half that count as done were paid for by an
\* order of their own.
LadderPaid ==
    Cardinality(row.filled) + (IF row.halfDone THEN 1 ELSE 0) <= Cardinality(Filled)

\* Stages fill in the order TP1, TP2, TP3, wherever the process dies.
LadderInOrder == \A k \in row.filled : 1..k \subseteq row.filled

\* No late answer and no restart opens a closed position again.
ClosedForGood == [][row.status = "CLOSED" => row'.status = "CLOSED"]_vars

\* "above +10% sells half once" (the comment in _evaluate_positions): no further
\* sell is submitted for that reason once the half was sold.
HalfSoldOnce ==
    [][ctx' # ctx /\ ctx'.reason = "HALF" => ~row.halfDone]_vars

\* Every order the owner follows is settled.
TrackedSellSettles ==
    \A o \in Orders : tracked[o] # NoContext ~> tracked[o] = NoContext

\* "Let the existing executor retry this durable TP intent" (the comment in
\* _submit_live_sell): a take-profit the provider failed is submitted again.
FailedTakeProfitRetried ==
    (row.status = "OPEN" /\ row.swap = "SWAP_FAILED" /\ IsTP(pos.reason)) ~>
        (row.status = "CLOSED" \/ row.swap # "SWAP_FAILED" \/ ~IsTP(pos.reason))

\* "Make Live OPEN quantity follow direct BSC ERC-20 balanceOf" (the docstring of
\* reconcile_open_positions_with_wallet): no position closes on tokens still held.
NothingLeftBehind == row.status = "CLOSED" => held = 0
=============================================================================
