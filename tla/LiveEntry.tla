------------------------------ MODULE LiveEntry ------------------------------
(***************************************************************************)
(* The real-money BUY path of BscBalancedLiveEngine: entry-slot            *)
(* reservations (in memory and in runtime_state), the single-flight bridge *)
(* to worker threads, the GMGN executor and its order journal, the orders  *)
(* at the provider, the wallet, and what a restart rebuilds from the two   *)
(* databases.  How an OPEN position is sold is LiveExit's subject: here    *)
(* its tokens simply leave the wallet and the owner then closes it.        *)
(***************************************************************************)
EXTENDS Naturals, FiniteSets, GmgnJournal

CONSTANTS
    Tokens,                 \* BSC tokens the strategy may try to enter
    Orders,                 \* provider order ids; their number bounds a behaviour
    NoToken,                \* the token of an order id not yet in use
    MaxOpen,                \* config.max_open_positions
    MaxRestarts,            \* bound on process deaths in one behaviour
    ReservationReadMayFail, \* the start-up SELECT of the reservations may raise
    ErrorMayHideOrder       \* the CLI may exit with an error after placing an order

ASSUME EntryAssumption ==
    /\ IsFiniteSet(Tokens)
    /\ MaxOpen \in Nat \ {0}
    /\ MaxRestarts \in Nat
    /\ NoToken \notin Tokens
    /\ NoOrder \notin Orders
    /\ ReservationReadMayFail \in BOOLEAN
    /\ ErrorMayHideOrder \in BOOLEAN

VARIABLES
    dbRes,    \* runtime_state rows entry_reservation:<mint>: their status
    open,     \* tokens with an OPEN row in survivor_positions (and in _positions)
    journal,  \* the executor's journal rows "buy:<token>"
    res,      \* _entry_reservations
    buyCtx,   \* keys of _live_buy_context
    orders,   \* order ids in _live_orders
    balWait,  \* order ids o whose alias "balance:<o>" is in _live_orders
    buy,      \* per token: the one BUY call the bridge may have for it
    calls,    \* order_status and balance calls handed to the worker pool
    done,     \* their answers in the completion queue
    batch,    \* their answers polled by the owner and not yet handled
    tok,      \* per order id: the token it buys, at the provider
    fate,     \* per order id: what the provider did with it
    held,     \* tokens the wallet holds
    restarts

durable == <<dbRes, open, journal>>
memory  == <<res, buyCtx, orders, balWait>>
bridge  == <<buy, calls, done, batch>>
world   == <<tok, fate, held>>
vars == <<durable, memory, bridge, world, restarts>>

-----------------------------------------------------------------------------
(* Reservations *)

\* _ACTIVE_BUY_RESERVATION_STATES; WAITING_CONFIRMATION is left out, the GMGN
\* executor never asks for a confirmation in an app.
ActiveStates == {"BUY_SLOT_RESERVED", "SWAP_SUBMITTING", "SWAP_PENDING", "SWAP_UNKNOWN"}
ResStates == ActiveStates \cup {"none", "RELEASED"}

Reserved(r) == {t \in Tokens : r[t] \in ActiveStates}

\* A token in an OPEN position that also has a reservation counts twice.
UsedSlots(o, r) == Cardinality(o) + Cardinality(Reserved(r))

\* Mutation: the limit itself is still let through.
HasCapacityOffByOne(o, r) == UsedSlots(o, r) <= MaxOpen

\* Mutation: only reservations count, not the positions they became.
HasCapacityWithoutPositions(o, r) == Cardinality(Reserved(r)) < MaxOpen

HasCapacity(o, r) == UsedSlots(o, r) < MaxOpen

\* The item in memory changes first; the write may fail and is rolled back.
SetReservationStatus(t, status) ==
    IF res[t] = "none"
    THEN UNCHANGED <<res, dbRes>>
    ELSE /\ res' = [res EXCEPT ![t] = status]
         /\ dbRes' \in {dbRes, [dbRes EXCEPT ![t] = status]}

ReleaseReservation(t) ==
    IF res[t] = "none"
    THEN UNCHANGED <<res, dbRes>>
    ELSE \/ /\ res' = [res EXCEPT ![t] = "none"]
            /\ dbRes' = [dbRes EXCEPT ![t] = "RELEASED"]
         \/ /\ res' = [res EXCEPT ![t] = "RELEASED"]   \* the write failed
            /\ UNCHANGED dbRes

-----------------------------------------------------------------------------
(* The bridge: a key is busy from submit() until the owner polls its answer *)

BuyCall(phase, o, result) == [phase |-> phase, order |-> o, result |-> result]
Idle == BuyCall("idle", NoOrder, "none")
Answered(result, o) == BuyCall("done", o, result)

StatusCall(o)  == [kind |-> "order_status", order |-> o]
BalanceCall(o) == [kind |-> "balance", order |-> o]
Calls == [kind : {"order_status", "balance"}, order : Orders]
Results == {"SWAP_PENDING", "SWAP_UNKNOWN", "SWAP_FAILED", "SWAP_CONFIRMED", "quantity", "no quantity"}
Events == [call : Calls, result : Results]

KeyFree(c) == c \notin calls /\ \A e \in done : e.call # c
Submitted(c) == IF KeyFree(c) THEN calls \cup {c} ELSE calls

\* _schedule_order_poll: at most one poll per order every two seconds; the
\* clock is abstracted to "due or not".
SchedulePoll(o) == calls' \in {calls, Submitted(StatusCall(o))}

Draining == batch # {} \/ \E t \in Tokens : buy[t].phase = "taken"

\* bridge.poll(64): every answer at hand leaves the queue, all keys are freed.
Poll ==
    /\ ~Draining
    /\ done # {} \/ \E t \in Tokens : buy[t].phase = "done"
    /\ batch' = done
    /\ done' = {}
    /\ buy' = [t \in Tokens |-> IF buy[t].phase = "done"
                                THEN BuyCall("taken", buy[t].order, buy[t].result)
                                ELSE buy[t]]
    /\ UNCHANGED <<durable, memory, calls, world, restarts>>

-----------------------------------------------------------------------------
(* The owner loop *)

\* reconcile_open_positions_with_wallet: a position whose tokens are gone is
\* closed; a balance that could not be read (None) closes nothing.
ReconcileWallet ==
    /\ ~Draining
    /\ \E gone \in SUBSET (open \ held) : gone # {} /\ open' = open \ gone
    /\ UNCHANGED <<dbRes, journal, memory, bridge, world, restarts>>

TrackedTokens == {tok[o] : o \in orders}

\* Mutation: a mint that is OPEN already needs no slot of its own.
MayReserveOpenToken(t, stillOpen) ==
    /\ t \notin buyCtx
    /\ t \notin TrackedTokens
    /\ res[t] = "none"
    /\ HasCapacity(stillOpen \ {t}, res)

\* The guards of _try_buy, after the forced reconciliation left stillOpen.
MayReserve(t, stillOpen) ==
    /\ t \notin buyCtx
    /\ t \notin TrackedTokens
    /\ res[t] = "none"
    /\ t \notin stillOpen
    /\ HasCapacity(stillOpen, res)

\* _try_buy once the roundtrip gate let the candidate through: reserve, persist
\* SWAP_SUBMITTING, submit.  A refused candidate, or a first write that failed,
\* changes nothing but the reconciled positions (ReconcileWallet).  The bridge
\* never refuses the key: a busy "buy:<mint>" has its token in buyCtx.
TryBuy(t) ==
    /\ ~Draining
    /\ \E gone \in SUBSET (open \ held) :
          /\ MayReserve(t, open \ gone)
          /\ open' = open \ gone
    /\ \/ /\ res' = [res EXCEPT ![t] = "SWAP_SUBMITTING"]
          /\ dbRes' = [dbRes EXCEPT ![t] = "SWAP_SUBMITTING"]
          /\ buy' = [buy EXCEPT ![t] = BuyCall("queued", NoOrder, "none")]
          /\ buyCtx' = buyCtx \cup {t}
       \/ \* the second write failed, the release was written
          /\ dbRes' = [dbRes EXCEPT ![t] = "RELEASED"]
          /\ UNCHANGED <<res, buy, buyCtx>>
       \/ \* the second write failed, and so did the release
          /\ res' = [res EXCEPT ![t] = "RELEASED"]
          /\ dbRes' = [dbRes EXCEPT ![t] = "BUY_SLOT_RESERVED"]
          /\ UNCHANGED <<buy, buyCtx>>
    /\ UNCHANGED <<journal, orders, balWait, calls, done, batch, world, restarts>>

\* Mutation: an order that waits for its balance is not polled any more.
PollUnconfirmedOrder(o) ==
    /\ ~Draining
    /\ o \in orders \ balWait
    /\ KeyFree(StatusCall(o))
    /\ calls' = calls \cup {StatusCall(o)}
    /\ UNCHANGED <<durable, memory, buy, done, batch, world, restarts>>

\* evaluate: every order still tracked is polled.
PollOrder(o) ==
    /\ ~Draining
    /\ o \in orders
    /\ KeyFree(StatusCall(o))
    /\ calls' = calls \cup {StatusCall(o)}
    /\ UNCHANGED <<durable, memory, buy, done, batch, world, restarts>>

\* _drain_live_events, action "buy".  A popped _live_buy_context is looked up
\* under "buy:<mint>" while the dictionary is keyed by mint: buyCtx keeps t.
HandleBuy(t) ==
    /\ buy[t].phase = "taken"
    /\ buy' = [buy EXCEPT ![t] = Idle]
    /\ \/ /\ buy[t].result = "submitted"
          /\ orders' = orders \cup {buy[t].order}
          /\ SetReservationStatus(t, "SWAP_PENDING")
          /\ calls' = Submitted(StatusCall(buy[t].order))
       \/ /\ buy[t].result = "definitive"
          /\ ReleaseReservation(t)
          /\ UNCHANGED <<orders, calls>>
       \/ /\ buy[t].result = "unknown"
          /\ SetReservationStatus(t, "SWAP_UNKNOWN")
          /\ UNCHANGED <<orders, calls>>
    /\ UNCHANGED <<open, journal, buyCtx, balWait, done, batch, world, restarts>>

Take(e) == e \in batch /\ batch' = batch \ {e}

\* action "order_status" for an order still in _live_orders.
HandleStatus(e) ==
    LET o == e.call.order
        t == tok[o]
    IN
    /\ Take(e) /\ e.call.kind = "order_status" /\ o \in orders
    /\ \/ /\ e.result \in {"SWAP_PENDING", "SWAP_UNKNOWN"}
          /\ SetReservationStatus(t, e.result)
          /\ SchedulePoll(o)
          /\ UNCHANGED <<orders, balWait>>
       \/ /\ e.result = "SWAP_FAILED"
          /\ ReleaseReservation(t)
          /\ orders' = orders \ {o}
          /\ UNCHANGED <<calls, balWait>>
       \/ /\ e.result = "SWAP_CONFIRMED"
          /\ calls' = Submitted(BalanceCall(o))
          /\ balWait' = IF KeyFree(BalanceCall(o)) THEN balWait \cup {o} ELSE balWait
          /\ UNCHANGED <<res, dbRes, orders>>
    /\ UNCHANGED <<open, journal, buyCtx, buy, done, world, restarts>>

\* action "balance": without a quantity ask again, with one the position is
\* inserted and committed, the order forgotten, the reservation released.
HandleBalance(e) ==
    LET o == e.call.order IN
    /\ Take(e) /\ e.call.kind = "balance" /\ o \in balWait
    /\ \/ /\ e.result = "no quantity"
          /\ SchedulePoll(o)
          /\ UNCHANGED <<open, orders, balWait, res, dbRes>>
       \/ /\ e.result = "quantity"
          /\ open' = open \cup {tok[o]}
          /\ orders' = orders \ {o}
          /\ balWait' = balWait \ {o}
          /\ ReleaseReservation(tok[o])
          /\ UNCHANGED calls
    /\ UNCHANGED <<journal, buyCtx, buy, done, world, restarts>>

\* An answer about an order the owner no longer tracks is ignored.
DropAnswer(e) ==
    /\ Take(e)
    /\ e.call.order \notin (IF e.call.kind = "balance" THEN balWait ELSE orders)
    /\ UNCHANGED <<durable, memory, buy, calls, done, world, restarts>>

-----------------------------------------------------------------------------
(* The worker threads: GmgnCliLiveExecutor._swap, get_order_status, get_balance *)

ClaimBuy(t) ==
    /\ buy[t].phase = "queued"
    /\ IF Claimable(journal[t])
       THEN /\ journal' = [journal EXCEPT ![t] = Claimed]
            /\ buy' = [buy EXCEPT ![t] = BuyCall("claimed", NoOrder, "none")]
       ELSE /\ buy' = [buy EXCEPT ![t] = Answered("unknown", journal[t].order)]
            /\ UNCHANGED journal
    /\ UNCHANGED <<dbRes, open, memory, calls, done, batch, world, restarts>>

\* GAS_RESERVE_INSUFFICIENT or AMOUNT_TOO_SMALL, found before the CLI runs.
RefuseBuy(t) ==
    /\ buy[t].phase = "claimed"
    /\ journal' = [journal EXCEPT ![t] = Updated(@, "FAILED")]
    /\ buy' = [buy EXCEPT ![t] = Answered("definitive", NoOrder)]
    /\ UNCHANGED <<dbRes, open, memory, calls, done, batch, world, restarts>>

\* subprocess.run reached the provider, which now has an order.
PlaceBuy(t) ==
    /\ buy[t].phase = "claimed"
    /\ \E o \in Orders :
          /\ fate[o] = "unused"
          /\ fate' = [fate EXCEPT ![o] = "placed"]
          /\ tok' = [tok EXCEPT ![o] = t]
          /\ buy' = [buy EXCEPT ![t] = BuyCall("sent", o, "none")]
    /\ UNCHANGED <<durable, memory, calls, done, batch, held, restarts>>

\* Mutation: a CLI that exited with an error counts as proof of no order.
BuyReturnsTrustingErrors(t) ==
    /\ buy[t].phase \in {"claimed", "sent"}
    /\ journal' = [journal EXCEPT ![t] = Updated(@, "FAILED")]
    /\ buy' = [buy EXCEPT ![t] = Answered("definitive", NoOrder)]
    /\ UNCHANGED <<dbRes, open, memory, calls, done, batch, world, restarts>>

\* What _swap returns once the CLI ended, or the exception the bridge turned
\* into SWAP_UNKNOWN.  Only the first branch learns the order id.
BuyReturns(t) ==
    /\ buy[t].phase \in {"claimed", "sent"}
    /\ \/ /\ buy[t].phase = "sent"
          /\ journal' = [journal EXCEPT ![t] = Bound(buy[t].order)]
          /\ buy' = [buy EXCEPT ![t] = Answered("submitted", buy[t].order)]
       \/ \* REQUEST_TIMEOUT or ORDER_ID_MISSING
          /\ journal' = [journal EXCEPT ![t] = Updated(@, "SUBMIT_UNKNOWN")]
          /\ buy' = [buy EXCEPT ![t] = Answered("unknown", NoOrder)]
       \/ \* the CLI exited with an error
          /\ buy[t].phase = "claimed" \/ ErrorMayHideOrder
          /\ journal' = [journal EXCEPT ![t] = Updated(@, "FAILED")]
          /\ buy' = [buy EXCEPT ![t] = Answered("unknown", NoOrder)]
       \/ \* the worker raised, a journal write for instance
          /\ buy' = [buy EXCEPT ![t] = Answered("unknown", NoOrder)]
          /\ UNCHANGED journal
    /\ UNCHANGED <<dbRes, open, memory, calls, done, batch, world, restarts>>

Answer(c, result) == calls' = calls \ {c} /\ done' = done \cup {[call |-> c, result |-> result]}

\* get_order_status got the provider's answer: the journal is updated by the
\* worker, before the owner sees the event.
AnswerStatus(o) ==
    LET Says(result, state) ==
          /\ Answer(StatusCall(o), result)
          /\ journal' = [journal EXCEPT ![tok[o]] = UpdatedByOrder(@, o, state)]
    IN
    /\ StatusCall(o) \in calls
    /\ \/ fate[o] = "placed" /\ Says("SWAP_PENDING", "PENDING")
       \/ fate[o] = "filled" /\ Says("SWAP_CONFIRMED", "CONFIRMED")
       \/ fate[o] = "failed" /\ Says("SWAP_FAILED", "FAILED")
    /\ UNCHANGED <<dbRes, open, memory, buy, batch, world, restarts>>

\* Mutation: no payload is taken for a failed order.
LoseStatusAsFailure(o) ==
    /\ StatusCall(o) \in calls
    /\ Answer(StatusCall(o), "SWAP_FAILED")
    /\ UNCHANGED <<durable, memory, buy, batch, world, restarts>>

\* The CLI gave no payload, or the worker raised.
LoseStatus(o) ==
    /\ StatusCall(o) \in calls
    /\ Answer(StatusCall(o), "SWAP_UNKNOWN")
    /\ UNCHANGED <<durable, memory, buy, batch, world, restarts>>

AnswerBalance(o) ==
    /\ BalanceCall(o) \in calls
    /\ tok[o] \in held
    /\ Answer(BalanceCall(o), "quantity")
    /\ UNCHANGED <<durable, memory, buy, batch, world, restarts>>

\* An empty or lagging wallet, or a failed call: get_balance reports "0" for
\* both and _balance_quantity accepts no such quantity.
LoseBalance(o) ==
    /\ BalanceCall(o) \in calls
    /\ Answer(BalanceCall(o), "no quantity")
    /\ UNCHANGED <<durable, memory, buy, batch, world, restarts>>

-----------------------------------------------------------------------------
(* The provider and the wallet *)

Fill(o) ==
    /\ fate[o] = "placed"
    /\ fate' = [fate EXCEPT ![o] = "filled"]
    /\ held' = held \cup {tok[o]}
    /\ UNCHANGED <<durable, memory, bridge, tok, restarts>>

Reject(o) ==
    /\ fate[o] = "placed"
    /\ fate' = [fate EXCEPT ![o] = "failed"]
    /\ UNCHANGED <<durable, memory, bridge, tok, held, restarts>>

\* The position's own SELL filled, or somebody used another wallet tool.
TokensLeave(t) ==
    /\ t \in held
    /\ held' = held \ {t}
    /\ UNCHANGED <<durable, memory, bridge, tok, fate, restarts>>

-----------------------------------------------------------------------------
(* Process death and restart *)

\* __init__ on the rows a dead process left: OPEN positions, reservations that
\* are still active, journal orders with an id whose candidate was restored, and
\* a forced wallet reconciliation.  Calls in flight died with their threads.
RestartFrom(openRows, resRows) ==
    /\ restarts < MaxRestarts
    /\ restarts' = restarts + 1
    /\ LET reconnected == {t \in Tokens : Reconnectable(journal[t])} IN
       \E readable \in (IF ReservationReadMayFail THEN BOOLEAN ELSE {TRUE}),
          known \in SUBSET reconnected, gone \in SUBSET (openRows \ held) :
         LET kept == [t \in Tokens |-> IF readable /\ resRows[t] \in ActiveStates
                                       THEN resRows[t] ELSE "none"]
         IN
         \E added \in SUBSET {t \in reconnected : kept[t] = "none"} :
            /\ res' = [t \in Tokens |-> IF t \in added THEN "SWAP_PENDING" ELSE kept[t]]
            /\ dbRes' = [t \in Tokens |-> IF t \in added THEN "SWAP_PENDING" ELSE resRows[t]]
            /\ buyCtx' = known
            /\ orders' = {journal[t].order : t \in known}
            /\ open' = openRows \ gone
    /\ balWait' = {} /\ calls' = {} /\ done' = {} /\ batch' = {}
    /\ buy' = [t \in Tokens |-> Idle]
    /\ UNCHANGED <<journal, world>>

Restart == RestartFrom(open, dbRes)

\* Mutation: the reservation is released before the position is inserted.
RestartAfterRelease(e) ==
    /\ e \in batch
    /\ e.call.kind = "balance" /\ e.result = "quantity"
    /\ e.call.order \in balWait
    /\ RestartFrom(open, [dbRes EXCEPT ![tok[e.call.order]] = "RELEASED"])

\* The process dies in the "balance" handler after the position's INSERT was
\* committed and before the reservation was released.
RestartAfterInsert(e) ==
    /\ e \in batch
    /\ e.call.kind = "balance" /\ e.result = "quantity"
    /\ e.call.order \in balWait
    /\ RestartFrom(open \cup {tok[e.call.order]}, dbRes)

-----------------------------------------------------------------------------
Init ==
    /\ dbRes = [t \in Tokens |-> "none"]
    /\ open = {}
    /\ journal = [t \in Tokens |-> NoRow]
    /\ res = [t \in Tokens |-> "none"]
    /\ buyCtx = {} /\ orders = {} /\ balWait = {}
    /\ buy = [t \in Tokens |-> Idle]
    /\ calls = {} /\ done = {} /\ batch = {}
    /\ tok = [o \in Orders |-> NoToken]
    /\ fate = [o \in Orders |-> "unused"]
    /\ held = {}
    /\ restarts = 0

Owner == \/ Poll
         \/ ReconcileWallet
         \/ \E t \in Tokens : TryBuy(t) \/ HandleBuy(t)
         \/ \E o \in Orders : PollOrder(o)
         \/ \E e \in batch : HandleStatus(e) \/ HandleBalance(e) \/ DropAnswer(e)

Worker == \/ \E t \in Tokens : ClaimBuy(t) \/ RefuseBuy(t) \/ PlaceBuy(t) \/ BuyReturns(t)
          \/ \E o \in Orders : AnswerStatus(o) \/ LoseStatus(o)
                                  \/ AnswerBalance(o) \/ LoseBalance(o)

World == \/ \E o \in Orders : Fill(o) \/ Reject(o)
         \/ \E t \in Tokens : TokensLeave(t)

Death == Restart \/ \E e \in batch : RestartAfterInsert(e)

Next == Owner \/ Worker \/ World \/ Death

Spec == Init /\ [][Next]_vars

\* The owner loop keeps draining and polling, the pool keeps answering queries, the
\* provider settles every order it accepted, and a query that keeps being asked is
\* not lost for ever.  No buy need ever be made.
Fairness ==
    /\ WF_vars(Poll)
    /\ \A o \in Orders : /\ WF_vars(PollOrder(o))
                         /\ WF_vars(Fill(o) \/ Reject(o))
                         /\ WF_vars(AnswerStatus(o) \/ LoseStatus(o))
                         /\ WF_vars(AnswerBalance(o) \/ LoseBalance(o))
                         /\ SF_vars(AnswerStatus(o))
                         /\ SF_vars(AnswerBalance(o))
    /\ WF_vars(\E e \in batch : HandleStatus(e) \/ HandleBalance(e) \/ DropAnswer(e))

FairSpec == Spec /\ Fairness

-----------------------------------------------------------------------------
(* Properties *)

\* Tokens on which money is, or may come to be, at stake.
InFlight(t) == buy[t].phase \in {"queued", "claimed", "sent"}
AtProvider(t) == \E o \in Orders : fate[o] = "placed" /\ tok[o] = t
Committed == {t \in Tokens : t \in open \cup held \/ InFlight(t) \/ AtProvider(t)}

Rows == [state : JournalStates, order : Orders \cup {NoOrder}]
BuyCalls == [phase : {"idle", "queued", "claimed", "sent", "done", "taken"},
             order : Orders \cup {NoOrder},
             result : {"none", "submitted", "definitive", "unknown"}]
Fates == {"unused", "placed", "filled", "failed"}

\* Every variable ranges over the values the code can give it.
TypeOK ==
    /\ dbRes \in [Tokens -> ResStates]
    /\ open \in SUBSET Tokens
    /\ journal \in [Tokens -> Rows]
    /\ res \in [Tokens -> ResStates]
    /\ buyCtx \in SUBSET Tokens
    /\ orders \in SUBSET Orders
    /\ balWait \in SUBSET Orders
    /\ buy \in [Tokens -> BuyCalls]
    /\ calls \in SUBSET Calls
    /\ done \in SUBSET Events
    /\ batch \in SUBSET Events
    /\ tok \in [Orders -> Tokens \cup {NoToken}]
    /\ fate \in [Orders -> Fates]
    /\ held \in SUBSET Tokens
    /\ restarts \in 0..MaxRestarts

\* max_open_positions bounds the tokens money is really at stake on: positions,
\* unadopted fills, orders at the provider and calls that may still place one,
\* whatever writes fail and wherever the process dies.
CapacityRespected == Cardinality(Committed) <= MaxOpen

\* Nothing the wallet holds or the provider may still fill is unknown to the
\* runtime database: a restart finds a position or an active reservation for it.
NothingUnaccounted ==
    \A t \in Tokens : t \in held \/ AtProvider(t) =>
        t \in open \/ dbRes[t] \in ActiveStates

\* A token never has two orders at the provider at the same time.
OneOrderPerToken ==
    \A o, p \in Orders :
        fate[o] = "placed" /\ fate[p] = "placed" /\ tok[o] = tok[p] => o = p

\* An order is only ever placed for a token nothing is at stake on: no position,
\* no holding, no other order.
NoSecondEntry ==
    [][\A o \in Orders : fate[o] = "unused" /\ fate'[o] = "placed" =>
         LET t == tok'[o] IN t \notin open \cup held /\ ~AtProvider(t)]_vars

\* Without a process death, an order whose id the owner learned becomes a
\* position, fails, or has its tokens taken away by somebody else.
TrackedOrderSettles ==
    \A o \in Orders : o \in orders ~>
        o \notin orders \/ (fate[o] = "filled" /\ tok[o] \notin held)

\* "restores the orders awaiting reconciliation after a timeout or a restart"
\* (PROJECT_STATE.md on the journal): an order the journal says is CONFIRMED is
\* adopted as a position unless its tokens leave the wallet.
JournaledFillAdopted ==
    \A t \in Tokens, o \in Orders :
        (journal[t] = [state |-> "CONFIRMED", order |-> o] /\ t \in held) ~>
            (t \in open \/ t \notin held)
=============================================================================
