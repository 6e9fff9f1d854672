----------------------------- MODULE GmgnJournal -----------------------------
(***************************************************************************)
(* One row of the executor's order journal (GmgnExecutionJournal in        *)
(* adapters/gmgn_openapi.py).  A row is keyed by "<side>:<token>", lives   *)
(* in a SQLite file of its own and is written by the worker thread that    *)
(* talks to the provider, never by the owner loop.  LiveEntry keeps one    *)
(* row per token for buys, LiveExit one row for the sells of its token.    *)
(***************************************************************************)

CONSTANT NoOrder          \* the NULL of the order_id column

\* GmgnExecutionJournal.ACTIVE: the states that refuse a second claim.
ActiveJournal == {"CREATING", "SUBMIT_UNKNOWN", "SUBMITTED", "PENDING"}
JournalStates == ActiveJournal \cup {"none", "CONFIRMED", "FAILED"}

NoRow == [state |-> "none", order |-> NoOrder]

\* Mutation: a request that timed out may be sent again.
ClaimableAfterTimeout(row) == row.state \notin ActiveJournal \ {"SUBMIT_UNKNOWN"}

\* claim(): a row that is not active is overwritten, its order id erased.
Claimable(row) == row.state \notin ActiveJournal
Claimed == [state |-> "CREATING", order |-> NoOrder]

\* bind_order(): the provider's order id becomes durable.
Bound(o) == [state |-> "SUBMITTED", order |-> o]

\* update(logical_key=...): the state changes, the order id stays.
Updated(row, state) == [state |-> state, order |-> row.order]

\* update(order_id=...): only the row that carries this order id changes.
UpdatedByOrder(row, o, state) ==
    IF row.order = o THEN Updated(row, state) ELSE row

\* The rows of pending() that _restore_executor_orders does not skip.
Reconnectable(row) == row.state \in ActiveJournal /\ row.order # NoOrder
=============================================================================
