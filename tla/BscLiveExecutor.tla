-------------------------- MODULE BscLiveExecutor --------------------------
(***************************************************************************)
(* adapters/bsc_live.py: buy and sell of one wallet on BSC.  A transaction *)
(* is signed once and offered to at most two nodes; a node may take it and *)
(* its answer may get lost, and it may be mined after the call gave up.    *)
(* The chain itself (mempool, nonces) is external.  Transactions and       *)
(* holdings are kept per position.  balanceOf counts a token's, which is   *)
(* more where a buy that raised was mined later: such a token has no       *)
(* lifecycle row, and another signal of it may buy it again.               *)
(***************************************************************************)
EXTENDS SimulationConstants, FiniteSets

VARIABLES
  signed,      \* the transaction the call in progress signed last, and its offers
  mempool,     \* transactions some node has taken
  mined        \* transactions in blocks, with the status of their receipts

executorVars == <<signed, mempool, mined>>

Kind == {"buy", "approve", "sell"}
Tx(kind, p, nonce) == [kind |-> kind, p |-> p, nonce |-> nonce]
Unsigned == [tx |-> Tx("none", CHOOSE p \in Signals : TRUE, 0), offers |-> 0]

BroadcastNodes == 2      \* broadcast_rpc_urls, cut to two

(* The nonces of the wallet are those of the mined transactions.           *)
MinedNonce == Cardinality(mined)

(* get_transaction_count(account, "pending")                               *)
PendingNonce ==
  LET taken == {tx.nonce : tx \in mempool}
      free == (MinedNonce..(MinedNonce + Cardinality(mempool))) \ taken
  IN  CHOOSE n \in free : \A m \in free : n <= m

Succeeded(kind, p) == \E m \in mined : m.ok /\ m.tx.kind = kind /\ m.tx.p = p

(* The signals whose tokens the wallet holds (balanceOf, per position).    *)
Wallet == {p \in Signals : Succeeded("buy", p) /\ ~Succeeded("sell", p)}

(* _transaction_from_plan, _approve_exact                                  *)
Sign(kind, p, nonce) ==
  /\ signed' = [tx |-> Tx(kind, p, nonce), offers |-> 0]
  /\ UNCHANGED <<mempool, mined>>

Takes(tx) == tx.nonce >= MinedNonce /\ \A other \in mempool \ {tx} : other.nonce # tx.nonce

(* _broadcast_once: the next node returns the hash, or says that it knows  *)
(* the transaction already.                                                *)
Delivered ==
  /\ Takes(signed.tx)
  /\ mempool' = mempool \cup {signed.tx}
  /\ UNCHANGED <<signed, mined>>

(* The node refuses it, or cannot be reached, or its answer is lost.       *)
Undelivered ==
  /\ signed' = [signed EXCEPT !.offers = @ + 1]
  /\ mempool' \in {mempool} \cup (IF Takes(signed.tx) THEN {mempool \cup {signed.tx}} ELSE {})
  /\ UNCHANGED mined

OffersLeft == signed.offers + 1 < BroadcastNodes

(* _wait_for_transaction_receipt, then the status and the settlement check.*)
Settled == \E m \in mined : m.ok /\ m.tx = signed.tx

(* External: a transaction enters a block in the order of the nonces; a    *)
(* sale needs the tokens and their approval.                               *)
Mine(tx) ==
  /\ tx \in mempool
  /\ tx.nonce = MinedNonce
  /\ mempool' = mempool \ {tx}
  /\ \E ok \in {FALSE} \cup {tx.kind = "sell" => tx.p \in Wallet /\ Succeeded("approve", tx.p)} :
       mined' = mined \cup {[tx |-> tx, ok |-> ok]}
  /\ UNCHANGED signed

(* External: the nodes forget a transaction.                               *)
Forget(tx) ==
  /\ tx \in mempool
  /\ mempool' = mempool \ {tx}
  /\ UNCHANGED <<signed, mined>>

ExecutorInit == signed = Unsigned /\ mempool = {} /\ mined = {}
=============================================================================
