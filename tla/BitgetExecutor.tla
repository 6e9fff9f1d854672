--------------------------- MODULE BitgetExecutor ---------------------------
(***************************************************************************)
(* BitgetWalletLiveExecutor (adapters/bitget_wallet.py) selling one token  *)
(* for several processes: each runs at most one _swap and has a lock and a *)
(* nonce manager of its own; the journal file and the wallet are shared.   *)
(* An order carries one transaction; its approval is left out.             *)
(***************************************************************************)
EXTENDS Naturals, FiniteSets

CONSTANTS
  Processes,
  Orders,     \* provider order ids; their number bounds a behaviour
  NoOrder,
  Quantity,   \* tokens in the wallet at first, a positive number
  ErrorMayHideOrder  \* an error other than a time-out may come with an accepted order

VARIABLES
  journal,    \* the execution_orders row "sell:<token>"
  signed,     \* execution_transactions: <<order, nonce>>
  reserved,   \* per process, BitgetNonceManager._reserved: <<order, nonce>>
  call,       \* per process, the _swap it runs
  fate,       \* per order: what became of it
  nonce,      \* per order: the nonce of its transaction
  amount,     \* per order: the tokens it sells
  chainNonce, \* transactions the chain knows of, pending ones included
  held        \* tokens in the wallet

journalVars == <<journal, signed>>
chainVars == <<fate, nonce, amount, chainNonce, held>>
executorVars == <<journalVars, reserved, call, chainVars>>

\* BitgetExecutionJournal.ACTIVE
ActiveStates == {"CREATING", "SIGNED", "SUBMIT_UNKNOWN", "SUBMITTED", "PENDING"}

NoCall == [phase |-> "idle", quantity |-> 0, order |-> NoOrder, stage |-> "none"]

ExecutorTypeOK ==
  /\ journal \in [state : ActiveStates \union {"none", "CONFIRMED", "FAILED"},
                  order : Orders \union {NoOrder}, quantity : 0 .. Quantity]
  /\ signed \subseteq Orders \X Nat
  /\ reserved \in [Processes -> SUBSET (Orders \X (0 .. Cardinality(Orders)))]
  /\ call \in [Processes -> [phase : {"idle", "queued", "free", "claimed", "made", "signed", "done"},
                             quantity : 0 .. Quantity, order : Orders \union {NoOrder},
                             stage : {"none", "SWAP_SUBMITTED", "SWAP_UNKNOWN", "SWAP_FAILED", "RAISED"}]]
  /\ fate \in [Orders -> {"unused", "made", "submitted", "filled", "failed"}]
  /\ nonce \in [Orders -> Nat] /\ amount \in [Orders -> 0 .. Quantity]
  /\ chainNonce \in Nat /\ held \in 0 .. Quantity

ExecutorInit ==
  /\ journal = [state |-> "none", order |-> NoOrder, quantity |-> 0]
  /\ signed = {} /\ reserved = [p \in Processes |-> {}]
  /\ call = [p \in Processes |-> NoCall]
  /\ fate = [o \in Orders |-> "unused"]
  /\ nonce = [o \in Orders |-> 0] /\ amount = [o \in Orders |-> 0]
  /\ chainNonce = 0 /\ held = Quantity

(* The journal: update by logical key, and by order id.                    *)
JournalState(state) == journal' = [journal EXCEPT !.state = state]
JournalOrder(o, state) ==
  journal' = IF journal.order = o THEN [journal EXCEPT !.state = state] ELSE journal

Phase(p, phase) == call' = [call EXCEPT ![p].phase = phase]

(* _swap returns, or raises what it does not catch.                        *)
Return(p, stage, o) ==
  call' = [call EXCEPT ![p] = [@ EXCEPT !.phase = "done", !.stage = stage, !.order = o]]

Sell(p, quantity) == [NoCall EXCEPT !.phase = "queued", !.quantity = quantity]

(* claim() reads the row, and writes it in a transaction of its own.       *)
LookUp(p) ==
  /\ call[p].phase = "queued"
  /\ IF journal.state \in ActiveStates
       THEN Return(p, "SWAP_UNKNOWN", journal.order)   \* DUPLICATE_ORDER_BLOCKED
       ELSE Phase(p, "free")
  /\ UNCHANGED <<journalVars, reserved, chainVars>>

Claim(p) ==
  /\ call[p].phase = "free"
  /\ Phase(p, "claimed")
  /\ journal' = [state |-> "CREATING", order |-> NoOrder, quantity |-> call[p].quantity]
  /\ UNCHANGED <<signed, reserved, chainVars>>

(* No quote, or makeSwapOrder fails.  An order the provider made without   *)
(* an answer is never signed.                                              *)
NoNewOrder(p) ==
  /\ call[p].phase = "claimed"
  /\ \/ JournalState("FAILED") /\ Return(p, "SWAP_FAILED", NoOrder)
     \/ JournalState("SUBMIT_UNKNOWN") /\ Return(p, "SWAP_UNKNOWN", NoOrder)
  /\ UNCHANGED <<signed, reserved, chainVars>>

MakeOrder(p) ==
  /\ call[p].phase = "claimed"
  /\ \E o \in Orders :
       /\ fate[o] = "unused"
       /\ fate' = [fate EXCEPT ![o] = "made"]
       /\ nonce' = [nonce EXCEPT ![o] = chainNonce]
       /\ amount' = [amount EXCEPT ![o] = call[p].quantity]
       /\ journal' = [journal EXCEPT !.state = "SIGNED", !.order = o]
       /\ call' = [call EXCEPT ![p].phase = "made", ![p].order = o]
  /\ UNCHANGED <<signed, reserved, chainNonce, held>>

(* validate_and_reserve, then the gas check, which releases, then          *)
(* bind_transactions, whose UNIQUE(nonce) raises, as any RPC call may.     *)
Reservable(p, o) ==
  /\ nonce[o] >= chainNonce
  /\ \A r \in reserved[p] : r[2] = nonce[o] => r[1] = o

NonceTaken(o) == \E s \in signed : s[2] = nonce[o] /\ s[1] # o

Sign(p) ==
  LET o == call[p].order
      reserve == reserved' = [reserved EXCEPT ![p] = @ \union {<<o, nonce[o]>>}]
  IN /\ call[p].phase = "made"
     /\ \/ /\ JournalState("FAILED") /\ Return(p, "SWAP_FAILED", NoOrder)
           /\ UNCHANGED <<signed, reserved>>
        \/ /\ Reservable(p, o)
           /\ reserve
           /\ Return(p, "RAISED", NoOrder)
           /\ UNCHANGED <<journal, signed>>
        \/ /\ Reservable(p, o) /\ ~NonceTaken(o)
           /\ reserve
           /\ signed' = signed \union {<<o, nonce[o]>>}
           /\ Phase(p, "signed")
           /\ UNCHANGED journal
     /\ UNCHANGED chainVars

(* submit_order: accepted, lost on the way there or back, or an error.     *)
(* Only time-outs and broken connections count as ambiguous; an HTTP 5xx,  *)
(* an unreadable reply or "already submitted" fail the order, even if the  *)
(* provider took it.                                                       *)
Submit(p) ==
  LET o == call[p].order
      accept == /\ nonce[o] = chainNonce
                /\ fate' = [fate EXCEPT ![o] = "submitted"]
                /\ chainNonce' = chainNonce + 1
  IN /\ call[p].phase = "signed"
     /\ \/ accept /\ JournalOrder(o, "SUBMITTED") /\ Return(p, "SWAP_SUBMITTED", o)
        \/ /\ accept \/ UNCHANGED <<fate, chainNonce>>
           /\ JournalOrder(o, "SUBMIT_UNKNOWN") /\ Return(p, "SWAP_UNKNOWN", o)
        \/ /\ (ErrorMayHideOrder /\ accept) \/ UNCHANGED <<fate, chainNonce>>
           /\ JournalOrder(o, "FAILED") /\ Return(p, "SWAP_FAILED", o)
     /\ UNCHANGED <<signed, reserved, nonce, amount, held>>

Swap(p) == LookUp(p) \/ Claim(p) \/ NoNewOrder(p) \/ MakeOrder(p) \/ Sign(p) \/ Submit(p)

(* get_order_status, asked by p: what it answers, and what that changes.   *)
Stages(o) ==
  {"SWAP_UNKNOWN",
   CASE fate[o] = "filled" -> "SWAP_CONFIRMED"
     [] fate[o] = "failed" -> "SWAP_FAILED"
     [] OTHER -> "SWAP_PENDING"}

StatusAsked(p, o, stage) ==
  /\ reserved' = [reserved EXCEPT ![p] =
       IF stage \in {"SWAP_CONFIRMED", "SWAP_FAILED"} THEN {r \in @ : r[1] # o} ELSE @]
  /\ CASE stage = "SWAP_CONFIRMED" -> JournalOrder(o, "CONFIRMED")
       [] stage = "SWAP_FAILED" -> JournalOrder(o, "FAILED")
       [] stage = "SWAP_PENDING" -> JournalOrder(o, "PENDING")
       [] OTHER -> UNCHANGED journal
  /\ UNCHANGED <<signed, call, chainVars>>

(* The chain executes an order, or reverts it.                             *)
Settle(o) ==
  /\ fate[o] = "submitted"
  /\ \/ /\ amount[o] <= held
        /\ fate' = [fate EXCEPT ![o] = "filled"]
        /\ held' = held - amount[o]
     \/ fate' = [fate EXCEPT ![o] = "failed"] /\ UNCHANGED held
  /\ UNCHANGED <<journalVars, reserved, call, nonce, amount, chainNonce>>
=============================================================================
