---------------------------- MODULE LiveEntryProofs ----------------------------
(***************************************************************************)
(* Proofs about LiveEntry for any set of tokens and orders, any limit and  *)
(* any number of restarts.  One lemma per action shows that it preserves   *)
(* IInv, one step per conjunct; the properties follow from IInv, and the   *)
(* exposure limit from a refinement of ExposureLimit.  The hypothesis      *)
(* ReservationReadMayFail = FALSE is needed: an engine that cannot read    *)
(* its reservations at start-up counts none.                               *)
(***************************************************************************)
EXTENDS LiveEntryInvariant, FiniteSetTheorems, TLAPS

-----------------------------------------------------------------------------
(* Values the handlers build are of the right type. *)

\* Rows of the journal.
LEMMA RowType ==
    /\ NoRow \in Rows /\ Claimed \in Rows
    /\ \A o \in Orders : Bound(o) \in Rows
  BY DEF Rows, NoRow, Claimed, Bound, JournalStates, ActiveJournal

\* An update of a journal row keeps its order id.
LEMMA UpdatedType ==
    ASSUME NEW row \in Rows, NEW s \in JournalStates
    PROVE  Updated(row, s) \in Rows
  BY DEF Rows, Updated

\* The bridge's BUY calls.
LEMMA BuyCallType ==
    ASSUME NEW p \in {"idle", "queued", "claimed", "sent", "done", "taken"},
           NEW o \in Orders \cup {NoOrder},
           NEW r \in {"none", "submitted", "definitive", "unknown"}
    PROVE  BuyCall(p, o, r) \in BuyCalls
  BY DEF BuyCall, BuyCalls

\* The bridge's queries.
LEMMA CallType ==
    ASSUME NEW o \in Orders
    PROVE  StatusCall(o) \in Calls /\ BalanceCall(o) \in Calls
  BY DEF StatusCall, BalanceCall, Calls

\* The answers to them.
LEMMA EventType ==
    ASSUME NEW e \in Events
    PROVE  e.call \in Calls /\ e.call.order \in Orders /\ e.result \in Results
  BY DEF Events, Calls

\* The statuses of a reservation.
LEMMA StatusType ==
    /\ ActiveStates \cup {"none", "RELEASED"} \subseteq ResStates
    /\ {"BUY_SLOT_RESERVED", "SWAP_SUBMITTING", "SWAP_PENDING", "SWAP_UNKNOWN"} \subseteq ActiveStates
    /\ "none" \notin ActiveStates /\ "RELEASED" \notin ActiveStates
  BY DEF ActiveStates, ResStates

-----------------------------------------------------------------------------
(* One lemma per action: it preserves the invariant. *)

\* Polling only moves answers from the queue to the owner.
LEMMA PollKeeps ==
    ASSUME ReservationReadMayFail = FALSE, IInv, Poll
    PROVE  IInv'
<1> USE DEF IInv, TypeOK, Poll, durable, memory, bridge, world
<1>1. TypeOK'
  <2>1. ASSUME NEW u \in Tokens PROVE BuyCall("taken", buy[u].order, buy[u].result) \in BuyCalls
    BY BuyCallType DEF BuyCalls
  <2>2. buy' \in [Tokens -> BuyCalls]
    BY <2>1
  <2> QED BY <2>2
<1>2. UnusedOrders' /\ BridgeInv' /\ UnsentInv' /\ OpenInv' /\ BackedInv'
  BY DEF Poll, TypeOK, UnusedOrders, BridgeInv, BothReserved, IsFollowed, Following,
         UnsentInv, AtProvider, Reconnectable, ActiveJournal, OpenInv, BackedInv, BuyCall,
         Draining
<1>5. SentInv' /\ FollowInv' /\ JournalInv' /\ AnswerInv'
  BY DEF Poll, TypeOK, SentInv, Sending, Returned, SoleOrder, FollowInv, Following,
         BothReserved, JournalInv, Reconnectable, ActiveJournal, AnswerInv, Closed, BuyCall,
         Draining
<1> QED BY <1>1, <1>2, <1>5

\* Only positions whose tokens are gone are closed.
LEMMA ReconcileWalletKeeps ==
    ASSUME ReservationReadMayFail = FALSE, IInv, ReconcileWallet
    PROVE  IInv'
<1> USE DEF IInv, TypeOK, ReconcileWallet, durable, memory, bridge, world
<1>1. TypeOK' /\ UnusedOrders' /\ BridgeInv' /\ UnsentInv' /\ OpenInv'
  BY DEF ReconcileWallet, TypeOK, UnusedOrders, BridgeInv, BothReserved, IsFollowed,
         Following, UnsentInv, AtProvider, Reconnectable, ActiveJournal, OpenInv
<1>5. SentInv' /\ FollowInv' /\ JournalInv' /\ AnswerInv'
  BY DEF ReconcileWallet, TypeOK, SentInv, Sending, Returned, SoleOrder, FollowInv, Following,
         BothReserved, JournalInv, Reconnectable, ActiveJournal, AnswerInv, Closed
<1>10. BackedInv'
  <2>1. ASSUME NEW t \in Tokens, t \in held \/ AtProvider(t) PROVE t \in open' \/ BothReserved(t)
    BY <2>1 DEF BackedInv, OpenInv
  <2> QED BY <2>1 DEF BackedInv, AtProvider, BothReserved
<1> QED BY <1>1, <1>5, <1>10

\* The token of a new BUY has nothing else going on.
LEMMA TryBuyKeeps ==
    ASSUME ReservationReadMayFail = FALSE, IInv, NEW t \in Tokens, TryBuy(t)
    PROVE  IInv'
<1> USE EntryAssumption DEF IInv, TypeOK, durable, memory, bridge, world
<1>a. PICK gone \in SUBSET (open \ held) : MayReserve(t, open \ gone) /\ open' = open \ gone
  BY DEF TryBuy
<1>b. UNCHANGED <<journal, orders, balWait, calls, done, batch, tok, fate, held, restarts>>
  BY DEF TryBuy
<1>c. /\ res[t] = "none" /\ t \notin open' /\ ~BothReserved(t) /\ t \notin TrackedTokens
  BY <1>a, StatusType DEF MayReserve, BothReserved
<1>d. ~IsFollowed(t) /\ ~Reconnectable(journal[t]) /\ buy[t].phase = "idle"
  BY <1>c DEF FollowInv, IsFollowed, JournalInv, BridgeInv, Reconnectable
<1>e. t \notin held /\ ~AtProvider(t)
  BY <1>a, <1>c DEF BackedInv, OpenInv
<1>f. \A u \in Tokens : u # t => res'[u] = res[u] /\ dbRes'[u] = dbRes[u] /\ buy'[u] = buy[u]
  BY DEF TryBuy
<1>g. \/ /\ res'[t] \in ActiveStates /\ dbRes'[t] \in ActiveStates
         /\ buy'[t].phase = "queued"
      \/ buy'[t] = buy[t]
  BY StatusType DEF TryBuy, BuyCall
<1>h. \A u \in Tokens : BothReserved(u) => BothReserved(u)'
  BY <1>c, <1>f DEF BothReserved
<1>i. \A u \in Tokens : \A p : SoleOrder(u, p)' = SoleOrder(u, p)
  BY <1>b DEF SoleOrder
<1>1. TypeOK'
  <2>1. BuyCall("queued", NoOrder, "none") \in BuyCalls
    BY BuyCallType
  <2>2. {"SWAP_SUBMITTING", "BUY_SLOT_RESERVED", "RELEASED"} \subseteq ResStates
    BY StatusType
  <2> QED BY <1>a, <2>1, <2>2 DEF TryBuy
<1>2. UnusedOrders' /\ OpenInv'
  BY DEF TryBuy, TypeOK, UnusedOrders, OpenInv, AtProvider, BuyCall, Idle, MayReserve
<1>3. BridgeInv'
  BY <1>a, <1>b, <1>c, <1>d, <1>f, <1>g, <1>h DEF BridgeInv, IsFollowed, Following, BothReserved
<1>4. UnsentInv'
  BY <1>b, <1>d, <1>e, <1>f, <1>g DEF UnsentInv, AtProvider
<1>5. SentInv' /\ AnswerInv'
  BY DEF TryBuy, TypeOK, SentInv, Sending, Returned, SoleOrder, AnswerInv, Closed,
         Reconnectable, ActiveJournal, BuyCall, Idle, MayReserve
<1>6. FollowInv'
  BY <1>a, <1>b, <1>h, <1>i DEF FollowInv, Following
<1>7. JournalInv'
  BY <1>a, <1>b, <1>d, <1>f, <1>h, <1>i DEF JournalInv, Following, Returned
<1>10. BackedInv'
  BY <1>a, <1>b, <1>h, <1>e DEF BackedInv, AtProvider, OpenInv
<1> QED BY <1>1, <1>2, <1>3, <1>4, <1>5, <1>6, <1>7, <1>10

\* The order a worker returned becomes the one the owner follows.
LEMMA HandleBuyKeeps ==
    ASSUME ReservationReadMayFail = FALSE, IInv, NEW t \in Tokens, HandleBuy(t)
    PROVE  IInv'
<1> USE EntryAssumption DEF IInv, durable, memory, bridge, world
<1> DEFINE o == buy[t].order
<1>a. buy[t].phase = "taken" /\ BothReserved(t) /\ t \notin open /\ ~IsFollowed(t)
  BY DEF HandleBuy, BridgeInv
<1>b. UNCHANGED <<open, journal, buyCtx, balWait, done, batch, tok, fate, held, restarts>>
  BY DEF HandleBuy
<1>c. buy' = [buy EXCEPT ![t] = Idle]
  BY DEF HandleBuy
<1>d. buy'[t].phase = "idle" /\ \A u \in Tokens : u # t => buy'[u] = buy[u]
  BY <1>c DEF Idle, BuyCall, TypeOK
<1>e. \A u \in Tokens : u # t => res'[u] = res[u] /\ dbRes'[u] = dbRes[u]
  BY DEF HandleBuy, SetReservationStatus, ReleaseReservation, TypeOK
<1>f. \/ /\ Returned(t) /\ BothReserved(t)'
         /\ orders' = orders \cup {o}
         /\ calls' \in {calls, calls \cup {StatusCall(o)}}
      \/ /\ orders' = orders /\ calls' = calls
         /\ t \notin held /\ ~AtProvider(t) /\ ~Reconnectable(journal[t])
      \/ orders' = orders /\ calls' = calls /\ BothReserved(t)'
  <2>1. CASE buy[t].result = "submitted"
    BY <1>a, <2>1, StatusType DEF HandleBuy, Returned, SetReservationStatus, BothReserved, Submitted, TypeOK
  <2>2. CASE buy[t].result = "definitive"
    BY <1>a, <2>2 DEF HandleBuy, UnsentInv
  <2>3. CASE buy[t].result = "unknown"
    BY <1>a, <2>3, StatusType DEF HandleBuy, SetReservationStatus, BothReserved, TypeOK
  <2> QED BY <2>1, <2>2, <2>3 DEF HandleBuy
<1>g. Returned(t) => /\ o \in Orders /\ SoleOrder(t, o)
                     /\ \A c \in calls : c.order # o
                     /\ \A e \in done \cup batch : e.call.order # o
  BY DEF SentInv
<1>h. StatusCall(o).order = o /\ StatusCall(o).kind = "order_status"
  BY DEF StatusCall
<1>i. \A u \in Tokens : \A p : SoleOrder(u, p)' = SoleOrder(u, p)
  BY <1>b DEF SoleOrder
<1>j. \A u \in Tokens : u # t => BothReserved(u)' = BothReserved(u)
  BY <1>e DEF BothReserved
<1>1. TypeOK'
  <2>1. Idle \in BuyCalls
    BY BuyCallType DEF Idle
  <2>2. res' \in [Tokens -> ResStates] /\ dbRes' \in [Tokens -> ResStates]
    BY StatusType DEF HandleBuy, SetReservationStatus, ReleaseReservation, TypeOK
  <2>3. calls' \in SUBSET Calls /\ orders' \in SUBSET Orders
    BY <1>f, <1>g, CallType DEF TypeOK
  <2> QED BY <1>b, <1>c, <2>1, <2>2, <2>3 DEF TypeOK
<1>2. UnusedOrders'
  BY <1>b DEF UnusedOrders
<1>3. BridgeInv'
  <2>1. ASSUME NEW u \in Tokens, u # t, IsFollowed(u)' PROVE IsFollowed(u)
    BY <1>b, <1>f, <1>g, <2>1 DEF IsFollowed, Following, SoleOrder
  <2> QED BY <1>b, <1>d, <1>j, <2>1 DEF BridgeInv
<1>4. UnsentInv'
  BY <1>b, <1>d DEF UnsentInv, AtProvider
<1>5. SentInv'
  <2>1. ASSUME NEW u \in Tokens, u # t, buy[u].phase = "sent" \/ Returned(u), Returned(t) PROVE buy[u].order # o
    BY <1>g, <2>1 DEF SentInv, SoleOrder
  <2>2. ASSUME NEW u \in Tokens, Sending(u)' PROVE journal'[u].order = NoOrder
    BY <1>b, <1>d, <2>2 DEF SentInv, Sending
  <2>3. ASSUME NEW u \in Tokens, (buy[u].phase = "sent" \/ Returned(u))'
        PROVE  /\ buy'[u].order \in Orders
               /\ SoleOrder(u, buy[u].order)'
               /\ \A c \in calls' : c.order # buy'[u].order
               /\ \A e \in done' \cup batch' : e.call.order # buy'[u].order
    <3>1. u # t /\ buy'[u] = buy[u] /\ (buy[u].phase = "sent" \/ Returned(u))
      BY <1>d, <2>3 DEF Returned
    <3> QED BY <1>b, <1>f, <1>h, <1>i, <2>1, <3>1 DEF SentInv
  <2> QED BY <2>2, <2>3 DEF SentInv
<1>6. FollowInv'
  <2>1. ASSUME NEW p \in Following' PROVE tok'[p] \in Tokens /\ SoleOrder(tok[p], p)' /\ tok'[p] \notin open' /\ BothReserved(tok[p])'
    <3>1. CASE p \in Following
      <4>1. tok[p] # t
        BY <1>a, <3>1 DEF IsFollowed
      <4> QED BY <1>b, <1>i, <1>j, <3>1, <4>1 DEF FollowInv
    <3>2. CASE p \notin Following
      <4>1. Returned(t) /\ BothReserved(t)' /\ p = o
        BY <1>a, <1>b, <1>f, <2>1, <3>2 DEF Following
      <4> QED BY <1>a, <1>b, <1>g, <1>i, <4>1 DEF SoleOrder
    <3> QED BY <3>1, <3>2
  <2>2. ASSUME NEW p \in Following', NEW q \in Following', tok'[p] = tok'[q] PROVE p = q
    BY <1>a, <1>b, <1>f, <1>g, <2>2 DEF FollowInv, Following, IsFollowed, SoleOrder
  <2> QED BY <2>1, <2>2 DEF FollowInv
<1>7. JournalInv'
  <2> SUFFICES ASSUME NEW u \in Tokens, journal[u].order # NoOrder
               PROVE  /\ tok[journal[u].order] = u
                      /\ fate[journal[u].order] # "unused"
                      /\ Reconnectable(journal[u]) =>
                           /\ SoleOrder(u, journal[u].order)
                           /\ u \notin open
                           /\ BothReserved(u)'
                           /\ Returned(u)' => buy'[u].order = journal[u].order
                           /\ \A p \in Following' : tok[p] = u => p = journal[u].order
                      /\ ~Reconnectable(journal[u]) => fate[journal[u].order] # "placed"
    BY <1>b, <1>i DEF JournalInv
  <2>1. ASSUME Reconnectable(journal[u]) PROVE BothReserved(u)'
    BY <1>f, <1>j, <2>1 DEF JournalInv
  <2>2. ASSUME Reconnectable(journal[u]), Returned(u)' PROVE buy'[u].order = journal[u].order
    BY <1>d, <2>2 DEF JournalInv, Returned
  <2>3. ASSUME Reconnectable(journal[u]), NEW p \in Following', tok[p] = u PROVE p = journal[u].order
    BY <1>b, <1>f, <1>g, <2>3 DEF JournalInv, Following, SoleOrder
  <2> QED BY <2>1, <2>2, <2>3 DEF JournalInv
<1>8. AnswerInv'
  BY <1>b, <1>f, <1>g, <1>h DEF AnswerInv, Closed, SoleOrder
<1>9. OpenInv'
  BY <1>b DEF OpenInv, AtProvider
<1>10. BackedInv'
  BY <1>b, <1>f, <1>j DEF BackedInv, AtProvider
<1> QED BY <1>1, <1>2, <1>3, <1>4, <1>5, <1>6, <1>7, <1>8, <1>9, <1>10

\* A query about a followed order says nothing new.
LEMMA PollOrderKeeps ==
    ASSUME ReservationReadMayFail = FALSE, IInv, NEW o \in Orders, PollOrder(o)
    PROVE  IInv'
<1> USE EntryAssumption DEF IInv, TypeOK, PollOrder, durable, memory, bridge, world
<1>a. StatusCall(o).order = o /\ StatusCall(o).kind = "order_status"
  BY DEF StatusCall
<1>b. \A t \in Tokens : buy[t].phase = "sent" \/ Returned(t) => buy[t].order # o
  BY DEF SentInv, BridgeInv, IsFollowed, Following, SoleOrder, Returned
<1>1. TypeOK'
  BY CallType
<1>2. UnusedOrders' /\ BridgeInv' /\ UnsentInv' /\ OpenInv' /\ BackedInv'
  BY DEF PollOrder, TypeOK, UnusedOrders, BridgeInv, BothReserved, IsFollowed, Following,
         UnsentInv, AtProvider, Reconnectable, ActiveJournal, OpenInv, BackedInv, StatusCall
<1>5. SentInv'
  BY <1>a, <1>b DEF SentInv, Sending, Returned, SoleOrder
<1>6. FollowInv' /\ JournalInv'
  BY DEF PollOrder, TypeOK, FollowInv, Following, SoleOrder, BothReserved, JournalInv,
         Reconnectable, ActiveJournal, Returned, StatusCall
<1>8. AnswerInv'
  BY <1>a DEF AnswerInv, FollowInv, Following, SoleOrder, Closed
<1> QED BY <1>1, <1>2, <1>5, <1>6, <1>8

\* An order is forgotten only when it failed and its row is closed.
LEMMA HandleStatusKeeps ==
    ASSUME ReservationReadMayFail = FALSE, IInv, NEW e \in batch, HandleStatus(e)
    PROVE  IInv'
<1> USE EntryAssumption DEF IInv, durable, memory, bridge, world
<1> DEFINE o == e.call.order
           t == tok[o]
<1>a. /\ e \in Events /\ o \in Orders /\ o \in orders
  BY EventType DEF HandleStatus, Take, TypeOK
<1>b. /\ UNCHANGED <<open, journal, buyCtx, buy, done, tok, fate, held, restarts>>
      /\ batch' = batch \ {e}
  BY DEF HandleStatus, Take
<1>c. t \in Tokens /\ SoleOrder(t, o) /\ t \notin open /\ BothReserved(t) /\ IsFollowed(t)
  BY <1>a DEF FollowInv, Following, IsFollowed
<1>d. buy[t].phase = "idle"
  BY <1>c DEF BridgeInv
<1>e. \A u \in Tokens : u # t => res'[u] = res[u] /\ dbRes'[u] = dbRes[u]
  BY <1>c DEF HandleStatus, SetReservationStatus, ReleaseReservation, TypeOK
<1>h. /\ StatusCall(o).order = o /\ StatusCall(o).kind = "order_status"
      /\ BalanceCall(o).order = o
  BY DEF StatusCall, BalanceCall
<1>f. \/ /\ BothReserved(t)' /\ orders' = orders /\ balWait' = balWait
         /\ calls' \in {calls, calls \cup {StatusCall(o)}}
      \/ /\ fate[o] = "failed" /\ Closed(o)
         /\ orders' = orders \ {o} /\ balWait' = balWait /\ calls' = calls
      \/ /\ fate[o] = "filled" /\ Closed(o)
         /\ res' = res /\ dbRes' = dbRes /\ orders' = orders
         /\ balWait' \in {balWait, balWait \cup {o}}
         /\ calls' \in {calls, calls \cup {BalanceCall(o)}}
  <2>1. CASE e.result \in {"SWAP_PENDING", "SWAP_UNKNOWN"}
    <3>1. SetReservationStatus(t, e.result) /\ SchedulePoll(o) /\ UNCHANGED <<orders, balWait>>
      BY <2>1 DEF HandleStatus
    <3>2. res[t] # "none" /\ res[t] \in ActiveStates /\ dbRes[t] \in ActiveStates /\ e.result \in ActiveStates
      BY <1>c, <2>1, StatusType DEF BothReserved
    <3>3. res'[t] \in ActiveStates /\ dbRes'[t] \in ActiveStates
      <4>1. /\ res' = [res EXCEPT ![t] = e.result]
            /\ dbRes' \in {dbRes, [dbRes EXCEPT ![t] = e.result]}
        BY <3>1, <3>2 DEF SetReservationStatus
      <4>2. t \in DOMAIN res /\ t \in DOMAIN dbRes
        BY <1>c DEF TypeOK
      <4> HIDE DEF IInv, t
      <4> QED BY <3>2, <4>1, <4>2
    <3>4. BothReserved(t)'
      BY <1>b, <3>3 DEF BothReserved
    <3> QED BY <3>1, <3>4 DEF SchedulePoll, Submitted
  <2>2. CASE e.result = "SWAP_FAILED"
    BY <2>2, <1>a DEF HandleStatus, AnswerInv
  <2>3. CASE e.result = "SWAP_CONFIRMED"
    BY <2>3, <1>a DEF HandleStatus, AnswerInv, Submitted
  <2> QED BY <2>1, <2>2, <2>3 DEF HandleStatus
<1>g. Following' \subseteq Following
  BY <1>a, <1>f DEF Following
<1>i. \A u \in Tokens : \A p : SoleOrder(u, p)' = SoleOrder(u, p)
  BY <1>b DEF SoleOrder
<1>j. \A u \in Tokens : u # t => BothReserved(u)' = BothReserved(u)
  BY <1>e DEF BothReserved
<1>n. \A p \in Following : tok[p] = t => p = o
  BY <1>a DEF FollowInv, Following
<1>k. \/ BothReserved(t)'
      \/ t \notin held /\ ~AtProvider(t) /\ ~Reconnectable(journal[t]) /\ ~IsFollowed(t)'
  <2>1. CASE fate[o] = "failed" /\ Closed(o) /\ orders' = orders \ {o} /\ balWait' = balWait
    <3>1. t \notin held /\ ~AtProvider(t)
      BY <1>c, <2>1 DEF SoleOrder, AtProvider
    <3>2. ~Reconnectable(journal[t])
      BY <1>a, <1>c, <2>1 DEF Closed, JournalInv, Following, Reconnectable
    <3>3. ASSUME NEW p \in Following', tok'[p] = t PROVE FALSE
      <4>1. p \in Following /\ p # o
        BY <2>1, <3>3 DEF Following, AnswerInv
      <4> QED BY <1>b, <1>n, <3>3, <4>1
    <3>4. ~IsFollowed(t)'
      BY <1>b, <3>3 DEF IsFollowed
    <3> QED BY <1>b, <3>1, <3>2, <3>4
  <2> QED BY <2>1, <1>b, <1>c, <1>f DEF BothReserved
<1>l. \A u \in Tokens : IsFollowed(u)' => IsFollowed(u) /\ BothReserved(u)'
  BY <1>b, <1>g, <1>j, <1>k DEF IsFollowed, FollowInv
<1>1. TypeOK'
  <2>1. res' \in [Tokens -> ResStates] /\ dbRes' \in [Tokens -> ResStates]
    BY StatusType DEF HandleStatus, SetReservationStatus, ReleaseReservation, TypeOK
  <2>2. calls' \in SUBSET Calls /\ orders' \in SUBSET Orders /\ balWait' \in SUBSET Orders
    BY <1>a, <1>f, CallType DEF TypeOK
  <2> QED BY <1>b, <2>1, <2>2 DEF TypeOK
<1>2. UnusedOrders'
  BY <1>b DEF UnusedOrders
<1>3. BridgeInv'
  BY <1>b, <1>d, <1>j, <1>l DEF BridgeInv
<1>4. UnsentInv'
  BY <1>b DEF UnsentInv, AtProvider
<1>5. SentInv'
  <2>1. ASSUME NEW u \in Tokens, buy[u].phase = "sent" \/ Returned(u) PROVE buy[u].order # o
    BY <1>d, <2>1 DEF SentInv, SoleOrder, Returned
  <2>2. \A c \in calls' : c \in calls \/ c.order = o
    BY <1>f, <1>h
  <2>3. \A u \in Tokens : Sending(u)' = Sending(u) /\ Returned(u)' = Returned(u)
    BY <1>b DEF Sending, Returned
  <2> QED BY <1>b, <1>i, <2>1, <2>2, <2>3 DEF SentInv
<1>6. FollowInv'
  <2>1. ASSUME NEW p \in Following' PROVE BothReserved(tok[p])'
    BY <1>b, <1>g, <1>l, <2>1 DEF FollowInv, IsFollowed
  <2> QED BY <1>b, <1>g, <1>i, <2>1 DEF FollowInv
<1>7. JournalInv'
  <2>1. ASSUME NEW u \in Tokens, Reconnectable(journal[u]) PROVE BothReserved(u)'
    <3>0. JournalInv /\ journal[u].order # NoOrder
      BY <2>1 DEF Reconnectable
    <3>1. BothReserved(u)
      <4> HIDE DEF IInv
      <4> QED BY <2>1, <3>0 DEF JournalInv
    <3> QED BY <1>b, <1>j, <1>k, <2>1, <3>1
  <2> QED BY <1>b, <1>g, <1>i, <2>1 DEF JournalInv, Returned
<1>8. AnswerInv'
  <2>1. \A p : Closed(p)' = Closed(p)
    BY <1>b DEF Closed
  <2>2. fate[o] # "unused"
    BY <1>c DEF SoleOrder
  <2>3. \A c \in calls' : fate[c.order] # "unused" /\ (c.kind = "balance" => fate[c.order] = "filled" /\ Closed(c.order))
    BY <1>f, <1>h, <2>2 DEF AnswerInv
  <2>4. \A p \in balWait' : fate[p] = "filled" /\ Closed(p)
    BY <1>f DEF AnswerInv
  <2> QED BY <1>b, <2>1, <2>3, <2>4 DEF AnswerInv
<1>9. OpenInv'
  BY <1>b DEF OpenInv, AtProvider
<1>10. BackedInv'
  BY <1>b, <1>j, <1>k DEF BackedInv, AtProvider
<1> QED BY <1>1, <1>2, <1>3, <1>4, <1>5, <1>6, <1>7, <1>8, <1>9, <1>10

\* A fill becomes a position before its reservation ends.
LEMMA HandleBalanceKeeps ==
    ASSUME ReservationReadMayFail = FALSE, IInv, NEW e \in batch, HandleBalance(e)
    PROVE  IInv'
<1> USE EntryAssumption DEF IInv, durable, memory, bridge, world
<1> DEFINE o == e.call.order
           t == tok[o]
<1>a. e \in Events /\ o \in Orders /\ o \in balWait /\ o \in Following
  BY EventType DEF HandleBalance, Take, TypeOK, Following
<1>b. /\ UNCHANGED <<journal, buyCtx, buy, done, tok, fate, held, restarts>>
      /\ batch' = batch \ {e}
  BY DEF HandleBalance, Take
<1>c. t \in Tokens /\ SoleOrder(t, o) /\ t \notin open /\ BothReserved(t) /\ IsFollowed(t)
  BY <1>a DEF FollowInv, IsFollowed
<1>d. buy[t].phase = "idle"
  BY <1>c DEF BridgeInv
<1>m. fate[o] = "filled" /\ ~AtProvider(t) /\ ~Reconnectable(journal[t])
  BY <1>a, <1>c DEF AnswerInv, SoleOrder, AtProvider, Closed, JournalInv, Reconnectable
<1>e. \A u \in Tokens : u # t => res'[u] = res[u] /\ dbRes'[u] = dbRes[u]
  BY <1>c DEF HandleBalance, ReleaseReservation, TypeOK
<1>h. StatusCall(o).order = o /\ StatusCall(o).kind = "order_status"
  BY DEF StatusCall
<1>f. \/ /\ UNCHANGED <<open, orders, balWait, res, dbRes>>
         /\ calls' \in {calls, calls \cup {StatusCall(o)}}
      \/ /\ open' = open \cup {t} /\ orders' = orders \ {o} /\ balWait' = balWait \ {o}
         /\ calls' = calls
  BY DEF HandleBalance, SchedulePoll, Submitted
<1>g. Following' \subseteq Following
  BY <1>f DEF Following
<1>i. \A u \in Tokens : \A p : SoleOrder(u, p)' = SoleOrder(u, p)
  BY <1>b DEF SoleOrder
<1>j. \A u \in Tokens : u # t => BothReserved(u)' = BothReserved(u)
  BY <1>e DEF BothReserved
<1>n. \A p \in Following : tok[p] = t => p = o
  BY <1>a DEF FollowInv
<1>k. \/ BothReserved(t)' /\ open' = open
      \/ open' = open \cup {t} /\ ~IsFollowed(t)'
  <2>1. CASE open' = open \cup {t} /\ orders' = orders \ {o} /\ balWait' = balWait \ {o}
    <3>1. ASSUME NEW p \in Following', tok'[p] = t PROVE FALSE
      <4>1. p \in Following /\ p # o
        BY <2>1, <3>1 DEF Following
      <4> QED BY <1>b, <1>n, <3>1, <4>1
    <3>2. ~IsFollowed(t)'
      BY <1>b, <3>1 DEF IsFollowed
    <3> QED BY <1>b, <2>1, <3>2
  <2> QED BY <2>1, <1>b, <1>c, <1>f DEF BothReserved
<1>l. \A u \in Tokens : IsFollowed(u)' => IsFollowed(u) /\ BothReserved(u)' /\ u \notin open'
  BY <1>b, <1>c, <1>g, <1>j, <1>k DEF IsFollowed, FollowInv
<1>1. TypeOK'
  <2>1. res' \in [Tokens -> ResStates] /\ dbRes' \in [Tokens -> ResStates]
    BY StatusType DEF HandleBalance, ReleaseReservation, TypeOK
  <2>2. calls' \in SUBSET Calls /\ orders' \in SUBSET Orders /\ balWait' \in SUBSET Orders /\ open' \in SUBSET Tokens
    BY <1>a, <1>c, <1>f, CallType DEF TypeOK
  <2> QED BY <1>b, <2>1, <2>2 DEF TypeOK
<1>2. UnusedOrders'
  BY <1>b DEF UnusedOrders
<1>3. BridgeInv'
  BY <1>b, <1>d, <1>j, <1>k, <1>l DEF BridgeInv
<1>4. UnsentInv'
  BY <1>b DEF UnsentInv, AtProvider
<1>5. SentInv'
  <2>1. ASSUME NEW u \in Tokens, buy[u].phase = "sent" \/ Returned(u) PROVE buy[u].order # o
    BY <1>d, <2>1 DEF SentInv, SoleOrder, Returned
  <2>2. \A c \in calls' : c \in calls \/ c.order = o
    BY <1>f, <1>h
  <2>3. \A u \in Tokens : Sending(u)' = Sending(u) /\ Returned(u)' = Returned(u)
    BY <1>b DEF Sending, Returned
  <2> QED BY <1>b, <1>i, <2>1, <2>2, <2>3 DEF SentInv
<1>6. FollowInv'
  <2>1. ASSUME NEW p \in Following' PROVE BothReserved(tok[p])' /\ tok[p] \notin open'
    BY <1>b, <1>g, <1>l, <2>1 DEF FollowInv, IsFollowed
  <2> QED BY <1>b, <1>g, <1>i, <2>1 DEF FollowInv
<1>7. JournalInv'
  <2>1. ASSUME NEW u \in Tokens, Reconnectable(journal[u]) PROVE BothReserved(u)' /\ u \notin open' /\ journal[u].order # NoOrder
    BY <1>j, <1>k, <1>m, <2>1 DEF JournalInv, Reconnectable
  <2> QED BY <1>b, <1>g, <1>i, <2>1 DEF JournalInv, Returned
<1>8. AnswerInv'
  <2>1. \A p : Closed(p)' = Closed(p)
    BY <1>b DEF Closed
  <2>3. \A c \in calls' : fate[c.order] # "unused" /\ (c.kind = "balance" => fate[c.order] = "filled" /\ Closed(c.order))
    BY <1>f, <1>h, <1>m DEF AnswerInv
  <2>4. \A p \in balWait' : fate[p] = "filled" /\ Closed(p)
    BY <1>f DEF AnswerInv
  <2> QED BY <1>b, <2>1, <2>3, <2>4 DEF AnswerInv
<1>9. OpenInv'
  BY <1>b, <1>k, <1>m DEF OpenInv, AtProvider
<1>10. BackedInv'
  BY <1>b, <1>c, <1>j, <1>k DEF BackedInv, AtProvider
<1> QED BY <1>1, <1>2, <1>3, <1>4, <1>5, <1>6, <1>7, <1>8, <1>9, <1>10

\* Ignoring an answer changes nothing.
LEMMA DropAnswerKeeps ==
    ASSUME ReservationReadMayFail = FALSE, IInv, NEW e \in batch, DropAnswer(e)
    PROVE  IInv'
<1> USE EntryAssumption DEF IInv, durable, memory, bridge, world
<1>1. TypeOK' /\ UnusedOrders' /\ BridgeInv' /\ UnsentInv' /\ OpenInv' /\ BackedInv'
  BY DEF DropAnswer, TypeOK, UnusedOrders, BridgeInv, BothReserved, IsFollowed, Following,
         UnsentInv, AtProvider, Reconnectable, ActiveJournal, OpenInv, BackedInv, Take
<1>5. SentInv' /\ FollowInv' /\ JournalInv' /\ AnswerInv'
  BY DEF DropAnswer, TypeOK, SentInv, Sending, Returned, SoleOrder, FollowInv, Following,
         BothReserved, JournalInv, Reconnectable, ActiveJournal, AnswerInv, Closed, Take
<1> QED BY <1>1, <1>5

\* A second claim finds an active row, the first one erases the order id.
LEMMA ClaimBuyKeeps ==
    ASSUME ReservationReadMayFail = FALSE, IInv, NEW t \in Tokens, ClaimBuy(t)
    PROVE  IInv'
<1> USE DEF IInv, TypeOK, ClaimBuy, durable, memory, bridge, world
<1>1. TypeOK'
  <2>1. journal' \in [Tokens -> Rows]
    BY RowType
  <2>2. journal[t].order \in Orders \cup {NoOrder}
    BY DEF Rows
  <2>3. buy' \in [Tokens -> BuyCalls]
    BY <2>2, BuyCallType DEF Answered
  <2> QED BY <2>1, <2>3
<1>2. UnusedOrders' /\ BridgeInv' /\ UnsentInv'
  BY DEF ClaimBuy, TypeOK, UnusedOrders, BridgeInv, BothReserved, IsFollowed, Following,
         UnsentInv, AtProvider, Reconnectable, ActiveJournal, Claimed, Claimable, BuyCall,
         Answered
<1>5. SentInv' /\ FollowInv'
  BY DEF ClaimBuy, TypeOK, SentInv, Sending, Returned, SoleOrder, FollowInv, Following,
         BothReserved, Claimed, Claimable, BuyCall, Answered
<1>7. JournalInv' /\ AnswerInv'
  BY DEF ClaimBuy, TypeOK, JournalInv, Reconnectable, ActiveJournal, SoleOrder, BothReserved,
         Returned, Following, AnswerInv, Closed, Claimed, Claimable, BuyCall, Answered
<1>9. OpenInv' /\ BackedInv'
  BY DEF ClaimBuy, TypeOK, OpenInv, AtProvider, BackedInv, BothReserved, Claimed, Claimable,
         BuyCall, Answered
<1> QED BY <1>1, <1>2, <1>5, <1>7, <1>9

\* A refused BUY never reached the provider.
LEMMA RefuseBuyKeeps ==
    ASSUME ReservationReadMayFail = FALSE, IInv, NEW t \in Tokens, RefuseBuy(t)
    PROVE  IInv'
<1> USE EntryAssumption DEF IInv, TypeOK, RefuseBuy, durable, memory, bridge, world
<1>1. TypeOK'
  <2>1. Updated(journal[t], "FAILED") \in Rows
    BY UpdatedType DEF JournalStates
  <2>2. Answered("definitive", NoOrder) \in BuyCalls
    BY BuyCallType DEF Answered
  <2> QED BY <2>1, <2>2
<1>2. UnusedOrders' /\ BridgeInv' /\ UnsentInv'
  BY DEF RefuseBuy, TypeOK, UnusedOrders, BridgeInv, BothReserved, IsFollowed, Following,
         UnsentInv, AtProvider, Reconnectable, ActiveJournal, Updated, BuyCall, Answered
<1>5. SentInv' /\ FollowInv'
  BY DEF RefuseBuy, TypeOK, SentInv, Sending, Returned, SoleOrder, FollowInv, Following,
         BothReserved, Updated, BuyCall, Answered
<1>7. JournalInv'
  <2>1. journal'[t].order = NoOrder
    BY DEF SentInv, Sending, Updated
  <2>2. ASSUME NEW u \in Tokens, u # t PROVE journal'[u] = journal[u] /\ buy'[u] = buy[u]
    BY <2>2
  <2> QED BY <2>1, <2>2 DEF JournalInv, SoleOrder, BothReserved, Returned, Following
<1>8. AnswerInv'
  BY DEF RefuseBuy, TypeOK, AnswerInv, Closed, Reconnectable, ActiveJournal, Updated, BuyCall,
         Answered
<1>9. OpenInv' /\ BackedInv'
  BY DEF RefuseBuy, TypeOK, OpenInv, AtProvider, BackedInv, BothReserved, Updated, BuyCall,
         Answered
<1> QED BY <1>1, <1>2, <1>5, <1>7, <1>8, <1>9

\* The order placed is the first of its token.
LEMMA PlaceBuyKeeps ==
    ASSUME ReservationReadMayFail = FALSE, IInv, NEW t \in Tokens, PlaceBuy(t)
    PROVE  IInv'
<1> USE EntryAssumption DEF IInv, TypeOK, durable, memory, bridge, world
<1>a. PICK o \in Orders :
         /\ fate[o] = "unused"
         /\ fate' = [fate EXCEPT ![o] = "placed"]
         /\ tok' = [tok EXCEPT ![o] = t]
         /\ buy' = [buy EXCEPT ![t] = BuyCall("sent", o, "none")]
  BY DEF PlaceBuy
<1>b. /\ buy[t].phase = "claimed" /\ t \notin held /\ ~AtProvider(t) /\ ~Reconnectable(journal[t])
      /\ t \notin open /\ ~IsFollowed(t) /\ BothReserved(t) /\ journal[t].order = NoOrder
  BY DEF PlaceBuy, UnsentInv, BridgeInv, SentInv, Sending
<1>c. /\ buy'[t].phase = "sent" /\ buy'[t].order = o
      /\ \A u \in Tokens : u # t => buy'[u] = buy[u]
      /\ \A u \in Tokens : buy'[u].phase # "idle" => buy[u].phase # "idle"
  BY <1>a, <1>b DEF BuyCall
<1>d. tok[o] = NoToken /\ \A p \in Orders : p # o => tok'[p] = tok[p] /\ fate'[p] = fate[p]
  BY <1>a DEF UnusedOrders
<1>e. tok'[o] = t /\ fate'[o] = "placed"
  BY <1>a
<1>f. UNCHANGED <<dbRes, open, journal, res, buyCtx, orders, balWait, calls, done, batch, held, restarts>>
  BY DEF PlaceBuy
<1>g. o \notin Following
  BY <1>d DEF FollowInv
<1>h. \A u \in Tokens : u # t => (AtProvider(u)' <=> AtProvider(u))
  BY <1>a, <1>d, <1>e DEF AtProvider
<1>i. \A u \in Tokens, p \in Orders : p # o /\ u # t /\ SoleOrder(u, p) => SoleOrder(u, p)'
  BY <1>d, <1>e, <1>f DEF SoleOrder
<1>j. SoleOrder(t, o)'
  BY <1>b, <1>d, <1>e, <1>f DEF SoleOrder, AtProvider
<1>1. TypeOK'
  <2>1. BuyCall("sent", o, "none") \in BuyCalls
    BY BuyCallType
  <2> QED BY <1>a, <1>f, <2>1 DEF Fates
<1>2. UnusedOrders'
  BY <1>d, <1>e DEF UnusedOrders
<1>3. BridgeInv'
  BY <1>c, <1>d, <1>e, <1>f, <1>g DEF BridgeInv, BothReserved, IsFollowed, Following
<1>4. UnsentInv'
  BY <1>c, <1>f, <1>h DEF UnsentInv
<1>5. SentInv'
  <2>1. ASSUME NEW u \in Tokens, Sending(u)' PROVE journal'[u].order = NoOrder
    BY <1>b, <1>c, <1>f, <2>1 DEF SentInv, Sending
  <2>2. ASSUME NEW u \in Tokens, (buy[u].phase = "sent" \/ Returned(u))'
        PROVE  /\ buy'[u].order \in Orders
               /\ SoleOrder(u, buy[u].order)'
               /\ \A c \in calls' : c.order # buy'[u].order
               /\ \A e \in done' \cup batch' : e.call.order # buy'[u].order
    <3>1. CASE u = t
      BY <1>a, <1>c, <1>f, <1>j, <3>1 DEF AnswerInv
    <3>2. CASE u # t
      <4>1. buy'[u] = buy[u] /\ (buy[u].phase = "sent" \/ Returned(u))
        BY <1>c, <2>2, <3>2 DEF Returned
      <4>2. buy[u].order # o
        BY <4>1, <1>a DEF SentInv, SoleOrder
      <4> QED BY <4>1, <4>2, <3>2, <1>f, <1>i DEF SentInv
    <3> QED BY <3>1, <3>2
  <2> QED BY <2>1, <2>2 DEF SentInv
<1>6. FollowInv'
  BY <1>b, <1>d, <1>f, <1>g, <1>i DEF FollowInv, BothReserved, IsFollowed, Following
<1>7. JournalInv'
  <2>1. ASSUME NEW u \in Tokens, journal[u].order # NoOrder PROVE u # t /\ journal[u].order # o /\ journal[u].order \in Orders
    BY <2>1, <1>a, <1>b DEF JournalInv, Rows
  <2> QED BY <2>1, <1>c, <1>d, <1>f, <1>g, <1>i DEF JournalInv, BothReserved, Returned, Following
<1>8. AnswerInv'
  BY <1>a, <1>d, <1>f DEF AnswerInv, Closed, Calls, Events
<1>9. OpenInv'
  BY <1>b, <1>f, <1>h DEF OpenInv
<1>10. BackedInv'
  BY <1>b, <1>f, <1>h DEF BackedInv, BothReserved
<1> QED BY <1>1, <1>2, <1>3, <1>4, <1>5, <1>6, <1>7, <1>8, <1>9, <1>10

\* The journal binds the order the worker placed, or none.
LEMMA BuyReturnsKeeps ==
    ASSUME ReservationReadMayFail = FALSE, IInv, NEW t \in Tokens, BuyReturns(t)
    PROVE  IInv'
<1> USE EntryAssumption DEF IInv, TypeOK, durable, memory, bridge, world
<1>a. /\ Sending(t) /\ journal[t].order = NoOrder /\ BothReserved(t) /\ t \notin open /\ ~IsFollowed(t)
      /\ buy[t].phase = "sent" => buy[t].order \in Orders
  BY DEF BuyReturns, Sending, SentInv, BridgeInv
<1>b. \/ /\ buy[t].phase = "sent"
         /\ journal' = [journal EXCEPT ![t] = Bound(buy[t].order)]
         /\ buy' = [buy EXCEPT ![t] = Answered("submitted", buy[t].order)]
      \/ /\ buy' = [buy EXCEPT ![t] = Answered("unknown", NoOrder)]
         /\ \E s \in {"SUBMIT_UNKNOWN", "FAILED"} : journal' = [journal EXCEPT ![t] = Updated(@, s)]
      \/ /\ buy' = [buy EXCEPT ![t] = Answered("unknown", NoOrder)]
         /\ journal' = journal
  BY DEF BuyReturns
<1>c. UNCHANGED <<dbRes, open, res, buyCtx, orders, balWait, calls, done, batch, tok, fate, held, restarts>>
  BY DEF BuyReturns
<1>d. \A u \in Tokens : u # t => journal'[u] = journal[u] /\ buy'[u] = buy[u]
  BY <1>b
<1>e. /\ buy'[t].phase = "done"
      /\ \/ /\ buy[t].phase = "sent" /\ buy'[t].result = "submitted" /\ buy'[t].order = buy[t].order
            /\ journal'[t].order = buy[t].order /\ journal'[t].state = "SUBMITTED"
         \/ buy'[t].result = "unknown" /\ journal'[t].order = NoOrder
  BY <1>a, <1>b DEF Answered, BuyCall, Bound, Updated
<1>1. TypeOK'
  <2>1. Updated(journal[t], "SUBMIT_UNKNOWN") \in Rows /\ Updated(journal[t], "FAILED") \in Rows
    BY UpdatedType DEF JournalStates, ActiveJournal
  <2>2. journal' \in [Tokens -> Rows]
    BY <1>a, <1>b, <2>1, RowType
  <2>3. Answered("unknown", NoOrder) \in BuyCalls
    BY BuyCallType DEF Answered
  <2>4. buy[t].phase = "sent" => Answered("submitted", buy[t].order) \in BuyCalls
    BY <1>a, BuyCallType DEF Answered
  <2>5. buy' \in [Tokens -> BuyCalls]
    BY <1>a, <1>b, <2>3, <2>4
  <2> QED BY <1>c, <2>2, <2>5
<1>2. UnusedOrders' /\ BridgeInv' /\ UnsentInv' /\ OpenInv' /\ BackedInv'
  BY DEF BuyReturns, TypeOK, UnusedOrders, BridgeInv, BothReserved, IsFollowed, Following,
         UnsentInv, AtProvider, Reconnectable, ActiveJournal, OpenInv, BackedInv, BuyCall,
         Answered, Bound, Updated
<1>5. SentInv' /\ FollowInv'
  BY DEF BuyReturns, TypeOK, SentInv, Sending, Returned, SoleOrder, FollowInv, Following,
         BothReserved, BuyCall, Answered, Bound, Updated
<1>7. JournalInv'
  <2>1. ASSUME NEW u \in Tokens, u # t, journal'[u].order # NoOrder
        PROVE  /\ tok'[journal'[u].order] = u
               /\ fate'[journal'[u].order] # "unused"
               /\ Reconnectable(journal[u])' =>
                    /\ SoleOrder(u, journal[u].order)'
                    /\ u \notin open'
                    /\ BothReserved(u)'
                    /\ Returned(u)' => buy'[u].order = journal'[u].order
                    /\ \A o \in Following' : tok'[o] = u => o = journal'[u].order
               /\ ~Reconnectable(journal[u])' => fate'[journal'[u].order] # "placed"
    BY <1>c, <1>d, <2>1 DEF JournalInv, SoleOrder, BothReserved, Returned, Following
  <2>2. ASSUME journal'[t].order # NoOrder
        PROVE  /\ tok'[journal'[t].order] = t
               /\ fate'[journal'[t].order] # "unused"
               /\ SoleOrder(t, journal[t].order)'
               /\ t \notin open'
               /\ BothReserved(t)'
               /\ Returned(t)' => buy'[t].order = journal'[t].order
               /\ \A o \in Following' : tok'[o] # t
               /\ Reconnectable(journal[t])'
    <3>0. buy[t].phase = "sent"
      BY <1>e, <2>2
    <3>1. SoleOrder(t, buy[t].order)
      BY <3>0 DEF SentInv
    <3> QED BY <1>a, <1>c, <1>e, <2>2, <3>0, <3>1 DEF SoleOrder, BothReserved, Returned, Following, IsFollowed, Reconnectable, ActiveJournal
  <2> QED BY <2>1, <2>2 DEF JournalInv
<1>8. AnswerInv'
  <2>1. ASSUME NEW p \in Orders, Closed(p), p # buy[t].order \/ buy[t].phase # "sent" PROVE Closed(p)'
    BY <1>a, <1>c, <1>d, <1>e, <2>1 DEF Closed
  <2>2. \A p \in balWait : p # buy[t].order \/ buy[t].phase # "sent"
    BY <1>a DEF SentInv, SoleOrder, IsFollowed, Following
  <2>3. ASSUME NEW c \in calls' PROVE fate'[c.order] # "unused" /\ (c.kind = "balance" => fate'[c.order] = "filled" /\ Closed(c.order)')
    BY <1>c, <2>1 DEF AnswerInv, SentInv, Calls
  <2>4. ASSUME NEW e \in done' \cup batch'
        PROVE  /\ fate'[e.call.order] # "unused"
               /\ e.result = "SWAP_FAILED" => fate'[e.call.order] = "failed" /\ Closed(e.call.order)'
               /\ e.result = "SWAP_CONFIRMED" => fate'[e.call.order] = "filled" /\ Closed(e.call.order)'
    <3>1. e \in done \cup batch /\ e.call.order \in Orders
      BY <1>c, EventType
    <3> QED BY <1>c, <2>1, <3>1 DEF AnswerInv, SentInv
  <2> QED BY <1>c, <2>1, <2>2, <2>3, <2>4 DEF AnswerInv
<1> QED BY <1>1, <1>2, <1>5, <1>7, <1>8

\* The journal row closes only when the provider settled its order.
LEMMA AnswerStatusKeeps ==
    ASSUME ReservationReadMayFail = FALSE, IInv, NEW o \in Orders, AnswerStatus(o)
    PROVE  IInv'
<1> USE EntryAssumption DEF IInv, TypeOK, durable, memory, bridge, world
<1>a. tok[o] \in Tokens /\ fate[o] # "unused"
  BY DEF AnswerStatus, AnswerInv, UnusedOrders, StatusCall
<1>b. PICK s \in {"PENDING", "CONFIRMED", "FAILED"}, r \in Results :
         /\ journal' = [journal EXCEPT ![tok[o]] = UpdatedByOrder(@, o, s)]
         /\ calls' = calls \ {StatusCall(o)}
         /\ done' = done \cup {[call |-> StatusCall(o), result |-> r]}
         /\ \/ s = "PENDING" /\ r = "SWAP_PENDING" /\ fate[o] = "placed"
            \/ s = "CONFIRMED" /\ r = "SWAP_CONFIRMED" /\ fate[o] = "filled"
            \/ s = "FAILED" /\ r = "SWAP_FAILED" /\ fate[o] = "failed"
  BY DEF AnswerStatus, Answer, Results
<1>1. TypeOK'
  <2>1. s \in JournalStates
    BY DEF JournalStates, ActiveJournal
  <2>2. UpdatedByOrder(journal[tok[o]], o, s) \in Rows
    BY <2>1, <1>a, UpdatedType DEF UpdatedByOrder
  <2>3. journal' \in [Tokens -> Rows]
    BY <1>b, <2>2, <1>a
  <2>4. [call |-> StatusCall(o), result |-> r] \in Events
    BY <1>b, CallType DEF Events
  <2> QED BY <1>b, <2>3, <2>4 DEF AnswerStatus
<1>2. UnusedOrders' /\ BridgeInv' /\ UnsentInv' /\ OpenInv' /\ BackedInv'
  BY DEF AnswerStatus, TypeOK, UnusedOrders, BridgeInv, BothReserved, IsFollowed, Following,
         UnsentInv, AtProvider, Reconnectable, ActiveJournal, OpenInv, BackedInv, Answer,
         StatusCall, UpdatedByOrder, Updated
<1>5. SentInv' /\ FollowInv' /\ JournalInv'
  BY DEF AnswerStatus, TypeOK, SentInv, Sending, Returned, SoleOrder, FollowInv, Following,
         BothReserved, JournalInv, Reconnectable, ActiveJournal, Answer, StatusCall,
         UpdatedByOrder, Updated
<1>8. AnswerInv'
  <2>1. ASSUME NEW p \in Orders, Closed(p) PROVE Closed(p)'
    BY <1>a, <1>b, <2>1 DEF Closed, AnswerStatus, JournalInv, UpdatedByOrder, Updated, Reconnectable, ActiveJournal
  <2>2. s # "PENDING" => Closed(o)'
    BY <1>a, <1>b DEF Closed, AnswerStatus, UpdatedByOrder, Updated, Reconnectable, ActiveJournal, Rows
  <2>3. \A c \in calls' : fate'[c.order] # "unused" /\ (c.kind = "balance" => fate'[c.order] = "filled" /\ Closed(c.order)')
    BY <1>b, <2>1 DEF AnswerStatus, AnswerInv, Calls
  <2>4. ASSUME NEW e \in done' \cup batch'
        PROVE  /\ fate'[e.call.order] # "unused"
               /\ e.result = "SWAP_FAILED" => fate'[e.call.order] = "failed" /\ Closed(e.call.order)'
               /\ e.result = "SWAP_CONFIRMED" => fate'[e.call.order] = "filled" /\ Closed(e.call.order)'
    <3>1. CASE e \in done \cup batch
      <4>1. e.call.order \in Orders
        BY <3>1, EventType
      <4> QED BY <3>1, <4>1, <2>1 DEF AnswerStatus, AnswerInv
    <3>2. CASE e = [call |-> StatusCall(o), result |-> r]
      BY <3>2, <1>a, <1>b, <2>2 DEF AnswerStatus, StatusCall
    <3> QED BY <3>1, <3>2, <1>b DEF AnswerStatus
  <2>5. \A p \in balWait' : fate'[p] = "filled" /\ Closed(p)'
    BY <2>1 DEF AnswerStatus, AnswerInv
  <2> QED BY <2>3, <2>4, <2>5 DEF AnswerInv
<1> QED BY <1>1, <1>2, <1>5, <1>8

\* An answer that says nothing is always true.
LEMMA LoseStatusKeeps ==
    ASSUME ReservationReadMayFail = FALSE, IInv, NEW o \in Orders, LoseStatus(o)
    PROVE  IInv'
<1> USE DEF IInv, TypeOK, LoseStatus, durable, memory, bridge, world
<1>1. TypeOK'
  <2>1. [call |-> StatusCall(o), result |-> "SWAP_UNKNOWN"] \in Events
    BY CallType DEF Events, Results
  <2> QED BY <2>1 DEF Answer
<1>2. UnusedOrders' /\ BridgeInv' /\ UnsentInv' /\ OpenInv' /\ BackedInv'
  BY DEF LoseStatus, TypeOK, UnusedOrders, BridgeInv, BothReserved, IsFollowed, Following,
         UnsentInv, AtProvider, Reconnectable, ActiveJournal, OpenInv, BackedInv, Answer,
         StatusCall
<1>5. SentInv' /\ FollowInv' /\ JournalInv' /\ AnswerInv'
  BY DEF LoseStatus, TypeOK, SentInv, Sending, Returned, SoleOrder, FollowInv, Following,
         BothReserved, JournalInv, Reconnectable, ActiveJournal, AnswerInv, Closed, Answer,
         StatusCall
<1> QED BY <1>1, <1>2, <1>5

\* A quantity is reported only for a filled order.
LEMMA AnswerBalanceKeeps ==
    ASSUME ReservationReadMayFail = FALSE, IInv, NEW o \in Orders, AnswerBalance(o)
    PROVE  IInv'
<1> USE DEF IInv, TypeOK, AnswerBalance, durable, memory, bridge, world
<1>1. TypeOK'
  <2>1. [call |-> BalanceCall(o), result |-> "quantity"] \in Events
    BY CallType DEF Events, Results
  <2> QED BY <2>1 DEF Answer
<1>2. UnusedOrders' /\ BridgeInv' /\ UnsentInv' /\ OpenInv' /\ BackedInv'
  BY DEF AnswerBalance, TypeOK, UnusedOrders, BridgeInv, BothReserved, IsFollowed, Following,
         UnsentInv, AtProvider, Reconnectable, ActiveJournal, OpenInv, BackedInv, Answer,
         BalanceCall
<1>5. SentInv' /\ FollowInv' /\ JournalInv' /\ AnswerInv'
  BY DEF AnswerBalance, TypeOK, SentInv, Sending, Returned, SoleOrder, FollowInv, Following,
         BothReserved, JournalInv, Reconnectable, ActiveJournal, AnswerInv, Closed, Answer,
         BalanceCall
<1> QED BY <1>1, <1>2, <1>5

\* An answer that says nothing is always true.
LEMMA LoseBalanceKeeps ==
    ASSUME ReservationReadMayFail = FALSE, IInv, NEW o \in Orders, LoseBalance(o)
    PROVE  IInv'
<1> USE EntryAssumption DEF IInv, TypeOK, LoseBalance, durable, memory, bridge, world
<1> DEFINE e == [call |-> BalanceCall(o), result |-> "no quantity"]
<1>f. calls' = calls \ {BalanceCall(o)} /\ done' = done \cup {e}
  BY DEF Answer
<1>g. BalanceCall(o) \in calls /\ e.call = BalanceCall(o) /\ e.call.order = o /\ e.result = "no quantity"
  BY DEF BalanceCall
<1>h. e \in Events
  BY CallType DEF Events, Results
<1> HIDE DEF e
<1>1. TypeOK'
  BY <1>f, <1>h
<1>2. UnusedOrders' /\ BridgeInv' /\ UnsentInv' /\ OpenInv' /\ BackedInv'
  BY DEF LoseBalance, TypeOK, UnusedOrders, BridgeInv, BothReserved, IsFollowed, Following,
         UnsentInv, AtProvider, Reconnectable, ActiveJournal, OpenInv, BackedInv, Answer,
         BalanceCall
<1>5. SentInv'
  <2>1. ASSUME NEW t \in Tokens, buy[t].phase = "sent" \/ Returned(t) PROVE buy[t].order # o
    <3>1. \A c \in calls : c.order # buy[t].order
      BY <2>1 DEF SentInv
    <3>2. BalanceCall(o) \in calls
      BY <1>g
    <3>3. BalanceCall(o).order # buy[t].order
      BY <3>1, <3>2, Zenon
    <3>4. BalanceCall(o).order = o
      BY <1>g
    <3> QED BY <3>3, <3>4, Zenon
  <2>2. UNCHANGED <<buy, journal, calls, batch, tok, fate, held>> \/ (UNCHANGED <<buy, journal, batch, tok, fate, held>> /\ calls' \subseteq calls)
    BY <1>f
  <2>3. \A u \in Tokens : \A p : SoleOrder(u, p)' = SoleOrder(u, p)
    BY <2>2 DEF SoleOrder
  <2>4. \A d \in done' \cup batch' : d \in done \cup batch \/ d.call.order = o
    BY <1>f, <1>g, <2>2
  <2> QED BY <2>1, <2>2, <2>3, <2>4 DEF SentInv, Sending, Returned
<1>6. FollowInv'
  BY DEF LoseBalance, TypeOK, FollowInv, Following, SoleOrder, BothReserved, Answer,
         BalanceCall
<1>7. JournalInv'
  BY DEF JournalInv, SoleOrder, BothReserved, Returned, Following
<1>8. AnswerInv'
  BY <1>f, <1>g DEF AnswerInv, Closed, BalanceCall
<1> QED BY <1>1, <1>2, <1>5, <1>6, <1>7, <1>8

\* Tokens arrive for an order that is reserved.
LEMMA FillKeeps ==
    ASSUME ReservationReadMayFail = FALSE, IInv, NEW o \in Orders, Fill(o)
    PROVE  IInv'
<1> USE DEF IInv, TypeOK, Fill, durable, memory, bridge, world
<1>1. TypeOK'
  <2>1. tok[o] \in Tokens
    BY DEF UnusedOrders
  <2> QED BY <2>1 DEF Fates
<1>2. UnusedOrders' /\ BridgeInv' /\ UnsentInv'
  BY DEF Fill, TypeOK, UnusedOrders, BridgeInv, BothReserved, IsFollowed, Following,
         UnsentInv, AtProvider, Reconnectable, ActiveJournal
<1>5. SentInv' /\ FollowInv'
  BY DEF Fill, TypeOK, SentInv, Sending, Returned, SoleOrder, FollowInv, Following,
         BothReserved
<1>7. JournalInv' /\ AnswerInv'
  BY DEF Fill, TypeOK, JournalInv, Reconnectable, ActiveJournal, SoleOrder, BothReserved,
         Returned, Following, AnswerInv, Closed
<1>9. OpenInv' /\ BackedInv'
  BY DEF Fill, TypeOK, OpenInv, AtProvider, BackedInv, BothReserved
<1> QED BY <1>1, <1>2, <1>5, <1>7, <1>9

\* A rejected order leaves nothing behind.
LEMMA RejectKeeps ==
    ASSUME ReservationReadMayFail = FALSE, IInv, NEW o \in Orders, Reject(o)
    PROVE  IInv'
<1> USE DEF IInv, TypeOK, Reject, durable, memory, bridge, world
<1>1. TypeOK'
  BY DEF Fates
<1>2. UnusedOrders' /\ BridgeInv' /\ UnsentInv'
  BY DEF Reject, TypeOK, UnusedOrders, BridgeInv, BothReserved, IsFollowed, Following,
         UnsentInv, AtProvider, Reconnectable, ActiveJournal
<1>5. SentInv' /\ FollowInv'
  BY DEF Reject, TypeOK, SentInv, Sending, Returned, SoleOrder, FollowInv, Following,
         BothReserved
<1>7. JournalInv' /\ AnswerInv'
  BY DEF Reject, TypeOK, JournalInv, Reconnectable, ActiveJournal, SoleOrder, BothReserved,
         Returned, Following, AnswerInv, Closed
<1>9. OpenInv' /\ BackedInv'
  BY DEF Reject, TypeOK, OpenInv, AtProvider, BackedInv, BothReserved
<1> QED BY <1>1, <1>2, <1>5, <1>7, <1>9

\* Tokens that leave the wallet take no backing with them.
LEMMA TokensLeaveKeeps ==
    ASSUME ReservationReadMayFail = FALSE, IInv, NEW t \in Tokens, TokensLeave(t)
    PROVE  IInv'
<1> USE EntryAssumption DEF IInv, durable, memory, bridge, world
<1>1. TypeOK' /\ UnusedOrders' /\ BridgeInv' /\ UnsentInv' /\ OpenInv' /\ BackedInv'
  BY DEF TokensLeave, TypeOK, UnusedOrders, BridgeInv, BothReserved, IsFollowed, Following,
         UnsentInv, AtProvider, Reconnectable, ActiveJournal, OpenInv, BackedInv
<1>5. SentInv' /\ FollowInv' /\ JournalInv' /\ AnswerInv'
  BY DEF TokensLeave, TypeOK, SentInv, Sending, Returned, SoleOrder, FollowInv, Following,
         BothReserved, JournalInv, Reconnectable, ActiveJournal, AnswerInv, Closed
<1> QED BY <1>1, <1>5

\* What a restart rebuilds from the two databases, given the OPEN rows it finds.
LEMMA RestartFromKeeps ==
    ASSUME ReservationReadMayFail = FALSE, IInv,
           NEW rows \in SUBSET Tokens,
           \A t \in rows : ~AtProvider(t) /\ ~Reconnectable(journal[t]),
           open \subseteq rows, RestartFrom(rows, dbRes)
    PROVE  IInv'
<1> USE EntryAssumption DEF IInv, durable, memory, bridge, world
<1>a. /\ UNCHANGED <<journal, tok, fate, held>>
      /\ balWait' = {} /\ calls' = {} /\ done' = {} /\ batch' = {}
      /\ buy' = [t \in Tokens |-> Idle]
      /\ restarts' = restarts + 1 /\ restarts < MaxRestarts
  BY DEF RestartFrom
<1>b. /\ open' \subseteq rows /\ \A t \in rows : t \in held => t \in open'
  BY DEF RestartFrom
<1>c. \A t \in Tokens : dbRes[t] \in ActiveStates => BothReserved(t)'
  BY StatusType DEF RestartFrom, BothReserved, TypeOK
<1>d. \A o \in orders' : \E t \in Tokens : Reconnectable(journal[t]) /\ o = journal[t].order
  BY DEF RestartFrom
<1>e. \A t \in Tokens : buy'[t].phase = "idle"
  BY <1>a DEF Idle, BuyCall
<1>f. \A t \in Tokens : \A p : SoleOrder(t, p)' = SoleOrder(t, p)
  BY <1>a DEF SoleOrder
<1>g. \A t \in Tokens : Reconnectable(journal[t]) =>
        /\ journal[t].order \in Orders
        /\ tok[journal[t].order] = t
        /\ SoleOrder(t, journal[t].order)
        /\ t \notin open'
        /\ BothReserved(t)'
  BY <1>b, <1>c DEF JournalInv, Reconnectable, BothReserved, TypeOK, Rows
<1>h. Following' = orders'
  BY <1>a DEF Following
<1>1. TypeOK'
  <2>1. res' \in [Tokens -> ResStates] /\ dbRes' \in [Tokens -> ResStates] /\ buyCtx' \in SUBSET Tokens
    BY StatusType DEF RestartFrom, TypeOK
  <2>2. orders' \in SUBSET Orders
    BY <1>d, <1>g
  <2>3. buy' \in [Tokens -> BuyCalls]
    BY <1>a, BuyCallType DEF Idle
  <2>4. restarts' \in 0..MaxRestarts
    BY <1>a DEF TypeOK
  <2> QED BY <1>a, <1>b, <2>1, <2>2, <2>3, <2>4 DEF TypeOK
<1>2. UnusedOrders'
  BY <1>a DEF UnusedOrders
<1>3. BridgeInv'
  BY <1>e DEF BridgeInv
<1>4. UnsentInv'
  BY <1>e DEF UnsentInv
<1>5. SentInv'
  BY <1>e DEF SentInv, Sending, Returned
<1>6. FollowInv'
  BY <1>a, <1>d, <1>f, <1>g, <1>h DEF FollowInv
<1>7. JournalInv'
  <2>1. \A t \in Tokens : ~Returned(t)'
    BY <1>e DEF Returned
  <2>2. ASSUME NEW t \in Tokens, Reconnectable(journal[t]), NEW o \in Following', tok[o] = t
        PROVE  o = journal[t].order
    BY <1>d, <1>g, <1>h, <2>2
  <2> QED BY <1>a, <1>f, <1>g, <2>1, <2>2 DEF JournalInv
<1>8. AnswerInv'
  BY <1>a DEF AnswerInv
<1>9. OpenInv'
  BY <1>a, <1>b DEF OpenInv, AtProvider
<1>10. BackedInv'
  BY <1>a, <1>b, <1>c DEF BackedInv, AtProvider, BothReserved, OpenInv
<1> QED BY <1>1, <1>2, <1>3, <1>4, <1>5, <1>6, <1>7, <1>8, <1>9, <1>10

\* A death between two handlers.
LEMMA RestartKeeps ==
    ASSUME ReservationReadMayFail = FALSE, IInv, Restart PROVE IInv'
<1>1. \A t \in open : ~AtProvider(t) /\ ~Reconnectable(journal[t])
  BY DEF IInv, TypeOK, OpenInv, JournalInv, Reconnectable
<1> QED BY <1>1, RestartFromKeeps DEF Restart, IInv, TypeOK

\* A death between the position's INSERT and the end of its reservation: the
\* order has filled and its journal row is closed, so nothing reconnects it.
LEMMA RestartAfterInsertKeeps ==
    ASSUME ReservationReadMayFail = FALSE, IInv,
           NEW e \in batch, RestartAfterInsert(e)
    PROVE  IInv'
<1> DEFINE o == e.call.order
           t == tok[o]
<1>1. o \in Following /\ t \in Tokens /\ SoleOrder(t, o)
  BY DEF RestartAfterInsert, Following, IInv, FollowInv
<1>2. ~AtProvider(t) /\ ~Reconnectable(journal[t])
  BY <1>1 DEF RestartAfterInsert, IInv, AnswerInv, SoleOrder, AtProvider, Closed, JournalInv, Reconnectable
<1>3. \A u \in open : ~AtProvider(u) /\ ~Reconnectable(journal[u])
  BY DEF IInv, TypeOK, OpenInv, JournalInv, Reconnectable
<1>4. RestartFrom(open \cup {t}, dbRes)
  BY DEF RestartAfterInsert
<1>5. open \cup {t} \in SUBSET Tokens
  BY <1>1 DEF IInv, TypeOK
<1> HIDE DEF t, o
<1> QED BY <1>2, <1>3, <1>4, <1>5, RestartFromKeeps
-----------------------------------------------------------------------------
\* Nothing is going on at the first start.
LEMMA InitInv == Init => IInv
<1> SUFFICES ASSUME Init PROVE IInv
  OBVIOUS
<1> USE EntryAssumption DEF Init
<1>a. Following = {} /\ \A t \in Tokens : buy[t].phase = "idle" /\ journal[t].order = NoOrder
  BY DEF Following, Idle, BuyCall, NoRow
<1>b. \A t \in Tokens : ~AtProvider(t)
  BY DEF AtProvider
<1>1. TypeOK
  <2>1. Idle \in BuyCalls
    BY BuyCallType DEF Idle
  <2> QED BY <2>1, RowType, StatusType DEF TypeOK, Fates
<1>2. UnusedOrders
  BY DEF UnusedOrders
<1>3. BridgeInv /\ UnsentInv
  BY <1>a DEF BridgeInv, UnsentInv
<1>4. SentInv
  BY <1>a DEF SentInv, Sending, Returned
<1>5. FollowInv /\ AnswerInv
  BY <1>a DEF FollowInv, AnswerInv
<1>6. JournalInv
  BY <1>a DEF JournalInv
<1>7. OpenInv /\ BackedInv
  BY <1>b DEF OpenInv, BackedInv
<1> QED BY <1>1, <1>2, <1>3, <1>4, <1>5, <1>6, <1>7 DEF IInv

\* Every step of the system preserves the invariant.
LEMMA StepInv == ReservationReadMayFail = FALSE /\ IInv /\ [Next]_vars => IInv'
<1> SUFFICES ASSUME ReservationReadMayFail = FALSE, IInv, [Next]_vars PROVE IInv'
  OBVIOUS
<1>1. CASE Poll
  BY <1>1, PollKeeps
<1>2. CASE ReconcileWallet
  BY <1>2, ReconcileWalletKeeps
<1>3. ASSUME NEW t \in Tokens, TryBuy(t) \/ HandleBuy(t) PROVE IInv'
  BY <1>3, TryBuyKeeps, HandleBuyKeeps
<1>4. ASSUME NEW o \in Orders, PollOrder(o) PROVE IInv'
  BY <1>4, PollOrderKeeps
<1>5. ASSUME NEW e \in batch, HandleStatus(e) \/ HandleBalance(e) \/ DropAnswer(e) PROVE IInv'
  BY <1>5, HandleStatusKeeps, HandleBalanceKeeps, DropAnswerKeeps
<1>6. ASSUME NEW t \in Tokens, ClaimBuy(t) \/ RefuseBuy(t) \/ PlaceBuy(t) \/ BuyReturns(t) PROVE IInv'
  BY <1>6, ClaimBuyKeeps, RefuseBuyKeeps, PlaceBuyKeeps, BuyReturnsKeeps
<1>7. ASSUME NEW o \in Orders, AnswerStatus(o) \/ LoseStatus(o) \/ AnswerBalance(o) \/ LoseBalance(o) PROVE IInv'
  BY <1>7, AnswerStatusKeeps, LoseStatusKeeps, AnswerBalanceKeeps, LoseBalanceKeeps
<1>8. ASSUME NEW o \in Orders, Fill(o) \/ Reject(o) PROVE IInv'
  BY <1>8, FillKeeps, RejectKeeps
<1>9. ASSUME NEW t \in Tokens, TokensLeave(t) PROVE IInv'
  BY <1>9, TokensLeaveKeeps
<1>10. CASE Restart
  BY <1>10, RestartKeeps
<1>11. ASSUME NEW e \in batch, RestartAfterInsert(e) PROVE IInv'
  BY <1>11, RestartAfterInsertKeeps
<1>12. CASE UNCHANGED vars
  <2> USE <1>12 DEF vars, durable, memory, bridge, world
  <2>1. TypeOK' /\ UnusedOrders' /\ OpenInv' /\ BackedInv'
    BY DEF IInv, TypeOK, UnusedOrders, OpenInv, BackedInv, AtProvider, BothReserved
  <2>2. BridgeInv' /\ UnsentInv' /\ SentInv'
    BY DEF IInv, BridgeInv, UnsentInv, SentInv, AtProvider, BothReserved, IsFollowed, Following, Sending, Returned, SoleOrder
  <2>3. FollowInv' /\ JournalInv' /\ AnswerInv'
    BY DEF IInv, FollowInv, JournalInv, AnswerInv, Following, SoleOrder, BothReserved, Returned, Closed
  <2> QED BY <2>1, <2>2, <2>3 DEF IInv
<1> QED
  BY <1>1, <1>2, <1>3, <1>4, <1>5, <1>6, <1>7, <1>8, <1>9, <1>10, <1>11, <1>12
  DEF Next, Owner, Worker, World, Death

\* The inductive invariant holds whatever writes fail, answers get lost and
\* wherever the process dies, if the reservations can be read at every start.
THEOREM Invariance ==
    ASSUME ReservationReadMayFail = FALSE
    PROVE  Spec => []IInv
<1>1. Init => IInv
  BY InitInv
<1>2. IInv /\ [Next]_vars => IInv'
  BY StepInv
<1> QED BY <1>1, <1>2, PTL DEF Spec

\* Every variable keeps to the values its handlers build.
THEOREM TypeCorrect ==
    ASSUME ReservationReadMayFail = FALSE
    PROVE  Spec => []TypeOK
<1>1. IInv => TypeOK
  BY DEF IInv
<1>0. Spec => []IInv
  BY Invariance
<1> QED BY <1>1, <1>0, PTL

\* What the wallet holds, or the provider may still fill, is in the runtime
\* database as a position or as an active reservation, at every instant.
THEOREM Accounted ==
    ASSUME ReservationReadMayFail = FALSE
    PROVE  Spec => []NothingUnaccounted
<1>1. IInv => NothingUnaccounted
  BY DEF IInv, BackedInv, NothingUnaccounted, BothReserved
<1>0. Spec => []IInv
  BY Invariance
<1> QED BY <1>1, <1>0, PTL

\* No two orders of a token are ever open at the provider: the worker that
\* places one holds the token's only claim.
THEOREM SingleOrder ==
    ASSUME ReservationReadMayFail = FALSE
    PROVE  Spec => []OneOrderPerToken
<1>1. Init => OneOrderPerToken
  BY DEF Init, OneOrderPerToken
<1>2. IInv /\ OneOrderPerToken /\ [Next]_vars => OneOrderPerToken'
  <2> SUFFICES ASSUME IInv, OneOrderPerToken, [Next]_vars PROVE OneOrderPerToken'
    OBVIOUS
  <2>1. ASSUME NEW t \in Tokens, PlaceBuy(t) PROVE OneOrderPerToken'
    <3>1. ~AtProvider(t)
      BY <2>1 DEF PlaceBuy, IInv, UnsentInv
    <3> QED BY <2>1, <3>1 DEF PlaceBuy, IInv, TypeOK, AtProvider, OneOrderPerToken
  <2>2. ASSUME NEW o \in Orders, Fill(o) \/ Reject(o) PROVE OneOrderPerToken'
    BY <2>2 DEF Fill, Reject, IInv, TypeOK, OneOrderPerToken
  <2>3. CASE UNCHANGED <<tok, fate>>
    BY <2>3 DEF OneOrderPerToken
  <2> QED
    BY <2>1, <2>2, <2>3
    DEF Next, Owner, Worker, World, Death, Poll, ReconcileWallet, TryBuy, HandleBuy, PollOrder,
        HandleStatus, HandleBalance, DropAnswer, ClaimBuy, RefuseBuy, BuyReturns, AnswerStatus,
        LoseStatus, AnswerBalance, LoseBalance, TokensLeave, Restart, RestartAfterInsert,
        RestartFrom, vars, world
<1>0. Spec => []IInv
  BY Invariance
<1> QED BY <1>1, <1>2, <1>0, PTL DEF Spec

\* An order reaches the provider only for a token nothing is at stake on.
THEOREM FreshEntry ==
    ASSUME ReservationReadMayFail = FALSE
    PROVE  Spec => NoSecondEntry
<1> DEFINE Fresh == \A o \in Orders : fate[o] = "unused" /\ fate'[o] = "placed" =>
                      LET t == tok'[o] IN t \notin open \cup held /\ ~AtProvider(t)
<1>1. IInv /\ [Next]_vars => [Fresh]_vars
  <2> SUFFICES ASSUME IInv, [Next]_vars PROVE Fresh
    OBVIOUS
  <2>1. ASSUME NEW t \in Tokens, PlaceBuy(t) PROVE Fresh
    <3>1. t \notin open \cup held /\ ~AtProvider(t)
      BY <2>1 DEF PlaceBuy, IInv, UnsentInv, BridgeInv
    <3> QED BY <2>1, <3>1 DEF PlaceBuy, IInv, TypeOK
  <2>2. ASSUME NEW o \in Orders, Fill(o) \/ Reject(o) PROVE Fresh
    BY <2>2 DEF Fill, Reject, IInv, TypeOK
  <2>3. CASE UNCHANGED fate
    BY <2>3
  <2> QED
    BY <2>1, <2>2, <2>3
    DEF Next, Owner, Worker, World, Death, Poll, ReconcileWallet, TryBuy, HandleBuy, PollOrder,
        HandleStatus, HandleBalance, DropAnswer, ClaimBuy, RefuseBuy, BuyReturns, AnswerStatus,
        LoseStatus, AnswerBalance, LoseBalance, TokensLeave, Restart, RestartAfterInsert,
        RestartFrom, vars, world
<1>0. Spec => []IInv
  BY Invariance
<1> QED BY <1>1, <1>0, PTL DEF Spec, NoSecondEntry
-----------------------------------------------------------------------------
\* The abstract specification counts like the detailed one.
LEMMA SameCardinality == \A S : Limit!Cardinality(S) = Cardinality(S)
  BY DEF Limit!Cardinality, Cardinality

\* A new BUY starts only while fewer than MaxOpen other tokens are pledged: each
\* of those is an OPEN position or holds a reservation of its own.
LEMMA TryBuyPledges ==
    ASSUME IInv, NEW t \in Tokens, TryBuy(t)
    PROVE  Limit!Next
<1> USE EntryAssumption
<1>a. PICK gone \in SUBSET (open \ held) : MayReserve(t, open \ gone) /\ open' = open \ gone
  BY DEF TryBuy
<1>b. UNCHANGED <<journal, orders, balWait, calls, done, batch, tok, fate, held, restarts>>
  BY DEF TryBuy, world
<1>c. \A u \in Tokens : u # t => buy'[u] = buy[u]
  BY DEF TryBuy, IInv, TypeOK
<1>d. \A u \in Tokens \ {t} : u \in Pledged' => u \in Pledged
  BY <1>a, <1>b, <1>c DEF Pledged, AtProvider, IsFollowed, Following
<1>1. CASE t \notin Pledged'
  BY <1>d, <1>1 DEF Limit!Next, Limit!GiveUp, Pledged
<1>2. CASE t \in Pledged'
  <2>1. ASSUME NEW u \in Pledged', u # t PROVE u \in open' \/ u \in Reserved(res)
    <3>1. u \in Tokens /\ u \in Pledged
      BY <1>d, <2>1 DEF Pledged
    <3>2. CASE u \in open' \cup held
      BY <3>1, <3>2, <1>a DEF IInv, BackedInv, BothReserved, Reserved
    <3>3. CASE buy[u].phase # "idle"
      BY <3>1, <3>3 DEF IInv, BridgeInv, BothReserved, Reserved
    <3>4. CASE AtProvider(u)
      BY <3>1, <3>4 DEF IInv, BackedInv, OpenInv, BothReserved, Reserved
    <3>5. CASE IsFollowed(u)
      BY <3>1, <3>5 DEF IInv, FollowInv, IsFollowed, BothReserved, Reserved
    <3>6. CASE Reconnectable(journal[u])
      BY <3>1, <3>6 DEF IInv, JournalInv, Reconnectable, BothReserved, Reserved
    <3> QED
      BY <1>a, <1>b, <1>c, <2>1, <3>1, <3>2, <3>3, <3>4, <3>5, <3>6
      DEF Pledged, AtProvider, IsFollowed, Following
  <2>2. Pledged' \ {t} \subseteq open' \cup Reserved(res)
    BY <2>1
  <2>3. IsFiniteSet(open') /\ IsFiniteSet(Reserved(res))
    BY <1>a, FS_Subset DEF IInv, TypeOK, Reserved, EntryAssumption
  <2>4. /\ IsFiniteSet(open' \cup Reserved(res))
        /\ Cardinality(open' \cup Reserved(res)) <= Cardinality(open') + Cardinality(Reserved(res))
    <3>1. Cardinality(open' \cap Reserved(res)) \in Nat
      BY <2>3, FS_Intersection, FS_CardinalityType
    <3>2. Cardinality(open') \in Nat /\ Cardinality(Reserved(res)) \in Nat
      BY <2>3, FS_CardinalityType
    <3>3. IsFiniteSet(open' \cup Reserved(res))
      BY <2>3, FS_Union
    <3>4. Cardinality(open' \cup Reserved(res)) = Cardinality(open') + Cardinality(Reserved(res)) - Cardinality(open' \cap Reserved(res))
      BY <2>3, FS_Union
    <3> QED BY <3>1, <3>2, <3>3, <3>4
  <2>5. /\ IsFiniteSet(Pledged' \ {t})
        /\ Cardinality(Pledged' \ {t}) <= Cardinality(open' \cup Reserved(res))
    BY <2>2, <2>4, FS_Subset
  <2>6. Cardinality(open') + Cardinality(Reserved(res)) < MaxOpen
    BY <1>a DEF MayReserve, HasCapacity, UsedSlots
  <2>7. Cardinality(Pledged' \ {t}) < MaxOpen
    BY <2>3, <2>4, <2>5, <2>6, FS_CardinalityType DEF EntryAssumption
  <2>8. Pledged' \subseteq Pledged \cup {t}
    BY <1>d DEF Pledged
  <2> QED BY <1>2, <2>7, <2>8, SameCardinality DEF Limit!Next, Limit!Pledge
<1> QED BY <1>1, <1>2

\* No other step pledges a token that was not pledged before.
LEMMA OthersGiveUp ==
    ASSUME ReservationReadMayFail = FALSE, IInv, [Next]_vars,
           \A t \in Tokens : ~TryBuy(t)
    PROVE  Pledged' \subseteq Pledged
<1> USE EntryAssumption DEF durable, memory, bridge, world
<1>1. CASE Poll
  BY <1>1 DEF Poll, BuyCall, IInv, TypeOK, Pledged, AtProvider, IsFollowed, Following
<1>2. CASE ReconcileWallet
  BY <1>2 DEF ReconcileWallet, Pledged, AtProvider, IsFollowed, Following
<1>3. ASSUME NEW t \in Tokens, HandleBuy(t) PROVE Pledged' \subseteq Pledged
  <2>1. /\ UNCHANGED <<open, journal, balWait, tok, fate, held>>
        /\ \A u \in Tokens : u # t => buy'[u] = buy[u]
        /\ t \in Pledged
    BY <1>3 DEF HandleBuy, IInv, TypeOK, Pledged
  <2>2. orders' = orders \/ (orders' = orders \cup {buy[t].order} /\ tok[buy[t].order] = t)
    <3>1. orders' = orders \/ (orders' = orders \cup {buy[t].order} /\ Returned(t))
      BY <1>3 DEF HandleBuy, Returned
    <3> QED BY <3>1 DEF IInv, SentInv, SoleOrder
  <2> QED BY <2>1, <2>2 DEF Pledged, AtProvider, IsFollowed, Following
<1>4. ASSUME NEW o \in Orders, PollOrder(o) PROVE Pledged' \subseteq Pledged
  BY <1>4 DEF PollOrder, Pledged, AtProvider, IsFollowed, Following
<1>5. ASSUME NEW e \in batch, HandleStatus(e) PROVE Pledged' \subseteq Pledged
  BY <1>5 DEF HandleStatus, Pledged, AtProvider, IsFollowed, Following
<1>6. ASSUME NEW e \in batch, HandleBalance(e) PROVE Pledged' \subseteq Pledged
  BY <1>6 DEF HandleBalance, Pledged, AtProvider, IsFollowed, Following
<1>7. ASSUME NEW e \in batch, DropAnswer(e) PROVE Pledged' \subseteq Pledged
  BY <1>7 DEF DropAnswer, Pledged, AtProvider, IsFollowed, Following
<1>8. ASSUME NEW t \in Tokens, ClaimBuy(t) \/ RefuseBuy(t) \/ BuyReturns(t) PROVE Pledged' \subseteq Pledged
  <2>1. /\ UNCHANGED <<open, orders, balWait, tok, fate, held>>
        /\ \A u \in Tokens : u # t => buy'[u] = buy[u] /\ journal'[u] = journal[u]
        /\ buy[t].phase # "idle"
    BY <1>8 DEF ClaimBuy, RefuseBuy, BuyReturns, IInv, TypeOK
  <2> QED BY <2>1 DEF Pledged, AtProvider, IsFollowed, Following
<1>9. ASSUME NEW t \in Tokens, PlaceBuy(t) PROVE Pledged' \subseteq Pledged
  <2>1. /\ UNCHANGED <<open, journal, orders, balWait, held>>
        /\ \A u \in Tokens : u # t => buy'[u] = buy[u]
        /\ buy[t].phase # "idle"
    BY <1>9 DEF PlaceBuy, IInv, TypeOK
  <2>2. \A u \in Tokens, o \in Orders : u # t /\ tok'[o] = u => tok[o] = u /\ fate'[o] = fate[o]
    BY <1>9 DEF PlaceBuy, IInv, TypeOK
  <2>3. Following \subseteq Orders
    BY DEF Following, IInv, TypeOK
  <2> QED BY <2>1, <2>2, <2>3 DEF Pledged, AtProvider, IsFollowed, Following
<1>10. ASSUME NEW o \in Orders, AnswerStatus(o) PROVE Pledged' \subseteq Pledged
  <2>1. UNCHANGED <<open, orders, balWait, buy, tok, fate, held>>
    BY <1>10 DEF AnswerStatus
  <2>2. ASSUME NEW u \in Tokens, Reconnectable(journal[u])' PROVE Reconnectable(journal[u]) \/ AtProvider(u)
    <3>1. CASE fate[o] = "placed"
      BY <1>10, <2>2, <3>1 DEF AnswerStatus, IInv, TypeOK, UpdatedByOrder, Updated, AtProvider
    <3>2. CASE fate[o] # "placed"
      BY <1>10, <2>2, <3>2 DEF AnswerStatus, IInv, TypeOK, UpdatedByOrder, Updated, Reconnectable, ActiveJournal
    <3> QED BY <3>1, <3>2
  <2> QED BY <2>1, <2>2 DEF Pledged, AtProvider, IsFollowed, Following
<1>11. ASSUME NEW o \in Orders, LoseStatus(o) \/ AnswerBalance(o) \/ LoseBalance(o) PROVE Pledged' \subseteq Pledged
  BY <1>11 DEF LoseStatus, AnswerBalance, LoseBalance, Pledged, AtProvider, IsFollowed, Following
<1>12. ASSUME NEW o \in Orders, Fill(o) \/ Reject(o) PROVE Pledged' \subseteq Pledged
  <2>1. /\ UNCHANGED <<open, journal, orders, balWait, buy, tok>>
        /\ \A p \in Orders : fate'[p] = "placed" => fate[p] = "placed"
        /\ held' \subseteq held \cup {tok[o]}
        /\ fate[o] = "placed"
    BY <1>12 DEF Fill, Reject, IInv, TypeOK
  <2> QED BY <2>1 DEF Pledged, AtProvider, IsFollowed, Following
<1>13. ASSUME NEW t \in Tokens, TokensLeave(t) PROVE Pledged' \subseteq Pledged
  BY <1>13 DEF TokensLeave, Pledged, AtProvider, IsFollowed, Following
<1>14. ASSUME NEW rows \in SUBSET Pledged, RestartFrom(rows, dbRes) PROVE Pledged' \subseteq Pledged
  <2>1. /\ UNCHANGED <<journal, tok, fate, held>>
        /\ open' \subseteq rows
        /\ \A u \in Tokens : buy'[u].phase = "idle"
        /\ balWait' = {}
    BY <1>14 DEF RestartFrom, Idle, BuyCall
  <2>2. \A o \in orders' : \E u \in Tokens : Reconnectable(journal[u]) /\ o = journal[u].order
    BY <1>14 DEF RestartFrom
  <2>3. \A u \in Tokens : Reconnectable(journal[u]) => tok[journal[u].order] = u
    BY DEF IInv, JournalInv, Reconnectable
  <2> QED BY <2>1, <2>2, <2>3 DEF Pledged, AtProvider, IsFollowed, Following
<1>15. CASE Restart
  <2>1. open \in SUBSET Pledged
    BY DEF IInv, TypeOK, Pledged
  <2> QED BY <1>14, <1>15, <2>1 DEF Restart
<1>16. ASSUME NEW e \in batch, RestartAfterInsert(e) PROVE Pledged' \subseteq Pledged
  <2>1. open \cup {tok[e.call.order]} \in SUBSET Pledged
    BY <1>16 DEF RestartAfterInsert, IInv, TypeOK, FollowInv, Pledged, IsFollowed, Following
  <2>2. RestartFrom(open \cup {tok[e.call.order]}, dbRes)
    BY <1>16 DEF RestartAfterInsert
  <2> HIDE DEF durable, memory, bridge, world
  <2> QED BY <1>14, <2>1, <2>2
<1>17. CASE UNCHANGED vars
  BY <1>17 DEF vars, Pledged, AtProvider, IsFollowed, Following
<1> QED
  BY <1>1, <1>2, <1>3, <1>4, <1>5, <1>6, <1>7, <1>8, <1>9, <1>10, <1>11, <1>12, <1>13, <1>15, <1>16, <1>17
  DEF Next, Owner, Worker, World, Death

\* The entry path implements the abstract exposure limit.
THEOREM Refinement ==
    ASSUME ReservationReadMayFail = FALSE
    PROVE  Spec => ImplementsLimit
<1>1. Init => Limit!Init
  BY DEF Init, Limit!Init, Pledged, AtProvider, IsFollowed, Following, Idle, BuyCall, NoRow, Reconnectable
<1>2. IInv /\ [Next]_vars => [Limit!Next]_Pledged
  <2> SUFFICES ASSUME IInv, [Next]_vars PROVE Limit!Next
    OBVIOUS
  <2>1. CASE \E t \in Tokens : TryBuy(t)
    BY <2>1, TryBuyPledges
  <2>2. CASE \A t \in Tokens : ~TryBuy(t)
    BY <2>2, OthersGiveUp DEF Limit!Next, Limit!GiveUp
  <2> QED BY <2>1, <2>2
<1>0. Spec => []IInv
  BY Invariance
<1> QED BY <1>1, <1>2, <1>0, PTL DEF Spec, ImplementsLimit, Limit!Spec

\* The abstract limit bounds what is pledged, hence what is at stake.
LEMMA LimitStep ==
    ASSUME IsFiniteSet(Pledged), Cardinality(Pledged) <= MaxOpen, Limit!Next, IsFiniteSet(Pledged')
    PROVE  Cardinality(Pledged') <= MaxOpen
<1> USE EntryAssumption DEF EntryAssumption
<1>1. CASE Limit!GiveUp
  BY <1>1, FS_Subset, FS_CardinalityType DEF Limit!GiveUp
<1>2. ASSUME NEW t \in Tokens, Limit!Pledge(t) PROVE Cardinality(Pledged') <= MaxOpen
  <2>1. t \in Pledged' /\ Cardinality(Pledged' \ {t}) < MaxOpen
    BY <1>2, SameCardinality DEF Limit!Pledge
  <2>2. Cardinality(Pledged' \ {t}) = Cardinality(Pledged') - 1
    BY <2>1, FS_RemoveElement
  <2> QED BY <2>1, <2>2, FS_CardinalityType
<1> QED BY <1>1, <1>2 DEF Limit!Next

\* Even a restart cannot find more tokens to follow than the limit allows.
THEOREM PledgedBound ==
    ASSUME ReservationReadMayFail = FALSE
    PROVE  Spec => []PledgedInv
<1>1. Init => PledgedInv
  <2> SUFFICES ASSUME Init PROVE Cardinality(Pledged) <= MaxOpen
    BY DEF PledgedInv
  <2>1. Pledged = {}
    BY DEF Init, Pledged, AtProvider, IsFollowed, Following, Idle, BuyCall, NoRow, Reconnectable
  <2> QED BY <2>1, FS_EmptySet, EntryAssumption DEF EntryAssumption
<1>2. IsFiniteSet(Pledged) /\ IsFiniteSet(Pledged')
  BY EntryAssumption, FS_Subset DEF EntryAssumption, Pledged
<1>3. PledgedInv /\ [Limit!Next]_Pledged => PledgedInv'
  BY <1>2, LimitStep DEF PledgedInv
<1>4. Spec => ImplementsLimit
  BY Refinement
<1> QED BY <1>1, <1>3, <1>4, PTL DEF Spec, ImplementsLimit, Limit!Spec

\* max_open_positions bounds the tokens money is really at stake on.
THEOREM Capacity ==
    ASSUME ReservationReadMayFail = FALSE
    PROVE  Spec => []CapacityRespected
<1>1. IInv /\ PledgedInv => CapacityRespected
  <2>1. Committed \subseteq Pledged
    BY DEF Committed, Pledged, InFlight
  <2>2. IsFiniteSet(Pledged)
    BY EntryAssumption, FS_Subset DEF EntryAssumption, Pledged
  <2> QED BY <2>1, <2>2, FS_Subset, FS_CardinalityType, EntryAssumption
       DEF PledgedInv, CapacityRespected, EntryAssumption
<1>0. Spec => []IInv
  BY Invariance
<1>2. Spec => []PledgedInv
  BY PledgedBound
<1> QED BY <1>0, <1>1, <1>2, PTL
=============================================================================
