---------------------------- MODULE LiveExitProofs ----------------------------
(***************************************************************************)
(* Proofs about LiveExit for every set of orders, every quantity and any   *)
(* number of process deaths: two sells never wait at the provider          *)
(* together, the row shows a sell under way, the ladder fills in order, a  *)
(* closed position stays closed, and what is booked is what was sold.      *)
(* Good states what each operation of the owner loop keeps, IInv adds what *)
(* ties the loop to its calls, the journal and the provider, BooksInv what *)
(* was sold and what of it is booked.                                      *)
(***************************************************************************)
EXTENDS LiveExit, SumFacts, FiniteSetTheorems, TLAPS

-----------------------------------------------------------------------------
(* Types: every amount is bounded but the proceeds, which BooksInv below   *)
(* bounds by what the orders sold.                                         *)

MemoryType == [status : {"OPEN", "CLOSED"}, remaining : Amounts, triggered : SUBSET Stages,
               filled : SUBSET Stages, halfDone : BOOLEAN, realized : Nat,
               reason : Reasons \cup {"none"}, want : Amounts]
RowType == [status : {"OPEN", "CLOSED"}, remaining : Amounts, triggered : SUBSET Stages,
            filled : SUBSET Stages, halfDone : BOOLEAN, realized : Nat,
            swap : SwapStates, unpriced : BOOLEAN]
IntentType == [reason : Reasons \cup {"none"}, want : Amounts]
SomeContext == [reason : Reasons, quantity : Amounts, partial : BOOLEAN]
SellType == [phase : {"idle", "queued", "claimed", "sent", "done"},
             quantity : Amounts, order : SomeOrder]
OwnedType == [pos : MemoryType, row : RowType, intent : IntentType,
              ctx : SomeContext \cup {NoContext}, sell : SellType]
EventType == [kind : {"sell", "order_status", "balance"}, order : SomeOrder,
              result : {"none", "submitted", "failed", "unknown",
                        "SWAP_PENDING", "SWAP_UNKNOWN", "SWAP_FAILED", "SWAP_CONFIRMED"},
              balance : Amounts]

(* What every operation of the owner loop keeps. *)

DownClosed(S) == \A k \in S : 1..k \subseteq S

\* A reason that is a stage of the ladder comes after the stages before it.
Due(reason, filled) == \A k \in Stages : reason = TPReason[k] => 1..(k - 1) \subseteq filled

\* Without process deaths: the half is submitted only while it was not sold.
HalfDue(reason, done) == MaxRestarts = 0 /\ reason = "HALF" => ~done
HalfOnce(s) == HalfDue(s.pos.reason, s.pos.halfDone) /\ HalfDue(s.ctx.reason, s.pos.halfDone)

\* What was booked is left alone.
SameBooks(s, r) ==
    r.row.filled = s.row.filled /\ r.row.halfDone = s.row.halfDone /\ r.row.realized = s.row.realized

Good(s) ==
    /\ s \in OwnedType
    /\ s.pos.status = s.row.status
    /\ s.pos.filled = s.row.filled /\ s.pos.halfDone = s.row.halfDone
    /\ s.pos.realized = s.row.realized
    /\ s.pos.reason = s.intent.reason
    /\ DownClosed(s.pos.filled) /\ DownClosed(s.pos.triggered) /\ DownClosed(s.row.triggered)
    /\ Due(s.pos.reason, s.pos.filled) /\ Due(s.ctx.reason, s.pos.filled)

\* No sell is handed to the bridge, or one whose position was claimed in its row.
Quiet(s, r) == r.ctx = s.ctx /\ r.sell = s.sell /\ r.row.swap = s.row.swap
Hands(s, r) ==
    /\ s.ctx = NoContext /\ r.ctx # NoContext
    /\ r.sell.phase = "queued"
    /\ DbMayFail \/ (r.row.swap = "SWAP_SUBMITTING" /\ s.row.swap \notin InFlight)

Moves(s, r) ==
    /\ Good(r)
    /\ r.row.status = s.row.status /\ SameBooks(s, r)
    /\ HalfOnce(s) => HalfOnce(r)
    /\ Quiet(s, r) \/ Hands(s, r)

\* What a step does to the books: nothing, or a confirmed sell of o is booked, with
\* its proceeds or none and at most one stage or the half.
BookedAt(filled, half, filledThen, halfThen) ==
    /\ half => halfThen
    /\ \/ filledThen = filled
       \/ halfThen = half /\ \E k \in Stages : filledThen = filled \cup {k}
BooksKept ==
    row'.filled = row.filled /\ row'.halfDone = row.halfDone /\ row'.realized = row.realized
Booking(o) ==
    /\ Arrived("order_status") /\ Head(queue).order = o /\ Head(queue).result = "SWAP_CONFIRMED"
    /\ tracked[o] # NoContext
    /\ tracked'[o] = NoContext \/ (Reconnectable(journal) /\ journal.order = o)
    /\ UNCHANGED <<journal, fate, amount>>
    /\ row'.realized \in {row.realized, row.realized + amount[o]}
    /\ BookedAt(row.filled, row.halfDone, row'.filled, row'.halfDone)
Books == BooksKept \/ \E o \in Orders : Booking(o)

\* The owner loop places no order itself.
AtRest == sell'.phase \in {"idle", "queued"}
NoneSent == sell' = sell \/ AtRest

(* What ties the owner loop to its calls, the journal and the provider. *)

Placed(o) == fate[o] = "placed"
Arrivals(kind) == {i \in DOMAIN queue : queue[i].kind = kind}

CallsTyped ==
    /\ tracked \in [Orders -> SomeContext \cup {NoContext}]
    /\ asked \in SUBSET Orders
    /\ reading \in BOOLEAN
    /\ queue \in Seq(EventType)
    /\ journal \in [state : JournalStates, order : SomeOrder]
    /\ claimed \in Amounts
    /\ fate \in [Orders -> {"unused", "placed", "filled", "failed"}]
    /\ amount \in [Orders -> Amounts]
    /\ held \in Amounts
    /\ restarts \in 0..MaxRestarts

\* One context per position, the one its order is followed with.
ContextKept ==
    /\ ctx = NoContext => sell.phase = "idle" /\ \A o \in Orders : tracked[o] = NoContext
    /\ \A o \in Orders : tracked[o] # NoContext =>
           tracked[o] = ctx /\ sell.phase = "idle" /\ journal.order = o

\* One answer per sell, and what it says of the provider.
AnswersTrue ==
    /\ \A i, j \in Arrivals("sell") : i = j
    /\ \A i \in Arrivals("sell") :
           /\ sell.phase = "done"
           /\ queue[i].result \in {"submitted", "failed", "unknown"}
           /\ queue[i].result = "submitted" =>
                  queue[i].order \in Orders /\ journal.order = queue[i].order
    /\ \A i \in Arrivals("order_status") :
           /\ queue[i].order \in Orders
           /\ queue[i].result \in {"SWAP_FAILED", "SWAP_CONFIRMED"} =>
                  fate[queue[i].order] \in {"filled", "failed"}

\* The call that claimed the journal row is the one that may place an order.
RowClaimed ==
    /\ sell.phase \in {"claimed", "sent"} => journal = Claimed
    /\ sell.phase = "sent" => sell.order \in Orders

\* The journal refuses a second sell while one may wait at the provider, provided
\* that the CLI never reports an error for an order it placed.
OneAtATime ==
    /\ sell.phase = "claimed" => \A o \in Orders : ~Placed(o)
    /\ sell.phase = "sent" => \A o \in Orders : Placed(o) => o = sell.order
    /\ \A o \in Orders : Placed(o) =>
           journal.state \in ActiveJournal /\ journal.order \in {o, NoOrder}
    /\ OneSellOrder

\* With a status column that can be read and written.
Covered ==
    /\ ClaimCoversOrder
    /\ sell.phase = "queued" \/ (\E i \in Arrivals("sell") : queue[i].result = "failed") =>
           \A o \in Orders : ~Placed(o)

IInv ==
    /\ Good(Owned)
    /\ HalfOnce(Owned)
    /\ CallsTyped
    /\ ContextKept
    /\ AnswersTrue
    /\ RowClaimed
    /\ ErrorMayHideOrder \/ (OneAtATime /\ (DbMayFail \/ Covered))

-----------------------------------------------------------------------------
(* Constants *)

LEMMA StageFacts ==
    /\ Stages = {1, 2, 3}
    /\ TPReason[1] = "TP1" /\ TPReason[2] = "TP2" /\ TPReason[3] = "TP3"
    /\ Reasons = {"TP1", "TP2", "TP3", "STOP", "HALF", "RESTORED"}
  BY DEF Stages, TPReason, Reasons

LEMMA AmountFacts ==
    /\ Amounts \subseteq Nat
    /\ 0 \in Amounts /\ Quantity \in Amounts
    /\ \A a \in Amounts, b \in Nat : b <= a => b \in Amounts
  BY ExitAssumption DEF Amounts

LEMMA ContextFacts ==
    /\ NoContext \notin SomeContext
    /\ NoContext.reason = "none"
    /\ \A reason \in Reasons, quantity \in Amounts, partial \in BOOLEAN :
           /\ Context(reason, quantity, partial) \in SomeContext
           /\ Context(reason, quantity, partial).reason = reason
  BY StageFacts DEF NoContext, SomeContext, Context

LEMMA HalfFacts ==
    ASSUME NEW reason, reason # "HALF", NEW done
    PROVE  HalfDue(reason, done)
  BY DEF HalfDue

\* A reason outside the ladder waits for no stage.
LEMMA DueOutside ==
    ASSUME NEW reason, NEW filled, \A k \in Stages : reason # TPReason[k]
    PROVE  Due(reason, filled)
  BY DEF Due

LEMMA DueGrows ==
    ASSUME NEW reason, NEW S, NEW T, S \subseteq T, Due(reason, S)
    PROVE  Due(reason, T)
  BY DEF Due

-----------------------------------------------------------------------------
(* The owner loop's operations keep a good state good. *)

LEMMA StatusKept ==
    ASSUME NEW s, Good(s), NEW status \in SwapStates, NEW r \in ExitStatus(s, status)
    PROVE  /\ Good(r)
           /\ r.pos = s.pos /\ r.ctx = s.ctx /\ r.sell = s.sell
           /\ r.row.status = s.row.status /\ SameBooks(s, r)
           /\ DbMayFail \/ r.row.swap = status
<1>1. CASE DbMayFail /\ r = s
  BY <1>1 DEF SameBooks
<1>2. CASE r = [s EXCEPT !.row.swap = status]
  <2>1. /\ r.pos = s.pos /\ r.intent = s.intent /\ r.ctx = s.ctx /\ r.sell = s.sell
        /\ r.row = [s.row EXCEPT !.swap = status]
        /\ r = [pos |-> s.pos, row |-> r.row, intent |-> s.intent, ctx |-> s.ctx, sell |-> s.sell]
    BY <1>2 DEF Good, OwnedType
  <2>2. /\ r.row \in RowType /\ r.row.swap = status
        /\ r.row.status = s.row.status /\ SameBooks(s, r)
        /\ r.row.triggered = s.row.triggered
    BY <2>1 DEF Good, OwnedType, RowType, SameBooks
  <2> QED BY <2>1, <2>2 DEF Good, OwnedType, SameBooks
<1> QED BY <1>1, <1>2 DEF ExitStatus

LEMMA IntentKept ==
    ASSUME NEW s, Good(s), NEW reason \in Reasons, NEW quantity \in Amounts,
           Due(reason, s.pos.filled)
    PROVE  LET r == WithIntent(s, reason, quantity) IN
           /\ Good(r)
           /\ r.row = s.row /\ r.ctx = s.ctx /\ r.sell = s.sell
           /\ r.pos.filled = s.pos.filled /\ r.pos.status = s.pos.status
           /\ r.pos.remaining = s.pos.remaining
           /\ r.pos.halfDone = s.pos.halfDone /\ r.pos.reason = reason
<1> DEFINE r == WithIntent(s, reason, quantity)
<1> DEFINE p == [s.pos EXCEPT !.reason = reason, !.want = quantity]
<1> DEFINE n == [reason |-> reason, want |-> quantity]
<1>0. s \in OwnedType BY DEF Good
<1>1a. r = [s EXCEPT !.pos = p, !.intent = n]
  BY <1>0 DEF OwnedType, MemoryType, WithIntent
<1>1. /\ r.row = s.row /\ r.ctx = s.ctx /\ r.sell = s.sell
      /\ r.pos = p
      /\ r.intent = n
      /\ r = [pos |-> r.pos, row |-> s.row, intent |-> r.intent, ctx |-> s.ctx, sell |-> s.sell]
  <2> HIDE DEF r, p, n
  <2> QED BY <1>0, <1>1a DEF OwnedType
<1>2. /\ r.pos \in MemoryType
      /\ r.pos.status = s.pos.status /\ r.pos.filled = s.pos.filled
      /\ r.pos.triggered = s.pos.triggered /\ r.pos.reason = reason
      /\ r.pos.remaining = s.pos.remaining
      /\ r.pos.halfDone = s.pos.halfDone /\ r.pos.realized = s.pos.realized
  BY <1>1 DEF Good, OwnedType, MemoryType
<1>3. r.intent \in IntentType /\ r.intent.reason = reason
  BY <1>1 DEF IntentType
<1> HIDE DEF r
<1>4. Good(r) BY <1>1, <1>2, <1>3 DEF Good, OwnedType
<1> QED BY <1>1, <1>2, <1>4 DEF r

LEMMA ClearedKept ==
    ASSUME NEW s, Good(s)
    PROVE  LET r == WithoutIntent(s) IN
           /\ Good(r)
           /\ r.row = s.row /\ r.ctx = s.ctx /\ r.sell = s.sell
           /\ r.pos.filled = s.pos.filled /\ r.pos.status = s.pos.status
           /\ r.pos.reason = "none"
<1> DEFINE r == WithoutIntent(s)
           p == [s.pos EXCEPT !.reason = "none", !.want = 0]
<1>0. s \in OwnedType BY DEF Good
<1>1. r = [s EXCEPT !.pos = p, !.intent = NoIntent]
  BY <1>0 DEF OwnedType, MemoryType, WithoutIntent
<1>2. /\ r.row = s.row /\ r.ctx = s.ctx /\ r.sell = s.sell /\ r.pos = p /\ r.intent = NoIntent
      /\ r = [pos |-> r.pos, row |-> s.row, intent |-> r.intent, ctx |-> s.ctx, sell |-> s.sell]
  <2> HIDE DEF r, p
  <2> QED BY <1>0, <1>1 DEF OwnedType
<1>3. /\ r.pos \in MemoryType /\ r.pos.reason = "none"
      /\ r.pos.status = s.pos.status /\ r.pos.filled = s.pos.filled
      /\ r.pos.triggered = s.pos.triggered
      /\ r.pos.halfDone = s.pos.halfDone /\ r.pos.realized = s.pos.realized
  <2>1. p \in MemoryType /\ r.pos = p BY <1>0, <1>2, AmountFacts DEF OwnedType, MemoryType
  <2> HIDE DEF r
  <2> QED BY <1>0, <2>1 DEF OwnedType, MemoryType
<1>4. NoIntent \in IntentType /\ NoIntent.reason = "none"
  BY AmountFacts DEF IntentType, NoIntent
<1>5. Due("none", r.pos.filled) BY StageFacts, DueOutside
<1> HIDE DEF r
<1>6. Good(r) BY <1>2, <1>3, <1>4, <1>5 DEF Good, OwnedType
<1> QED BY <1>2, <1>3, <1>6 DEF r

\* Writing the position makes the row what the memory is.
LEMMA PersistedKept ==
    ASSUME NEW s, s \in OwnedType, s.pos.reason = s.intent.reason,
           DownClosed(s.pos.filled), DownClosed(s.pos.triggered),
           Due(s.pos.reason, s.pos.filled), Due(s.ctx.reason, s.pos.filled)
    PROVE  LET r == Persisted(s) IN
           /\ Good(r)
           /\ r.pos = s.pos /\ r.ctx = s.ctx /\ r.sell = s.sell
           /\ r.row.swap = s.row.swap
           /\ r.row.status = s.pos.status /\ r.row.filled = s.pos.filled
           /\ r.row.halfDone = s.pos.halfDone /\ r.row.realized = s.pos.realized
<1> DEFINE r == Persisted(s)
           w == [s.row EXCEPT !.status = s.pos.status, !.remaining = s.pos.remaining,
                              !.triggered = s.pos.triggered, !.filled = s.pos.filled,
                              !.halfDone = s.pos.halfDone, !.realized = s.pos.realized]
<1>1. r = [s EXCEPT !.row = w]
  BY DEF OwnedType, RowType, Persisted
<1>2. /\ r.pos = s.pos /\ r.ctx = s.ctx /\ r.sell = s.sell /\ r.intent = s.intent /\ r.row = w
      /\ r = [pos |-> s.pos, row |-> r.row, intent |-> s.intent, ctx |-> s.ctx, sell |-> s.sell]
  <2> HIDE DEF r, w
  <2> QED BY <1>1 DEF OwnedType
<1>3. /\ r.row \in RowType
      /\ r.row.swap = s.row.swap /\ r.row.status = s.pos.status
      /\ r.row.filled = s.pos.filled /\ r.row.triggered = s.pos.triggered
      /\ r.row.halfDone = s.pos.halfDone /\ r.row.realized = s.pos.realized
  BY <1>2 DEF OwnedType, MemoryType, RowType
<1> HIDE DEF r
<1>4. Good(r) BY <1>2, <1>3 DEF Good, OwnedType
<1> QED BY <1>2, <1>3, <1>4 DEF r

LEMMA MovesRefl ==
    ASSUME NEW s, Good(s)
    PROVE  Moves(s, s)
  BY DEF Moves, Quiet, SameBooks

LEMMA AttemptedMoves ==
    ASSUME NEW s, Good(s), NEW reason \in Reasons, NEW quantity \in Amounts,
           NEW partial \in BOOLEAN, Due(reason, s.pos.filled),
           HalfOnce(s) => HalfDue(reason, s.pos.halfDone),
           DbMayFail \/ s.row.swap \notin InFlight,
           NEW r \in Attempted(s, reason, quantity, partial)
    PROVE  Moves(s, r)
<1> DEFINE armed == WithIntent(s, reason, quantity)
<1>1. /\ Good(armed) /\ armed.row = s.row /\ armed.ctx = s.ctx /\ armed.sell = s.sell
      /\ armed.pos.filled = s.pos.filled
      /\ armed.pos.halfDone = s.pos.halfDone /\ armed.pos.reason = reason
  BY IntentKept
<1>2. CASE r = armed
  BY <1>1, <1>2 DEF Moves, Quiet, SameBooks, HalfOnce
<1>3. ASSUME s.ctx = NoContext, NEW c \in ExitStatus(armed, "SWAP_SUBMITTING"),
             r = [c EXCEPT !.ctx = Context(reason, quantity, partial),
                           !.sell = SellCall("queued", quantity)]
      PROVE  Moves(s, r)
  <2> HIDE DEF armed
  <2>1. /\ Good(c) /\ c.pos = armed.pos
        /\ c.row.status = s.row.status /\ SameBooks(s, c)
        /\ DbMayFail \/ c.row.swap = "SWAP_SUBMITTING"
    <3>1. "SWAP_SUBMITTING" \in SwapStates BY DEF SwapStates, InFlight
    <3> QED BY <1>1, <3>1, StatusKept DEF SameBooks
  <2>2. /\ r.pos = c.pos /\ r.row = c.row /\ r.intent = c.intent
        /\ r.ctx = Context(reason, quantity, partial) /\ r.sell = SellCall("queued", quantity)
        /\ r = [pos |-> c.pos, row |-> c.row, intent |-> c.intent, ctx |-> r.ctx, sell |-> r.sell]
    BY <1>3, <2>1 DEF Good, OwnedType
  <2>3. r.ctx \in SomeContext /\ r.ctx.reason = reason /\ r.ctx # NoContext
    BY <2>2, ContextFacts
  <2>4. r.sell \in SellType /\ r.sell.phase = "queued"
    BY <2>2 DEF SellCall, SellType, SomeOrder
  <2>5. Good(r)
    BY <1>1, <2>1, <2>2, <2>3, <2>4 DEF Good, OwnedType
  <2>6. HalfOnce(s) => HalfOnce(r) BY <1>1, <2>1, <2>2, <2>3 DEF HalfOnce
  <2> QED BY <1>3, <2>1, <2>2, <2>3, <2>4, <2>5, <2>6 DEF Moves, Hands, SameBooks
<1> QED BY <1>2, <1>3 DEF Attempted

\* A sell is submitted of an open position's row: nothing, or a claim and a call.
LEMMA SubmittedMoves ==
    ASSUME NEW s, Good(s), NEW reason \in Reasons, NEW quantity \in Amounts,
           NEW partial \in BOOLEAN, Due(reason, s.pos.filled),
           HalfOnce(s) => HalfDue(reason, s.pos.halfDone),
           NEW r \in Submitted(s, reason, quantity, partial)
    PROVE  Moves(s, r)
<1>1. CASE r = s BY <1>1, MovesRefl
<1>2. CASE r \in Attempted(s, reason, quantity, partial) /\ (DbMayFail \/ ~Blocked(s, reason))
  <2>1. DbMayFail \/ s.row.swap \notin InFlight BY <1>2 DEF Blocked
  <2> QED BY <1>2, <2>1, AttemptedMoves
<1> QED BY <1>1, <1>2 DEF Submitted

\* What Moves says of s it says of a state with the same row, context and call.
LEMMA MovesFrom ==
    ASSUME NEW s, NEW t, NEW r, t.row = s.row, t.ctx = s.ctx, t.sell = s.sell,
           HalfOnce(s) => HalfOnce(t), Moves(t, r)
    PROVE  Moves(s, r)
  BY DEF Moves, Quiet, Hands, SameBooks

LEMMA MovesPersisted ==
    ASSUME NEW s, NEW r, Moves(s, r)
    PROVE  Moves(s, Persisted(r))
<1>1. /\ r \in OwnedType /\ r.pos.reason = r.intent.reason
      /\ DownClosed(r.pos.filled) /\ DownClosed(r.pos.triggered)
      /\ Due(r.pos.reason, r.pos.filled) /\ Due(r.ctx.reason, r.pos.filled)
      /\ r.pos.status = r.row.status /\ r.pos.filled = r.row.filled
      /\ r.pos.halfDone = r.row.halfDone /\ r.pos.realized = r.row.realized
  BY DEF Moves, Good
<1> QED BY <1>1, PersistedKept DEF Moves, Quiet, Hands, SameBooks, HalfOnce

LEMMA FractionAmount ==
    ASSUME NEW q \in Amounts, NEW reason
    PROVE  Fraction(q, reason) \in Amounts
<1>1. q \in Nat /\ Fraction(q, reason) \in Nat /\ Fraction(q, reason) <= q
  BY AmountFacts DEF Fraction
<1> QED BY <1>1, AmountFacts

\* The next stage is the lowest that is latched and unfilled: those below it are filled.
LEMMA NextLatchedFacts ==
    ASSUME NEW p \in MemoryType, DownClosed(p.triggered)
    PROVE  LET k == NextLatched(p) IN
           k # 0 => k \in Stages /\ Due(TPReason[k], p.filled)
<1> DEFINE due == p.triggered \ p.filled
           k == NextLatched(p)
<1>1. p.triggered \subseteq Stages /\ due \subseteq {1, 2, 3} BY StageFacts DEF MemoryType
<1>2. due = {} => k = 0 BY DEF NextLatched
<1>3. ASSUME due # {} PROVE k \in Stages /\ Due(TPReason[k], p.filled)
  <2>1. \E x \in due : \A y \in due : x <= y
    <3>1. CASE 1 \in due BY <1>1, <3>1
    <3>2. CASE 1 \notin due /\ 2 \in due BY <1>1, <3>2
    <3>3. CASE 1 \notin due /\ 2 \notin due BY <1>1, <1>3, <3>3
    <3> QED BY <3>1, <3>2, <3>3
  <2>2. k \in due /\ \A y \in due : k <= y
    BY <1>3, <2>1 DEF NextLatched, Min
  <2>3. k \in {1, 2, 3} /\ 1..k \subseteq p.triggered
    BY <1>1, <2>2 DEF DownClosed
  <2>4. 1..(k - 1) \subseteq p.filled
    <3> SUFFICES ASSUME NEW j \in 1..(k - 1) PROVE j \in p.filled OBVIOUS
    <3> HIDE DEF k
    <3>1. j \in Int /\ j < k /\ j \in 1..k BY <2>3
    <3>2. j \notin due BY <1>1, <2>2, <2>3, <3>1
    <3> QED BY <2>3, <3>1, <3>2
  <2>5. \A m \in Stages : TPReason[k] = TPReason[m] => m = k
    <3> HIDE DEF k
    <3> QED BY <2>3, StageFacts
  <2> HIDE DEF k
  <2> QED BY <2>3, <2>4, <2>5, StageFacts DEF Due
<1> HIDE DEF due, k
<1>4. k # 0 => k \in Stages /\ Due(TPReason[k], p.filled) BY <1>2, <1>3
<1> QED BY <1>4 DEF k

LEMMA ExecuteLatchedMoves ==
    ASSUME NEW s, Good(s), NEW r \in ExecuteLatched(s)
    PROVE  Moves(s, r)
<1> DEFINE k == NextLatched(s.pos)
<1>1. s.pos \in MemoryType /\ s.pos.remaining \in Amounts
  BY DEF Good, OwnedType, MemoryType
<1>2. k # 0 => k \in Stages /\ Due(TPReason[k], s.pos.filled)
  BY <1>1, NextLatchedFacts DEF Good
<1> HIDE DEF k
<1>3. CASE k = 0
  <2>1. r = s BY <1>3 DEF ExecuteLatched, k
  <2> QED BY <2>1, MovesRefl
<1>4. CASE k = 3
  <2>1. r \in CloseAll(s, "TP3") BY <1>4 DEF ExecuteLatched, k
  <2>3. r \in Submitted(s, "TP3", s.pos.remaining, FALSE) BY <2>1 DEF CloseAll
  <2>2. Due("TP3", s.pos.filled) /\ HalfDue("TP3", s.pos.halfDone)
    BY <1>2, <1>4, StageFacts, HalfFacts
  <2> QED BY <1>1, <2>3, <2>2, StageFacts, SubmittedMoves
<1>5. CASE k # 0 /\ k # 3
  <2>1. r \in Submitted(s, TPReason[k], Fraction(s.pos.remaining, TPReason[k]), TRUE)
    BY <1>5 DEF ExecuteLatched, PartialExit, k
  <2>2. TPReason[k] \in Reasons /\ Due(TPReason[k], s.pos.filled) /\ TPReason[k] # "HALF"
    BY <1>2, <1>5, StageFacts
  <2>3. Fraction(s.pos.remaining, TPReason[k]) \in Amounts BY <1>1, FractionAmount
  <2>4. HalfDue(TPReason[k], s.pos.halfDone) BY <2>2, HalfFacts
  <2> QED BY <2>1, <2>2, <2>3, <2>4, SubmittedMoves
<1> QED BY <1>3, <1>4, <1>5

LEMMA LatchedKept ==
    ASSUME NEW s, Good(s), NEW k \in 0..3
    PROVE  LET r == Latched(s, k) IN
           /\ Good(r) /\ r.row = s.row /\ r.ctx = s.ctx /\ r.sell = s.sell
           /\ HalfOnce(s) => HalfOnce(r)
<1> DEFINE r == Latched(s, k)
           p == [s.pos EXCEPT !.triggered = @ \cup 1..k]
<1>0. s \in OwnedType /\ s.pos \in MemoryType BY DEF Good, OwnedType
<1>1. r = [s EXCEPT !.pos = p]
  BY <1>0 DEF OwnedType, MemoryType, Latched
<1>2. /\ r.row = s.row /\ r.ctx = s.ctx /\ r.sell = s.sell /\ r.intent = s.intent /\ r.pos = p
      /\ r = [pos |-> r.pos, row |-> s.row, intent |-> s.intent, ctx |-> s.ctx, sell |-> s.sell]
  <2> HIDE DEF r, p
  <2> QED BY <1>0, <1>1 DEF OwnedType
<1>3. 1..k \subseteq Stages BY DEF Stages
<1> HIDE DEF r
<1>4. /\ r.pos \in MemoryType
      /\ r.pos.reason = s.pos.reason /\ r.pos.status = s.pos.status
      /\ r.pos.filled = s.pos.filled /\ r.pos.triggered = s.pos.triggered \cup 1..k
      /\ r.pos.halfDone = s.pos.halfDone /\ r.pos.realized = s.pos.realized
  BY <1>0, <1>2, <1>3 DEF MemoryType
<1>5. DownClosed(s.pos.triggered \cup 1..k)
  <2>1. \A j \in 1..k : 1..j \subseteq 1..k BY SMT
  <2> QED BY <2>1 DEF Good, DownClosed
<1>6. Good(r) BY <1>0, <1>2, <1>4, <1>5 DEF Good, OwnedType
<1>7. HalfOnce(s) => HalfOnce(r) BY <1>2, <1>4 DEF HalfOnce
<1> QED BY <1>2, <1>6, <1>7 DEF r

\* One round of _evaluate_positions moves the state; its write keeps that.
LEMMA EvaluationsMove ==
    ASSUME NEW s, Good(s), NEW e \in Evaluations(s)
    PROVE  /\ Moves(s, e.state)
           /\ Moves(s, IF e.persist THEN Persisted(e.state) ELSE e.state)
<1>1. /\ s.pos \in MemoryType /\ s.pos.remaining \in Amounts /\ s.pos.want \in Amounts
      /\ s.pos.reason \in Reasons \cup {"none"}
  BY DEF Good, OwnedType, MemoryType
<1>2. ASSUME NEW t \in Reexecuted(s), s.pos.reason # "none" PROVE Moves(s, t)
  <2>1. s.pos.reason \in Reasons /\ Due(s.pos.reason, s.pos.filled) BY <1>1, <1>2 DEF Good
  <2>2. \/ t \in Submitted(s, s.pos.reason, s.pos.want, TRUE)
        \/ t \in Submitted(s, s.pos.reason, s.pos.remaining, FALSE)
    BY <1>2 DEF Reexecuted, CloseAll
  <2>3. HalfOnce(s) => HalfDue(s.pos.reason, s.pos.halfDone) BY DEF HalfOnce
  <2> QED BY <1>1, <2>1, <2>2, <2>3, SubmittedMoves
<1>3. ASSUME NEW t \in CloseAll(s, "STOP") PROVE Moves(s, t)
  <2>1. Due("STOP", s.pos.filled) /\ HalfDue("STOP", s.pos.halfDone)
    BY StageFacts, DueOutside, HalfFacts
  <2> QED BY <1>1, <1>3, <2>1, StageFacts, SubmittedMoves DEF CloseAll
<1>4. ASSUME ~s.pos.halfDone, NEW t \in PartialExit(s, "HALF") PROVE Moves(s, t)
  <2>1. Due("HALF", s.pos.filled) /\ HalfDue("HALF", s.pos.halfDone)
    BY <1>4, StageFacts, DueOutside DEF HalfDue
  <2>2. Fraction(s.pos.remaining, "HALF") \in Amounts BY <1>1, FractionAmount
  <2> QED BY <1>4, <2>1, <2>2, StageFacts, SubmittedMoves DEF PartialExit
<1>5. ASSUME NEW k \in 0..3, NEW t \in ExecuteLatched(Latched(s, k)) PROVE Moves(s, t)
  <2>1. LET r == Latched(s, k) IN
        /\ Good(r) /\ r.row = s.row /\ r.ctx = s.ctx /\ r.sell = s.sell
        /\ HalfOnce(s) => HalfOnce(r)
    BY LatchedKept
  <2>2. Moves(Latched(s, k), t) BY <1>5, <2>1, ExecuteLatchedMoves
  <2> QED BY <2>1, <2>2, MovesFrom
<1>6. Moves(s, e.state)
  <2>1. CASE s.pos.reason # "none" /\ ~IsTP(s.pos.reason)
    BY <1>2, <2>1 DEF Evaluations
  <2>2. CASE ~(s.pos.reason # "none" /\ ~IsTP(s.pos.reason))
    BY <1>3, <1>4, <1>5, <2>2 DEF Evaluations
  <2> QED BY <2>1, <2>2
<1> QED BY <1>6, MovesPersisted

\* A reconciliation closes a position or shrinks it, and fills no stage.
LEMMA ReconciledKept ==
    ASSUME NEW s, Good(s), NEW balance \in Amounts
    PROVE  LET r == Reconciled(s, balance) IN
           /\ Good(r)
           /\ r.ctx = s.ctx /\ r.sell = s.sell
           /\ r.row.swap = s.row.swap /\ SameBooks(s, r)
           /\ r.row.status \in {s.row.status, "CLOSED"}
           /\ HalfOnce(s) => HalfOnce(r)
<1> DEFINE r == Reconciled(s, balance)
<1>0. s \in OwnedType /\ s.pos \in MemoryType /\ s.row \in RowType BY DEF Good, OwnedType
<1>1. CASE r = s BY <1>1 DEF SameBooks
<1>2. CASE r = [s EXCEPT !.pos.status = "CLOSED", !.pos.remaining = 0,
                         !.row.status = "CLOSED", !.row.remaining = 0,
                         !.row.unpriced = s.ctx = NoContext \/ @]
  <2> DEFINE p == [s.pos EXCEPT !.status = "CLOSED", !.remaining = 0]
             w == [s.row EXCEPT !.status = "CLOSED", !.remaining = 0,
                                !.unpriced = s.ctx = NoContext \/ @]
  <2>1. r = [s EXCEPT !.pos = p, !.row = w]
    BY <1>0, <1>2 DEF OwnedType, MemoryType, RowType
  <2>2. /\ r.ctx = s.ctx /\ r.sell = s.sell /\ r.intent = s.intent /\ r.pos = p /\ r.row = w
        /\ r = [pos |-> r.pos, row |-> r.row, intent |-> s.intent, ctx |-> s.ctx, sell |-> s.sell]
    <3> HIDE DEF r, p, w
    <3> QED BY <1>0, <2>1 DEF OwnedType
  <2> HIDE DEF r
  <2>3. /\ r.pos \in MemoryType
        /\ r.pos.reason = s.pos.reason /\ r.pos.filled = s.pos.filled
        /\ r.pos.status = "CLOSED" /\ r.pos.triggered = s.pos.triggered
        /\ r.pos.halfDone = s.pos.halfDone /\ r.pos.realized = s.pos.realized
    <3>1. p \in MemoryType BY <1>0, AmountFacts DEF MemoryType
    <3>2. /\ p.reason = s.pos.reason /\ p.filled = s.pos.filled
          /\ p.status = "CLOSED" /\ p.triggered = s.pos.triggered
          /\ p.halfDone = s.pos.halfDone /\ p.realized = s.pos.realized
      BY <1>0 DEF MemoryType
    <3> QED BY <2>2, <3>1, <3>2
  <2>4. /\ r.row \in RowType
        /\ r.row.swap = s.row.swap /\ SameBooks(s, r)
        /\ r.row.status = "CLOSED" /\ r.row.triggered = s.row.triggered
    <3>1. w \in RowType BY <1>0, AmountFacts DEF RowType
    <3>2. /\ w.swap = s.row.swap /\ w.filled = s.row.filled
          /\ w.status = "CLOSED" /\ w.triggered = s.row.triggered
          /\ w.halfDone = s.row.halfDone /\ w.realized = s.row.realized
      BY <1>0 DEF RowType
    <3> QED BY <2>2, <3>1, <3>2 DEF SameBooks
  <2>5. Good(r) BY <1>0, <2>2, <2>3, <2>4 DEF Good, OwnedType, SameBooks
  <2>6. HalfOnce(s) => HalfOnce(r) BY <2>2, <2>3 DEF HalfOnce
  <2> QED BY <2>2, <2>4, <2>5, <2>6 DEF r
<1>3. CASE r = [s EXCEPT !.pos.remaining = balance,
                         !.row.remaining = balance, !.row.unpriced = TRUE]
  <2> DEFINE p == [s.pos EXCEPT !.remaining = balance]
             w == [s.row EXCEPT !.remaining = balance, !.unpriced = TRUE]
  <2>1. r = [s EXCEPT !.pos = p, !.row = w]
    BY <1>0, <1>3 DEF OwnedType, MemoryType, RowType
  <2>2. /\ r.ctx = s.ctx /\ r.sell = s.sell /\ r.intent = s.intent /\ r.pos = p /\ r.row = w
        /\ r = [pos |-> r.pos, row |-> r.row, intent |-> s.intent, ctx |-> s.ctx, sell |-> s.sell]
    <3> HIDE DEF r, p, w
    <3> QED BY <1>0, <2>1 DEF OwnedType
  <2> HIDE DEF r
  <2>3. /\ r.pos \in MemoryType
        /\ r.pos.reason = s.pos.reason /\ r.pos.filled = s.pos.filled
        /\ r.pos.status = s.pos.status /\ r.pos.triggered = s.pos.triggered
        /\ r.pos.halfDone = s.pos.halfDone /\ r.pos.realized = s.pos.realized
    BY <1>0, <2>2 DEF MemoryType
  <2>4. /\ r.row \in RowType
        /\ r.row.swap = s.row.swap /\ SameBooks(s, r)
        /\ r.row.status = s.row.status /\ r.row.triggered = s.row.triggered
    BY <1>0, <2>2 DEF RowType, SameBooks
  <2>5. Good(r) BY <1>0, <2>2, <2>3, <2>4 DEF Good, OwnedType, SameBooks
  <2>6. HalfOnce(s) => HalfOnce(r) BY <2>2, <2>3 DEF HalfOnce
  <2> QED BY <2>2, <2>4, <2>5, <2>6 DEF r
<1> QED BY <1>1, <1>2, <1>3 DEF Reconciled

\* A stage that is booked comes after the stages before it.
LEMMA StageBooked ==
    ASSUME NEW c \in SomeContext, NEW filled \in SUBSET Stages, DownClosed(filled),
           Due(c.reason, filled)
    PROVE  LET stage == {k \in Stages : c.partial /\ c.reason = TPReason[k]} IN
           /\ filled \cup stage \in SUBSET Stages
           /\ DownClosed(filled \cup stage)
<1> DEFINE stage == {k \in Stages : c.partial /\ c.reason = TPReason[k]}
<1>1. SUFFICES ASSUME NEW k \in stage PROVE 1..k \subseteq filled \cup stage
  BY DEF DownClosed
<1>2. k \in Stages /\ 1..(k - 1) \subseteq filled BY <1>1 DEF Due
<1>3. 1..k = 1..(k - 1) \cup {k}
  <2>1. k \in {1, 2, 3} BY <1>2, StageFacts
  <2> QED BY <2>1, SMT
<1> QED BY <1>1, <1>2, <1>3

\* Booking a sell leaves no stage unfilled that was filled, and closes at nothing left.
LEMMA BookedKept ==
    ASSUME NEW s, Good(s), NEW c \in SomeContext, Due(c.reason, s.pos.filled),
           NEW proceeds \in Nat
    PROVE  LET r == Booked(s, c, proceeds) IN
           /\ Good(r)
           /\ r.ctx = s.ctx /\ r.sell = s.sell
           /\ r.row.swap = "SWAP_CONFIRMED"
           /\ r.row.status \in {s.row.status, "CLOSED"}
           /\ r.row.filled = s.row.filled \cup {k \in Stages : c.partial /\ c.reason = TPReason[k]}
           /\ r.row.halfDone = (s.row.halfDone \/ (c.partial /\ c.reason = "HALF"))
           /\ r.row.realized = s.row.realized + proceeds
<1> DEFINE left == IF s.pos.remaining > c.quantity THEN s.pos.remaining - c.quantity ELSE 0
           stage == {k \in Stages : c.partial /\ c.reason = TPReason[k]}
           half == s.pos.halfDone \/ (c.partial /\ c.reason = "HALF")
           p == [s.pos EXCEPT !.realized = @ + proceeds, !.remaining = left,
                              !.filled = @ \cup stage, !.halfDone = half,
                              !.status = IF left = 0 THEN "CLOSED" ELSE @]
           t == [s EXCEPT !.pos = p]
           r == Booked(s, c, proceeds)
<1>0. s \in OwnedType /\ s.pos \in MemoryType /\ s.row \in RowType BY DEF Good, OwnedType
<1>1. t.pos = p /\ t.row = s.row /\ t.intent = s.intent /\ t.ctx = s.ctx /\ t.sell = s.sell
      /\ t = [pos |-> p, row |-> s.row, intent |-> s.intent, ctx |-> s.ctx, sell |-> s.sell]
  <2> HIDE DEF p
  <2> QED BY <1>0 DEF OwnedType
<1>2. r = [Persisted(t) EXCEPT !.row.swap = "SWAP_CONFIRMED"]
  <2> DEFINE q == [s EXCEPT !.pos.realized = @ + proceeds,
                            !.pos.remaining = left,
                            !.pos.filled = @ \cup stage,
                            !.pos.halfDone = @ \/ (c.partial /\ c.reason = "HALF"),
                            !.pos.status = IF left = 0 THEN "CLOSED" ELSE @]
  <2>1. r = [Persisted(q) EXCEPT !.row.swap = "SWAP_CONFIRMED"] BY DEF Booked
  <2> HIDE DEF left, stage, r
  <2>2. q = t BY <1>0 DEF OwnedType, MemoryType
  <2> QED BY <2>1, <2>2
<1>3. left \in Amounts /\ s.pos.realized + proceeds \in Nat
  <2>1. /\ s.pos.remaining \in Amounts /\ c.quantity \in Nat /\ s.pos.remaining \in Nat
        /\ s.pos.realized \in Nat
    BY <1>0, AmountFacts DEF MemoryType, SomeContext
  <2>2. left \in Nat /\ left <= s.pos.remaining BY <2>1
  <2> HIDE DEF left
  <2> QED BY <2>1, <2>2, AmountFacts
<1>4. half \in BOOLEAN BY <1>0 DEF MemoryType, SomeContext
<1>5. s.pos.filled \cup stage \in SUBSET Stages /\ DownClosed(s.pos.filled \cup stage)
  <2>1. s.pos.filled \in SUBSET Stages /\ DownClosed(s.pos.filled) BY <1>0 DEF Good, MemoryType
  <2> QED BY <2>1, StageBooked
<1>6. /\ p \in MemoryType
      /\ p.filled = s.pos.filled \cup stage /\ p.triggered = s.pos.triggered
      /\ p.reason = s.pos.reason /\ p.status \in {s.pos.status, "CLOSED"}
      /\ p.halfDone = half /\ p.realized = s.pos.realized + proceeds
  <2> HIDE DEF left, stage, half
  <2> QED BY <1>0, <1>3, <1>4, <1>5 DEF MemoryType
<1> HIDE DEF p, r, t, left, half, stage
<1>7. t \in OwnedType BY <1>0, <1>1, <1>6 DEF OwnedType
<1>8. Due(t.pos.reason, t.pos.filled) /\ Due(t.ctx.reason, t.pos.filled)
  BY <1>1, <1>6, DueGrows DEF Good
<1>9. LET u == Persisted(t) IN
      /\ Good(u) /\ u.pos = t.pos /\ u.ctx = t.ctx /\ u.sell = t.sell
      /\ u.row.status = t.pos.status /\ u.row.filled = t.pos.filled
      /\ u.row.halfDone = t.pos.halfDone /\ u.row.realized = t.pos.realized
  <2>1. t.pos.reason = t.intent.reason /\ DownClosed(t.pos.filled) /\ DownClosed(t.pos.triggered)
    BY <1>1, <1>5, <1>6 DEF Good
  <2> QED BY <1>7, <1>8, <2>1, PersistedKept
<1>10. r \in ExitStatus(Persisted(t), "SWAP_CONFIRMED") BY <1>2 DEF ExitStatus
<1>11. "SWAP_CONFIRMED" \in SwapStates BY DEF SwapStates
<1>12. /\ Good(r) /\ r.ctx = s.ctx /\ r.sell = s.sell /\ r.row.status = t.pos.status
       /\ r.row.filled = t.pos.filled /\ r.row.halfDone = t.pos.halfDone
       /\ r.row.realized = t.pos.realized
  BY <1>1, <1>9, <1>10, <1>11, StatusKept DEF SameBooks
<1>13. r.row.swap = "SWAP_CONFIRMED"
  BY <1>2, <1>9 DEF Good, OwnedType, RowType
<1>14. r.row.status \in {s.row.status, "CLOSED"} BY <1>1, <1>6, <1>12 DEF Good
<1>15. /\ r.row.filled = s.row.filled \cup stage /\ r.row.halfDone = (s.row.halfDone \/ (c.partial /\ c.reason = "HALF"))
       /\ r.row.realized = s.row.realized + proceeds
  BY <1>1, <1>6, <1>12 DEF Good, half
<1> QED BY <1>12, <1>13, <1>14, <1>15 DEF r, stage

\* A confirmed sell credits at most one stage or the half.
LEMMA OneCredit ==
    ASSUME NEW c \in SomeContext, NEW filled \in SUBSET Stages, NEW half \in BOOLEAN
    PROVE  BookedAt(filled, half,
                    filled \cup {k \in Stages : c.partial /\ c.reason = TPReason[k]},
                    half \/ (c.partial /\ c.reason = "HALF"))
<1> DEFINE stage == {k \in Stages : c.partial /\ c.reason = TPReason[k]}
           now == half \/ (c.partial /\ c.reason = "HALF")
<1>1. now \in BOOLEAN /\ (half => now) OBVIOUS
<1>2. CASE stage = {} BY <1>1, <1>2 DEF BookedAt
<1>3. ASSUME NEW k \in stage PROVE stage = {k} /\ now = half
  <2>1. \A j, m \in Stages : TPReason[j] = TPReason[m] => j = m BY StageFacts
  <2>2. c.reason # "HALF" BY <1>3, StageFacts
  <2>3. stage = {k} BY <1>3, <2>1
  <2> QED BY <2>2, <2>3
<1>4. CASE stage # {}
  <2>1. PICK k \in stage : TRUE BY <1>4
  <2>2. stage = {k} /\ now = half /\ k \in Stages BY <1>3, <2>1
  <2> HIDE DEF stage, now
  <2> QED BY <1>1, <2>2 DEF BookedAt, stage, now
<1> QED BY <1>2, <1>4

\* Settling clears the context; the stage that is next may be handed over at once.
LEMMA SettledKept ==
    ASSUME NEW s, Good(s), NEW r \in Settled(s)
    PROVE  /\ Good(r) /\ HalfOnce(r)
           /\ r.row.status = s.row.status /\ SameBooks(s, r)
           /\ \/ r.ctx = NoContext /\ r.sell = s.sell /\ r.row.swap = s.row.swap
              \/ /\ r.ctx # NoContext /\ r.sell.phase = "queued"
                 /\ DbMayFail \/ r.row.swap = "SWAP_SUBMITTING"
<1> DEFINE w == WithoutIntent(s)
           done == [w EXCEPT !.ctx = NoContext]
<1>1. /\ Good(w) /\ w.row = s.row /\ w.sell = s.sell
      /\ w.pos.filled = s.pos.filled /\ w.pos.status = s.pos.status
      /\ w.pos.reason = "none"
  BY ClearedKept
<1> HIDE DEF w
<1>2. /\ done.pos = w.pos /\ done.row = w.row /\ done.intent = w.intent
      /\ done.ctx = NoContext /\ done.sell = w.sell
      /\ done = [pos |-> w.pos, row |-> w.row, intent |-> w.intent, ctx |-> NoContext, sell |-> w.sell]
  BY <1>1 DEF Good, OwnedType
<1>3. Due(NoContext.reason, w.pos.filled) BY ContextFacts, StageFacts, DueOutside
<1>4. r = done \/ r \in ExecuteLatched(done) BY DEF Settled, w
<1> HIDE DEF done
<1>5. Good(done) BY <1>1, <1>2, <1>3 DEF Good, OwnedType
<1>6. Moves(done, r) BY <1>4, <1>5, MovesRefl, ExecuteLatchedMoves
<1>7. HalfOnce(done) BY <1>1, <1>2, ContextFacts, HalfFacts DEF HalfOnce
<1> QED BY <1>1, <1>2, <1>6, <1>7 DEF Moves, Quiet, Hands, SameBooks

\* A new process reads the row and the intent; no context and no call survives.
LEMMA LoadedKept ==
    ASSUME NEW s, Good(s), NEW c \in SomeContext \cup {NoContext}, Due(c.reason, s.row.filled)
    PROVE  LET r == [Loaded(s) EXCEPT !.ctx = c] IN
           /\ Good(r)
           /\ r.row = s.row /\ r.ctx = c /\ r.sell = Idle
<1> DEFINE l == Loaded(s)
           r == [l EXCEPT !.ctx = c]
<1>0. s.row \in RowType /\ s.intent \in IntentType BY DEF Good, OwnedType
<1>1. /\ r.pos = l.pos /\ r.row = s.row /\ r.intent = s.intent /\ r.ctx = c /\ r.sell = Idle
      /\ r = [pos |-> l.pos, row |-> s.row, intent |-> s.intent, ctx |-> c, sell |-> Idle]
  BY DEF Loaded
<1>2. /\ l.pos \in MemoryType
      /\ l.pos.status = s.row.status /\ l.pos.filled = s.row.filled
      /\ l.pos.reason = s.intent.reason /\ l.pos.triggered = s.row.triggered
      /\ l.pos.halfDone = s.row.halfDone /\ l.pos.realized = s.row.realized
  BY <1>0 DEF Loaded, RowType, IntentType, MemoryType
<1> HIDE DEF r, l
<1>3. Idle \in SellType BY AmountFacts DEF Idle, SellCall, SellType, SomeOrder
<1>4. Good(r) BY <1>0, <1>1, <1>2, <1>3 DEF Good, OwnedType
<1> QED BY <1>1, <1>4 DEF r, l

-----------------------------------------------------------------------------
(* The completion queue *)

LEMMA AppendFacts ==
    ASSUME NEW S, NEW q \in Seq(S), NEW e \in S
    PROVE  /\ Append(q, e) \in Seq(S)
           /\ DOMAIN Append(q, e) = DOMAIN q \cup {Len(q) + 1}
           /\ Len(q) + 1 \notin DOMAIN q
           /\ \A i \in DOMAIN q : Append(q, e)[i] = q[i]
           /\ Append(q, e)[Len(q) + 1] = e
  OBVIOUS

LEMMA TailFacts ==
    ASSUME NEW S, NEW q \in Seq(S), q # <<>>
    PROVE  /\ Tail(q) \in Seq(S)
           /\ Head(q) \in S /\ 1 \in DOMAIN q /\ Head(q) = q[1]
           /\ \A i \in DOMAIN Tail(q) :
                  i + 1 \in DOMAIN q /\ Tail(q)[i] = q[i + 1] /\ i + 1 # 1
           /\ \A i, j \in DOMAIN Tail(q) : i + 1 = j + 1 => i = j
  OBVIOUS

\* Taking the oldest event leaves the others true; a new sell needs them to hold none.
LEMMA AnswersTaken ==
    ASSUME CallsTyped, AnswersTrue, queue # <<>>, queue' = Tail(queue),
           UNCHANGED <<fate, journal>>,
           \/ sell'.phase = sell.phase
           \/ sell.phase # "done"
           \/ Head(queue).kind = "sell"
    PROVE  /\ queue' \in Seq(EventType)
           /\ AnswersTrue'
           /\ \A i \in Arrivals("sell")' :
                  sell'.phase = sell.phase /\ \E j \in Arrivals("sell") : queue[j] = queue'[i]
<1>1. /\ queue' \in Seq(EventType)
      /\ 1 \in DOMAIN queue /\ Head(queue) = queue[1]
      /\ \A i \in DOMAIN queue' :
             i + 1 \in DOMAIN queue /\ queue'[i] = queue[i + 1] /\ i + 1 # 1
      /\ \A i, j \in DOMAIN queue' : i + 1 = j + 1 => i = j
  BY TailFacts DEF CallsTyped
<1>2. \A kind : \A i \in Arrivals(kind)' :
          i + 1 \in Arrivals(kind) /\ queue'[i] = queue[i + 1] /\ i + 1 # 1
  BY <1>1 DEF Arrivals
<1>3. \A i, j \in Arrivals("sell")' : i = j
  <2> TAKE i, j \in Arrivals("sell")'
  <2>1. i + 1 = j + 1 BY <1>2 DEF AnswersTrue
  <2>2. i \in DOMAIN queue' /\ j \in DOMAIN queue' BY DEF Arrivals
  <2> QED BY <1>1, <2>1, <2>2
<1>4. \A i \in Arrivals("sell")' : sell'.phase = sell.phase /\ sell.phase = "done"
  <2> TAKE i \in Arrivals("sell")'
  <2>1. i + 1 \in Arrivals("sell") /\ i + 1 # 1 BY <1>2
  <2>2. sell.phase = "done" BY <2>1 DEF AnswersTrue
  <2>3. ASSUME Head(queue).kind = "sell" PROVE FALSE
    <3>1. 1 \in Arrivals("sell") BY <1>1, <2>3 DEF Arrivals
    <3> QED BY <2>1, <3>1 DEF AnswersTrue
  <2> QED BY <2>2, <2>3
<1>5. ASSUME NEW i \in Arrivals("sell")'
      PROVE  \E j \in Arrivals("sell") : queue[j] = queue'[i]
  BY <1>2
<1>6. ASSUME NEW i \in Arrivals("sell")'
      PROVE  /\ sell'.phase = "done"
             /\ queue'[i].result \in {"submitted", "failed", "unknown"}
             /\ queue'[i].result = "submitted" =>
                    queue'[i].order \in Orders /\ journal'.order = queue'[i].order
  BY <1>4, <1>5 DEF AnswersTrue
<1>7. ASSUME NEW i \in Arrivals("order_status")'
      PROVE  /\ queue'[i].order \in Orders
             /\ queue'[i].result \in {"SWAP_FAILED", "SWAP_CONFIRMED"} =>
                    fate'[queue'[i].order] \in {"filled", "failed"}
  <2>1. \E j \in Arrivals("order_status") : queue[j] = queue'[i] BY <1>2
  <2> QED BY <2>1 DEF AnswersTrue
<1>8. AnswersTrue' BY <1>3, <1>6, <1>7 DEF AnswersTrue
<1> QED BY <1>1, <1>4, <1>5, <1>8

\* An event joins the queue: the one answer of a sell, a true report, or a balance.
LEMMA AnswersJoined ==
    ASSUME CallsTyped, AnswersTrue, UNCHANGED fate,
           NEW e \in EventType, queue' = Append(queue, e),
           \/ /\ e.kind = "sell" /\ sell.phase # "done" /\ sell'.phase = "done"
              /\ e.result \in {"submitted", "failed", "unknown"}
              /\ e.result = "submitted" => e.order \in Orders /\ journal'.order = e.order
           \/ /\ e.kind = "order_status" /\ e.order \in Orders
              /\ e.result \in {"SWAP_FAILED", "SWAP_CONFIRMED"} => fate[e.order] \in {"filled", "failed"}
              /\ sell'.phase = sell.phase /\ journal'.order = journal.order
           \/ /\ e.kind = "balance"
              /\ sell'.phase = sell.phase /\ journal'.order = journal.order
    PROVE  /\ queue' \in Seq(EventType)
           /\ AnswersTrue'
           /\ \A i \in Arrivals("sell")' :
                  \/ e.kind = "sell" /\ queue'[i] = e
                  \/ \E j \in Arrivals("sell") : queue[j] = queue'[i]
<1> DEFINE n == Len(queue) + 1
<1>1. /\ queue' \in Seq(EventType)
      /\ DOMAIN queue' = DOMAIN queue \cup {n}
      /\ n \notin DOMAIN queue
      /\ \A i \in DOMAIN queue : queue'[i] = queue[i]
      /\ queue'[n] = e
  BY AppendFacts DEF CallsTyped
<1> HIDE DEF n
<1>2. \A kind : \A i \in Arrivals(kind)' :
          \/ i = n /\ queue'[i] = e /\ e.kind = kind
          \/ i \in Arrivals(kind) /\ queue'[i] = queue[i]
  BY <1>1 DEF Arrivals
<1>3. ASSUME e.kind = "sell", sell.phase # "done" PROVE Arrivals("sell")' \subseteq {n}
  BY <1>2, <1>3 DEF AnswersTrue
<1>4. ASSUME e.kind # "sell"
      PROVE  \A i \in Arrivals("sell")' : i \in Arrivals("sell") /\ queue'[i] = queue[i]
  BY <1>2, <1>4
<1>5. \A i, j \in Arrivals("sell")' : i = j BY <1>3, <1>4 DEF AnswersTrue
<1>6. ASSUME NEW i \in Arrivals("sell")'
      PROVE  \/ e.kind = "sell" /\ queue'[i] = e
             \/ e.kind # "sell" /\ \E j \in Arrivals("sell") : queue[j] = queue'[i]
  <2>1. CASE e.kind = "sell"
    <3>1. i = n BY <1>3, <2>1
    <3> QED BY <1>1, <2>1, <3>1
  <2>2. CASE e.kind # "sell" BY <1>4, <2>2
  <2> QED BY <2>1, <2>2
<1>7. ASSUME NEW i \in Arrivals("sell")'
      PROVE  /\ sell'.phase = "done"
             /\ queue'[i].result \in {"submitted", "failed", "unknown"}
             /\ queue'[i].result = "submitted" =>
                    queue'[i].order \in Orders /\ journal'.order = queue'[i].order
  <2>1. CASE e.kind = "sell" BY <1>6, <2>1
  <2>2. CASE e.kind # "sell" BY <1>6, <2>2 DEF AnswersTrue
  <2> QED BY <2>1, <2>2
<1>8. ASSUME NEW i \in Arrivals("order_status")'
      PROVE  /\ queue'[i].order \in Orders
             /\ queue'[i].result \in {"SWAP_FAILED", "SWAP_CONFIRMED"} =>
                    fate'[queue'[i].order] \in {"filled", "failed"}
  <2>1. \/ e.kind = "order_status" /\ queue'[i] = e
        \/ \E j \in Arrivals("order_status") : queue[j] = queue'[i]
    BY <1>2
  <2> QED BY <2>1 DEF AnswersTrue
<1>9. AnswersTrue' BY <1>5, <1>7, <1>8 DEF AnswersTrue
<1> QED BY <1>1, <1>6, <1>9

\* A step that leaves the queue alone, and never takes back what an answer says.
LEMMA AnswersKept ==
    ASSUME AnswersTrue, UNCHANGED queue,
           sell.phase = "done" => sell'.phase = "done" /\ journal'.order = journal.order,
           \A o \in Orders : fate[o] \in {"filled", "failed"} => fate'[o] = fate[o]
    PROVE  AnswersTrue' /\ Arrivals("sell")' = Arrivals("sell")
<1>1. \A kind : Arrivals(kind)' = Arrivals(kind) BY DEF Arrivals
<1> QED BY <1>1 DEF AnswersTrue

\* What the owner loop becomes.
LEMMA BecomesFacts ==
    ASSUME NEW s, s \in OwnedType, Becomes(s)
    PROVE  /\ Owned' = s
           /\ pos' = s.pos /\ row' = s.row /\ intent' = s.intent /\ ctx' = s.ctx /\ sell' = s.sell
  BY DEF Becomes, Owned, OwnedType

LEMMA OwnedFacts ==
    /\ Owned.pos = pos /\ Owned.row = row /\ Owned.intent = intent
    /\ Owned.ctx = ctx /\ Owned.sell = sell
    /\ Owned' = [pos |-> pos', row |-> row', intent |-> intent', ctx |-> ctx', sell |-> sell']
  BY DEF Owned

-----------------------------------------------------------------------------
(* The owner loop keeps the invariant *)

Free == \A o \in Orders : ~Placed(o)

\* What a step of the owner loop must respect for the journal and the claim to hold:
\* it hands over no sell while an order is placed, and gives up no claim then.
LEMMA GuardsKept ==
    ASSUME RowClaimed, ErrorMayHideOrder \/ (OneAtATime /\ (DbMayFail \/ Covered)),
           UNCHANGED <<fate, journal>>,
           sell' = sell \/ sell'.phase \in {"idle", "queued"},
           \A i \in Arrivals("sell")' : \E j \in Arrivals("sell") : queue[j] = queue'[i],
           ErrorMayHideOrder \/ DbMayFail \/
               (/\ sell'.phase = "queued" => sell.phase = "queued" \/ Free
                /\ \/ row'.swap \in InFlight \/ row'.status = "CLOSED"
                   \/ sell' = sell /\ row'.swap = row.swap /\ row'.status = row.status
                   \/ sell'.phase = "idle" /\ Free)
    PROVE  RowClaimed' /\ (ErrorMayHideOrder \/ (OneAtATime' /\ (DbMayFail \/ Covered')))
<1>1. Free' = Free /\ \A o \in Orders : Placed(o)' = Placed(o) BY DEF Free, Placed
<1>2. RowClaimed' BY DEF RowClaimed
<1>3. OneAtATime => OneAtATime' BY <1>1 DEF OneAtATime, OneSellOrder
<1>4. ASSUME Covered, ~ErrorMayHideOrder, ~DbMayFail PROVE Covered'
  <2>1. ClaimCoversOrder' BY <1>4 DEF Covered, ClaimCoversOrder, Free, Placed
  <2>2. ASSUME sell'.phase = "queued" PROVE Free
    BY <1>4, <2>2 DEF Covered, Free
  <2>3. ASSUME NEW i \in Arrivals("sell")', queue'[i].result = "failed" PROVE Free
    BY <1>4, <2>3 DEF Covered, Free
  <2> QED BY <1>1, <2>1, <2>2, <2>3 DEF Covered, Free
<1> QED BY <1>2, <1>3, <1>4

\* An order whose answer says it is settled leaves none placed: the journal names it.
LEMMA SettledFree ==
    ASSUME ContextKept, OneAtATime, NEW o \in Orders, tracked[o] # NoContext, ~Placed(o)
    PROVE  Free
<1>1. journal.order = o /\ o # NoOrder BY ExitAssumption DEF ContextKept
<1> QED BY <1>1 DEF OneAtATime, Free

\* A position that moves: nothing is handed over, or a claimed call.
LEMMA OwnerMoves ==
    ASSUME IInv, NEW r, Moves(Owned, r), Becomes(r), row.status = "OPEN",
           UNCHANGED <<tracked, pool, queue, jrnl, world, restarts>>
    PROVE  IInv' /\ row'.status = row.status /\ BooksKept /\ NoneSent
<1>1. /\ Owned' = r /\ Good(r)
      /\ row' = r.row /\ ctx' = r.ctx /\ sell' = r.sell
  BY BecomesFacts DEF Moves, Good
<1>2. row'.status = row.status /\ BooksKept BY <1>1, OwnedFacts DEF Moves, SameBooks, BooksKept
<1>3. \/ ctx' = ctx /\ sell' = sell /\ row'.swap = row.swap
      \/ /\ ctx = NoContext /\ ctx' # NoContext /\ sell'.phase = "queued"
         /\ DbMayFail \/ (row'.swap = "SWAP_SUBMITTING" /\ row.swap \notin InFlight)
  BY <1>1, OwnedFacts DEF Moves, Quiet, Hands
<1>4. Good(Owned)' /\ HalfOnce(Owned)'
  <2>1. HalfOnce(r) BY DEF Moves, IInv
  <2> QED BY <1>1, <2>1 DEF Good, OwnedType, HalfOnce
<1>5. CallsTyped' BY DEF IInv, CallsTyped, pool, jrnl, world
<1>6. ContextKept' BY <1>3 DEF IInv, ContextKept, jrnl
<1>7. AnswersTrue' /\ Arrivals("sell")' = Arrivals("sell")
  BY <1>3, AnswersKept DEF IInv, ContextKept, jrnl, world
<1>8. RowClaimed' /\ (ErrorMayHideOrder \/ (OneAtATime' /\ (DbMayFail \/ Covered')))
  <2>1. ASSUME ~ErrorMayHideOrder, ~DbMayFail, row.swap \notin InFlight PROVE Free
    BY <2>1 DEF IInv, Covered, ClaimCoversOrder, Free, Placed
  <2>2. "SWAP_SUBMITTING" \in InFlight BY DEF InFlight
  <2> QED BY <1>2, <1>3, <1>7, <2>1, <2>2, GuardsKept DEF IInv, jrnl, world
<1> QED BY <1>2, <1>3, <1>4, <1>5, <1>6, <1>7, <1>8 DEF IInv, NoneSent, AtRest

LEMMA EvaluateKeeps ==
    ASSUME IInv, Evaluate
    PROVE  IInv' /\ row'.status = row.status /\ BooksKept /\ NoneSent
<1>1. PICK e \in Evaluations(Owned) : Becomes(IF e.persist THEN Persisted(e.state) ELSE e.state)
  BY DEF Evaluate
<1>2. Moves(Owned, IF e.persist THEN Persisted(e.state) ELSE e.state)
  BY EvaluationsMove DEF IInv
<1>3. row.status = "OPEN" BY OwnedFacts DEF IInv, Good, Evaluate
<1> QED BY <1>1, <1>2, <1>3, OwnerMoves DEF Evaluate

\* A reconciliation leaves context, call and claim alone.
LEMMA ReconciliationKeeps ==
    ASSUME IInv, NEW balance \in Amounts, Becomes(Reconciled(Owned, balance)),
           queue' \in Seq(EventType), AnswersTrue',
           \A i \in Arrivals("sell")' : \E j \in Arrivals("sell") : queue[j] = queue'[i],
           UNCHANGED <<tracked, pool, jrnl, world, restarts>>
    PROVE  IInv' /\ row'.status \in {row.status, "CLOSED"} /\ BooksKept /\ NoneSent
<1> DEFINE r == Reconciled(Owned, balance)
<1>1. /\ Good(r) /\ r.ctx = ctx /\ r.sell = sell
      /\ r.row.swap = row.swap /\ r.row.status \in {row.status, "CLOSED"}
      /\ HalfOnce(r) /\ SameBooks(Owned, r)
  BY ReconciledKept, OwnedFacts DEF IInv
<1> HIDE DEF r
<1>2. Owned' = r /\ row' = r.row /\ ctx' = r.ctx /\ sell' = r.sell
  BY <1>1, BecomesFacts DEF Good, r
<1>3. Good(Owned)' /\ HalfOnce(Owned)' BY <1>1, <1>2 DEF Good, OwnedType, HalfOnce
<1>7. BooksKept BY <1>1, <1>2, OwnedFacts DEF SameBooks, BooksKept
<1>4. CallsTyped' BY DEF IInv, CallsTyped, pool, jrnl, world
<1>5. ContextKept' BY <1>1, <1>2 DEF IInv, ContextKept, jrnl
<1>6. RowClaimed' /\ (ErrorMayHideOrder \/ (OneAtATime' /\ (DbMayFail \/ Covered')))
  BY <1>1, <1>2, GuardsKept DEF IInv, jrnl, world
<1> QED BY <1>1, <1>2, <1>3, <1>4, <1>5, <1>6, <1>7 DEF IInv, NoneSent, AtRest

LEMMA ReconcileForcedKeeps ==
    ASSUME IInv, ReconcileForced
    PROVE  IInv' /\ row'.status \in {row.status, "CLOSED"} /\ BooksKept /\ NoneSent
<1>1. AnswersTrue' /\ Arrivals("sell")' = Arrivals("sell") /\ queue' = queue
  <2>1. sell'.phase = sell.phase
    <3>1. held \in Amounts /\ Good(Owned) BY DEF IInv, CallsTyped
    <3> QED BY <3>1, BecomesFacts, ReconciledKept, OwnedFacts DEF ReconcileForced, Good
  <2> QED BY <2>1, AnswersKept DEF IInv, ReconcileForced, jrnl, world
<1>2. held \in Amounts /\ queue \in Seq(EventType) BY DEF IInv, CallsTyped
<1> QED BY <1>1, <1>2, ReconciliationKeeps DEF ReconcileForced

LEMMA HandleBalanceKeeps ==
    ASSUME IInv, HandleBalance
    PROVE  IInv' /\ row'.status \in {row.status, "CLOSED"} /\ BooksKept /\ NoneSent
<1>1. queue # <<>> /\ queue' = Tail(queue) /\ Head(queue).balance \in Amounts
  <2>1. queue # <<>> /\ queue' = Tail(queue) BY DEF HandleBalance, Arrived
  <2>2. Head(queue) \in EventType BY <2>1, TailFacts DEF IInv, CallsTyped
  <2> QED BY <2>1, <2>2 DEF EventType
<1>2. sell'.phase = sell.phase
  BY <1>1, BecomesFacts, ReconciledKept, OwnedFacts DEF IInv, HandleBalance, Good
<1>3. /\ queue' \in Seq(EventType) /\ AnswersTrue'
      /\ \A i \in Arrivals("sell")' : \E j \in Arrivals("sell") : queue[j] = queue'[i]
  BY <1>1, <1>2, AnswersTaken DEF IInv, HandleBalance, jrnl, world
<1> QED BY <1>1, <1>3, ReconciliationKeeps DEF HandleBalance

LEMMA HandleSellKeeps ==
    ASSUME IInv, HandleSell
    PROVE  IInv' /\ row'.status = row.status /\ BooksKept /\ NoneSent
<1> DEFINE e == Head(queue)
           quiet == [Owned EXCEPT !.sell = Idle]
<1>1. queue # <<>> /\ queue' = Tail(queue) /\ e.kind = "sell"
  BY DEF HandleSell, Arrived
<1>2. 1 \in Arrivals("sell") /\ queue[1] = e /\ e \in EventType
  BY <1>1, TailFacts DEF IInv, CallsTyped, Arrivals
<1>3. /\ sell.phase = "done"
      /\ e.result = "submitted" => e.order \in Orders /\ journal.order = e.order
  BY <1>2 DEF IInv, AnswersTrue
<1>4. ctx \in SomeContext /\ ctx # NoContext /\ \A o \in Orders : tracked[o] = NoContext
  <2>1. ctx # NoContext /\ \A o \in Orders : tracked[o] = NoContext
    BY <1>3 DEF IInv, ContextKept
  <2>2. ctx \in SomeContext \cup {NoContext} BY OwnedFacts DEF IInv, Good, OwnedType
  <2> QED BY <2>1, <2>2
<1>5. /\ Good(quiet)
      /\ quiet.pos = pos /\ quiet.row = row /\ quiet.ctx = ctx /\ quiet.sell = Idle
      /\ Idle.phase = "idle"
  <2>1. /\ quiet.pos = pos /\ quiet.row = row /\ quiet.ctx = ctx /\ quiet.sell = Idle
        /\ quiet.intent = intent
        /\ quiet = [pos |-> pos, row |-> row, intent |-> intent, ctx |-> ctx, sell |-> Idle]
    BY DEF Owned
  <2>2. Idle \in SellType /\ Idle.phase = "idle"
    BY AmountFacts DEF Idle, SellCall, SellType, SomeOrder
  <2> HIDE DEF quiet
  <2> QED BY <2>1, <2>2, OwnedFacts DEF IInv, Good, OwnedType
<1> HIDE DEF e, quiet
<1>6. CASE /\ e.result = "submitted"
           /\ \E s \in ExitStatus(quiet, "SWAP_SUBMITTED") : Becomes(s)
           /\ tracked' = [tracked EXCEPT ![e.order] = ctx]
           /\ asked' = asked \cup {e.order}
  <2>1. PICK s \in ExitStatus(quiet, "SWAP_SUBMITTED") : Becomes(s) BY <1>6
  <2>2. "SWAP_SUBMITTED" \in SwapStates /\ "SWAP_SUBMITTED" \in InFlight
    BY DEF SwapStates, InFlight
  <2>3. /\ Good(s) /\ s.ctx = ctx /\ s.sell = Idle /\ s.row.status = row.status
        /\ DbMayFail \/ s.row.swap = "SWAP_SUBMITTED"
        /\ s.pos = pos /\ SameBooks(Owned, s)
    BY <1>5, <2>2, StatusKept, OwnedFacts DEF SameBooks
  <2>4. Owned' = s /\ row' = s.row /\ ctx' = ctx /\ sell' = Idle
    BY <2>1, <2>3, BecomesFacts DEF Good
  <2>5. Good(Owned)' /\ HalfOnce(Owned)' /\ BooksKept
    BY <2>3, <2>4, OwnedFacts DEF Good, OwnedType, HalfOnce, IInv, SameBooks, BooksKept
  <2>6. tracked' \in [Orders -> SomeContext \cup {NoContext}] /\ asked' \in SUBSET Orders
    BY <1>3, <1>4, <1>6 DEF IInv, CallsTyped
  <2>7. /\ queue' \in Seq(EventType) /\ AnswersTrue'
        /\ \A i \in Arrivals("sell")' : \E j \in Arrivals("sell") : queue[j] = queue'[i]
    BY <1>1, AnswersTaken DEF IInv, HandleSell, e, jrnl, world
  <2>8. CallsTyped'
    BY <2>6, <2>7 DEF IInv, CallsTyped, HandleSell, jrnl, world
  <2>9. ContextKept'
    <3>1. \A o \in Orders : tracked'[o] # NoContext => o = e.order /\ tracked'[o] = ctx
      BY <1>4, <1>6 DEF IInv, CallsTyped
    <3>2. journal' = journal BY DEF HandleSell, jrnl
    <3> QED BY <1>3, <1>4, <1>5, <1>6, <2>4, <3>1, <3>2 DEF ContextKept
  <2>10. RowClaimed' /\ (ErrorMayHideOrder \/ (OneAtATime' /\ (DbMayFail \/ Covered')))
    BY <1>5, <2>2, <2>3, <2>4, <2>7, GuardsKept DEF IInv, HandleSell, jrnl, world
  <2> QED BY <1>5, <2>3, <2>4, <2>5, <2>7, <2>8, <2>9, <2>10 DEF IInv, NoneSent, AtRest
<1>7. CASE /\ e.result \in {"failed", "unknown"}
           /\ LET status == IF e.result = "failed" THEN "SWAP_FAILED" ELSE "SWAP_UNKNOWN"
                  armed  == WithIntent(quiet, ctx.reason, ctx.quantity)
              IN \E s \in ExitStatus(armed, status) : Becomes([s EXCEPT !.ctx = NoContext])
           /\ UNCHANGED <<tracked, asked>>
  <2> DEFINE status == IF e.result = "failed" THEN "SWAP_FAILED" ELSE "SWAP_UNKNOWN"
             armed  == WithIntent(quiet, ctx.reason, ctx.quantity)
  <2>1. PICK s \in ExitStatus(armed, status) : Becomes([s EXCEPT !.ctx = NoContext]) BY <1>7
  <2>2. status \in SwapStates /\ (status = "SWAP_FAILED" \/ status \in InFlight)
    BY DEF SwapStates, InFlight
  <2>3. /\ Good(armed) /\ armed.row = row /\ armed.ctx = ctx /\ armed.sell = Idle
        /\ armed.pos.halfDone = pos.halfDone /\ armed.pos.reason = ctx.reason
    <3>1. ctx.reason \in Reasons /\ ctx.quantity \in Amounts BY <1>4 DEF SomeContext
    <3>2. Due(ctx.reason, quiet.pos.filled) BY <1>5, OwnedFacts DEF IInv, Good
    <3> QED BY <1>5, <3>1, <3>2, IntentKept
  <2> DEFINE r == [s EXCEPT !.ctx = NoContext]
  <2>4. /\ Good(s) /\ s.sell = Idle /\ s.row.status = row.status
        /\ DbMayFail \/ s.row.swap = status
        /\ s.pos = armed.pos /\ SameBooks(Owned, s)
    <3> HIDE DEF armed, status
    <3> QED BY <2>2, <2>3, StatusKept, OwnedFacts DEF SameBooks
  <2> HIDE DEF armed
  <2>5. /\ r.pos = s.pos /\ r.row = s.row /\ r.intent = s.intent /\ r.ctx = NoContext
        /\ r.sell = Idle
        /\ r = [pos |-> s.pos, row |-> s.row, intent |-> s.intent, ctx |-> NoContext, sell |-> s.sell]
    BY <2>4 DEF Good, OwnedType
  <2> HIDE DEF r
  <2>6. Good(r)
    <3>1. Due(NoContext.reason, r.pos.filled) BY ContextFacts, StageFacts, DueOutside
    <3> QED BY <2>4, <2>5, <3>1 DEF Good, OwnedType
  <2>7. Owned' = r /\ row' = s.row /\ ctx' = NoContext /\ sell' = Idle
    BY <2>1, <2>5, <2>6, BecomesFacts DEF Good, r
  <2>8. Good(Owned)' /\ HalfOnce(Owned)' /\ BooksKept
    <3>1. HalfDue(ctx.reason, pos.halfDone) BY OwnedFacts DEF IInv, HalfOnce
    <3>2. HalfOnce(r) BY <2>3, <2>4, <2>5, <3>1, ContextFacts, HalfFacts DEF HalfOnce
    <3>3. BooksKept BY <2>4, <2>7, OwnedFacts DEF SameBooks, BooksKept
    <3> QED BY <2>6, <2>7, <3>2, <3>3 DEF Good, OwnedType, HalfOnce
  <2>9. /\ queue' \in Seq(EventType) /\ AnswersTrue'
        /\ \A i \in Arrivals("sell")' : \E j \in Arrivals("sell") : queue[j] = queue'[i]
    BY <1>1, AnswersTaken DEF IInv, HandleSell, e, jrnl, world
  <2>10. CallsTyped'
    BY <1>7, <2>9 DEF IInv, CallsTyped, HandleSell, jrnl, world
  <2>11. ContextKept'
    BY <1>4, <1>5, <1>7, <2>7 DEF ContextKept
  <2>12. RowClaimed' /\ (ErrorMayHideOrder \/ (OneAtATime' /\ (DbMayFail \/ Covered')))
    <3>1. ASSUME ~ErrorMayHideOrder, ~DbMayFail, status = "SWAP_FAILED" PROVE Free
      <4>1. queue[1].result = "failed" BY <1>2, <3>1
      <4> QED BY <1>2, <3>1, <4>1 DEF IInv, Covered, Free
    <3> HIDE DEF status
    <3> QED BY <1>5, <2>2, <2>4, <2>7, <2>9, <3>1, GuardsKept DEF IInv, HandleSell, jrnl, world
  <2> QED BY <1>5, <2>4, <2>7, <2>8, <2>9, <2>10, <2>11, <2>12 DEF IInv, NoneSent, AtRest
<1> QED BY <1>6, <1>7 DEF HandleSell, e, quiet

LEMMA AskingKeeps ==
    ASSUME IInv, AskBalance \/ \E o \in Orders : PollOrder(o)
    PROVE  IInv' /\ row'.status = row.status
<1>1. /\ UNCHANGED <<owned, tracked, queue, jrnl, world, restarts>>
      /\ asked' \in SUBSET Orders /\ reading' \in BOOLEAN
  BY DEF IInv, CallsTyped, AskBalance, PollOrder
<1>2. Good(Owned)' /\ HalfOnce(Owned)' BY <1>1 DEF IInv, Good, Owned, OwnedType, owned, HalfOnce
<1>3. CallsTyped' BY <1>1 DEF IInv, CallsTyped, jrnl, world
<1>4. ContextKept' BY <1>1 DEF IInv, ContextKept, owned, jrnl
<1>5. AnswersTrue' /\ Arrivals("sell")' = Arrivals("sell")
  BY <1>1, AnswersKept DEF IInv, owned, jrnl, world
<1>6. RowClaimed' /\ (ErrorMayHideOrder \/ (OneAtATime' /\ (DbMayFail \/ Covered')))
  BY <1>1, <1>5, GuardsKept DEF IInv, owned, jrnl, world
<1> QED BY <1>1, <1>2, <1>3, <1>4, <1>5, <1>6 DEF IInv, owned

LEMMA HandleStatusKeeps ==
    ASSUME IInv, HandleStatus
    PROVE  IInv' /\ row'.status \in {row.status, "CLOSED"} /\ Books /\ NoneSent
<1> DEFINE e == Head(queue)
           o == e.order
           c == tracked[o]
<1>1. queue # <<>> /\ queue' = Tail(queue) /\ e.kind = "order_status"
  BY DEF HandleStatus, Arrived
<1>2. 1 \in Arrivals("order_status") /\ queue[1] = e /\ e \in EventType
  BY <1>1, TailFacts DEF IInv, CallsTyped, Arrivals
<1>3. /\ o \in Orders
      /\ e.result \in {"SWAP_FAILED", "SWAP_CONFIRMED"} => ~Placed(o)
  BY <1>2 DEF IInv, AnswersTrue, Placed
<1>4. c \in SomeContext \cup {NoContext} BY <1>3 DEF IInv, CallsTyped
<1> HIDE DEF e, o, c
<1>5. ASSUME c # NoContext
      PROVE  /\ c \in SomeContext /\ c = ctx /\ sell.phase = "idle"
             /\ \A p \in Orders \ {o} : tracked[p] = NoContext
             /\ c.reason \in Reasons /\ c.quantity \in Amounts /\ Due(c.reason, pos.filled)
             /\ HalfDue(c.reason, pos.halfDone)
  <2>1. c \in SomeContext BY <1>4, <1>5
  <2>2. c = ctx /\ sell.phase = "idle" /\ journal.order = o
    BY <1>3, <1>5 DEF IInv, ContextKept, c
  <2>3. \A p \in Orders \ {o} : tracked[p] = NoContext
    BY <2>2 DEF IInv, ContextKept
  <2>4. Due(c.reason, pos.filled) /\ HalfDue(c.reason, pos.halfDone)
    BY <2>2, OwnedFacts DEF IInv, Good, HalfOnce
  <2> QED BY <2>1, <2>2, <2>3, <2>4 DEF SomeContext
<1>6. ASSUME c # NoContext, e.result \in {"SWAP_FAILED", "SWAP_CONFIRMED"}, ~ErrorMayHideOrder
      PROVE  Free
  BY <1>3, <1>6, SettledFree DEF IInv, c
<1>7. ASSUME sell'.phase = sell.phase \/ sell.phase # "done"
      PROVE  /\ queue' \in Seq(EventType) /\ AnswersTrue'
             /\ \A i \in Arrivals("sell")' : \E j \in Arrivals("sell") : queue[j] = queue'[i]
  BY <1>1, <1>7, AnswersTaken DEF IInv, HandleStatus, jrnl, world
<1>8. ASSUME asked' \in SUBSET Orders, queue' \in Seq(EventType),
             tracked' \in [Orders -> SomeContext \cup {NoContext}]
      PROVE  CallsTyped'
  BY <1>8 DEF IInv, CallsTyped, HandleStatus, jrnl, world
<1>9. CASE /\ c # NoContext
           /\ e.result \in {"SWAP_PENDING", "SWAP_UNKNOWN"}
           /\ \E s \in ExitStatus(Owned, e.result) : Becomes(s)
           /\ asked' \in {asked, asked \cup {o}}
           /\ UNCHANGED tracked
  <2>1. PICK s \in ExitStatus(Owned, e.result) : Becomes(s) BY <1>9
  <2>2. e.result \in SwapStates /\ e.result \in InFlight BY <1>9 DEF SwapStates, InFlight
  <2>3. /\ Good(s) /\ s.ctx = ctx /\ s.sell = sell /\ s.row.status = row.status
        /\ DbMayFail \/ s.row.swap = e.result
        /\ s.pos = pos /\ SameBooks(Owned, s)
    BY <2>2, StatusKept, OwnedFacts DEF IInv
  <2>4. Owned' = s /\ row' = s.row /\ ctx' = ctx /\ sell' = sell
    BY <2>1, <2>3, BecomesFacts DEF Good
  <2>5. Good(Owned)' /\ HalfOnce(Owned)' /\ BooksKept
    BY <2>3, <2>4, OwnedFacts DEF Good, OwnedType, HalfOnce, IInv, SameBooks, BooksKept
  <2>6. asked' \in SUBSET Orders BY <1>3, <1>9 DEF IInv, CallsTyped
  <2>7. CallsTyped' BY <1>7, <1>8, <1>9, <2>4, <2>6 DEF IInv, CallsTyped
  <2>8. ContextKept' BY <1>9, <2>4 DEF IInv, ContextKept, HandleStatus, jrnl
  <2>9. RowClaimed' /\ (ErrorMayHideOrder \/ (OneAtATime' /\ (DbMayFail \/ Covered')))
    BY <1>7, <2>2, <2>3, <2>4, GuardsKept DEF IInv, HandleStatus, jrnl, world
  <2> QED BY <1>7, <2>3, <2>4, <2>5, <2>7, <2>8, <2>9 DEF IInv, Books, NoneSent, AtRest
<1>10. CASE /\ c # NoContext
            /\ e.result = "SWAP_FAILED"
            /\ \E s \in ExitStatus(WithIntent(Owned, c.reason, c.quantity), "SWAP_FAILED") :
                  Becomes(s)
            /\ tracked' = [tracked EXCEPT ![o] = NoContext]
            /\ UNCHANGED asked
  <2> DEFINE armed == WithIntent(Owned, c.reason, c.quantity)
  <2>1. PICK s \in ExitStatus(armed, "SWAP_FAILED") : Becomes(s) BY <1>10
  <2>2. "SWAP_FAILED" \in SwapStates BY DEF SwapStates
  <2>3. /\ Good(armed) /\ armed.row = row /\ armed.ctx = ctx /\ armed.sell = sell
        /\ armed.pos.halfDone = pos.halfDone /\ armed.pos.reason = c.reason
    BY <1>5, <1>10, IntentKept, OwnedFacts DEF IInv
  <2> HIDE DEF armed
  <2>4. /\ Good(s) /\ s.ctx = ctx /\ s.sell = sell /\ s.row.status = row.status
        /\ s.pos = armed.pos /\ SameBooks(Owned, s)
    BY <2>2, <2>3, StatusKept, OwnedFacts DEF SameBooks
  <2>5. Owned' = s /\ row' = s.row /\ ctx' = ctx /\ sell' = sell
    BY <2>1, <2>4, BecomesFacts DEF Good
  <2>6. Good(Owned)' /\ HalfOnce(Owned)' /\ BooksKept
    <3>1. HalfOnce(s) BY <1>5, <1>10, <2>3, <2>4, OwnedFacts DEF HalfOnce, IInv
    <3>2. BooksKept BY <2>4, <2>5, OwnedFacts DEF SameBooks, BooksKept
    <3> QED BY <2>4, <2>5, <3>1, <3>2 DEF Good, OwnedType, HalfOnce
  <2>7. tracked' \in [Orders -> SomeContext \cup {NoContext}] /\ \A p \in Orders : tracked'[p] = NoContext
    BY <1>5, <1>10 DEF IInv, CallsTyped
  <2>8. CallsTyped' BY <1>7, <1>8, <1>10, <2>5, <2>7 DEF IInv, CallsTyped
  <2>9. ContextKept' BY <1>5, <1>10, <2>5, <2>7 DEF ContextKept
  <2>10. RowClaimed' /\ (ErrorMayHideOrder \/ (OneAtATime' /\ (DbMayFail \/ Covered')))
    BY <1>5, <1>6, <1>7, <1>10, <2>5, GuardsKept DEF IInv, HandleStatus, jrnl, world
  <2> QED BY <1>7, <2>4, <2>5, <2>6, <2>8, <2>9, <2>10 DEF IInv, Books, NoneSent, AtRest
<1>11. CASE /\ c # NoContext
            /\ e.result = "SWAP_CONFIRMED"
            /\ \E proceeds \in {0, amount[o]} :
               \E s \in Settled(Booked(Owned, c, proceeds)) : Becomes(s)
            /\ tracked' = [tracked EXCEPT ![o] = NoContext]
            /\ UNCHANGED asked
  <2>1. PICK proceeds \in {0, amount[o]} :
            \E s \in Settled(Booked(Owned, c, proceeds)) : Becomes(s)
    BY <1>11
  <2> DEFINE b == Booked(Owned, c, proceeds)
  <2>2. PICK s \in Settled(b) : Becomes(s) BY <2>1
  <2>3. /\ Good(b) /\ b.ctx = ctx /\ b.sell = sell
        /\ b.row.status \in {row.status, "CLOSED"}
        /\ b.row.filled = row.filled \cup {k \in Stages : c.partial /\ c.reason = TPReason[k]}
        /\ b.row.halfDone = (row.halfDone \/ (c.partial /\ c.reason = "HALF"))
        /\ b.row.realized = row.realized + proceeds
    <3>1. proceeds \in Nat BY <1>3, <2>1, AmountFacts DEF IInv, CallsTyped
    <3> QED BY <1>5, <1>11, <3>1, BookedKept, OwnedFacts DEF IInv
  <2> HIDE DEF b
  <2>4. /\ Good(s) /\ s.row.status \in {row.status, "CLOSED"}
        /\ HalfOnce(s) /\ SameBooks(b, s)
        /\ \/ s.ctx = NoContext /\ s.sell = sell
           \/ /\ s.ctx # NoContext /\ s.sell.phase = "queued"
              /\ DbMayFail \/ s.row.swap = "SWAP_SUBMITTING"
    BY <2>3, SettledKept
  <2>5. Owned' = s /\ row' = s.row /\ ctx' = s.ctx /\ sell' = s.sell
    BY <2>2, <2>4, BecomesFacts DEF Good
  <2>6. Good(Owned)' /\ HalfOnce(Owned)' BY <2>4, <2>5 DEF Good, OwnedType, HalfOnce
  <2>12. Booking(o)
    <3>1. row'.realized \in {row.realized, row.realized + amount[o]}
      <4>1. row.realized \in Nat BY OwnedFacts DEF IInv, Good, OwnedType, RowType
      <4> QED BY <2>1, <2>3, <2>4, <2>5, <4>1 DEF SameBooks
    <3>2. BookedAt(row.filled, row.halfDone, row'.filled, row'.halfDone)
      <4>1. row.filled \in SUBSET Stages /\ row.halfDone \in BOOLEAN
        BY OwnedFacts DEF IInv, Good, OwnedType, RowType
      <4> QED BY <1>5, <1>11, <2>3, <2>4, <2>5, <4>1, OneCredit DEF SameBooks
    <3>3. UNCHANGED <<journal, fate, amount>> BY DEF HandleStatus, jrnl, world
    <3>4. tracked'[o] = NoContext BY <1>3, <1>11 DEF IInv, CallsTyped
    <3> QED BY <1>1, <1>11, <3>1, <3>2, <3>3, <3>4 DEF Booking, BookedAt, Arrived, e, o, c
  <2>7. tracked' \in [Orders -> SomeContext \cup {NoContext}] /\ \A p \in Orders : tracked'[p] = NoContext
    BY <1>5, <1>11 DEF IInv, CallsTyped
  <2>8. /\ queue' \in Seq(EventType) /\ AnswersTrue'
        /\ \A i \in Arrivals("sell")' : \E j \in Arrivals("sell") : queue[j] = queue'[i]
    BY <1>5, <1>7, <1>11
  <2>9. CallsTyped' BY <1>8, <1>11, <2>7, <2>8 DEF IInv, CallsTyped
  <2>10. ContextKept' BY <1>5, <1>11, <2>4, <2>5, <2>7 DEF ContextKept
  <2>11. RowClaimed' /\ (ErrorMayHideOrder \/ (OneAtATime' /\ (DbMayFail \/ Covered')))
    <3>1. "SWAP_SUBMITTING" \in InFlight BY DEF InFlight
    <3> QED BY <1>5, <1>6, <1>11, <2>4, <2>5, <2>8, <3>1, GuardsKept
            DEF IInv, HandleStatus, jrnl, world
  <2> QED BY <1>3, <2>4, <2>5, <2>6, <2>8, <2>9, <2>10, <2>11, <2>12 DEF IInv, Books, NoneSent, AtRest
<1>12. CASE c = NoContext /\ UNCHANGED <<owned, tracked, asked>>
  <2>1. UNCHANGED <<pos, row, intent, ctx, sell>> /\ Owned' = Owned
    BY <1>12 DEF owned, Owned
  <2>2. Good(Owned)' /\ HalfOnce(Owned)' /\ BooksKept
    BY <2>1 DEF IInv, Good, OwnedType, HalfOnce, BooksKept
  <2>3. CallsTyped' BY <1>7, <1>8, <1>12, <2>1 DEF IInv, CallsTyped
  <2>4. ContextKept' BY <1>12, <2>1 DEF IInv, ContextKept, HandleStatus, jrnl
  <2>5. RowClaimed' /\ (ErrorMayHideOrder \/ (OneAtATime' /\ (DbMayFail \/ Covered')))
    BY <1>7, <2>1, GuardsKept DEF IInv, HandleStatus, jrnl, world
  <2> QED BY <1>7, <2>1, <2>2, <2>3, <2>4, <2>5 DEF IInv, Books, NoneSent, AtRest
<1> QED BY <1>9, <1>10, <1>11, <1>12 DEF HandleStatus, e, o, c

-----------------------------------------------------------------------------
(* The worker threads keep the invariant *)

\* A worker changes the call of the position and nothing else the owner loop has.
LEMMA WorkerKeepsOwned ==
    ASSUME Good(Owned), HalfOnce(Owned), UNCHANGED <<pos, row, intent, ctx>>,
           \/ UNCHANGED sell
           \/ \E phase \in {"claimed", "done"} : sell' = [sell EXCEPT !.phase = phase]
           \/ \E o \in Orders : sell' = [sell EXCEPT !.phase = "sent", !.order = o]
    PROVE  /\ Good(Owned)' /\ HalfOnce(Owned)'
           /\ sell' \in SellType
           /\ sell \in SellType
<1>1. sell \in SellType BY OwnedFacts DEF Good, OwnedType
<1>2. sell' \in SellType BY <1>1 DEF SellType, SomeOrder
<1> QED BY <1>1, <1>2, OwnedFacts DEF Good, OwnedType, HalfOnce

\* The answer of a sell joins the queue: what the journal says when it does.
LEMMA ReturnKeeps ==
    ASSUME IInv, NEW o \in SomeOrder, NEW result \in {"submitted", "failed", "unknown"},
           Return(o, result), sell.phase \in {"queued", "claimed", "sent"},
           UNCHANGED <<pos, row, intent, ctx, tracked, pool, claimed, world, restarts>>,
           journal' \in [state : JournalStates, order : SomeOrder],
           result = "submitted" => o \in Orders /\ journal'.order = o,
           ErrorMayHideOrder \/
               (/\ \A p \in Orders : Placed(p) =>
                       journal'.state \in ActiveJournal /\ journal'.order \in {p, NoOrder}
                /\ result = "failed" => Free \/ DbMayFail)
    PROVE  IInv'
<1> DEFINE e == Event("sell", o, result, 0)
<1>1. sell' = [sell EXCEPT !.phase = "done"] /\ queue' = Append(queue, e)
  BY DEF Return
<1>2. Good(Owned)' /\ HalfOnce(Owned)' /\ sell \in SellType BY <1>1, WorkerKeepsOwned DEF IInv
<1>3. sell'.phase = "done" BY <1>1, <1>2 DEF SellType
<1>4. /\ e \in EventType /\ e.kind = "sell" /\ e.order = o /\ e.result = result
  BY AmountFacts DEF Event, EventType
<1> HIDE DEF e
<1>5. /\ queue' \in Seq(EventType) /\ AnswersTrue'
      /\ \A i \in Arrivals("sell")' :
             queue'[i] = e \/ \E j \in Arrivals("sell") : queue[j] = queue'[i]
  BY <1>1, <1>3, <1>4, AnswersJoined DEF IInv, world
<1>6. Arrivals("sell") = {} BY DEF IInv, AnswersTrue
<1>7. CallsTyped' BY <1>5 DEF IInv, CallsTyped, pool, world
<1>8. ctx # NoContext /\ \A p \in Orders : tracked[p] = NoContext
  BY DEF IInv, ContextKept
<1>9. ContextKept' BY <1>3, <1>8 DEF ContextKept
<1>10. RowClaimed' BY <1>3 DEF RowClaimed
<1>11. ASSUME ~ErrorMayHideOrder PROVE OneAtATime' /\ (DbMayFail \/ Covered')
  <2>1. Free' = Free /\ \A p \in Orders : Placed(p)' = Placed(p) BY DEF Free, Placed, world
  <2>2. OneAtATime'
    BY <1>3, <1>11, <2>1 DEF IInv, OneAtATime, OneSellOrder, Placed, world
  <2>3. ASSUME ~DbMayFail PROVE Covered'
    <3>1. ClaimCoversOrder'
      BY <1>3, <1>11, <2>3 DEF IInv, Covered, ClaimCoversOrder, world
    <3>2. ASSUME NEW i \in Arrivals("sell")', queue'[i].result = "failed" PROVE Free
      BY <1>4, <1>5, <1>6, <1>11, <2>3, <3>2
    <3> QED BY <1>3, <2>1, <3>1, <3>2 DEF Covered, Free
  <2> QED BY <2>2, <2>3
<1> QED BY <1>2, <1>5, <1>7, <1>9, <1>10, <1>11 DEF IInv

LEMMA JournalFacts ==
    /\ Claimed \in [state : JournalStates, order : SomeOrder]
    /\ Claimed.state \in ActiveJournal /\ Claimed.order = NoOrder
    /\ \A o \in Orders : Bound(o) \in [state : JournalStates, order : SomeOrder]
                         /\ Bound(o).state \in ActiveJournal /\ Bound(o).order = o
    /\ \A r \in [state : JournalStates, order : SomeOrder], s \in JournalStates :
           /\ Updated(r, s) \in [state : JournalStates, order : SomeOrder]
           /\ Updated(r, s).order = r.order /\ Updated(r, s).state = s
    /\ \A r \in [state : JournalStates, order : SomeOrder], s \in JournalStates, o \in Orders :
           /\ UpdatedByOrder(r, o, s) \in [state : JournalStates, order : SomeOrder]
           /\ UpdatedByOrder(r, o, s).order = r.order
           /\ r.order # o => UpdatedByOrder(r, o, s) = r
  BY DEF Claimed, Bound, Updated, UpdatedByOrder, JournalStates, ActiveJournal, SomeOrder

LEMMA ClaimSellKeeps ==
    ASSUME IInv, ClaimSell
    PROVE  IInv'
<1>1. sell.phase = "queued" BY DEF ClaimSell
<1>2. journal \in [state : JournalStates, order : SomeOrder] BY DEF IInv, CallsTyped
<1>3. CASE sell.quantity > 0 /\ Claimable(journal)
  <2>1. /\ journal' = Claimed /\ claimed' = sell.quantity
        /\ sell' = [sell EXCEPT !.phase = "claimed"]
        /\ UNCHANGED <<pos, row, intent, ctx, tracked, pool, queue, world, restarts>>
    BY <1>3 DEF ClaimSell
  <2>2. Good(Owned)' /\ HalfOnce(Owned)' /\ sell \in SellType BY <2>1, WorkerKeepsOwned DEF IInv
  <2>3. sell'.phase = "claimed" BY <2>1, <2>2 DEF SellType
  <2>4. CallsTyped'
    <3>1. claimed' \in Amounts BY <2>1, <2>2 DEF SellType
    <3> QED BY <2>1, <3>1, JournalFacts DEF IInv, CallsTyped, pool, world
  <2>5. ContextKept' BY <1>1, <2>1, <2>3 DEF IInv, ContextKept
  <2>6. AnswersTrue' /\ Arrivals("sell")' = Arrivals("sell")
    BY <1>1, <2>1, AnswersKept DEF IInv, world
  <2>7. RowClaimed' BY <2>1, <2>3 DEF RowClaimed
  <2>8. ASSUME ~ErrorMayHideOrder PROVE OneAtATime' /\ (DbMayFail \/ Covered')
    <3>1. Free BY <1>3, <2>8 DEF IInv, OneAtATime, Claimable, Free
    <3>2. Free' BY <2>1, <3>1 DEF Free, Placed, world
    <3>3. OneAtATime' BY <2>3, <3>2 DEF OneAtATime, OneSellOrder, Free, Placed
    <3>4. ASSUME ~DbMayFail PROVE Covered'
      BY <1>1, <2>1, <2>3, <2>8, <3>2, <3>4 DEF IInv, Covered, ClaimCoversOrder, Free
    <3> QED BY <3>3, <3>4
  <2> QED BY <2>2, <2>4, <2>5, <2>6, <2>7, <2>8 DEF IInv
<1>4. CASE ~(sell.quantity > 0 /\ Claimable(journal))
  <2>1. PICK result \in {"failed", "unknown"} : Return(NoOrder, result) /\ UNCHANGED jrnl
    BY <1>4 DEF ClaimSell
  <2>2. ErrorMayHideOrder \/ DbMayFail \/ Free BY <1>1 DEF IInv, Covered, Free
  <2>3. ErrorMayHideOrder \/ \A p \in Orders : Placed(p) =>
            journal.state \in ActiveJournal /\ journal.order \in {p, NoOrder}
    BY DEF IInv, OneAtATime
  <2> QED BY <1>1, <1>2, <2>1, <2>2, <2>3, ReturnKeeps DEF ClaimSell, jrnl, SomeOrder
<1> QED BY <1>3, <1>4

LEMMA RefuseSellKeeps ==
    ASSUME IInv, RefuseSell
    PROVE  IInv'
<1>1. sell.phase = "claimed" /\ Return(NoOrder, "failed") BY DEF RefuseSell
<1>2. ErrorMayHideOrder \/ Free BY <1>1 DEF IInv, OneAtATime, Free
<1>3. journal' \in [state : JournalStates, order : SomeOrder]
  <2>1. "FAILED" \in JournalStates BY DEF JournalStates
  <2> QED BY <2>1, JournalFacts DEF RefuseSell, IInv, CallsTyped
<1> QED BY <1>1, <1>2, <1>3, ReturnKeeps DEF RefuseSell, Free, SomeOrder

LEMMA PlaceSellKeeps ==
    ASSUME IInv, PlaceSell
    PROVE  IInv'
<1>1. PICK o \in Orders :
          /\ fate[o] = "unused"
          /\ fate' = [fate EXCEPT ![o] = "placed"]
          /\ amount' = [amount EXCEPT ![o] = IF sell.quantity < held THEN sell.quantity ELSE held]
          /\ sell' = [sell EXCEPT !.phase = "sent", !.order = o]
  BY DEF PlaceSell
<1>2. /\ sell.phase = "claimed"
      /\ UNCHANGED <<pos, row, intent, ctx, tracked, pool, queue, jrnl, held, restarts>>
  BY DEF PlaceSell
<1>3. Good(Owned)' /\ HalfOnce(Owned)' /\ sell \in SellType BY <1>1, <1>2, WorkerKeepsOwned DEF IInv
<1>4. sell'.phase = "sent" /\ sell'.order = o BY <1>1, <1>3 DEF SellType
<1>5. CallsTyped'
  <2>1. sell.quantity \in Amounts /\ held \in Amounts BY <1>3 DEF IInv, CallsTyped, SellType
  <2>2. amount' \in [Orders -> Amounts] BY <1>1, <2>1 DEF IInv, CallsTyped
  <2>3. fate' \in [Orders -> {"unused", "placed", "filled", "failed"}]
    BY <1>1 DEF IInv, CallsTyped
  <2> QED BY <1>2, <2>2, <2>3 DEF IInv, CallsTyped, pool, jrnl
<1>6. ContextKept' BY <1>2, <1>4 DEF IInv, ContextKept, jrnl
<1>7. \A p \in Orders : p # o => fate'[p] = fate[p] BY <1>1 DEF IInv, CallsTyped
<1>8. AnswersTrue' /\ Arrivals("sell")' = Arrivals("sell")
  BY <1>1, <1>2, <1>7, AnswersKept DEF IInv, jrnl
<1>9. RowClaimed' /\ journal' = Claimed BY <1>2, <1>4 DEF IInv, RowClaimed, jrnl
<1>10. ASSUME ~ErrorMayHideOrder PROVE OneAtATime' /\ (DbMayFail \/ Covered')
  <2>1. \A p \in Orders : Placed(p)' => p = o
    BY <1>2, <1>7, <1>10 DEF IInv, OneAtATime, Placed
  <2>2. OneAtATime' BY <1>4, <1>9, <2>1, JournalFacts DEF OneAtATime, OneSellOrder, Placed
  <2>3. ASSUME ~DbMayFail PROVE Covered'
    <3>1. ClaimCoversOrder'
      BY <1>2, <1>10, <2>3 DEF IInv, Covered, ClaimCoversOrder
    <3>2. Arrivals("sell")' = {} BY <1>2, <1>8 DEF IInv, AnswersTrue
    <3> QED BY <1>4, <3>1, <3>2 DEF Covered
  <2> QED BY <2>2, <2>3
<1> QED BY <1>3, <1>5, <1>6, <1>8, <1>9, <1>10 DEF IInv

LEMMA SellReturnsKeeps ==
    ASSUME IInv, SellReturns
    PROVE  IInv'
<1>1. /\ sell.phase \in {"claimed", "sent"}
      /\ UNCHANGED <<pos, row, intent, ctx, tracked, pool, claimed, world, restarts>>
  BY DEF SellReturns
<1>2. /\ journal = Claimed
      /\ journal \in [state : JournalStates, order : SomeOrder]
      /\ NoOrder \in SomeOrder
  BY <1>1 DEF IInv, RowClaimed, CallsTyped, SomeOrder
<1>3. CASE /\ sell.phase = "sent"
           /\ journal' = Bound(sell.order)
           /\ Return(sell.order, "submitted")
  <2>1. sell.order \in Orders /\ sell.order \in SomeOrder
    BY <1>3 DEF IInv, RowClaimed, SomeOrder
  <2>2. ErrorMayHideOrder \/ \A p \in Orders : Placed(p) => p = sell.order
    BY <1>3 DEF IInv, OneAtATime
  <2> QED BY <1>1, <1>3, <2>1, <2>2, JournalFacts, ReturnKeeps
<1>4. CASE journal' = Updated(journal, "SUBMIT_UNKNOWN") /\ Return(NoOrder, "unknown")
  <2>1. "SUBMIT_UNKNOWN" \in JournalStates /\ "SUBMIT_UNKNOWN" \in ActiveJournal
    BY DEF JournalStates, ActiveJournal
  <2> QED BY <1>1, <1>2, <1>4, <2>1, JournalFacts, ReturnKeeps
<1>5. CASE /\ sell.phase = "claimed" \/ ErrorMayHideOrder
           /\ journal' = Updated(journal, "FAILED")
           /\ Return(NoOrder, "failed")
  <2>1. "FAILED" \in JournalStates BY DEF JournalStates
  <2>2. ErrorMayHideOrder \/ Free BY <1>5 DEF IInv, OneAtATime, Free
  <2> QED BY <1>1, <1>2, <1>5, <2>1, <2>2, JournalFacts, ReturnKeeps DEF Free
<1>6. CASE Return(NoOrder, "unknown") /\ UNCHANGED journal
  BY <1>1, <1>2, <1>6, JournalFacts, ReturnKeeps
<1> QED BY <1>3, <1>4, <1>5, <1>6 DEF SellReturns

\* A report of an order, or a balance, joins the queue.
LEMMA ReportKeeps ==
    ASSUME IInv, NEW e \in EventType, queue' = Append(queue, e),
           UNCHANGED <<owned, tracked, claimed, world, restarts>>,
           asked' \in SUBSET Orders, reading' \in BOOLEAN,
           \/ /\ e.kind = "order_status" /\ e.order \in Orders
              /\ e.result \in {"SWAP_FAILED", "SWAP_CONFIRMED"} => fate[e.order] \in {"filled", "failed"}
           \/ e.kind = "balance",
           journal' \in [state : JournalStates, order : SomeOrder],
           journal'.order = journal.order,
           journal = Claimed => journal' = Claimed,
           ErrorMayHideOrder \/ \A p \in Orders : Placed(p) => journal'.state \in ActiveJournal
    PROVE  IInv' /\ row' = row
<1>1. UNCHANGED <<pos, row, intent, ctx, sell, fate>> BY DEF owned, world
<1>2. Good(Owned)' /\ HalfOnce(Owned)' BY <1>1, WorkerKeepsOwned DEF IInv
<1>3. /\ queue' \in Seq(EventType) /\ AnswersTrue'
      /\ \A i \in Arrivals("sell")' : \E j \in Arrivals("sell") : queue[j] = queue'[i]
  BY <1>1, AnswersJoined DEF IInv
<1>4. CallsTyped' BY <1>3 DEF IInv, CallsTyped, world
<1>5. ContextKept' BY <1>1 DEF IInv, ContextKept
<1>6. RowClaimed' BY <1>1 DEF IInv, RowClaimed
<1>7. Free' = Free /\ \A p \in Orders : Placed(p)' = Placed(p) BY <1>1 DEF Free, Placed
<1>8. ASSUME ~ErrorMayHideOrder PROVE OneAtATime' /\ (DbMayFail \/ Covered')
  <2>1. OneAtATime'
    <3>1. OneSellOrder' BY <1>1, <1>8 DEF IInv, OneAtATime, OneSellOrder
    <3> QED BY <1>1, <1>7, <1>8, <3>1 DEF IInv, OneAtATime
  <2>2. ASSUME ~DbMayFail PROVE Covered'
    <3>1. ClaimCoversOrder' BY <1>1, <1>8, <2>2 DEF IInv, Covered, ClaimCoversOrder
    <3>2. ASSUME NEW i \in Arrivals("sell")', queue'[i].result = "failed" PROVE Free
      BY <1>3, <1>8, <2>2, <3>2 DEF IInv, Covered, Free
    <3>3. ASSUME sell'.phase = "queued" PROVE Free
      BY <1>1, <1>8, <2>2, <3>3 DEF IInv, Covered, Free
    <3> QED BY <1>7, <3>1, <3>2, <3>3 DEF Covered, Free
  <2> QED BY <2>1, <2>2
<1> QED BY <1>1, <1>2, <1>3, <1>4, <1>5, <1>6, <1>8 DEF IInv

LEMMA AnswerStatusKeeps ==
    ASSUME IInv, NEW o \in Orders, AnswerStatus(o)
    PROVE  IInv' /\ row' = row
<1>1. PICK result \in {"SWAP_PENDING", "SWAP_CONFIRMED", "SWAP_FAILED"},
           state \in {"PENDING", "CONFIRMED", "FAILED"} :
          /\ queue' = Append(queue, Event("order_status", o, result, 0))
          /\ journal' = UpdatedByOrder(journal, o, state)
          /\ result = "SWAP_PENDING" => state = "PENDING"
          /\ result # "SWAP_PENDING" => fate[o] \in {"filled", "failed"}
  BY DEF AnswerStatus
<1> DEFINE e == Event("order_status", o, result, 0)
<1>2. /\ e \in EventType /\ e.kind = "order_status" /\ e.order = o /\ e.result = result
  BY <1>1, AmountFacts DEF Event, EventType, SomeOrder
<1> HIDE DEF e
<1>3. journal \in [state : JournalStates, order : SomeOrder] /\ o # NoOrder /\ state \in JournalStates
  BY ExitAssumption DEF IInv, CallsTyped, JournalStates, ActiveJournal
<1>4. /\ journal' \in [state : JournalStates, order : SomeOrder]
      /\ journal'.order = journal.order
      /\ journal = Claimed => journal' = Claimed
  BY <1>1, <1>3, JournalFacts
<1>5. ASSUME ~ErrorMayHideOrder, NEW p \in Orders, Placed(p)
      PROVE  journal'.state \in ActiveJournal
  <2>1. journal.state \in ActiveJournal /\ journal.order \in {p, NoOrder}
    BY <1>5 DEF IInv, OneAtATime
  <2>2. CASE journal.order # o BY <1>1, <1>3, <2>1, <2>2, JournalFacts
  <2>3. CASE journal.order = o
    <3>1. p = o BY <1>3, <2>1, <2>3
    <3>2. state = "PENDING" BY <1>1, <1>5, <3>1 DEF Placed
    <3>3. "PENDING" \in ActiveJournal BY DEF ActiveJournal
    <3> QED BY <1>1, <2>3, <3>2, <3>3 DEF UpdatedByOrder, Updated
  <2> QED BY <2>2, <2>3
<1>6. /\ UNCHANGED <<owned, tracked, claimed, world, restarts>>
      /\ asked' \in SUBSET Orders /\ reading' \in BOOLEAN
  BY DEF AnswerStatus, IInv, CallsTyped
<1> QED BY <1>1, <1>2, <1>4, <1>5, <1>6, ReportKeeps DEF e

LEMMA LoseStatusKeeps ==
    ASSUME IInv, NEW o \in Orders, LoseStatus(o)
    PROVE  IInv' /\ row' = row
<1> DEFINE e == Event("order_status", o, "SWAP_UNKNOWN", 0)
<1>1. e \in EventType /\ e.kind = "order_status" /\ e.order = o /\ e.result = "SWAP_UNKNOWN"
  BY AmountFacts DEF Event, EventType, SomeOrder
<1> HIDE DEF e
<1>2. /\ queue' = Append(queue, e)
      /\ UNCHANGED <<owned, tracked, journal, claimed, world, restarts>>
      /\ asked' \in SUBSET Orders /\ reading' \in BOOLEAN
  BY DEF LoseStatus, IInv, CallsTyped, e, jrnl
<1>3. journal \in [state : JournalStates, order : SomeOrder] BY DEF IInv, CallsTyped
<1>4. ErrorMayHideOrder \/ \A p \in Orders : Placed(p) => journal.state \in ActiveJournal
  BY DEF IInv, OneAtATime
<1> QED BY <1>1, <1>2, <1>3, <1>4, ReportKeeps

LEMMA ReadBalanceKeeps ==
    ASSUME IInv, ReadBalance
    PROVE  IInv' /\ row' = row
<1>1. PICK balance \in {held, Unread} : queue' = Append(queue, Event("balance", NoOrder, "none", balance))
  BY DEF ReadBalance
<1> DEFINE e == Event("balance", NoOrder, "none", balance)
<1>2. balance \in Amounts BY <1>1, AmountFacts DEF IInv, CallsTyped, Unread
<1>3. e \in EventType /\ e.kind = "balance" BY <1>2 DEF Event, EventType, SomeOrder
<1> HIDE DEF e
<1>4. /\ queue' = Append(queue, e)
      /\ UNCHANGED <<owned, tracked, journal, claimed, world, restarts>>
      /\ asked' \in SUBSET Orders /\ reading' \in BOOLEAN
  BY <1>1 DEF ReadBalance, IInv, CallsTyped, e, jrnl
<1>5. journal \in [state : JournalStates, order : SomeOrder] BY DEF IInv, CallsTyped
<1>6. ErrorMayHideOrder \/ \A p \in Orders : Placed(p) => journal.state \in ActiveJournal
  BY DEF IInv, OneAtATime
<1> QED BY <1>3, <1>4, <1>5, <1>6, ReportKeeps

-----------------------------------------------------------------------------
(* The provider and the wallet keep the invariant *)

\* Orders leave the state placed, and none enters it.
LEMMA WorldKeeps ==
    ASSUME IInv, World
    PROVE  IInv' /\ row' = row
<1>1. /\ UNCHANGED <<owned, tracked, pool, queue, jrnl, amount, restarts>>
      /\ fate' \in [Orders -> {"unused", "placed", "filled", "failed"}]
      /\ held' \in Amounts
      /\ \A o \in Orders : fate'[o] # fate[o] => fate[o] = "placed" /\ fate'[o] \in {"filled", "failed"}
  <2>1. CASE TokensLeave
    <3>1. held \in Amounts /\ held \in Nat BY AmountFacts DEF IInv, CallsTyped
    <3>2. held' \in Nat /\ held' <= held BY <2>1, <3>1 DEF TokensLeave
    <3>3. held' \in Amounts BY <3>1, <3>2, AmountFacts
    <3> QED BY <2>1, <3>3 DEF TokensLeave, IInv, CallsTyped
  <2>2. ASSUME NEW o \in Orders, Fill(o) PROVE <1>1
    <3>1. held \in Amounts /\ held \in Nat /\ amount[o] \in Nat BY AmountFacts DEF IInv, CallsTyped
    <3>2. held' \in Nat /\ held' <= held BY <2>2, <3>1 DEF Fill
    <3>3. held' \in Amounts BY <3>1, <3>2, AmountFacts
    <3> QED BY <2>2, <3>3 DEF Fill, IInv, CallsTyped
  <2>3. ASSUME NEW o \in Orders, Reject(o) PROVE <1>1
    BY <2>3 DEF Reject, IInv, CallsTyped
  <2> QED BY <2>1, <2>2, <2>3 DEF World
<1>2. UNCHANGED <<pos, row, intent, ctx, sell, journal>> BY <1>1 DEF owned, jrnl
<1>3. Good(Owned)' /\ HalfOnce(Owned)' BY <1>2, WorkerKeepsOwned DEF IInv
<1>4. CallsTyped' BY <1>1 DEF IInv, CallsTyped, pool, jrnl
<1>5. ContextKept' BY <1>1, <1>2 DEF IInv, ContextKept
<1>6. AnswersTrue' /\ Arrivals("sell")' = Arrivals("sell")
  BY <1>1, <1>2, AnswersKept DEF IInv
<1>7. RowClaimed' BY <1>2 DEF IInv, RowClaimed
<1>8. \A o \in Orders : Placed(o)' => Placed(o) BY <1>1 DEF Placed
<1>9. OneAtATime => OneAtATime'
  BY <1>2, <1>8 DEF OneAtATime, OneSellOrder, Placed
<1>10. Covered => Covered'
  <2>1. ClaimCoversOrder => ClaimCoversOrder' BY <1>2, <1>8 DEF ClaimCoversOrder, Placed
  <2> QED BY <1>1, <1>2, <1>6, <1>8, <2>1 DEF Covered
<1> QED BY <1>2, <1>3, <1>4, <1>5, <1>6, <1>7, <1>9, <1>10 DEF IInv

-----------------------------------------------------------------------------
(* A process death keeps the invariant *)

\* The context of a reconnected sell: a reason that is due, and the journal's order.
LEMMA RestoredFacts ==
    ASSUME CallsTyped, NEW s, Good(s)
    PROVE  LET c == Restored(Loaded(s)) IN
           /\ c \in SomeContext \cup {NoContext}
           /\ Due(c.reason, s.row.filled)
           /\ c # NoContext => journal.order \in Orders
<1> DEFINE l == Loaded(s)
           reason == IF l.pos.reason = "none" THEN "RESTORED" ELSE l.pos.reason
           c == Restored(l)
<1>1. s.row \in RowType /\ s.intent \in IntentType /\ claimed \in Amounts
      /\ journal \in [state : JournalStates, order : SomeOrder]
  BY DEF Good, OwnedType, CallsTyped
<1>2. l.pos.reason = s.intent.reason /\ l.pos.remaining = s.row.remaining
      /\ s.row.remaining \in Amounts /\ s.intent.reason \in Reasons \cup {"none"}
  BY <1>1 DEF Loaded, RowType, IntentType
<1>3. reason \in Reasons /\ Due(reason, s.row.filled)
  <2>1. Due("RESTORED", s.row.filled) BY StageFacts, DueOutside
  <2> QED BY <1>2, <2>1, StageFacts DEF Good
<1> DEFINE part == claimed < l.pos.remaining
<1>4. part \in BOOLEAN OBVIOUS
<1>5. \/ c = NoContext
      \/ c = Context(reason, claimed, part) /\ Reconnectable(journal)
  BY DEF Restored
<1> HIDE DEF l, c, reason, part
<1>6. CASE c = NoContext
  <2>1. Due(NoContext.reason, s.row.filled) BY ContextFacts, StageFacts, DueOutside
  <2> QED BY <1>6, <2>1 DEF c, l
<1>7. CASE c = Context(reason, claimed, part) /\ Reconnectable(journal)
  <2>1. journal.order \in Orders BY <1>1, <1>7 DEF Reconnectable, SomeOrder
  <2>2. c \in SomeContext /\ c.reason = reason BY <1>1, <1>3, <1>4, <1>7, ContextFacts
  <2> QED BY <1>3, <2>1, <2>2 DEF c, l
<1> QED BY <1>5, <1>6, <1>7

\* A restart tracks only the order of a reconnectable intent.
LEMMA RestartTracks ==
    ASSUME NEW s, RestartFrom(s), NEW o \in Orders, tracked'[o] # NoContext
    PROVE  Reconnectable(journal) /\ journal.order = o
<1> DEFINE c == Restored(Loaded(s))
<1>1. c # NoContext /\ o = journal.order BY DEF RestartFrom
<1>2. c # NoContext => Reconnectable(journal) BY DEF Restored
<1> QED BY <1>1, <1>2

\* What a restart makes of the state s that the dead process left: it hands a sell
\* over only when no context is restored and the row claims nothing.
LEMMA RestartKeeps ==
    ASSUME IInv, NEW s, Good(s), s.row.status \in {row.status, "CLOSED"},
           \/ ErrorMayHideOrder \/ DbMayFail \/ Free
           \/ s.row.swap \in InFlight \/ s.row.status = "CLOSED",
           RestartFrom(s)
    PROVE  IInv' /\ row'.status \in {row.status, "CLOSED"} /\ SameBooks(s, Owned') /\ AtRest
<1> DEFINE c == Restored(Loaded(s))
           l == [Loaded(s) EXCEPT !.ctx = c]
<1>1. /\ c \in SomeContext \cup {NoContext}
      /\ Due(c.reason, s.row.filled)
      /\ c # NoContext => journal.order \in Orders
  BY RestoredFacts DEF IInv
<1>2. PICK balance \in {held, Unread} :
          \E z \in Resumed(Reconciled(l, balance)) : Becomes(z)
  BY DEF RestartFrom
<1>3. /\ tracked' = [o \in Orders |-> IF c # NoContext /\ o = journal.order THEN c ELSE NoContext]
      /\ asked' = {} /\ reading' = FALSE /\ queue' = <<>>
      /\ restarts' = restarts + 1
      /\ UNCHANGED <<jrnl, world>>
  BY DEF RestartFrom
<1> HIDE DEF c
<1>4. Good(l) /\ l.row = s.row /\ l.ctx = c /\ l.sell = Idle
  BY <1>1, LoadedKept
<1> HIDE DEF l
<1> DEFINE m == Reconciled(l, balance)
<1>5. PICK z \in Resumed(m) : Becomes(z) BY <1>2
<1>6. /\ Good(m) /\ m.ctx = c /\ m.sell = Idle
      /\ m.row.swap = s.row.swap /\ m.row.status \in {s.row.status, "CLOSED"}
      /\ SameBooks(s, m)
  <2>1. balance \in Amounts BY <1>2, AmountFacts DEF IInv, CallsTyped, Unread
  <2> QED BY <1>4, <2>1, ReconciledKept DEF SameBooks
<1> HIDE DEF m
<1>7. /\ Good(z) /\ z.row.status = m.row.status /\ SameBooks(s, z)
      /\ \/ z.ctx = c /\ z.sell = Idle /\ z.row.swap = s.row.swap
         \/ /\ c = NoContext /\ z.ctx # NoContext /\ z.sell.phase = "queued"
            /\ m.row.status = "OPEN"
            /\ DbMayFail \/ (z.row.swap = "SWAP_SUBMITTING" /\ s.row.swap \notin InFlight)
  <2>1. \/ z = m
        \/ m.pos.status = "OPEN" /\ m.ctx = NoContext /\ z \in ExecuteLatched(m)
    BY DEF Resumed
  <2>2. CASE z = m BY <1>6, <2>2
  <2>3. CASE m.pos.status = "OPEN" /\ m.ctx = NoContext /\ z \in ExecuteLatched(m)
    <3>1. Moves(m, z) BY <1>6, <2>3, ExecuteLatchedMoves
    <3>2. m.row.status = "OPEN" BY <1>6, <2>3 DEF Good
    <3> QED BY <1>6, <2>3, <3>1, <3>2 DEF Moves, Quiet, Hands, SameBooks
  <2> QED BY <2>1, <2>2, <2>3
<1>8. Owned' = z /\ row' = z.row /\ ctx' = z.ctx /\ sell' = z.sell
  BY <1>5, <1>7, BecomesFacts DEF Good
<1>9. Good(Owned)' /\ HalfOnce(Owned)' /\ SameBooks(s, Owned')
  <2>1. MaxRestarts # 0 BY DEF RestartFrom, IInv, CallsTyped
  <2> QED BY <1>7, <1>8, <2>1 DEF Good, OwnedType, HalfOnce, HalfDue, SameBooks
<1>10. CallsTyped'
  <2>1. restarts' \in 0..MaxRestarts BY <1>3, ExitAssumption DEF RestartFrom, IInv, CallsTyped
  <2>2. tracked' \in [Orders -> SomeContext \cup {NoContext}] BY <1>1, <1>3
  <2>3. queue' \in Seq(EventType) BY <1>3
  <2> QED BY <1>3, <2>1, <2>2, <2>3 DEF IInv, CallsTyped, jrnl, world
<1>11. Idle.phase = "idle" BY DEF Idle, SellCall
<1>12. ContextKept'
  <2>1. \A o \in Orders : tracked'[o] # NoContext => c # NoContext /\ tracked'[o] = c /\ journal.order = o
    BY <1>3
  <2>2. journal' = journal BY <1>3 DEF jrnl
  <2> QED BY <1>7, <1>8, <1>11, <2>1, <2>2 DEF ContextKept
<1>13. \A kind : Arrivals(kind)' = {} BY <1>3 DEF Arrivals
<1>14. AnswersTrue' BY <1>13 DEF AnswersTrue
<1>15. RowClaimed' /\ (ErrorMayHideOrder \/ (OneAtATime' /\ (DbMayFail \/ Covered')))
  <2>1. "SWAP_SUBMITTING" \in InFlight BY DEF InFlight
  <2>2. UNCHANGED <<fate, journal>> BY <1>3 DEF jrnl, world
  <2>3. Arrivals("sell")' = {} BY <1>13
  <2> QED BY <1>6, <1>7, <1>8, <1>11, <2>1, <2>2, <2>3, GuardsKept DEF IInv
<1>16. AtRest BY <1>6, <1>7, <1>8, <1>11 DEF AtRest
<1> QED BY <1>6, <1>7, <1>8, <1>9, <1>10, <1>12, <1>14, <1>15, <1>16 DEF IInv

LEMMA DeathKeeps ==
    ASSUME IInv, Death
    PROVE  IInv' /\ row'.status \in {row.status, "CLOSED"} /\ Books /\ AtRest
<1>1. ErrorMayHideOrder \/ DbMayFail \/ Free \/ row.swap \in InFlight \/ row.status = "CLOSED"
  BY DEF IInv, Covered, ClaimCoversOrder, Free, Placed
<1>2. CASE Restart
  <2>1. IInv' /\ row'.status \in {row.status, "CLOSED"} /\ SameBooks(Owned, Owned') /\ AtRest
    BY <1>1, <1>2, RestartKeeps, OwnedFacts DEF Restart, IInv
  <2> QED BY <2>1, OwnedFacts DEF SameBooks, BooksKept, Books
<1>3. CASE RestartBeforeClear
  <2> DEFINE e == Head(queue)
             o == e.order
             c == tracked[o]
  <2>1. /\ queue # <<>> /\ e.kind = "order_status" /\ e.result = "SWAP_CONFIRMED"
        /\ c # NoContext /\ RestartFrom(Booked(Owned, c, amount[o]))
    BY <1>3 DEF RestartBeforeClear, Arrived
  <2>2. 1 \in Arrivals("order_status") /\ queue[1] = e
    BY <2>1, TailFacts DEF IInv, CallsTyped, Arrivals
  <2>3. o \in Orders /\ ~Placed(o) BY <2>1, <2>2 DEF IInv, AnswersTrue, Placed
  <2> HIDE DEF e, o, c
  <2>4. c \in SomeContext /\ c = ctx /\ amount[o] \in Nat /\ journal.order = o
    BY <2>1, <2>3, AmountFacts DEF IInv, CallsTyped, ContextKept, c
  <2>5. ErrorMayHideOrder \/ Free BY <2>1, <2>3, SettledFree DEF IInv, c
  <2> DEFINE b == Booked(Owned, c, amount[o])
  <2>6. /\ Good(b) /\ b.row.status \in {row.status, "CLOSED"}
        /\ b.row.filled = row.filled \cup {k \in Stages : c.partial /\ c.reason = TPReason[k]}
        /\ b.row.halfDone = (row.halfDone \/ (c.partial /\ c.reason = "HALF"))
        /\ b.row.realized = row.realized + amount[o]
    <3>1. Due(c.reason, Owned.pos.filled) BY <2>4, OwnedFacts DEF IInv, Good
    <3> QED BY <2>4, <3>1, BookedKept, OwnedFacts DEF IInv
  <2> HIDE DEF b
  <2>7. IInv' /\ row'.status \in {row.status, "CLOSED"} /\ SameBooks(b, Owned') /\ AtRest
    BY <2>1, <2>5, <2>6, RestartKeeps DEF b
  <2>8. /\ UNCHANGED <<journal, fate, amount>>
        /\ tracked'[o] = NoContext \/ (Reconnectable(journal) /\ journal.order = o)
    BY <2>1, <2>3, RestartTracks DEF RestartFrom, jrnl, world
  <2>9. BookedAt(row.filled, row.halfDone, row'.filled, row'.halfDone)
    <3>1. row.filled \in SUBSET Stages /\ row.halfDone \in BOOLEAN
      BY OwnedFacts DEF IInv, Good, OwnedType, RowType
    <3> QED BY <2>4, <2>6, <2>7, <3>1, OneCredit, OwnedFacts DEF SameBooks
  <2>10. row'.realized = row.realized + amount[o] BY <2>6, <2>7, OwnedFacts DEF SameBooks
  <2>11. Booking(o) BY <2>1, <2>8, <2>9, <2>10 DEF Booking, Arrived, e, o, c
  <2> QED BY <2>3, <2>7, <2>11 DEF Books
<1>4. CASE RestartBeforePersist
  <2>1. PICK e \in Evaluations(Owned) : RestartFrom(e.state)
    BY <1>4 DEF RestartBeforePersist
  <2>2. Moves(Owned, e.state) BY EvaluationsMove DEF IInv
  <2>3. Good(e.state) /\ e.state.row.status = row.status /\ SameBooks(Owned, e.state) BY <2>2, OwnedFacts DEF Moves
  <2>4. \/ ErrorMayHideOrder \/ DbMayFail \/ Free
        \/ e.state.row.swap \in InFlight \/ e.state.row.status = "CLOSED"
    <3>1. "SWAP_SUBMITTING" \in InFlight BY DEF InFlight
    <3> QED BY <1>1, <2>2, <2>3, <3>1, OwnedFacts DEF Moves, Quiet, Hands
  <2>5. IInv' /\ row'.status \in {row.status, "CLOSED"} /\ SameBooks(e.state, Owned') /\ AtRest
    BY <1>1, <2>1, <2>3, <2>4, RestartKeeps
  <2> QED BY <2>3, <2>5, OwnedFacts DEF SameBooks, BooksKept, Books
<1> QED BY <1>2, <1>3, <1>4 DEF Death

-----------------------------------------------------------------------------
(* The invariant *)

LEMMA InitKeeps ==
    ASSUME Init
    PROVE  IInv
<1>1. Owned = [pos |-> pos, row |-> row, intent |-> NoIntent, ctx |-> NoContext, sell |-> Idle]
      /\ sell.phase = "idle" /\ queue = <<>> /\ Arrivals("sell") = {}
      /\ Arrivals("order_status") = {}
  BY DEF Init, Owned, Idle, SellCall, Arrivals
<1>2. pos \in MemoryType /\ row \in RowType
  BY AmountFacts DEF Init, MemoryType, RowType, SwapStates
<1>3. NoIntent \in IntentType /\ NoIntent.reason = "none" /\ Idle \in SellType
  BY AmountFacts DEF NoIntent, IntentType, Idle, SellCall, SellType, SomeOrder
<1>4. Due("none", {}) BY StageFacts, DueOutside
<1>5. Good(Owned) /\ HalfOnce(Owned)
  <2>1. /\ pos.halfDone = FALSE /\ row.halfDone = FALSE /\ pos.realized = 0 /\ row.realized = 0
        /\ pos.status = row.status /\ pos.filled = {} /\ row.filled = {}
        /\ pos.triggered = {} /\ row.triggered = {} /\ pos.reason = "none"
    BY DEF Init
  <2> QED BY <1>1, <1>2, <1>3, <1>4, <2>1, ContextFacts, HalfFacts
      DEF Good, OwnedType, DownClosed, HalfOnce
<1>6. CallsTyped
  <2>1. NoRow \in [state : JournalStates, order : SomeOrder]
    BY DEF NoRow, JournalStates, SomeOrder
  <2>2. queue \in Seq(EventType) BY <1>1
  <2>3. held \in Amounts /\ claimed \in Amounts BY AmountFacts DEF Init
  <2>4. amount \in [Orders -> Amounts] BY AmountFacts DEF Init
  <2>5. restarts \in 0..MaxRestarts BY ExitAssumption DEF Init
  <2> QED BY <2>1, <2>2, <2>3, <2>4, <2>5 DEF Init, CallsTyped
<1>7. ContextKept BY <1>1 DEF Init, ContextKept
<1>8. AnswersTrue BY <1>1 DEF AnswersTrue
<1>9. RowClaimed BY <1>1 DEF RowClaimed
<1>10. Free BY DEF Init, Free, Placed
<1>11. OneAtATime BY <1>1, <1>10 DEF OneAtATime, OneSellOrder, Free, Placed
<1>12. Covered BY <1>1, <1>10 DEF Covered, ClaimCoversOrder, Free, Placed
<1> QED BY <1>5, <1>6, <1>7, <1>8, <1>9, <1>11, <1>12 DEF IInv

\* Every step keeps the invariant and opens no closed row.
LEMMA StepKeeps ==
    ASSUME IInv, [Next]_vars
    PROVE  IInv' /\ row'.status \in {row.status, "CLOSED"} /\ Books
<1>0. row' = row => BooksKept BY DEF BooksKept
<1>1. CASE Owner
  <2>1. AskBalance \/ (\E o \in Orders : PollOrder(o)) => row' = row
    BY DEF AskBalance, PollOrder, owned
  <2> QED BY <1>0, <1>1, <2>1, EvaluateKeeps, HandleSellKeeps, HandleStatusKeeps, HandleBalanceKeeps,
             AskingKeeps, ReconcileForcedKeeps DEF Owner, Books
<1>2. CASE Worker
  <2>1. CASE ClaimSell \/ RefuseSell \/ PlaceSell \/ SellReturns
    <3>1. row' = row BY <2>1 DEF ClaimSell, RefuseSell, PlaceSell, SellReturns
    <3> QED BY <1>0, <2>1, <3>1, ClaimSellKeeps, RefuseSellKeeps, PlaceSellKeeps, SellReturnsKeeps
            DEF Books
  <2>2. CASE ReadBalance BY <1>0, <2>2, ReadBalanceKeeps DEF Books
  <2>3. ASSUME NEW o \in Orders, AnswerStatus(o) \/ LoseStatus(o)
        PROVE  IInv' /\ row' = row
    BY <2>3, AnswerStatusKeeps, LoseStatusKeeps
  <2> QED BY <1>0, <1>2, <2>1, <2>2, <2>3 DEF Worker, Books
<1>3. CASE World BY <1>0, <1>3, WorldKeeps DEF Books
<1>4. CASE Death BY <1>4, DeathKeeps
<1>5. CASE UNCHANGED vars
  <2>1. UNCHANGED <<pos, row, intent, ctx, sell, tracked, asked, reading, queue, journal,
                    claimed, fate, amount, held, restarts>>
    BY <1>5 DEF vars, owned, pool, jrnl, world
  <2>2. Good(Owned)' /\ HalfOnce(Owned)' /\ BooksKept
    BY <1>0, <2>1 DEF IInv, Good, Owned, OwnedType, HalfOnce
  <2>3. CallsTyped' /\ ContextKept' /\ RowClaimed'
    BY <2>1 DEF IInv, CallsTyped, ContextKept, RowClaimed
  <2>4. AnswersTrue' /\ Arrivals("sell")' = Arrivals("sell")
    BY <2>1, AnswersKept DEF IInv
  <2>5. RowClaimed' /\ (ErrorMayHideOrder \/ (OneAtATime' /\ (DbMayFail \/ Covered')))
    BY <2>1, <2>4, GuardsKept DEF IInv
  <2> QED BY <2>1, <2>2, <2>3, <2>4, <2>5 DEF IInv, Books
<1> QED BY <1>1, <1>2, <1>3, <1>4, <1>5 DEF Next

\* The inductive invariant holds of every behaviour.
THEOREM Invariance == Spec => []IInv
<1>1. Init => IInv BY InitKeeps
<1>2. IInv /\ [Next]_vars => IInv' BY StepKeeps
<1> QED BY <1>1, <1>2, PTL DEF Spec

-----------------------------------------------------------------------------
(* Theorems about the runs' properties *)

\* The journal keeps two sells of the position from waiting at the provider
\* together, even when exit_swap_status can be neither read nor written, provided
\* that the CLI exits with an error only for orders it did not place.
THEOREM OneSell ==
    ASSUME ErrorMayHideOrder = FALSE
    PROVE  Spec => []OneSellOrder
<1>1. IInv => OneSellOrder BY DEF IInv, OneAtATime
<1>2. Spec => []IInv BY Invariance
<1> QED BY <1>1, <1>2, PTL

\* With a status column that can be read and written, the row shows every sell
\* that is under way, through time-outs, failures and any number of deaths.
THEOREM ClaimCovers ==
    ASSUME ErrorMayHideOrder = FALSE, DbMayFail = FALSE
    PROVE  Spec => []ClaimCoversOrder
<1>1. IInv => ClaimCoversOrder BY DEF IInv, Covered
<1>2. Spec => []IInv BY Invariance
<1> QED BY <1>1, <1>2, PTL

\* The stages booked in the row are always TP1, or TP1 and TP2, or all three:
\* a stage is latched with those before it, sold lowest first, and its context and
\* its intent survive a death only together with the stages already filled.
THEOREM Ladder == Spec => []LadderInOrder
<1>1. IInv => LadderInOrder BY DEF IInv, Good, Owned, DownClosed, LadderInOrder
<1>2. Spec => []IInv BY Invariance
<1> QED BY <1>1, <1>2, PTL

\* No late answer, reconciliation, evaluation or restart opens a closed row again.
THEOREM StaysClosed == Spec => ClosedForGood
<1> DEFINE Shut == row.status = "CLOSED" => row'.status = "CLOSED"
<1>1. IInv /\ [Next]_vars => [Shut]_vars BY StepKeeps
<1>2. Spec => []IInv BY Invariance
<1> QED BY <1>1, <1>2, PTL DEF Spec, ClosedForGood

-----------------------------------------------------------------------------
(* What LiveExit books: the proceeds in the row are those of sells that    *)
(* filled, every stage that counts as done was paid for by a sell of its   *)
(* own, and no sells more than was bought.  An order is spent when it      *)
(* filled and nothing in the process or in the journal can bring it back:  *)
(* the books never count more than the spent orders, and booking one is    *)
(* what spends it.                                                         *)

(* Where an order is between its placement and its booking *)

\* Its answer waits in the queue.
Handed(q, o) ==
    \E i \in DOMAIN q : q[i].kind = "sell" /\ q[i].result = "submitted" /\ q[i].order = o
Heard(q, o) == \E i \in DOMAIN q : q[i].kind = "order_status" /\ q[i].order = o
Told(q, o) ==
    \E i \in DOMAIN q :
        q[i].kind = "order_status" /\ q[i].order = o /\ q[i].result = "SWAP_CONFIRMED"

\* The worker has its id and the owner loop does not follow it yet.
Submitting(o) == (sell.phase = "sent" /\ sell.order = o) \/ Handed(queue, o)

\* A restart would follow it again.
Reopens(o) == Reconnectable(journal) /\ journal.order = o

\* It can still be booked.
Live(o) == Submitting(o) \/ tracked[o] # NoContext \/ Reopens(o)

\* It is polled, or an answer about it is on its way.
Seen(o) == o \in asked \/ tracked[o] # NoContext \/ Heard(queue, o)

Spent == {o \in Filled : ~Live(o)}

(* The invariant of the books *)

\* Only a placed order is known; one the owner follows is not submitted again; a
\* confirmation is true and its row in the journal is settled.
Linked ==
    \A o \in Orders :
        /\ Live(o) \/ Seen(o) => fate[o] # "unused"
        /\ Seen(o) => ~Submitting(o)
        /\ Told(queue, o) => fate[o] = "filled" /\ ~Reopens(o)

Done(filled, half) == Cardinality(filled) + (IF half THEN 1 ELSE 0)

Paid ==
    /\ row.realized <= SumOf(amount, Spent)
    /\ Done(row.filled, row.halfDone) <= Cardinality(Spent)

\* What the wallet holds and what was sold never exceed what was bought.
Owed == held + SumOf(amount, Filled) <= Quantity

BooksInv == Linked /\ Paid /\ Owed

-----------------------------------------------------------------------------
(* The completion queue *)

LEMMA QueueTaken ==
    ASSUME CallsTyped, queue # <<>>, queue' = Tail(queue), NEW o
    PROVE  /\ Handed(queue', o) => Handed(queue, o)
           /\ Heard(queue', o) => Heard(queue, o)
           /\ Told(queue', o) => Told(queue, o)
<1>1. \A i \in DOMAIN queue' : i + 1 \in DOMAIN queue /\ queue'[i] = queue[i + 1]
  BY TailFacts DEF CallsTyped
<1>2. \A i \in DOMAIN queue' : \E j \in DOMAIN queue : queue'[i] = queue[j] BY <1>1
<1> QED BY <1>2 DEF Handed, Heard, Told

LEMMA QueueOldest ==
    ASSUME CallsTyped, queue # <<>>
    PROVE  LET e == Head(queue) IN
           /\ e \in EventType /\ 1 \in DOMAIN queue /\ queue[1] = e
           /\ e.kind = "sell" /\ e.result = "submitted" => Handed(queue, e.order)
           /\ e.kind = "order_status" => Heard(queue, e.order)
           /\ e.kind = "order_status" /\ e.result = "SWAP_CONFIRMED" => Told(queue, e.order)
  BY TailFacts DEF CallsTyped, Handed, Heard, Told

LEMMA QueueGrown ==
    ASSUME CallsTyped, NEW e \in EventType, queue' = Append(queue, e), NEW o
    PROVE  /\ Handed(queue', o) =>
                  Handed(queue, o) \/ (e.kind = "sell" /\ e.result = "submitted" /\ e.order = o)
           /\ Heard(queue', o) => Heard(queue, o) \/ (e.kind = "order_status" /\ e.order = o)
           /\ Told(queue', o) =>
                  \/ Told(queue, o)
                  \/ e.kind = "order_status" /\ e.order = o /\ e.result = "SWAP_CONFIRMED"
<1>1. \A i \in DOMAIN queue' : queue'[i] = e \/ (i \in DOMAIN queue /\ queue'[i] = queue[i])
  BY AppendFacts DEF CallsTyped
<1> QED BY <1>1 DEF Handed, Heard, Told

LEMMA QueueEmpty ==
    ASSUME queue' = <<>>, NEW o
    PROVE  ~Handed(queue', o) /\ ~Heard(queue', o) /\ ~Told(queue', o)
  BY DEF Handed, Heard, Told

LEMMA Telling ==
    ASSUME NEW o, Told(queue, o)
    PROVE  Heard(queue, o) /\ Seen(o)
  BY DEF Told, Heard, Seen

-----------------------------------------------------------------------------
(* What a step does to an order *)

Follows(o) ==
    /\ fate[o] # "unused" => fate'[o] # "unused"
    /\ fate[o] = "filled" => fate'[o] = "filled" /\ amount'[o] = amount[o]
    /\ Submitting(o)' => Submitting(o) \/ (fate[o] = "unused" /\ fate'[o] = "placed")
    /\ Reopens(o)' => Reopens(o) \/ Submitting(o) \/ fate'[o] = "placed"
    /\ tracked'[o] # NoContext => tracked[o] # NoContext \/ Submitting(o) \/ Reopens(o)
    /\ Seen(o)' => Seen(o) \/ (Live(o) /\ ~Submitting(o)')
    /\ Told(queue', o) => Told(queue, o) \/ (fate'[o] = "filled" /\ ~Reopens(o)')

\* A step of the owner loop that only takes events from the queue and stops or
\* keeps following.
LEMMA OwnerFollows ==
    ASSUME NoneSent, UNCHANGED <<fate, amount, journal>>, NEW o \in Orders,
           Handed(queue', o) => Handed(queue, o),
           Heard(queue', o) => Heard(queue, o),
           Told(queue', o) => Told(queue, o),
           tracked'[o] # NoContext => tracked[o] # NoContext,
           o \in asked' => o \in asked \/ tracked[o] # NoContext
    PROVE  Follows(o)
<1>1. sell'.phase = "sent" => sell' = sell BY DEF NoneSent, AtRest
<1>2. Submitting(o)' => Submitting(o) BY <1>1 DEF Submitting
<1>3. Reopens(o)' = Reopens(o) BY DEF Reopens
<1>4. Seen(o)' => Seen(o) BY DEF Seen
<1> QED BY <1>2, <1>3, <1>4 DEF Follows

LEMMA EvaluateFollows ==
    ASSUME IInv, Evaluate \/ ReconcileForced, NEW o \in Orders
    PROVE  Follows(o)
<1>1. NoneSent BY EvaluateKeeps, ReconcileForcedKeeps
<1>2. UNCHANGED <<tracked, asked, queue, journal, fate, amount>>
  BY DEF Evaluate, ReconcileForced, pool, jrnl, world
<1> QED BY <1>1, <1>2, OwnerFollows

LEMMA BalanceFollows ==
    ASSUME IInv, HandleBalance, NEW o \in Orders
    PROVE  Follows(o)
<1>1. NoneSent BY HandleBalanceKeeps
<1>2. UNCHANGED <<tracked, asked, journal, fate, amount>> /\ queue # <<>> /\ queue' = Tail(queue)
  BY DEF HandleBalance, Arrived, pool, jrnl, world
<1>3. CallsTyped BY DEF IInv
<1> QED BY <1>1, <1>2, <1>3, QueueTaken, OwnerFollows

LEMMA AskingFollows ==
    ASSUME IInv, AskBalance \/ \E p \in Orders : PollOrder(p), NEW o \in Orders
    PROVE  Follows(o)
<1>1. UNCHANGED <<sell, tracked, queue, journal, fate, amount>>
  BY DEF AskBalance, PollOrder, owned, jrnl, world
<1>2. o \in asked' => o \in asked \/ tracked[o] # NoContext
  BY DEF AskBalance, PollOrder
<1>3. NoneSent BY <1>1 DEF NoneSent
<1> QED BY <1>1, <1>2, <1>3, OwnerFollows

LEMMA HandleStatusFollows ==
    ASSUME IInv, HandleStatus, NEW o \in Orders
    PROVE  Follows(o)
<1>1. NoneSent BY HandleStatusKeeps
<1>2. UNCHANGED <<journal, fate, amount>> /\ queue # <<>> /\ queue' = Tail(queue)
  BY DEF HandleStatus, Arrived, jrnl, world
<1>3. CallsTyped BY DEF IInv
<1>4. tracked'[o] # NoContext => tracked[o] # NoContext
  BY <1>3 DEF HandleStatus, CallsTyped
<1>5. o \in asked' => o \in asked \/ tracked[o] # NoContext
  BY DEF HandleStatus
<1> QED BY <1>1, <1>2, <1>3, <1>4, <1>5, QueueTaken, OwnerFollows

\* A submitted order is followed from then on, and was not before.
LEMMA HandleSellFollows ==
    ASSUME IInv, HandleSell, NEW o \in Orders
    PROVE  Follows(o)
<1> DEFINE e == Head(queue)
<1>1. NoneSent BY HandleSellKeeps
<1>2. /\ UNCHANGED <<journal, fate, amount>>
      /\ queue # <<>> /\ queue' = Tail(queue) /\ e.kind = "sell"
  BY DEF HandleSell, Arrived, jrnl, world
<1>3. CallsTyped BY DEF IInv
<1>4. CASE e.result = "submitted" /\ o = e.order
  <2>1. Submitting(o) BY <1>2, <1>3, <1>4, QueueOldest DEF Submitting
  <2>2. 1 \in Arrivals("sell") BY <1>2, <1>3, QueueOldest DEF Arrivals
  <2>3. ~Submitting(o)'
    <3>1. \A i \in DOMAIN queue' : i + 1 \in DOMAIN queue /\ queue'[i] = queue[i + 1] /\ i + 1 # 1
      BY <1>2, <1>3, TailFacts DEF CallsTyped
    <3>2. \A i \in DOMAIN queue' : queue'[i].kind # "sell"
      BY <2>2, <3>1 DEF IInv, AnswersTrue, Arrivals
    <3>3. sell'.phase # "sent" BY <1>1, <2>2 DEF NoneSent, AtRest, IInv, AnswersTrue
    <3> QED BY <3>2, <3>3 DEF Submitting, Handed
  <2>4. Reopens(o)' = Reopens(o) /\ (Told(queue', o) => Told(queue, o))
    BY <1>2, <1>3, QueueTaken DEF Reopens
  <2> QED BY <1>2, <2>1, <2>3, <2>4 DEF Follows, Live
<1>5. CASE ~(e.result = "submitted" /\ o = e.order)
  <2>1. tracked'[o] = tracked[o] /\ (o \in asked' => o \in asked)
    BY <1>3, <1>5 DEF HandleSell, CallsTyped
  <2> QED BY <1>1, <1>2, <1>3, <2>1, QueueTaken, OwnerFollows
<1> QED BY <1>4, <1>5

LEMMA DeathFollows ==
    ASSUME IInv, Death, NEW o \in Orders
    PROVE  Follows(o)
<1>1. AtRest BY DeathKeeps
<1>2. PICK s : RestartFrom(s)
  BY DEF Death, Restart, RestartBeforeClear, RestartBeforePersist
<1>3. UNCHANGED <<journal, fate, amount>> /\ queue' = <<>> /\ asked' = {}
  BY <1>2 DEF RestartFrom, jrnl, world
<1>4. ~Submitting(o)'
  <2>1. sell'.phase # "sent" BY <1>1 DEF AtRest
  <2> QED BY <1>3, <2>1, QueueEmpty DEF Submitting
<1>5. tracked'[o] # NoContext => Reopens(o) BY <1>2, RestartTracks DEF Reopens
<1>6. Reopens(o)' = Reopens(o) BY <1>3 DEF Reopens
<1>7. Seen(o)' => Live(o) BY <1>3, <1>5, QueueEmpty DEF Seen, Live
<1> QED BY <1>3, <1>4, <1>5, <1>6, <1>7, QueueEmpty DEF Follows

\* The worker's answer of a sell joins the queue: it carries the id the worker has.
LEMMA ReturnFollows ==
    ASSUME IInv, NEW p \in SomeOrder, NEW result \in {"submitted", "failed", "unknown"},
           Return(p, result), result = "submitted" => Submitting(p) /\ p \in Orders,
           UNCHANGED <<tracked, asked, fate, amount>>, NEW o \in Orders,
           Reopens(o)' => Reopens(o) \/ Submitting(o)
    PROVE  Follows(o)
<1> DEFINE e == Event("sell", p, result, 0)
<1>1. e \in EventType /\ e.kind = "sell" /\ e.result = result /\ e.order = p
  BY AmountFacts DEF Event, EventType
<1> HIDE DEF e
<1>2. sell' = [sell EXCEPT !.phase = "done"] /\ queue' = Append(queue, e) BY DEF Return, e
<1>3. sell'.phase = "done" BY <1>2, OwnedFacts DEF IInv, Good, OwnedType, SellType
<1>4. CallsTyped BY DEF IInv
<1>5. /\ Handed(queue', o) => Handed(queue, o) \/ (result = "submitted" /\ p = o)
      /\ Heard(queue', o) => Heard(queue, o)
      /\ Told(queue', o) => Told(queue, o)
  BY <1>1, <1>2, <1>4, QueueGrown
<1>6. Submitting(o)' => Submitting(o) BY <1>3, <1>5 DEF Submitting
<1>7. Seen(o)' => Seen(o) BY <1>5 DEF Seen
<1> QED BY <1>5, <1>6, <1>7 DEF Follows

LEMMA ClaimSellFollows ==
    ASSUME IInv, ClaimSell, NEW o \in Orders
    PROVE  Follows(o)
<1>1. UNCHANGED <<tracked, asked, fate, amount>> BY DEF ClaimSell, pool, world
<1>2. CASE Claimable(journal) /\ sell.quantity > 0
  <2>1. journal' = Claimed /\ queue' = queue /\ sell' = [sell EXCEPT !.phase = "claimed"]
    BY <1>2 DEF ClaimSell
  <2>2. sell'.phase = "claimed" BY <2>1, OwnedFacts DEF IInv, Good, OwnedType, SellType
  <2>3. ~Reopens(o)' BY <2>1, JournalFacts DEF Reopens, Reconnectable
  <2>4. Submitting(o)' => Submitting(o) BY <2>1, <2>2 DEF Submitting
  <2>5. Seen(o)' => Seen(o) BY <1>1, <2>1 DEF Seen
  <2> QED BY <1>1, <2>1, <2>3, <2>4, <2>5 DEF Follows
<1>3. CASE ~(Claimable(journal) /\ sell.quantity > 0)
  <2>1. PICK result \in {"failed", "unknown"} : Return(NoOrder, result) /\ journal' = journal
    BY <1>3 DEF ClaimSell, jrnl
  <2>2. NoOrder \in SomeOrder BY DEF SomeOrder
  <2>3. Reopens(o)' => Reopens(o) BY <2>1 DEF Reopens
  <2> QED BY <1>1, <2>1, <2>2, <2>3, ReturnFollows
<1> QED BY <1>2, <1>3

LEMMA SellAnswerFollows ==
    ASSUME IInv, RefuseSell \/ SellReturns, NEW o \in Orders
    PROVE  Follows(o)
<1>1. UNCHANGED <<tracked, asked, fate, amount>> BY DEF RefuseSell, SellReturns, pool, world
<1>2. sell.phase \in {"claimed", "sent"} /\ journal = Claimed
  BY DEF RefuseSell, SellReturns, IInv, RowClaimed
<1>3. \/ \E result \in {"failed", "unknown"} :
            /\ Return(NoOrder, result)
            /\ \/ journal' = journal
               \/ \E state \in JournalStates : journal' = Updated(journal, state)
      \/ /\ sell.phase = "sent"
         /\ Return(sell.order, "submitted") /\ journal' = Bound(sell.order)
  <2>1. {"FAILED", "SUBMIT_UNKNOWN"} \subseteq JournalStates BY DEF JournalStates, ActiveJournal
  <2> QED BY <2>1 DEF RefuseSell, SellReturns
<1>4. CASE \E result \in {"failed", "unknown"} :
              /\ Return(NoOrder, result)
              /\ \/ journal' = journal
                 \/ \E state \in JournalStates : journal' = Updated(journal, state)
  <2>1. PICK result \in {"failed", "unknown"} :
            /\ Return(NoOrder, result)
            /\ \/ journal' = journal
               \/ \E state \in JournalStates : journal' = Updated(journal, state)
    BY <1>4
  <2>2. NoOrder \in SomeOrder BY DEF SomeOrder
  <2>3. journal'.order = NoOrder BY <1>2, <2>1 DEF Claimed, Updated
  <2>4. ~Reopens(o)' BY <2>3 DEF Reopens, Reconnectable
  <2> QED BY <1>1, <2>1, <2>2, <2>4, ReturnFollows
<1>5. CASE /\ sell.phase = "sent"
           /\ Return(sell.order, "submitted") /\ journal' = Bound(sell.order)
  <2>1. sell.order \in Orders /\ sell.order \in SomeOrder
    BY <1>5 DEF IInv, RowClaimed, SomeOrder
  <2>2. Submitting(sell.order) BY <1>5 DEF Submitting
  <2>3. Reopens(o)' => o = sell.order BY <1>5, <2>1, JournalFacts DEF Reopens
  <2> QED BY <1>1, <1>5, <2>1, <2>2, <2>3, ReturnFollows
<1> QED BY <1>3, <1>4, <1>5

LEMMA PlaceSellFollows ==
    ASSUME IInv, PlaceSell, NEW o \in Orders
    PROVE  Follows(o)
<1>1. PICK p \in Orders :
          /\ fate[p] = "unused"
          /\ fate' = [fate EXCEPT ![p] = "placed"]
          /\ amount' = [amount EXCEPT ![p] = IF sell.quantity < held THEN sell.quantity ELSE held]
          /\ sell' = [sell EXCEPT !.phase = "sent", !.order = p]
  BY DEF PlaceSell
<1>2. UNCHANGED <<tracked, asked, queue, journal>> BY DEF PlaceSell, pool, jrnl
<1>3. sell'.order = p BY <1>1, OwnedFacts DEF IInv, Good, OwnedType, SellType
<1>4. CallsTyped BY DEF IInv
<1>5. Submitting(o)' => Submitting(o) \/ (fate[o] = "unused" /\ fate'[o] = "placed")
  BY <1>1, <1>2, <1>3, <1>4 DEF Submitting, CallsTyped
<1>6. Reopens(o)' = Reopens(o) /\ Seen(o)' = Seen(o) BY <1>2 DEF Reopens, Seen
<1>7. o # p => fate'[o] = fate[o] /\ amount'[o] = amount[o] BY <1>1, <1>4 DEF CallsTyped
<1>8. fate'[p] = "placed" BY <1>1, <1>4 DEF CallsTyped
<1> QED BY <1>1, <1>2, <1>5, <1>6, <1>7, <1>8 DEF Follows

\* An answer about p settles its row in the journal when p is settled.
LEMMA AnswerFollows ==
    ASSUME IInv, NEW p \in Orders, AnswerStatus(p) \/ LoseStatus(p), NEW o \in Orders
    PROVE  Follows(o)
<1>1. /\ p \in asked /\ asked' = asked \ {p}
      /\ UNCHANGED <<sell, tracked, fate, amount>>
  BY DEF AnswerStatus, LoseStatus, owned, world
<1>2. PICK result \in {"SWAP_PENDING", "SWAP_CONFIRMED", "SWAP_FAILED", "SWAP_UNKNOWN"} :
          /\ queue' = Append(queue, Event("order_status", p, result, 0))
          /\ \/ result = "SWAP_UNKNOWN" /\ journal' = journal
             \/ /\ result = "SWAP_PENDING" /\ fate[p] = "placed"
                /\ journal' = UpdatedByOrder(journal, p, "PENDING")
             \/ /\ result = "SWAP_CONFIRMED" /\ fate[p] = "filled"
                /\ journal' = UpdatedByOrder(journal, p, "CONFIRMED")
             \/ /\ result = "SWAP_FAILED"
                /\ journal' = UpdatedByOrder(journal, p, "FAILED")
  <2>1. CASE LoseStatus(p) BY <2>1 DEF LoseStatus, jrnl
  <2>2. CASE AnswerStatus(p) BY <2>2 DEF AnswerStatus
  <2> QED BY <2>1, <2>2
<1> DEFINE e == Event("order_status", p, result, 0)
<1>3. e \in EventType /\ e.kind = "order_status" /\ e.result = result /\ e.order = p
  BY AmountFacts DEF Event, EventType, SomeOrder
<1>4. CallsTyped BY DEF IInv
<1>5. /\ Handed(queue', o) => Handed(queue, o)
      /\ Heard(queue', o) => Heard(queue, o) \/ o = p
      /\ Told(queue', o) => Told(queue, o) \/ (o = p /\ result = "SWAP_CONFIRMED")
  <2>1. queue' = Append(queue, e) BY <1>2
  <2> HIDE DEF e
  <2> QED BY <1>3, <1>4, <2>1, QueueGrown
<1>6. /\ Reopens(o)' => Reopens(o) \/ (o = p /\ result = "SWAP_PENDING")
      /\ result = "SWAP_CONFIRMED" => ~(Reconnectable(journal) /\ journal.order = p)'
  BY <1>2 DEF Reopens, Reconnectable, UpdatedByOrder, Updated, ActiveJournal
<1>7. Seen(o)' => Seen(o) BY <1>1, <1>5 DEF Seen
<1>8. Submitting(o)' => Submitting(o) BY <1>1, <1>5 DEF Submitting
<1> QED BY <1>1, <1>2, <1>5, <1>6, <1>7, <1>8 DEF Follows, Reopens

LEMMA ElsewhereFollows ==
    ASSUME IInv, World \/ ReadBalance \/ UNCHANGED vars, NEW o \in Orders
    PROVE  Follows(o)
<1>1. UNCHANGED <<sell, tracked, asked, journal, amount>>
  BY DEF World, TokensLeave, Fill, Reject, ReadBalance, vars, owned, pool, jrnl, world
<1>2. \/ fate' = fate
      \/ \E p \in Orders, end \in {"filled", "failed"} :
            fate[p] = "placed" /\ fate' = [fate EXCEPT ![p] = end]
  BY DEF World, TokensLeave, Fill, Reject, ReadBalance, vars, world
<1>3. CallsTyped BY DEF IInv
<1>4. /\ fate[o] # "unused" => fate'[o] # "unused"
      /\ fate[o] = "filled" => fate'[o] = "filled"
  BY <1>2, <1>3 DEF CallsTyped
<1>5. /\ Handed(queue', o) => Handed(queue, o)
      /\ Heard(queue', o) => Heard(queue, o)
      /\ Told(queue', o) => Told(queue, o)
  <2>1. CASE ReadBalance
    <3>1. PICK balance \in {held, Unread} :
              queue' = Append(queue, Event("balance", NoOrder, "none", balance))
      BY <2>1 DEF ReadBalance
    <3> DEFINE e == Event("balance", NoOrder, "none", balance)
    <3>2. balance \in Amounts BY <1>3, <3>1, AmountFacts DEF CallsTyped, Unread
    <3>3. e \in EventType /\ e.kind = "balance" BY <3>2 DEF Event, EventType, SomeOrder
    <3>4. queue' = Append(queue, e) BY <3>1
    <3> HIDE DEF e
    <3> QED BY <1>3, <3>3, <3>4, QueueGrown
  <2>2. CASE World \/ UNCHANGED vars
    BY <2>2 DEF World, TokensLeave, Fill, Reject, vars
  <2> QED BY <2>1, <2>2
<1>6. Reopens(o)' = Reopens(o) BY <1>1 DEF Reopens
<1>7. Submitting(o)' => Submitting(o) BY <1>1, <1>5 DEF Submitting
<1>8. Seen(o)' => Seen(o) BY <1>1, <1>5 DEF Seen
<1> QED BY <1>1, <1>4, <1>5, <1>6, <1>7, <1>8 DEF Follows

LEMMA StepFollows ==
    ASSUME IInv, [Next]_vars, NEW o \in Orders
    PROVE  Follows(o)
<1>1. CASE Owner
  BY <1>1, EvaluateFollows, HandleSellFollows, HandleStatusFollows, BalanceFollows,
     AskingFollows DEF Owner
<1>2. CASE Worker
  BY <1>2, ClaimSellFollows, SellAnswerFollows, PlaceSellFollows, AnswerFollows,
     ElsewhereFollows DEF Worker
<1>3. CASE World \/ UNCHANGED vars BY <1>3, ElsewhereFollows
<1>4. CASE Death BY <1>4, DeathFollows
<1> QED BY <1>1, <1>2, <1>3, <1>4 DEF Next

-----------------------------------------------------------------------------
(* The books *)

\* Nothing spent comes back.
LEMMA LinkedKept ==
    ASSUME Linked, \A o \in Orders : Follows(o)
    PROVE  /\ Linked'
           /\ Spent \subseteq Spent' /\ Filled \subseteq Filled'
           /\ \A o \in Filled : amount'[o] = amount[o]
<1>1. ASSUME NEW o \in Orders
      PROVE  /\ (Live(o) \/ Seen(o) => fate[o] # "unused")'
             /\ (Seen(o) => ~Submitting(o))'
             /\ (Told(queue, o) => fate[o] = "filled" /\ ~Reopens(o))'
             /\ Live(o)' /\ fate'[o] = "filled" => Live(o)
             /\ fate[o] = "filled" => fate'[o] = "filled" /\ amount'[o] = amount[o]
  <2>1. /\ Live(o) \/ Seen(o) => fate[o] # "unused"
        /\ Seen(o) => ~Submitting(o)
        /\ Told(queue, o) => fate[o] = "filled" /\ ~Reopens(o)
    BY DEF Linked
  <2>2. Follows(o) OBVIOUS
  <2>3. Told(queue, o) => Seen(o) BY Telling
  <2>4. Live(o) <=> Submitting(o) \/ tracked[o] # NoContext \/ Reopens(o) BY DEF Live
  <2>5. Live(o)' <=> Submitting(o)' \/ tracked'[o] # NoContext \/ Reopens(o)' BY DEF Live
  <2> QED BY <2>1, <2>2, <2>3, <2>4, <2>5 DEF Follows
<1>2. Linked' BY <1>1 DEF Linked
<1>3. Filled \subseteq Filled' /\ \A o \in Filled : amount'[o] = amount[o] BY <1>1 DEF Filled
<1>4. Spent \subseteq Spent' BY <1>1 DEF Spent, Filled
<1> QED BY <1>2, <1>3, <1>4

LEMMA SpentFacts ==
    ASSUME CallsTyped
    PROVE  /\ IsFiniteSet(Spent) /\ IsFiniteSet(Filled) /\ Spent \in SUBSET Filled
           /\ Cardinality(Spent) \in Nat
           /\ \A o \in Orders : amount[o] \in Nat
           /\ SumOf(amount, Spent) \in Nat /\ SumOf(amount, Filled) \in Nat
           /\ SumOf(amount, Spent) <= SumOf(amount, Filled)
           /\ Cardinality(Spent) <= Cardinality(Filled) /\ Cardinality(Filled) \in Nat
<1>1. Spent \in SUBSET Filled /\ Filled \in SUBSET Orders BY DEF Spent, Filled
<1>2. IsFiniteSet(Filled) BY <1>1, ExitAssumption, FS_Subset
<1>3. IsFiniteSet(Spent) BY <1>1, <1>2, FS_Subset
<1>4. \A o \in Orders : amount[o] \in Nat BY AmountFacts DEF CallsTyped
<1>5. SumOf(amount, Spent) \in Nat BY <1>1, <1>3, <1>4, SumNat
<1>6. SumOf(amount, Filled) \in Nat BY <1>1, <1>2, <1>4, SumNat
<1>7. SumOf(amount, Spent) <= SumOf(amount, Filled) BY <1>1, <1>2, <1>4, SumGrows
<1>8. Cardinality(Spent) <= Cardinality(Filled) BY <1>1, <1>2, FS_Subset
<1>9. Cardinality(Spent) \in Nat /\ Cardinality(Filled) \in Nat BY <1>2, <1>3, FS_CardinalityType
<1> QED BY <1>1, <1>2, <1>3, <1>4, <1>5, <1>6, <1>7, <1>8, <1>9

LEMMA SpentThen ==
    ASSUME CallsTyped'
    PROVE  /\ IsFiniteSet(Spent') /\ IsFiniteSet(Filled')
           /\ Cardinality(Spent') \in Nat
           /\ \A o \in Spent' : amount'[o] \in Nat
           /\ \A o \in Filled' : amount'[o] \in Nat
           /\ SumOf(amount', Spent') \in Nat
<1>1. Spent' \subseteq Orders /\ Filled' \subseteq Orders BY DEF Spent, Filled
<1>2. IsFiniteSet(Spent') /\ IsFiniteSet(Filled') BY <1>1, ExitAssumption, FS_Subset
<1>3. \A o \in Orders : amount'[o] \in Nat BY AmountFacts DEF CallsTyped
<1>4. (\A o \in Spent' : amount'[o] \in Nat) /\ (\A o \in Filled' : amount'[o] \in Nat)
  BY <1>1, <1>3
<1>5. SumOf(amount', Spent') \in Nat BY <1>2, <1>4, SumNat
<1>6. Cardinality(Spent') \in Nat BY <1>2, FS_CardinalityType
<1> QED BY <1>2, <1>4, <1>5, <1>6

\* What was spent before and what is spent now, in the new amounts.
LEMMA SpentGrows ==
    ASSUME CallsTyped, CallsTyped', Spent \subseteq Spent', Filled \subseteq Filled',
           \A o \in Filled : amount'[o] = amount[o]
    PROVE  /\ SumOf(amount', Spent) = SumOf(amount, Spent)
           /\ SumOf(amount', Spent) <= SumOf(amount', Spent')
           /\ Cardinality(Spent) <= Cardinality(Spent')
           /\ SumOf(amount', Filled) = SumOf(amount, Filled)
<1>1. /\ IsFiniteSet(Spent) /\ IsFiniteSet(Filled) /\ Spent \in SUBSET Filled
  BY SpentFacts
<1>2. IsFiniteSet(Spent') /\ Spent' \subseteq Orders /\ \A o \in Orders : amount'[o] \in Nat
  <2>1. Spent' \subseteq Orders BY DEF Spent, Filled
  <2>2. IsFiniteSet(Spent') BY <2>1, ExitAssumption, FS_Subset
  <2>3. \A o \in Orders : amount'[o] \in Nat BY AmountFacts DEF CallsTyped
  <2> QED BY <2>1, <2>2, <2>3
<1>3. SumOf(amount', Spent) = SumOf(amount, Spent) BY <1>1, SumSame
<1>4. SumOf(amount', Filled) = SumOf(amount, Filled) BY <1>1, SumSame
<1>5. \A o \in Spent' : amount'[o] \in Nat BY <1>2
<1>6. SumOf(amount', Spent) <= SumOf(amount', Spent')
  <2> DEFINE a == amount'
             S == Spent
             T == Spent'
  <2>1. S \in SUBSET T /\ IsFiniteSet(T) /\ \A o \in T : a[o] \in Nat BY <1>2, <1>5
  <2> HIDE DEF a, S, T
  <2>2. SumOf(a, S) <= SumOf(a, T) BY <2>1, SumGrows
  <2> QED BY <2>2 DEF a, S, T
<1>7. Cardinality(Spent) <= Cardinality(Spent') BY <1>2, FS_Subset
<1> QED BY <1>3, <1>4, <1>6, <1>7

LEMMA StagesFinite == IsFiniteSet(Stages)
<1>1. Stages = {} \cup {1} \cup {2} \cup {3} BY StageFacts
<1>2. IsFiniteSet({}) BY FS_EmptySet
<1> QED BY <1>1, <1>2, FS_AddElement

LEMMA RowFacts ==
    ASSUME Good(Owned)
    PROVE  /\ row.realized \in Nat
           /\ row.filled \in SUBSET Stages /\ row.halfDone \in BOOLEAN
           /\ Done(row.filled, row.halfDone) \in Nat
<1>1. row \in RowType BY OwnedFacts DEF Good, OwnedType
<1>2. IsFiniteSet(Stages) BY StagesFinite
<1>3. row.filled \in SUBSET Stages /\ row.halfDone \in BOOLEAN BY <1>1 DEF RowType
<1>4. IsFiniteSet(row.filled) BY <1>2, <1>3, FS_Subset
<1>5. Cardinality(row.filled) \in Nat BY <1>4, FS_CardinalityType
<1> QED BY <1>1, <1>3, <1>5 DEF RowType, Done

LEMMA DoneOnce ==
    ASSUME NEW S \in SUBSET Stages, NEW half \in BOOLEAN, NEW T, NEW then \in BOOLEAN,
           BookedAt(S, half, T, then)
    PROVE  Done(T, then) <= Done(S, half) + 1
<1>1. IsFiniteSet(S)
  <2>1. IsFiniteSet(Stages) BY StagesFinite
  <2> QED BY <2>1, FS_Subset
<1>2. Cardinality(S) \in Nat BY <1>1, FS_CardinalityType
<1>3. CASE T = S BY <1>2, <1>3 DEF Done
<1>4. CASE then = half /\ \E k \in Stages : T = S \cup {k}
  <2>1. PICK k \in Stages : T = S \cup {k} BY <1>4
  <2>2. Cardinality(T) \in {Cardinality(S), Cardinality(S) + 1}
    <3>1. k \in S => T = S BY <2>1
    <3>2. k \notin S => Cardinality(T) = Cardinality(S) + 1 BY <1>1, <2>1, FS_AddElement
    <3> QED BY <3>1, <3>2
  <2> QED BY <1>2, <1>4, <2>2 DEF Done
<1> QED BY <1>3, <1>4 DEF BookedAt

LEMMA RowThen ==
    ASSUME Good(Owned)'
    PROVE  row'.halfDone \in BOOLEAN /\ Done(row'.filled, row'.halfDone) \in Nat
<1>1. row' \in RowType BY OwnedFacts DEF Good, OwnedType
<1>2. IsFiniteSet(Stages) BY StagesFinite
<1>3. row'.filled \in SUBSET Stages /\ row'.halfDone \in BOOLEAN BY <1>1 DEF RowType
<1>4. IsFiniteSet(row'.filled) BY <1>2, <1>3, FS_Subset
<1>5. Cardinality(row'.filled) \in Nat BY <1>4, FS_CardinalityType
<1> QED BY <1>3, <1>5 DEF Done

\* Booking an order spends it.
LEMMA BookingSpends ==
    ASSUME CallsTyped, Linked, NEW o \in Orders, Booking(o), Follows(o)
    PROVE  o \in Spent' /\ o \notin Spent
<1>1. Told(queue, o) BY QueueOldest DEF Booking, Arrived
<1>2. fate[o] = "filled" /\ ~Reopens(o) BY <1>1 DEF Linked
<1>3. ~Submitting(o) BY <1>1, Telling DEF Linked
<1>4. ~Submitting(o)' BY <1>2, <1>3 DEF Follows
<1>5. tracked'[o] = NoContext /\ ~Reopens(o)' BY <1>2 DEF Booking, Reopens
<1>6. tracked[o] # NoContext /\ fate'[o] = "filled" BY <1>2 DEF Booking
<1>7. ~Live(o)' /\ Live(o) BY <1>4, <1>5, <1>6 DEF Live
<1> QED BY <1>6, <1>7 DEF Spent, Filled

\* What the books say stays covered by what was spent.
LEMMA PaidKept ==
    ASSUME IInv, IInv', Linked, Paid, Books, \A o \in Orders : Follows(o)
    PROVE  Paid'
<1>1. /\ Spent \subseteq Spent' /\ Filled \subseteq Filled'
      /\ \A o \in Filled : amount'[o] = amount[o]
  BY LinkedKept
<1>2. CallsTyped /\ CallsTyped' /\ Good(Owned) /\ Good(Owned)' BY DEF IInv
<1>3. /\ SumOf(amount', Spent) = SumOf(amount, Spent)
      /\ SumOf(amount', Spent) <= SumOf(amount', Spent')
      /\ Cardinality(Spent) <= Cardinality(Spent')
  BY <1>1, <1>2, SpentGrows
<1>4. /\ SumOf(amount, Spent) \in Nat /\ Cardinality(Spent) \in Nat
      /\ IsFiniteSet(Spent)
  BY <1>2, SpentFacts
<1>5. SumOf(amount', Spent') \in Nat /\ Cardinality(Spent') \in Nat /\ IsFiniteSet(Spent')
      /\ \A p \in Spent' : amount'[p] \in Nat
  BY <1>2, SpentThen
<1>6. /\ row.realized \in Nat /\ row.filled \in SUBSET Stages /\ row.halfDone \in BOOLEAN
      /\ Done(row.filled, row.halfDone) \in Nat
  BY <1>2, RowFacts
<1>7. row'.halfDone \in BOOLEAN /\ Done(row'.filled, row'.halfDone) \in Nat
  BY <1>2, RowThen
<1>8. CASE BooksKept
  BY <1>3, <1>4, <1>5, <1>6, <1>8 DEF Paid, BooksKept
<1>9. ASSUME NEW o \in Orders, Booking(o) PROVE Paid'
  <2>1. o \in Spent' /\ o \notin Spent BY <1>2, <1>9, BookingSpends
  <2>2. Spent \cup {o} \in SUBSET Spent' BY <1>1, <2>1
  <2>3. SumOf(amount', Spent \cup {o}) <= SumOf(amount', Spent')
    <3> DEFINE a == amount'
               S == Spent \cup {o}
               T == Spent'
    <3>1. S \in SUBSET T /\ IsFiniteSet(T) /\ \A p \in T : a[p] \in Nat BY <1>5, <2>2
    <3> HIDE DEF a, S, T
    <3>2. SumOf(a, S) <= SumOf(a, T) BY <3>1, SumGrows
    <3> QED BY <3>2 DEF a, S, T
  <2>4. SumOf(amount', Spent \cup {o}) = amount'[o] + SumOf(amount', Spent)
    BY <1>1, <1>4, <1>5, <2>1, SumAdd
  <2>5. amount'[o] = amount[o] /\ amount[o] \in Nat BY <1>5, <1>9, <2>1 DEF Booking
  <2>6. row'.realized <= SumOf(amount', Spent')
    BY <1>3, <1>4, <1>5, <1>6, <1>9, <2>3, <2>4, <2>5 DEF Paid, Booking
  <2>7. Cardinality(Spent) + 1 <= Cardinality(Spent')
    <3>1. Cardinality(Spent \cup {o}) = Cardinality(Spent) + 1 BY <1>4, <2>1, FS_AddElement
    <3>2. Cardinality(Spent \cup {o}) <= Cardinality(Spent') BY <1>5, <2>2, FS_Subset
    <3> QED BY <3>1, <3>2
  <2>8. Done(row'.filled, row'.halfDone) <= Done(row.filled, row.halfDone) + 1
    BY <1>6, <1>7, <1>9, DoneOnce DEF Booking
  <2> QED BY <1>4, <1>5, <1>6, <1>7, <2>6, <2>7, <2>8 DEF Paid
<1> QED BY <1>8, <1>9 DEF Books

\* A fill moves tokens from the wallet to the sold ones, and nothing brings any back.
LEMMA OwedKept ==
    ASSUME IInv, IInv', Linked, Owed, [Next]_vars
    PROVE  Owed'
<1>1. \A o \in Orders : Follows(o) BY StepFollows
<1>2. /\ Spent \subseteq Spent' /\ Filled \subseteq Filled'
      /\ \A o \in Filled : amount'[o] = amount[o]
  BY <1>1, LinkedKept
<1>3. CallsTyped /\ CallsTyped' BY DEF IInv
<1>4. /\ SumOf(amount, Filled) \in Nat /\ held \in Nat /\ held' \in Nat /\ Quantity \in Nat
      /\ IsFiniteSet(Filled)
  BY <1>3, SpentFacts, AmountFacts, ExitAssumption DEF CallsTyped
<1>5. SumOf(amount', Filled) = SumOf(amount, Filled) BY <1>2, <1>3, SpentGrows
<1>6. CASE Filled' = Filled /\ held' <= held
  BY <1>4, <1>5, <1>6 DEF Owed
<1>7. ASSUME NEW o \in Orders, Fill(o) PROVE Owed'
  <2>1. /\ fate[o] = "placed" /\ amount[o] <= held
        /\ fate' = [fate EXCEPT ![o] = "filled"]
        /\ held' = held - amount[o] /\ amount' = amount
    BY <1>7 DEF Fill
  <2>2. Filled' = Filled \cup {o} /\ o \notin Filled BY <1>3, <2>1 DEF Filled, CallsTyped
  <2>3. \A x \in Filled : amount[x] \in Nat BY <1>3, SpentFacts DEF Filled
  <2>4. amount[o] \in Nat BY <1>3, SpentFacts
  <2>5. SumOf(amount, Filled \cup {o}) = amount[o] + SumOf(amount, Filled)
    BY <1>4, <2>2, <2>3, <2>4, SumAdd
  <2> QED BY <1>4, <2>1, <2>2, <2>4, <2>5 DEF Owed
<1>8. ASSUME ~ \E o \in Orders : Fill(o) PROVE Filled' = Filled /\ held' <= held
  <2>1. CASE TokensLeave
    <3>1. held' <= held BY <1>4, <2>1 DEF TokensLeave
    <3> QED BY <2>1, <3>1 DEF TokensLeave, Filled
  <2>2. CASE PlaceSell
    <3>1. held' = held BY <2>2 DEF PlaceSell
    <3>2. PICK o \in Orders : fate[o] = "unused" /\ fate' = [fate EXCEPT ![o] = "placed"]
      BY <2>2 DEF PlaceSell
    <3>3. Filled' = Filled BY <1>3, <3>2 DEF Filled, CallsTyped
    <3> QED BY <1>4, <3>1, <3>3
  <2>3. ASSUME NEW o \in Orders, Reject(o) PROVE Filled' = Filled /\ held' = held
    BY <1>3, <2>3 DEF Reject, Filled, CallsTyped
  <2>4. ASSUME Owner \/ Death \/ UNCHANGED vars PROVE fate' = fate /\ held' = held
    BY <2>4 DEF Owner, Evaluate, HandleSell, HandleStatus, HandleBalance, AskBalance, PollOrder,
               ReconcileForced, Death, Restart, RestartBeforeClear, RestartBeforePersist,
               RestartFrom, vars, world
  <2>5. ASSUME Worker, ~PlaceSell PROVE fate' = fate /\ held' = held
    BY <2>5 DEF Worker, ClaimSell, RefuseSell, SellReturns, ReadBalance, AnswerStatus,
               LoseStatus, world
  <2>6. fate' = fate => Filled' = Filled BY DEF Filled
  <2> QED BY <1>4, <1>8, <2>1, <2>2, <2>3, <2>4, <2>5, <2>6 DEF Next, World
<1> QED BY <1>6, <1>7, <1>8

LEMMA InitBooks ==
    ASSUME Init
    PROVE  BooksInv
<1>1. IInv BY InitKeeps
<1>2. Filled = {} /\ Spent = {} BY DEF Init, Filled, Spent
<1>3. \A o \in Orders : ~Live(o) /\ ~Seen(o) /\ ~Told(queue, o)
  BY DEF Init, Live, Seen, Submitting, Reopens, Reconnectable, NoRow, Handed, Heard, Told,
         Idle, SellCall
<1>4. Linked BY <1>3 DEF Linked
<1>5. SumOf(amount, {}) = 0 /\ Cardinality({}) = 0 BY SumEmpty, FS_EmptySet
<1>6. Paid BY <1>2, <1>5 DEF Paid, Done, Init
<1>7. Owed BY <1>2, <1>5, ExitAssumption DEF Owed, Init
<1> QED BY <1>4, <1>6, <1>7 DEF BooksInv

\* The inductive invariant of the books holds of every behaviour.
THEOREM BooksInvariance == Spec => [](IInv /\ BooksInv)
<1>1. Init => IInv /\ BooksInv BY InitKeeps, InitBooks
<1>2. IInv /\ BooksInv /\ [Next]_vars => (IInv /\ BooksInv)'
  <2> SUFFICES ASSUME IInv, BooksInv, [Next]_vars PROVE (IInv /\ BooksInv)'
    OBVIOUS
  <2>1. IInv' /\ Books BY StepKeeps
  <2>2. \A o \in Orders : Follows(o) BY StepFollows
  <2>3. Linked' BY <2>2, LinkedKept DEF BooksInv
  <2>4. Paid' BY <2>1, <2>2, PaidKept DEF BooksInv
  <2>5. Owed' BY <2>1, OwedKept DEF BooksInv
  <2> QED BY <2>1, <2>3, <2>4, <2>5 DEF BooksInv
<1> QED BY <1>1, <1>2, PTL DEF Spec

-----------------------------------------------------------------------------
(* Theorems about the runs' properties *)

\* realized_bnb never holds more than the filled sells brought: a confirmation
\* that arrives twice, late or again after a death is booked at most once.
THEOREM RealizedReal == Spec => []RealizedIsReal
<1>1. IInv /\ BooksInv => RealizedIsReal
  <2> SUFFICES ASSUME IInv, BooksInv PROVE RealizedIsReal
    OBVIOUS
  <2>1. row.realized \in Nat BY RowFacts DEF IInv
  <2>2. SumOf(amount, Spent) \in Nat /\ SumOf(amount, Filled) \in Nat
        /\ SumOf(amount, Spent) <= SumOf(amount, Filled)
    BY SpentFacts DEF IInv
  <2>3. row.realized <= SumOf(amount, Filled) BY <2>1, <2>2 DEF BooksInv, Paid
  <2> QED BY <2>3 DEF RealizedIsReal, SumOf
<1>2. Spec => [](IInv /\ BooksInv) BY BooksInvariance
<1> QED BY <1>1, <1>2, PTL

\* Each stage and the half that count as done were paid for by a filled sell of
\* their own, wherever the process dies between the fill, the row and the intent.
THEOREM LadderPaidFor == Spec => []LadderPaid
<1>1. IInv /\ BooksInv => LadderPaid
  <2> SUFFICES ASSUME IInv, BooksInv PROVE LadderPaid
    OBVIOUS
  <2>1. Done(row.filled, row.halfDone) \in Nat BY RowFacts DEF IInv
  <2>2. Cardinality(Spent) \in Nat /\ Cardinality(Filled) \in Nat
        /\ Cardinality(Spent) <= Cardinality(Filled)
    BY SpentFacts DEF IInv
  <2>3. Done(row.filled, row.halfDone) <= Cardinality(Filled) BY <2>1, <2>2 DEF BooksInv, Paid
  <2> QED BY <2>3 DEF LadderPaid, Done
<1>2. Spec => [](IInv /\ BooksInv) BY BooksInvariance
<1> QED BY <1>1, <1>2, PTL

\* Every variable stays in its type; no quantity, and no sum of proceeds, exceeds
\* what the position opened with.
THEOREM Types == Spec => []TypeOK
<1>1. IInv /\ BooksInv => TypeOK
  <2> SUFFICES ASSUME IInv, BooksInv PROVE TypeOK
    OBVIOUS
  <2>1. row.realized \in Amounts /\ pos.realized = row.realized
    <3>1. row.realized \in Nat BY RowFacts DEF IInv
    <3>2. /\ SumOf(amount, Spent) \in Nat /\ SumOf(amount, Filled) \in Nat
          /\ SumOf(amount, Spent) <= SumOf(amount, Filled)
      BY SpentFacts DEF IInv
    <3>3. held \in Nat /\ Quantity \in Nat
      BY AmountFacts, ExitAssumption DEF IInv, CallsTyped
    <3>4. row.realized <= Quantity BY <3>1, <3>2, <3>3 DEF BooksInv, Paid, Owed
    <3>5. pos.realized = row.realized BY OwnedFacts DEF IInv, Good
    <3> QED BY <3>1, <3>3, <3>4, <3>5 DEF Amounts
  <2>2. pos \in MemoryType /\ row \in RowType /\ intent \in IntentType
        /\ ctx \in SomeContext \cup {NoContext} /\ sell \in SellType
    BY OwnedFacts DEF IInv, Good, OwnedType
  <2>3. pos \in Memory BY <2>1, <2>2 DEF MemoryType, Memory
  <2>4. row \in PositionRows BY <2>1, <2>2 DEF RowType, PositionRows
  <2>5. SomeContext \cup {NoContext} = Contexts BY DEF SomeContext, Contexts
  <2>6. EventType = Events BY DEF EventType, Events
  <2> QED BY <2>2, <2>3, <2>4, <2>5, <2>6 DEF TypeOK, IInv, CallsTyped, IntentType, SellType
<1>2. Spec => [](IInv /\ BooksInv) BY BooksInvariance
<1> QED BY <1>1, <1>2, PTL

\* While the process lives, no sell is submitted for the no-trade half once the
\* half was sold: the flag is set by the confirmation that clears the context.
THEOREM HalfOnlyOnce ==
    ASSUME MaxRestarts = 0
    PROVE  Spec => HalfSoldOnce
<1> DEFINE Step == ctx' # ctx /\ ctx'.reason = "HALF" => ~row.halfDone
<1>1. IInv /\ [Next]_vars => [Step]_vars
  <2> SUFFICES ASSUME IInv, [Next]_vars, ctx'.reason = "HALF", row.halfDone PROVE FALSE
    OBVIOUS
  <2>1. IInv' /\ Books BY StepKeeps
  <2>2. row'.halfDone BY <2>1 DEF Books, BooksKept, Booking, BookedAt
  <2>3. pos'.halfDone = row'.halfDone /\ HalfDue(ctx'.reason, pos'.halfDone)
    BY <2>1, OwnedFacts DEF IInv, Good, HalfOnce
  <2> QED BY <2>2, <2>3 DEF HalfDue
<1>2. Spec => []IInv BY Invariance
<1> QED BY <1>1, <1>2, PTL DEF Spec, HalfSoldOnce
=============================================================================
