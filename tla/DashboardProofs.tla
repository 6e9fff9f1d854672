---------------------------- MODULE DashboardProofs ----------------------------
(***************************************************************************)
(* Proofs about LiveDashboard for every set of processes and of orders,    *)
(* every quantity and any number of deaths.  The dashboard run shows that  *)
(* two sells can wait at the provider together; the theorems say what it   *)
(* takes: the journal row becomes active between one process's look at it  *)
(* and that process's own claim, or it says FAILED of an order that the    *)
(* provider took.  The status column has no part in it.                    *)
(***************************************************************************)
EXTENDS LiveDashboard, FiniteSetTheorems, TLAPS

DashboardAssumption ==
    /\ {"engine", "dashboard"} \subseteq Processes
    /\ IsFiniteSet(Orders) /\ NoOrder \notin Orders
    /\ Quantity \in Nat /\ MaxDeaths \in Nat
    /\ ErrorMayHideOrder \in BOOLEAN

SomeOrder == Orders \union {NoOrder}
Amounts == 0 .. Quantity

-----------------------------------------------------------------------------
(* The parts of TypeOK, and the fields of a poll *)

JournalType == [state : ActiveStates \union {"none", "CONFIRMED", "FAILED"},
                order : SomeOrder, quantity : Amounts]
CallType == [phase : {"idle", "queued", "free", "claimed", "made", "signed", "done"},
             quantity : Amounts, order : SomeOrder,
             stage : {"none", "SWAP_SUBMITTED", "SWAP_UNKNOWN", "SWAP_FAILED", "RAISED"}]
Fates == {"unused", "made", "submitted", "filled", "failed"}
RowType == [status : {"OPEN", "CLOSED"}, remaining : Amounts, realized : Nat,
            swap : InFlight \union {"none", "SWAP_FAILED", "SWAP_CONFIRMED"}, order : SomeOrder]
NoteType == [state : InFlight \union {"none", "SELLING", "SWAP_FAILED", "FINISHED"},
             percentage : {0, 25, 50, 100}]
MemoryType == [status : {"OPEN", "CLOSED"}, remaining : Amounts, realized : Nat]
Answers == {"SWAP_PENDING", "SWAP_UNKNOWN", "SWAP_FAILED", "SWAP_CONFIRMED"}
PollType == [pc : {"idle", "asking", "answered", "finishing"}, order : SomeOrder,
             stage : Answers \union {"none"}, percentage : {0, 25, 50, 100}, balance : Amounts]

ExecutorTypes ==
    /\ journal \in JournalType /\ signed \subseteq Orders \X Nat
    /\ call \in [Processes -> CallType] /\ fate \in [Orders -> Fates]
    /\ nonce \in [Orders -> Nat] /\ amount \in [Orders -> Amounts]
    /\ chainNonce \in Nat /\ held \in Amounts

ReservedType == reserved \in [Processes -> SUBSET (Orders \X (0 .. Cardinality(Orders)))]

PositionTypes ==
    /\ row \in RowType /\ manual \in NoteType /\ intent \in BOOLEAN
    /\ pos \in MemoryType /\ ctx \in Amounts /\ tracked \in SomeOrder
    /\ answer \in Answers \union {"none"} /\ (answer # "none" => tracked \in Orders)
    /\ engine \in {"idle", "decided", "armed"}
    /\ request \in {"idle", "claimed", "selling"}
    /\ poll \in PollType /\ (poll.pc # "idle" => poll.order \in Orders)
    /\ deaths \in 0 .. MaxDeaths

\* A result that says "submitted" names the order.
SubmittedNamed == \A p \in Processes : call[p].stage = "SWAP_SUBMITTED" => call[p].order \in Orders

(* Orders and nonces *)

\* The chain took it.
Taken == {o \in Orders : fate[o] \in {"submitted", "filled", "failed"}}

Holds(p) == call[p].phase \in {"made", "signed"}

\* An order is carried by the call that had it made, and by no other, until it is
\* submitted.
Holders ==
    /\ \A p \in Processes : Holds(p) => call[p].order \in Orders /\ fate[call[p].order] = "made"
    /\ \A p, q \in Processes : Holds(p) /\ Holds(q) /\ call[p].order = call[q].order => p = q

\* The chain counts the orders it took; no order is ahead of it.
Nonces == chainNonce = Cardinality(Taken) /\ \A o \in Orders : nonce[o] <= chainNonce

IInv == ExecutorTypes /\ ReservedType /\ PositionTypes /\ SubmittedNamed /\ Holders /\ Nonces

-----------------------------------------------------------------------------
(* What a step does to the executor *)

\* The call of one process starts or is forgotten, with its nonce manager or without.
Resets(p) ==
    /\ \E c \in CallType : /\ c.phase \in {"idle", "queued"} /\ c.stage = "none"
                           /\ call' = [call EXCEPT ![p] = c]
    /\ reserved' \in {reserved, [reserved EXCEPT ![p] = {}]}
    /\ UNCHANGED <<journalVars, chainVars>>

Asks(p) == \E o \in Orders : \E stage \in Stages(o) : StatusAsked(p, o, stage)

Move ==
    \/ \E p \in Processes : Swap(p) \/ Asks(p) \/ Resets(p)
    \/ \E o \in Orders : Settle(o)
    \/ UNCHANGED executorVars

LEMMA NoCallTyped ==
    ASSUME DashboardAssumption
    PROVE  /\ NoCall \in CallType /\ NoCall.phase = "idle" /\ NoCall.stage = "none"
           /\ \A p, q : q \in Amounts =>
                Sell(p, q) \in CallType /\ Sell(p, q).phase = "queued" /\ Sell(p, q).stage = "none"
<1>1. NoCall \in CallType /\ NoCall.phase = "idle" /\ NoCall.stage = "none"
  BY DEF DashboardAssumption, NoCall, CallType, SomeOrder, Amounts
<1>2. ASSUME NEW p, NEW q \in Amounts
      PROVE  Sell(p, q) \in CallType /\ Sell(p, q).phase = "queued" /\ Sell(p, q).stage = "none"
  BY <1>1 DEF Sell, CallType
<1> QED BY <1>1, <1>2

LEMMA PercentOfHeld ==
    ASSUME DashboardAssumption, held \in Amounts, manual \in NoteType
    PROVE  (held * manual.percentage) \div 100 \in Amounts
<1>1. held \in Nat /\ held <= Quantity /\ Quantity \in Nat BY DEF DashboardAssumption, Amounts
<1>2. manual.percentage \in {0, 25, 50, 100} BY DEF NoteType
<1>3. CASE manual.percentage = 0 BY <1>1, <1>3 DEF Amounts
<1>4. CASE manual.percentage = 25 BY <1>1, <1>4 DEF Amounts
<1>5. CASE manual.percentage = 50 BY <1>1, <1>5 DEF Amounts
<1>6. CASE manual.percentage = 100 BY <1>1, <1>6 DEF Amounts
<1> QED BY <1>2, <1>3, <1>4, <1>5, <1>6

LEMMA StepMoves ==
    ASSUME DashboardAssumption, IInv, [Next]_vars
    PROVE  Move
<1> USE DEF DashboardAssumption
<1>1. CASE UNCHANGED vars BY <1>1 DEF vars, Move
<1>2. CASE Executor \/ Chain BY <1>2 DEF Executor, Chain, Move
<1>3. CASE Decide \/ Arm \/ HandleStatus \/ Reconcile \/ Persist
  BY <1>3 DEF Decide, Arm, HandleStatus, Reconcile, Persist, Move
<1>4. CASE ClaimRow
  <2>1. PICK quantity \in {pos.remaining, pos.remaining \div 2} \ {0} :
           call' = [call EXCEPT !["engine"] = Sell("engine", quantity)]
    BY <1>4 DEF ClaimRow
  <2>2. quantity \in Amounts BY DEF IInv, PositionTypes, MemoryType, Amounts
  <2>3. Resets("engine") BY <1>4, <2>1, <2>2, NoCallTyped DEF ClaimRow, Resets, journalVars, chainVars
  <2> QED BY <2>3 DEF Move
<1>5. CASE HandleSell \/ EngineRestart
  <2>1. Resets("engine") BY <1>5, NoCallTyped DEF HandleSell, EngineRestart, Resets
  <2> QED BY <2>1 DEF Move
<1>6. CASE AskStatus
  <2>1. tracked \in Orders BY <1>6 DEF AskStatus, IInv, PositionTypes, SomeOrder
  <2>2. Asks("engine") BY <1>6, <2>1 DEF AskStatus, Asks
  <2> QED BY <2>2 DEF Move
<1>7. CASE (\E percentage \in {25, 50, 100} : RequestSell(percentage)) \/ PollRow \/ PollAnswered
           \/ ApplyFinished
  BY <1>7 DEF RequestSell, PollRow, PollAnswered, ApplyFinished, Move
<1>8. CASE PrepareSell
  <2>1. CASE UNCHANGED call BY <1>8, <2>1 DEF PrepareSell, Move, executorVars
  <2>2. CASE call' = [call EXCEPT !["dashboard"] =
                        Sell("dashboard", (held * manual.percentage) \div 100)]
    <3>1. (held * manual.percentage) \div 100 \in Amounts
      BY PercentOfHeld DEF IInv, ExecutorTypes, PositionTypes
    <3>2. Resets("dashboard") BY <1>8, <2>2, <3>1, NoCallTyped DEF PrepareSell, Resets
    <3> QED BY <3>2 DEF Move
  <2> QED BY <1>8, <2>1, <2>2 DEF PrepareSell
<1>9. CASE FinishRequest \/ DashboardRestart
  <2>1. Resets("dashboard") BY <1>9, NoCallTyped DEF FinishRequest, DashboardRestart, Resets
  <2> QED BY <2>1 DEF Move
<1>10. CASE PollStatus
  <2>1. poll.order \in Orders BY <1>10 DEF PollStatus, IInv, PositionTypes
  <2>2. Asks("dashboard") BY <1>10, <2>1 DEF PollStatus, Asks
  <2> QED BY <2>2 DEF Move
<1> QED
  BY <1>1, <1>2, <1>3, <1>4, <1>5, <1>6, <1>7, <1>8, <1>9, <1>10 DEF Next, Engine, Dashboard

-----------------------------------------------------------------------------
(* The types *)

LEMMA JournalTyped ==
    ASSUME journal \in JournalType, NEW s \in ActiveStates \union {"CONFIRMED", "FAILED"}, NEW o
    PROVE  JournalState(s) \/ JournalOrder(o, s) => journal' \in JournalType
  BY DEF JournalState, JournalOrder, JournalType

LEMMA CallTyped ==
    ASSUME call \in [Processes -> CallType], NEW p \in Processes
    PROVE  /\ \A f \in {"free", "claimed", "signed"} :
                Phase(p, f) => call' \in [Processes -> CallType]
           /\ \A stage \in {"SWAP_SUBMITTED", "SWAP_UNKNOWN", "SWAP_FAILED", "RAISED"}, o \in SomeOrder :
                Return(p, stage, o) => call' \in [Processes -> CallType]
<1>1. call[p] \in CallType OBVIOUS
<1>2. \A f \in {"free", "claimed", "signed"} : [call[p] EXCEPT !.phase = f] \in CallType
  BY <1>1 DEF CallType
<1>3. \A stage \in {"SWAP_SUBMITTED", "SWAP_UNKNOWN", "SWAP_FAILED", "RAISED"}, o \in SomeOrder :
         [call[p] EXCEPT !.phase = "done", !.stage = stage, !.order = o] \in CallType
  BY <1>1 DEF CallType
<1>4. \A c \in CallType : [call EXCEPT ![p] = c] \in [Processes -> CallType] OBVIOUS
<1> QED BY <1>2, <1>3, <1>4 DEF Phase, Return

\* Where a call stands after a step of its own.
LEMMA PhaseAfter ==
    ASSUME call \in [Processes -> CallType], NEW p \in Processes
    PROVE  /\ \A f : Phase(p, f) =>
                /\ call'[p].phase = f /\ call'[p].order = call[p].order
                /\ \A q \in Processes : q # p => call'[q] = call[q]
           /\ \A stage, o : Return(p, stage, o) =>
                /\ call'[p].phase = "done"
                /\ \A q \in Processes : q # p => call'[q] = call[q]
<1>1. call[p] \in CallType OBVIOUS
<1>2. ASSUME NEW f, Phase(p, f)
      PROVE  /\ call'[p].phase = f /\ call'[p].order = call[p].order
             /\ \A q \in Processes : q # p => call'[q] = call[q]
  <2>1. call'[p] = [call[p] EXCEPT !.phase = f] BY <1>2 DEF Phase
  <2>2. call'[p].phase = f /\ call'[p].order = call[p].order BY <1>1, <2>1 DEF CallType
  <2> QED BY <1>2, <2>2 DEF Phase
<1>3. ASSUME NEW stage, NEW o, Return(p, stage, o)
      PROVE  call'[p].phase = "done" /\ \A q \in Processes : q # p => call'[q] = call[q]
  <2>1. call'[p] = [call[p] EXCEPT !.phase = "done", !.stage = stage, !.order = o]
    BY <1>3 DEF Return
  <2>2. call'[p].phase = "done" BY <1>1, <2>1 DEF CallType
  <2> QED BY <1>3, <2>2 DEF Return
<1> QED BY <1>2, <1>3

LEMMA ExecutorTypesKept ==
    ASSUME DashboardAssumption, IInv, Move
    PROVE  ExecutorTypes'
<1> USE DEF DashboardAssumption
<1>0. ExecutorTypes /\ Holders BY DEF IInv
<1>1. ASSUME NEW p \in Processes, Swap(p) PROVE ExecutorTypes'
  <2>0. NoOrder \in SomeOrder /\ journal.order \in SomeOrder /\ call[p] \in CallType
    BY <1>0 DEF ExecutorTypes, JournalType, SomeOrder
  <2>1. CASE LookUp(p)
    BY <1>0, <2>0, <2>1, CallTyped DEF LookUp, ExecutorTypes, journalVars, chainVars
  <2>2. CASE Claim(p)
    <3>1. journal' \in JournalType
      BY <2>0, <2>2 DEF Claim, JournalType, CallType, ActiveStates
    <3> QED BY <1>0, <2>2, <3>1, CallTyped DEF Claim, ExecutorTypes, chainVars
  <2>3. CASE NoNewOrder(p)
    <3>1. journal' \in JournalType
      BY <1>0, <2>3, JournalTyped DEF NoNewOrder, ExecutorTypes, ActiveStates
    <3> QED BY <1>0, <2>0, <2>3, <3>1, CallTyped DEF NoNewOrder, ExecutorTypes, chainVars
  <2>4. CASE MakeOrder(p)
    <3>1. PICK o \in Orders : /\ fate' = [fate EXCEPT ![o] = "made"]
                              /\ nonce' = [nonce EXCEPT ![o] = chainNonce]
                              /\ amount' = [amount EXCEPT ![o] = call[p].quantity]
                              /\ journal' = [journal EXCEPT !.state = "SIGNED", !.order = o]
                              /\ call' = [call EXCEPT ![p].phase = "made", ![p].order = o]
      BY <2>4 DEF MakeOrder
    <3>2. journal' \in JournalType BY <1>0, <3>1 DEF ExecutorTypes, JournalType, ActiveStates, SomeOrder
    <3>3. call' \in [Processes -> CallType] BY <1>0, <3>1 DEF ExecutorTypes, CallType, SomeOrder
    <3>4. call[p].quantity \in Amounts BY <2>0 DEF CallType
    <3> QED BY <1>0, <2>4, <3>1, <3>2, <3>3, <3>4 DEF MakeOrder, ExecutorTypes, Fates
  <2>5. CASE Sign(p)
    <3>1. journal' \in JournalType BY <1>0, <2>5, JournalTyped DEF Sign, ExecutorTypes
    <3>2. call' \in [Processes -> CallType] BY <1>0, <2>0, <2>5, CallTyped DEF Sign, ExecutorTypes
    <3>3. call[p].order \in Orders BY <1>0, <2>5 DEF Sign, Holders, Holds
    <3>4. <<call[p].order, nonce[call[p].order]>> \in Orders \X Nat BY <1>0, <3>3 DEF ExecutorTypes
    <3>5. signed' \subseteq Orders \X Nat BY <1>0, <2>5, <3>4 DEF Sign, ExecutorTypes
    <3> QED BY <1>0, <2>5, <3>1, <3>2, <3>5 DEF Sign, ExecutorTypes, chainVars
  <2>6. CASE Submit(p)
    <3>1. journal' \in JournalType
      BY <1>0, <2>6, JournalTyped DEF Submit, ExecutorTypes, ActiveStates
    <3>2. call' \in [Processes -> CallType]
      BY <1>0, <2>0, <2>6, CallTyped DEF Submit, ExecutorTypes, CallType
    <3>3. fate' \in [Orders -> Fates] /\ chainNonce' \in Nat
      BY <1>0, <2>6 DEF Submit, ExecutorTypes, Fates
    <3> QED BY <1>0, <2>6, <3>1, <3>2, <3>3 DEF Submit, ExecutorTypes
  <2> QED BY <1>1, <2>1, <2>2, <2>3, <2>4, <2>5, <2>6 DEF Swap
<1>2. ASSUME NEW p \in Processes, Asks(p) PROVE ExecutorTypes'
  <2>1. journal' \in JournalType
    BY <1>0, <1>2, JournalTyped DEF Asks, StatusAsked, ExecutorTypes, ActiveStates
  <2> QED BY <1>0, <1>2, <2>1 DEF Asks, StatusAsked, ExecutorTypes, chainVars
<1>3. ASSUME NEW p \in Processes, Resets(p) PROVE ExecutorTypes'
  BY <1>0, <1>3 DEF Resets, ExecutorTypes, journalVars, chainVars
<1>4. ASSUME NEW o \in Orders, Settle(o) PROVE ExecutorTypes'
  <2>1. held' \in Amounts BY <1>0, <1>4 DEF Settle, ExecutorTypes, Amounts
  <2> QED BY <1>0, <1>4, <2>1 DEF Settle, ExecutorTypes, Fates, journalVars
<1>5. CASE UNCHANGED executorVars
  BY <1>0, <1>5 DEF executorVars, journalVars, chainVars, ExecutorTypes
<1> QED BY <1>1, <1>2, <1>3, <1>4, <1>5 DEF Move

LEMMA SubmittedNamedKept ==
    ASSUME DashboardAssumption, IInv, Move
    PROVE  SubmittedNamed'
<1>0. ExecutorTypes /\ SubmittedNamed /\ Holders BY DEF IInv
<1>1. ASSUME NEW p \in Processes, Swap(p) PROVE SubmittedNamed'
  <2>0. call[p] \in CallType BY <1>0 DEF ExecutorTypes
  <2>1. CASE LookUp(p) \/ Claim(p) \/ NoNewOrder(p)
    <3>1. ASSUME NEW f, Phase(p, f) PROVE SubmittedNamed'
      <4>1. call'[p].stage = call[p].stage /\ call'[p].order = call[p].order
        BY <1>0, <2>0, <3>1 DEF Phase, ExecutorTypes, CallType
      <4> QED BY <1>0, <3>1, <4>1 DEF Phase, SubmittedNamed, ExecutorTypes
    <3>2. ASSUME NEW stage \in {"SWAP_UNKNOWN", "SWAP_FAILED"}, NEW o, Return(p, stage, o)
          PROVE  SubmittedNamed'
      <4>1. call'[p].stage = stage BY <1>0, <2>0, <3>2 DEF Return, ExecutorTypes, CallType
      <4> QED BY <1>0, <3>2, <4>1 DEF Return, SubmittedNamed, ExecutorTypes
    <3> QED BY <2>1, <3>1, <3>2 DEF LookUp, Claim, NoNewOrder
  <2>2. CASE MakeOrder(p) BY <1>0, <2>2 DEF MakeOrder, SubmittedNamed, ExecutorTypes, CallType
  <2>3. CASE Sign(p)
    BY <1>0, <2>3 DEF Sign, Phase, Return, SubmittedNamed, ExecutorTypes, CallType
  <2>4. CASE Submit(p)
    <3>1. call[p].order \in Orders BY <1>0, <2>4 DEF Submit, Holders, Holds
    <3>2. PICK stage : Return(p, stage, call[p].order) BY <2>4 DEF Submit
    <3> QED BY <1>0, <3>1, <3>2 DEF Return, SubmittedNamed, ExecutorTypes, CallType
  <2> QED BY <1>1, <2>1, <2>2, <2>3, <2>4 DEF Swap
<1>2. ASSUME NEW p \in Processes, Resets(p) PROVE SubmittedNamed'
  <2>1. PICK c \in CallType : c.stage = "none" /\ call' = [call EXCEPT ![p] = c]
    BY <1>2 DEF Resets
  <2> QED BY <1>0, <2>1 DEF SubmittedNamed, ExecutorTypes
<1>3. CASE UNCHANGED call BY <1>0, <1>3 DEF SubmittedNamed
<1> QED
  BY <1>1, <1>2, <1>3
  DEF Move, Asks, StatusAsked, Settle, executorVars

(* Orders and their holders *)

LEMMA HoldersKept ==
    ASSUME DashboardAssumption, IInv, Move
    PROVE  Holders'
<1>0. ExecutorTypes /\ Holders BY DEF IInv
<1>1. ASSUME NEW p \in Processes, ~Holds(p)',
             \A q \in Processes : q # p => call'[q] = call[q],
             \A q \in Processes : q # p /\ Holds(q) => fate'[call[q].order] = "made"
      PROVE  Holders'
  <2>1. \A q \in Processes : Holds(q)' => q # p /\ Holds(q) /\ call'[q] = call[q]
    BY <1>1 DEF Holds
  <2> QED BY <1>0, <1>1, <2>1 DEF Holders
<1>2. ASSUME NEW p \in Processes, Swap(p) PROVE Holders'
  <2>1. CASE LookUp(p) \/ Claim(p) \/ NoNewOrder(p)
    <3>1. fate' = fate /\ ~Holds(p)' /\ \A q \in Processes : q # p => call'[q] = call[q]
      BY <1>0, <2>1, PhaseAfter
      DEF ExecutorTypes, LookUp, Claim, NoNewOrder, Holds, chainVars
    <3> QED BY <1>0, <1>1, <3>1 DEF Holders
  <2>2. CASE MakeOrder(p)
    <3>1. PICK o \in Orders : /\ fate[o] = "unused"
                              /\ fate' = [fate EXCEPT ![o] = "made"]
                              /\ call' = [call EXCEPT ![p].phase = "made", ![p].order = o]
      BY <2>2 DEF MakeOrder
    <3>2. fate'[o] = "made" /\ (\A k \in Orders : k # o => fate'[k] = fate[k])
      BY <1>0, <3>1 DEF ExecutorTypes
    <3>3. call'[p].order = o /\ (\A q \in Processes : q # p => call'[q] = call[q])
      BY <1>0, <3>1 DEF ExecutorTypes, CallType
    <3>4. \A q \in Processes : q # p /\ Holds(q)' =>
             Holds(q) /\ call[q].order \in Orders \ {o} /\ fate[call[q].order] = "made"
      BY <1>0, <3>1, <3>3 DEF Holders, Holds
    <3> QED BY <1>0, <3>2, <3>3, <3>4 DEF Holders
  <2>3. CASE Sign(p)
    <3>1. call[p].phase = "made" /\ fate' = fate /\ \A q \in Processes : q # p => call'[q] = call[q]
      BY <1>0, <2>3, PhaseAfter DEF ExecutorTypes, Sign, chainVars
    <3>2. ~Holds(p)' \/ call'[p].order = call[p].order
      BY <1>0, <2>3, PhaseAfter DEF ExecutorTypes, Sign, Holds
    <3> QED BY <1>0, <1>1, <3>1, <3>2 DEF Holders, Holds
  <2>4. CASE Submit(p)
    <3>1. call[p].phase = "signed" /\ ~Holds(p)' /\ \A q \in Processes : q # p => call'[q] = call[q]
      <4>1. PICK stage, k : Return(p, stage, k) BY <2>4 DEF Submit
      <4>2. call'[p].phase = "done" /\ \A q \in Processes : q # p => call'[q] = call[q]
        BY <1>0, <4>1, PhaseAfter DEF ExecutorTypes
      <4> QED BY <2>4, <4>2 DEF Submit, Holds
    <3>2. \A k \in Orders : k # call[p].order => fate'[k] = fate[k]
      BY <1>0, <2>4 DEF ExecutorTypes, Submit
    <3>3. \A q \in Processes : q # p /\ Holds(q) => call[q].order # call[p].order
      BY <1>0, <3>1 DEF Holders, Holds
    <3> QED BY <1>0, <1>1, <3>1, <3>2, <3>3 DEF Holders
  <2> QED BY <1>2, <2>1, <2>2, <2>3, <2>4 DEF Swap
<1>3. ASSUME NEW p \in Processes, Asks(p) PROVE Holders'
  BY <1>0, <1>3 DEF Asks, StatusAsked, chainVars, Holders, Holds
<1>4. ASSUME NEW p \in Processes, Resets(p) PROVE Holders'
  <2>1. fate' = fate /\ ~Holds(p)' /\ \A q \in Processes : q # p => call'[q] = call[q]
    BY <1>0, <1>4 DEF ExecutorTypes, Resets, Holds, chainVars
  <2> QED BY <1>0, <1>1, <2>1 DEF Holders
<1>5. ASSUME NEW o \in Orders, Settle(o) PROVE Holders'
  <2>1. call' = call /\ fate[o] = "submitted" /\ \A k \in Orders : k # o => fate'[k] = fate[k]
    BY <1>0, <1>5 DEF ExecutorTypes, Settle
  <2> QED BY <1>0, <2>1 DEF Holders, Holds
<1>6. CASE UNCHANGED executorVars BY <1>0, <1>6 DEF executorVars, chainVars, Holders, Holds
<1> QED BY <1>2, <1>3, <1>4, <1>5, <1>6 DEF Move

\* The orders the chain takes, and what it counts.
LEMMA Taking ==
    ASSUME DashboardAssumption, IInv, Move
    PROVE  \/ Taken' = Taken /\ chainNonce' = chainNonce
           \/ \E o \in Orders \ Taken : Taken' = Taken \union {o} /\ chainNonce' = chainNonce + 1
<1>0. ExecutorTypes /\ Holders BY DEF IInv
<1>1. ASSUME NEW p \in Processes, MakeOrder(p) PROVE Taken' = Taken /\ chainNonce' = chainNonce
  BY <1>0, <1>1 DEF MakeOrder, Taken, ExecutorTypes
<1>2. ASSUME NEW p \in Processes, Submit(p)
      PROVE  \/ Taken' = Taken /\ chainNonce' = chainNonce
             \/ \E o \in Orders \ Taken : Taken' = Taken \union {o} /\ chainNonce' = chainNonce + 1
  <2> DEFINE o == call[p].order
  <2>1. o \in Orders /\ fate[o] = "made" BY <1>0, <1>2 DEF Submit, Holders, Holds
  <2>2. CASE fate' = [fate EXCEPT ![o] = "submitted"] /\ chainNonce' = chainNonce + 1
    <3>1. Taken' = Taken \union {o} BY <1>0, <2>1, <2>2 DEF Taken, ExecutorTypes
    <3> QED BY <2>1, <2>2, <3>1 DEF Taken
  <2>3. CASE UNCHANGED <<fate, chainNonce>> BY <2>3 DEF Taken
  <2> QED BY <1>2, <2>2, <2>3 DEF Submit
<1>3. ASSUME NEW o \in Orders, Settle(o) PROVE Taken' = Taken /\ chainNonce' = chainNonce
  <2>1. PICK f \in {"filled", "failed"} : fate' = [fate EXCEPT ![o] = f] BY <1>3 DEF Settle
  <2> QED BY <1>0, <1>3, <2>1 DEF Settle, Taken, ExecutorTypes
<1>4. CASE UNCHANGED <<fate, chainNonce>> BY <1>4 DEF Taken
<1> QED
  BY <1>1, <1>2, <1>3, <1>4
  DEF Move, Swap, LookUp, Claim, NoNewOrder, Sign, Asks, StatusAsked, Resets, chainVars, executorVars

LEMMA NoncesKept ==
    ASSUME DashboardAssumption, IInv, Move
    PROVE  Nonces'
<1>0. ExecutorTypes /\ Nonces BY DEF IInv
<1>1. IsFiniteSet(Taken) BY FS_Subset DEF DashboardAssumption, Taken
<1>2. chainNonce' = Cardinality(Taken)' /\ chainNonce' >= chainNonce
  <2>1. CASE Taken' = Taken /\ chainNonce' = chainNonce BY <1>0, <2>1 DEF Nonces, ExecutorTypes
  <2>2. ASSUME NEW o \in Orders \ Taken, Taken' = Taken \union {o}, chainNonce' = chainNonce + 1
        PROVE  chainNonce' = Cardinality(Taken)' /\ chainNonce' >= chainNonce
    <3>1. Cardinality(Taken \union {o}) = Cardinality(Taken) + 1 BY <1>1, <2>2, FS_AddElement
    <3>2. Cardinality(Taken)' = Cardinality(Taken') OBVIOUS
    <3> QED BY <1>0, <2>2, <3>1, <3>2 DEF Nonces, ExecutorTypes
  <2> QED BY <2>1, <2>2, Taking
<1>3. nonce' = nonce \/ \E o \in Orders : nonce' = [nonce EXCEPT ![o] = chainNonce]
  BY DEF Move, Swap, LookUp, Claim, NoNewOrder, MakeOrder, Sign, Submit, Asks, StatusAsked, Resets,
         Settle, chainVars, executorVars
<1>4. chainNonce' \in Nat BY ExecutorTypesKept DEF ExecutorTypes
<1>5. \A o \in Orders : nonce'[o] <= chainNonce' BY <1>0, <1>2, <1>3, <1>4 DEF Nonces, ExecutorTypes
<1> QED BY <1>2, <1>5 DEF Nonces

LEMMA ReservedKept ==
    ASSUME DashboardAssumption, IInv, Move
    PROVE  ReservedType'
<1> DEFINE Reservations == Orders \X (0 .. Cardinality(Orders))
<1>0. ExecutorTypes /\ ReservedType /\ Holders BY DEF IInv
<1>1. \A o \in Orders : nonce[o] \in 0 .. Cardinality(Orders)
  <2>1. Cardinality(Taken) <= Cardinality(Orders) BY FS_Subset DEF DashboardAssumption, Taken
  <2>2. Cardinality(Orders) \in Nat BY FS_CardinalityType DEF DashboardAssumption
  <2> QED BY <1>0, <2>1, <2>2 DEF IInv, Nonces, ExecutorTypes
<1>2. ASSUME NEW p \in Processes, Sign(p) PROVE ReservedType'
  <2>1. <<call[p].order, nonce[call[p].order]>> \in Reservations
    BY <1>0, <1>1, <1>2 DEF Sign, Holders, Holds
  <2> QED BY <1>0, <1>2, <2>1 DEF Sign, ReservedType
<1>3. ASSUME NEW p \in Processes, Asks(p) PROVE ReservedType'
  <2>1. PICK S \in SUBSET reserved[p] : reserved' = [reserved EXCEPT ![p] = S]
    BY <1>3 DEF Asks, StatusAsked
  <2>2. S \subseteq Reservations BY <1>0, <2>1 DEF ReservedType
  <2> QED BY <1>0, <2>1, <2>2 DEF ReservedType
<1>4. ASSUME NEW p \in Processes, Resets(p) PROVE ReservedType'
  BY <1>0, <1>4 DEF Resets, ReservedType
<1>5. CASE UNCHANGED reserved BY <1>0, <1>5 DEF ReservedType
<1> QED
  BY <1>2, <1>3, <1>4, <1>5
  DEF Move, Swap, LookUp, Claim, NoNewOrder, MakeOrder, Submit, Settle, executorVars

(* The row, the notes and the two processes *)

LEMMA PercentageTyped ==
    \A percentage \in {0, 25, 50, 100} :
        \A s \in InFlight \union {"none", "SELLING", "SWAP_FAILED", "FINISHED"} :
            Note(s, percentage) \in NoteType
  BY DEF Note, NoteType

LEMMA PositionTypesKept ==
    ASSUME DashboardAssumption, IInv, [Next]_vars
    PROVE  PositionTypes'
<1> USE DEF DashboardAssumption
<1>0. ExecutorTypes /\ PositionTypes BY DEF IInv
<1>a. call["engine"] \in CallType /\ call["dashboard"] \in CallType BY <1>0 DEF ExecutorTypes
<1>b. call["engine"].stage = "SWAP_SUBMITTED" => call["engine"].order \in Orders
  BY DEF IInv, SubmittedNamed
<1>n. NoPoll \in PollType /\ NoPoll.pc = "idle" BY DEF NoPoll, PollType, SomeOrder, Amounts
<1>1. CASE UNCHANGED vars
  BY <1>0, <1>1 DEF vars, engineVars, dashboardVars, PositionTypes
<1>2. CASE (Executor \/ Chain) /\ UNCHANGED <<row, manual, intent, engineVars, dashboardVars, deaths>>
  BY <1>0, <1>2 DEF engineVars, dashboardVars, PositionTypes
<1>3. CASE Decide
  BY <1>0, <1>3 DEF Decide, dashboardVars, PositionTypes
<1>4. CASE Arm
  BY <1>0, <1>4 DEF Arm, dashboardVars, PositionTypes
<1>5. CASE ClaimRow
  <2>1. row' \in RowType BY <1>0, <1>5 DEF ClaimRow, PositionTypes, RowType, InFlight
  <2>2. ctx' \in Amounts BY <1>0, <1>5 DEF ClaimRow, PositionTypes, MemoryType, Amounts
  <2> QED BY <1>0, <1>5, <2>1, <2>2 DEF ClaimRow, dashboardVars, PositionTypes
<1>6. CASE HandleSell
  <2>1. row' \in RowType BY <1>0, <1>a, <1>6 DEF HandleSell, PositionTypes, RowType, CallType, InFlight
  <2>2. tracked' \in SomeOrder /\ (answer # "none" => tracked' \in Orders)
    BY <1>0, <1>a, <1>b, <1>6 DEF HandleSell, PositionTypes, SomeOrder
  <2>3. ctx' \in Amounts BY <1>0, <1>6 DEF HandleSell, PositionTypes, Amounts
  <2> QED BY <1>0, <1>6, <2>1, <2>2, <2>3 DEF HandleSell, dashboardVars, PositionTypes
<1>7. CASE AskStatus
  <2>1. answer' \in Answers BY <1>7 DEF AskStatus, Stages, Answers
  <2>2. tracked \in Orders BY <1>0, <1>7 DEF AskStatus, PositionTypes, SomeOrder
  <2> QED BY <1>0, <1>7, <2>1, <2>2 DEF AskStatus, dashboardVars, PositionTypes
<1>8. CASE HandleStatus
  <2>1. CASE answer \in {"SWAP_PENDING", "SWAP_UNKNOWN", "SWAP_FAILED"} /\ pos' = pos
    <3>1. row' \in RowType BY <1>0, <1>8, <2>1 DEF HandleStatus, PositionTypes, RowType, InFlight
    <3> QED BY <1>0, <1>8, <2>1, <3>1 DEF HandleStatus, dashboardVars, PositionTypes, SomeOrder
  <2>2. CASE answer = "SWAP_CONFIRMED"
    <3>0. tracked \in Orders /\ amount[tracked] \in Nat
      BY <1>0, <2>2 DEF PositionTypes, ExecutorTypes, Amounts
    <3>1. pos' = Booked(amount[tracked]) BY <1>8, <2>2 DEF HandleStatus
    <3>2. pos' \in MemoryType
      BY <1>0, <3>0, <3>1 DEF Booked, PositionTypes, MemoryType, Amounts
    <3>3. row' = [Persisted(pos') EXCEPT !.swap = "SWAP_CONFIRMED", !.order = tracked]
      BY <1>8, <2>2 DEF HandleStatus
    <3>4. row' \in RowType
      BY <1>0, <3>0, <3>2, <3>3 DEF Persisted, PositionTypes, RowType, MemoryType, SomeOrder
    <3>5. ctx' = 0 /\ tracked' = NoOrder /\ intent' = FALSE /\ answer' = "none"
      BY <1>8, <2>2 DEF HandleStatus
    <3>6. UNCHANGED <<manual, engine, dashboardVars, deaths>> BY <1>8 DEF HandleStatus
    <3>7. 0 \in Amounts /\ NoOrder \in SomeOrder BY DEF SomeOrder, Amounts
    <3> QED
      BY <1>0, <3>2, <3>4, <3>5, <3>6, <3>7 DEF dashboardVars, PositionTypes
  <2> QED BY <1>8, <2>1, <2>2 DEF HandleStatus
<1>9. CASE Reconcile
  <2>1. row' \in RowType BY <1>0, <1>9 DEF Reconcile, PositionTypes, RowType, ExecutorTypes
  <2>2. pos' \in MemoryType BY <1>0, <1>9 DEF Reconcile, PositionTypes, MemoryType, ExecutorTypes
  <2> QED BY <1>0, <1>9, <2>1, <2>2 DEF Reconcile, dashboardVars, PositionTypes
<1>10. CASE Persist
  <2>1. row' \in RowType BY <1>0, <1>10 DEF Persist, Persisted, PositionTypes, RowType, MemoryType
  <2> QED BY <1>0, <1>10, <2>1 DEF Persist, engineVars, dashboardVars, PositionTypes
<1>11. CASE EngineRestart
  <2>1. pos' \in MemoryType BY <1>0, <1>11 DEF EngineRestart, Memory, PositionTypes, RowType, MemoryType
  <2>2. ctx' \in Amounts /\ tracked' \in SomeOrder
    BY <1>0, <1>11 DEF EngineRestart, ExecutorTypes, JournalType, SomeOrder, Amounts
  <2> QED BY <1>0, <1>11, <2>1, <2>2 DEF EngineRestart, dashboardVars, PositionTypes
<1>12. ASSUME NEW percentage \in {25, 50, 100}, RequestSell(percentage) PROVE PositionTypes'
  <2>1. row' \in RowType BY <1>0, <1>12 DEF RequestSell, PositionTypes, RowType, InFlight
  <2>2. manual' \in NoteType BY <1>12, PercentageTyped DEF RequestSell
  <2> QED BY <1>0, <1>12, <2>1, <2>2 DEF RequestSell, engineVars, PositionTypes
<1>13. CASE PrepareSell
  <2>1. row' \in RowType BY <1>0, <1>13 DEF PrepareSell, MarkFailed, PositionTypes, RowType
  <2>2. manual' \in NoteType BY <1>0, <1>13, PercentageTyped DEF PrepareSell, MarkFailed, PositionTypes
  <2> QED BY <1>0, <1>13, <2>1, <2>2 DEF PrepareSell, engineVars, PositionTypes
<1>14. CASE FinishRequest
  <2>0. manual.percentage \in {0, 25, 50, 100} BY <1>0 DEF PositionTypes, NoteType
  <2>1. CASE call["dashboard"].stage = "RAISED"
    BY <1>0, <1>14, <2>1 DEF FinishRequest, engineVars, PositionTypes
  <2>2. CASE call["dashboard"].stage # "RAISED"
    <3>0. call["dashboard"].stage \in {"none", "SWAP_SUBMITTED", "SWAP_UNKNOWN", "SWAP_FAILED"}
      BY <1>a, <2>2 DEF CallType
    <3>1. row' \in RowType
      BY <1>0, <1>a, <1>14, <2>2, <3>0 DEF FinishRequest, PositionTypes, RowType, CallType, InFlight
    <3>2. manual' \in NoteType
      BY <1>14, <2>0, <2>2, <3>0, PercentageTyped DEF FinishRequest, InFlight
    <3> QED BY <1>0, <1>14, <3>1, <3>2 DEF FinishRequest, engineVars, PositionTypes
  <2> QED BY <2>1, <2>2
<1>15. CASE PollRow
  <2>1. poll' \in PollType /\ poll'.order \in Orders
    <3>1. row.order \in Orders BY <1>0, <1>15 DEF PollRow, PositionTypes, RowType, SomeOrder
    <3>2. poll' = [NoPoll EXCEPT !.pc = "asking", !.order = row.order] BY <1>15 DEF PollRow
    <3> QED BY <1>n, <3>1, <3>2 DEF PollType, SomeOrder
  <2> QED BY <1>0, <1>15, <2>1 DEF PollRow, engineVars, PositionTypes
<1>16. CASE PollStatus
  <2>1. PICK stage \in Answers : poll' = IF stage = "SWAP_PENDING" THEN NoPoll
                                         ELSE [poll EXCEPT !.pc = "answered", !.stage = stage]
    BY <1>16 DEF PollStatus, Stages, Answers
  <2>2. poll' \in PollType /\ (poll'.pc # "idle" => poll'.order \in Orders)
    BY <1>0, <1>16, <1>n, <2>1 DEF PollStatus, PollType, PositionTypes
  <2> QED BY <1>0, <1>16, <2>2 DEF PollStatus, engineVars, PositionTypes
<1>17. CASE PollAnswered
  <2>1. poll' \in PollType /\ (poll'.pc # "idle" => poll'.order \in Orders)
    BY <1>0, <1>17, <1>n DEF PollAnswered, PollType, PositionTypes, NoteType, ExecutorTypes
  <2>2. row' \in RowType
    BY <1>0, <1>17 DEF PollAnswered, MarkFailed, PositionTypes, RowType, InFlight
  <2>3. manual' \in NoteType
    BY <1>0, <1>17, PercentageTyped DEF PollAnswered, MarkFailed, PositionTypes, InFlight
  <2> QED BY <1>0, <1>17, <2>1, <2>2, <2>3 DEF PollAnswered, engineVars, PositionTypes
<1>18. CASE ApplyFinished
  <2>1. poll.order \in Orders /\ poll.balance \in Amounts
    BY <1>0, <1>18 DEF ApplyFinished, PositionTypes, PollType
  <2>2. amount[poll.order] \in Nat BY <1>0, <2>1 DEF ExecutorTypes, Amounts
  <2>3. row' \in RowType
    <3>1. row.realized + amount[poll.order] \in Nat BY <1>0, <2>2 DEF PositionTypes, RowType
    <3>2. PICK status \in {"OPEN", "CLOSED"}, left \in {0, poll.balance} :
             row' = [row EXCEPT !.status = status, !.remaining = left,
                                !.realized = row.realized + amount[poll.order],
                                !.swap = "SWAP_CONFIRMED", !.order = poll.order]
      BY <1>18 DEF ApplyFinished
    <3>3. left \in Amounts BY <2>1, <3>2 DEF Amounts
    <3> QED BY <1>0, <2>1, <3>1, <3>2, <3>3 DEF PositionTypes, RowType, SomeOrder
  <2>4. manual' \in NoteType BY <1>18, PercentageTyped DEF ApplyFinished
  <2> QED BY <1>0, <1>18, <1>n, <2>3, <2>4 DEF ApplyFinished, engineVars, PositionTypes
<1>19. CASE DashboardRestart
  BY <1>0, <1>19, <1>n DEF DashboardRestart, engineVars, PositionTypes
<1> QED
  BY <1>1, <1>2, <1>3, <1>4, <1>5, <1>6, <1>7, <1>8, <1>9, <1>10, <1>11, <1>12, <1>13, <1>14,
     <1>15, <1>16, <1>17, <1>18, <1>19
  DEF Next, Engine, Dashboard

-----------------------------------------------------------------------------
(* The invariant *)

LEMMA InitIInv ==
    ASSUME DashboardAssumption, Init
    PROVE  IInv
<1> USE DEF DashboardAssumption, Init, ExecutorInit
<1>1. ExecutorTypes
  <2>1. journal \in JournalType BY DEF JournalType, SomeOrder, Amounts
  <2>2. call \in [Processes -> CallType] BY NoCallTyped
  <2> QED BY <2>1, <2>2 DEF ExecutorTypes, Fates, Amounts
<1>2. ReservedType BY DEF ReservedType
<1>3. PositionTypes
  <2>1. row \in RowType /\ pos \in MemoryType
    BY DEF RowType, MemoryType, Memory, SomeOrder, Amounts
  <2>2. manual \in NoteType BY PercentageTyped
  <2>3. poll \in PollType /\ poll.pc = "idle" BY DEF NoPoll, PollType, SomeOrder, Amounts
  <2>4. 0 \in Amounts /\ 0 \in 0 .. MaxDeaths /\ NoOrder \in SomeOrder BY DEF SomeOrder, Amounts
  <2> QED BY <2>1, <2>2, <2>3, <2>4 DEF PositionTypes
<1>4. SubmittedNamed /\ Holders BY DEF SubmittedNamed, Holders, Holds, NoCall
<1>5. Nonces
  <2>1. Taken = {} BY DEF Taken
  <2> QED BY <2>1, FS_EmptySet DEF Nonces
<1> QED BY <1>1, <1>2, <1>3, <1>4, <1>5 DEF IInv

\* What the engine, the dashboard and the executor know of orders, calls and nonces fits
\* together in every reachable state.
THEOREM Invariance ==
    ASSUME DashboardAssumption
    PROVE  Spec => []IInv
<1>1. Init => IInv BY InitIInv
<1>2. IInv /\ [Next]_vars => IInv'
  <2> SUFFICES ASSUME IInv, [Next]_vars PROVE IInv' OBVIOUS
  <2>1. Move BY StepMoves
  <2> QED
    BY <2>1, ExecutorTypesKept, ReservedKept, PositionTypesKept, SubmittedNamedKept, HoldersKept,
       NoncesKept
    DEF IInv
<1> QED BY <1>1, <1>2, PTL DEF Spec

\* Type correctness of the dashboard, the engine beside it and their executor: what is
\* reserved stays within the nonces of the orders the provider can make, whatever answers
\* are lost and whoever dies.
THEOREM Types ==
    ASSUME DashboardAssumption
    PROVE  Spec => []TypeOK
<1>1. IInv => TypeOK
  BY DEF IInv, TypeOK, ExecutorTypes, ReservedType, PositionTypes, ExecutorTypeOK, JournalType,
         CallType, Fates, RowType, NoteType, MemoryType, Answers, PollType, SomeOrder, Amounts
<1>2. Spec => []IInv BY Invariance
<1> QED BY <1>1, <1>2, PTL

\* No order reaches the chain twice: the one that is submitted was only made before, by
\* whatever process and after whatever deaths.
SubmittedOnce ==
    [][\A o \in Orders : fate'[o] = "submitted" => fate[o] \in {"made", "submitted"}]_vars

THEOREM OneSubmission ==
    ASSUME DashboardAssumption
    PROVE  Spec => SubmittedOnce
<1> DEFINE Once == \A o \in Orders : fate'[o] = "submitted" => fate[o] \in {"made", "submitted"}
<1>1. IInv /\ [Next]_vars => [Once]_vars
  <2> SUFFICES ASSUME IInv, [Next]_vars PROVE Once OBVIOUS
  <2>0. ExecutorTypes /\ Holders BY DEF IInv
  <2>1. ASSUME NEW p \in Processes, Submit(p) PROVE Once
    <3>1. fate[call[p].order] = "made" BY <2>0, <2>1 DEF Submit, Holders, Holds
    <3>2. \A k \in Orders : k # call[p].order => fate'[k] = fate[k]
      BY <2>0, <2>1 DEF ExecutorTypes, Submit
    <3> QED BY <3>1, <3>2
  <2>2. ASSUME NEW p \in Processes, MakeOrder(p) PROVE Once
    BY <2>0, <2>2 DEF MakeOrder, ExecutorTypes
  <2>3. ASSUME NEW o \in Orders, Settle(o) PROVE Once
    BY <2>0, <2>3 DEF Settle, ExecutorTypes
  <2>4. CASE fate' = fate BY <2>4
  <2> QED
    BY StepMoves, <2>1, <2>2, <2>3, <2>4
    DEF Move, Swap, LookUp, Claim, NoNewOrder, Sign, Asks, StatusAsked, Resets, chainVars, executorVars
<1>2. Spec => []IInv BY Invariance
<1> QED BY <1>1, <1>2, PTL DEF Spec, SubmittedOnce

-----------------------------------------------------------------------------
(* Two sells at the provider take a race, or an order hidden by an error *)

\* A process whose look at the journal showed nothing active still finds it so.
NoRace == \A p \in Processes : call[p].phase = "free" => journal.state \notin ActiveStates

\* The journal does not say FAILED of an order that waits at the provider, as it does after
\* an error that hid it (an HTTP 5xx, an unreadable reply, "already submitted").
NoneHidden ==
    ErrorMayHideOrder =>
        \A o \in Orders : fate[o] = "submitted" /\ journal.order = o => journal.state # "FAILED"

Busy(p) == call[p].phase \in {"claimed", "made", "signed"}

\* One process at most is past its claim; the journal shows its order, or the one at the
\* provider, as active.
OneClaim ==
    /\ \A o \in Orders : fate[o] = "submitted" =>
          journal.order = o /\ journal.state \in ActiveStates
    /\ \A p \in Processes : Busy(p) =>
          /\ journal.state \in ActiveStates
          /\ journal.order = IF call[p].phase = "claimed" THEN NoOrder ELSE call[p].order
    /\ \A p, q \in Processes : Busy(p) /\ Busy(q) => p = q

\* What is submitted is not beside a call past its claim.
LEMMA Alone ==
    ASSUME DashboardAssumption, IInv, OneClaim, NEW p \in Processes, Busy(p)
    PROVE  \A o \in Orders : fate[o] # "submitted"
<1>1. CASE call[p].phase = "claimed" BY <1>1 DEF OneClaim, DashboardAssumption
<1>2. CASE Holds(p) BY <1>2 DEF OneClaim, Holds, IInv, Holders
<1> QED BY <1>1, <1>2 DEF Busy, Holds

LEMMA OneClaimKept ==
    ASSUME DashboardAssumption, IInv, OneClaim, NoRace, NoneHidden', Move
    PROVE  OneClaim'
<1> USE DEF DashboardAssumption
<1>0. ExecutorTypes /\ Holders BY DEF IInv
<1>1. ASSUME NEW p \in Processes, Swap(p) PROVE OneClaim'
  <2>0. call[p] \in CallType BY <1>0 DEF ExecutorTypes
  <2>1. CASE LookUp(p)
    <3>1. \A q \in Processes : Busy(q)' => Busy(q) /\ call'[q] = call[q]
      BY <1>0, <2>1, PhaseAfter DEF LookUp, Busy, ExecutorTypes
    <3> QED BY <2>1, <3>1 DEF LookUp, OneClaim, journalVars, chainVars
  <2>2. CASE Claim(p)
    <3>1. journal.state \notin ActiveStates BY <2>2 DEF Claim, NoRace
    <3>2. (\A q \in Processes : ~Busy(q)) /\ \A o \in Orders : fate'[o] # "submitted"
      BY <2>2, <3>1 DEF OneClaim, Claim, chainVars
    <3>3. call'[p].phase = "claimed" /\ \A q \in Processes : q # p => ~Busy(q)'
      BY <1>0, <2>2, <3>2, PhaseAfter DEF Claim, Busy, ExecutorTypes
    <3>4. journal'.state \in ActiveStates /\ journal'.order = NoOrder
      BY <2>2 DEF Claim, ActiveStates
    <3> QED BY <3>2, <3>3, <3>4 DEF OneClaim
  <2>3. CASE NoNewOrder(p)
    <3>1. Busy(p) BY <2>3 DEF NoNewOrder, Busy
    <3>2. \A q \in Processes : ~Busy(q)'
      BY <1>0, <2>3, <3>1, PhaseAfter DEF NoNewOrder, Busy, OneClaim, ExecutorTypes
    <3> QED BY <2>3, <3>1, <3>2, Alone DEF NoNewOrder, OneClaim, chainVars
  <2>4. CASE MakeOrder(p)
    <3>0. Busy(p) BY <2>4 DEF MakeOrder, Busy
    <3>1. PICK o \in Orders : /\ fate' = [fate EXCEPT ![o] = "made"]
                              /\ journal' = [journal EXCEPT !.state = "SIGNED", !.order = o]
                              /\ call' = [call EXCEPT ![p].phase = "made", ![p].order = o]
      BY <2>4 DEF MakeOrder
    <3>2. \A k \in Orders : fate'[k] # "submitted" BY <1>0, <3>0, <3>1, Alone DEF ExecutorTypes
    <3>3. call'[p].phase = "made" /\ call'[p].order = o /\ \A q \in Processes : q # p => ~Busy(q)'
      BY <1>0, <2>0, <3>0, <3>1 DEF Busy, OneClaim, ExecutorTypes, CallType
    <3>4. journal'.state \in ActiveStates /\ journal'.order = o
      BY <1>0, <3>1 DEF ExecutorTypes, JournalType, ActiveStates
    <3> QED BY <3>2, <3>3, <3>4 DEF OneClaim
  <2>5. CASE Sign(p)
    <3>0. Busy(p) /\ call[p].phase = "made" BY <2>5 DEF Sign, Busy
    <3>1. \A o \in Orders : fate'[o] # "submitted" BY <2>5, <3>0, Alone DEF Sign, chainVars
    <3>2. \A q \in Processes : q # p => ~Busy(q)'
      BY <1>0, <2>5, <3>0, PhaseAfter DEF Sign, Busy, OneClaim, ExecutorTypes
    <3>3. ~Busy(p)' \/ (call'[p].phase = "signed" /\ call'[p].order = call[p].order /\ journal' = journal)
      BY <1>0, <2>5, PhaseAfter DEF Sign, Busy, ExecutorTypes
    <3> QED BY <3>0, <3>1, <3>2, <3>3 DEF OneClaim
  <2>6. CASE Submit(p)
    <3>0. Busy(p) /\ call[p].phase = "signed" BY <2>6 DEF Submit, Busy
    <3> DEFINE o == call[p].order
    <3>1. o \in Orders /\ fate[o] = "made" /\ journal.order = o
      BY <1>0, <3>0 DEF Holders, Holds, OneClaim
    <3>2. PICK stage : Return(p, stage, o) BY <2>6 DEF Submit
    <3>3. \A q \in Processes : ~Busy(q)'
      BY <1>0, <3>0, <3>2, PhaseAfter DEF Busy, OneClaim, ExecutorTypes
    <3>4. \A k \in Orders : k # o => fate'[k] # "submitted"
      BY <1>0, <2>6, <3>0, Alone DEF Submit, ExecutorTypes
    <3>5. fate'[o] = "submitted" => journal'.order = o /\ journal'.state \in ActiveStates
      <4>1. journal'.order = o /\ journal'.state \in {"SUBMITTED", "SUBMIT_UNKNOWN", "FAILED"}
        BY <1>0, <2>6, <3>1 DEF Submit, JournalOrder, ExecutorTypes, JournalType
      <4>2. CASE journal'.state \in ActiveStates BY <4>1, <4>2
      <4>3. CASE journal'.state = "FAILED" /\ ErrorMayHideOrder
        BY <3>1, <4>1, <4>3 DEF NoneHidden
      <4>4. CASE journal'.state = "FAILED" /\ ~ErrorMayHideOrder
        BY <1>0, <2>6, <3>1, <4>4 DEF Submit, JournalOrder, ExecutorTypes, JournalType
      <4> QED BY <4>1, <4>2, <4>3, <4>4 DEF ActiveStates
    <3> QED BY <3>3, <3>4, <3>5 DEF OneClaim
  <2> QED BY <1>1, <2>1, <2>2, <2>3, <2>4, <2>5, <2>6 DEF Swap
<1>2. ASSUME NEW p \in Processes, Asks(p) PROVE OneClaim'
  <2>0. PICK o \in Orders : \E stage \in Stages(o) : StatusAsked(p, o, stage) BY <1>2 DEF Asks
  <2>1. PICK stage \in Stages(o) : StatusAsked(p, o, stage) BY <2>0
  <2>2. call' = call /\ fate' = fate BY <2>1 DEF StatusAsked, chainVars
  <2>3. CASE journal' = journal BY <2>2, <2>3 DEF OneClaim, Busy
  <2>4. CASE JournalOrder(o, "PENDING") /\ journal.order = o
    <3>1. journal'.order = o /\ journal'.state \in ActiveStates
      BY <1>0, <2>4 DEF JournalOrder, ExecutorTypes, JournalType, ActiveStates
    <3> QED BY <2>2, <2>4, <3>1 DEF OneClaim, Busy
  <2>5. CASE journal.order = o /\ fate[o] \in {"filled", "failed"}
    <3>1. \A q \in Processes : ~Busy(q)
      <4>1. ASSUME NEW q \in Processes, Busy(q) PROVE FALSE
        <5>1. call[q].phase # "claimed" /\ call[q].order = o BY <2>5, <4>1 DEF OneClaim
        <5> QED BY <1>0, <2>5, <4>1, <5>1 DEF Busy, Holds, Holders
      <4> QED BY <4>1
    <3>2. \A k \in Orders : fate[k] # "submitted" BY <2>5 DEF OneClaim
    <3> QED BY <2>2, <3>1, <3>2 DEF OneClaim, Busy
  <2> QED BY <2>1, <2>3, <2>4, <2>5 DEF StatusAsked, Stages, JournalOrder
<1>3. ASSUME NEW p \in Processes, Resets(p) PROVE OneClaim'
  <2>1. \A q \in Processes : Busy(q)' => Busy(q) /\ call'[q] = call[q]
    BY <1>0, <1>3 DEF Resets, Busy, ExecutorTypes
  <2> QED BY <1>3, <2>1 DEF Resets, OneClaim, journalVars, chainVars
<1>4. ASSUME NEW o \in Orders, Settle(o) PROVE OneClaim'
  <2>1. \A k \in Orders : fate'[k] = "submitted" => fate[k] = "submitted"
    BY <1>0, <1>4 DEF Settle, ExecutorTypes
  <2> QED BY <1>4, <2>1 DEF Settle, OneClaim, Busy, journalVars
<1>5. CASE UNCHANGED executorVars
  BY <1>5 DEF executorVars, journalVars, chainVars, OneClaim, Busy
<1> QED BY <1>1, <1>2, <1>3, <1>4, <1>5 DEF Move

\* Two sells of the position never wait at the provider together as long as the journal row
\* does not become active between one process's look at it and its claim, and no error other
\* than a time-out hides an order the provider took: whatever the status column says,
\* whatever call times out and whoever dies.  OneSellAtATime fails by the two transactions of
\* claim() or by an order journaled FAILED that is not (712-714), and by nothing else.
THEOREM OneSellWithoutRace ==
    ASSUME DashboardAssumption
    PROVE  Spec /\ []NoRace /\ []NoneHidden => []OneSellAtATime
<1>1. Init => OneClaim BY DEF Init, ExecutorInit, OneClaim, Busy, NoCall
<1>2. IInv /\ OneClaim /\ NoRace /\ NoneHidden' /\ [Next]_vars => OneClaim' BY StepMoves, OneClaimKept
<1>3. OneClaim => OneSellAtATime
  <2> DEFINE S == {o \in Orders : fate[o] = "submitted"}
  <2>1. SUFFICES ASSUME OneClaim PROVE Cardinality(S) <= 1 BY DEF OneSellAtATime
  <2>2. CASE S = {} BY <2>2, FS_EmptySet
  <2>3. ASSUME NEW o \in S PROVE Cardinality(S) <= 1
    <3>1. S = {o} BY <2>1 DEF OneClaim
    <3>2. Cardinality({o}) = 1 BY FS_Singleton
    <3> QED BY <3>1, <3>2
  <2> QED BY <2>2, <2>3
<1>4. Spec => []IInv BY Invariance
<1> QED BY <1>1, <1>2, <1>3, <1>4, PTL DEF Spec

=============================================================================
