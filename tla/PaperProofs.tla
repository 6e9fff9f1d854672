----------------------------- MODULE PaperProofs -----------------------------
(***************************************************************************)
(* The classic engine for any number of signals, tokens, slots, marks and  *)
(* restarts: max_open_positions, one lifecycle per token, an owner for     *)
(* every pending exit snapshot, closed positions that stay as they are,    *)
(* the rows of the ladder, one swap per side, the wallet behind the live   *)
(* positions, the pause after large losses, and the rows as the lifecycles *)
(* of PositionLifecycle.                                                   *)
(***************************************************************************)
EXTENDS RealtimeCoordinator, SumFacts, FiniteSetTheorems, NaturalsInduction, WellFoundedInduction, TLAPS

-----------------------------------------------------------------------------
(* The inductive invariant                                                 *)

(* The operation of each handler that opens or closes its position.        *)
OpenAt == [entry |-> 2, live_entry |-> 5]
CloseAt == [paper_exit |-> 3, shadow_exit |-> 3, triggered |-> 2, timeout |-> 2,
            unavailable |-> 2, live_exit |-> 9]

Entries == {"entry", "live_entry"}
Closers == {"paper_exit", "shadow_exit", "triggered", "timeout", "unavailable", "live_exit"}
Keepers == {"partial", "waiting"}
Plans == {"none", "reject"} \cup Entries \cup Closers \cup Keepers

RowShape(r) == r = RowOf(r.status, r.stage, r.units) /\ r.status \in Statuses

OpShape(o) ==
  /\ o = [handler |-> o.handler, at |-> o.at, p |-> o.p, units |-> o.units,
          large |-> o.large, early |-> o.early]
  /\ o.handler \in Plans
  /\ o.handler # "none" => o.p \in Signals /\ o.at \in DOMAIN Order[o.handler]

WorkerStates == {"idle", "running", "success", "failure"}

ThreadShape ==
  /\ DOMAIN thread = Threads
  /\ thread["main"].pc = "quoting" => thread["main"].p \in Signals

SnapshotShape ==
  /\ saved \in [Kinds -> [Signals -> SnapshotStatuses]]
  /\ snapshot \in [Kinds -> [Signals -> SnapshotStatuses]]
  /\ workers \in [Kinds -> [Signals -> WorkerStates]]

Shapes ==
  /\ mintOf \in [Signals -> Mints]
  /\ DOMAIN rows = Signals /\ \A p \in Signals : RowShape(rows[p])
  /\ OpShape(op)
  /\ ThreadShape
  /\ SnapshotShape

(* Whether the handler o has yet to open its position, has yet to close    *)
(* it, or has closed it, and whether it has yet to run an operation.       *)
BeforeOpen(o) == o.handler \in Entries /\ o.at <= OpenAt[o.handler]
BeforeClose(o) == o.handler \in Keepers \/ (o.handler \in Closers /\ o.at <= CloseAt[o.handler])
AfterClose(o) == o.handler \in Closers /\ o.at > CloseAt[o.handler]
Due(o, step) == o.handler # "none" /\ \E i \in DOMAIN Order[o.handler] :
                                        o.at <= i /\ Order[o.handler][i] = step

(* An entry under way has a slot, and its token no other lifecycle.        *)
SlotKept ==
  /\ Cardinality(Active) <= MaxOpenPositions
  /\ BeforeOpen(op) => Cardinality(Active) < MaxOpenPositions

TokenFree == BeforeOpen(op) => ~HasMintLifecycle(op.p)

(* An exit works on an active position until it has closed it.             *)
ExitTarget == (BeforeClose(op) => op.p \in Active) /\ (AfterClose(op) => op.p \in Closed)

(* Only a closed position has snapshots; one that is settled in the row is *)
(* settled in memory, and a pending one is with a worker.                  *)
SnapshotsSound ==
  \A k \in Kinds, p \in Signals :
    /\ saved[k][p] # "none" \/ snapshot[k][p] # "none" => p \in Closed
    /\ saved[k][p] \in {"completed", "unavailable"} => snapshot[k][p] = saved[k][p]
    /\ snapshot[k][p] = "pending" => workers[k][p] # "idle"

SnapshotsDue == \A k \in Kinds : Due(op, k) => saved[k][op.p] = "none" /\ snapshot[k][op.p] = "none"

PaperIInv ==
  /\ Shapes /\ SlotKept /\ OneLifecyclePerMint /\ TokenFree /\ ExitTarget
  /\ SnapshotsSound /\ SnapshotsDue

-----------------------------------------------------------------------------
(* The operations of the handlers                                          *)

StepOf(o) == Order[o.handler][o.at]

\* Where positions are opened and closed and their snapshots are taken.
LEMMA Places ==
  ASSUME NEW o, OpShape(o), o.handler # "none"
  PROVE  /\ StepOf(o) = "open" <=> o.handler \in Entries /\ o.at = OpenAt[o.handler]
         /\ StepOf(o) = "close" <=> o.handler \in Closers /\ o.at = CloseAt[o.handler]
         /\ \A k \in Kinds : StepOf(o) = k => AfterClose(o) /\ Due(o, k)
         /\ \A k \in Kinds : Due(o, k) => o.handler \in Closers
<1>1. CASE o.handler = "reject"
  BY <1>1 DEF RejectOps, Order, OpShape, StepOf, Kinds, Entries, Closers, OpenAt, CloseAt, AfterClose, Due
<1>2. CASE o.handler = "entry"
  BY <1>2 DEF EntryOps, Order, OpShape, StepOf, Kinds, Entries, Closers, OpenAt, CloseAt, AfterClose, Due
<1>3. CASE o.handler = "live_entry"
  BY <1>3 DEF LiveEntryOps, Order, OpShape, StepOf, Kinds, Entries, Closers, OpenAt, CloseAt, AfterClose, Due
<1>4. CASE o.handler = "partial"
  BY <1>4 DEF PartialOps, Order, OpShape, StepOf, Kinds, Entries, Closers, OpenAt, CloseAt, AfterClose, Due
<1>5. CASE o.handler = "paper_exit"
  BY <1>5 DEF PaperExitOps, Order, OpShape, StepOf, Kinds, Entries, Closers, OpenAt, CloseAt, AfterClose, Due
<1>6. CASE o.handler = "shadow_exit"
  BY <1>6 DEF ShadowExitOps, Order, OpShape, StepOf, Kinds, Entries, Closers, OpenAt, CloseAt, AfterClose, Due
<1>7. CASE o.handler = "triggered"
  BY <1>7 DEF TriggeredOps, Order, OpShape, StepOf, Kinds, Entries, Closers, OpenAt, CloseAt, AfterClose, Due
<1>8. CASE o.handler = "waiting"
  BY <1>8 DEF WaitingOps, Order, OpShape, StepOf, Kinds, Entries, Closers, OpenAt, CloseAt, AfterClose, Due
<1>9. CASE o.handler = "timeout"
  BY <1>9 DEF TimeoutOps, Order, OpShape, StepOf, Kinds, Entries, Closers, OpenAt, CloseAt, AfterClose, Due
<1>10. CASE o.handler = "unavailable"
  BY <1>10 DEF UnavailableOps, Order, OpShape, StepOf, Kinds, Entries, Closers, OpenAt, CloseAt, AfterClose, Due
<1>11. CASE o.handler = "live_exit"
  BY <1>11 DEF LiveExitOps, Order, OpShape, StepOf, Kinds, Entries, Closers, OpenAt, CloseAt, AfterClose, Due
<1> QED BY <1>1, <1>2, <1>3, <1>4, <1>5, <1>6, <1>7, <1>8, <1>9, <1>10, <1>11 DEF OpShape, Plans, Entries, Closers, Keepers

\* What a handler that goes on to its next operation still has to do.
LEMMA Advanced ==
  ASSUME NEW o, OpShape(o), o.handler # "none", NEW n, n = [o EXCEPT !.at = @ + 1],
         o.at # Len(Order[o.handler])
  PROVE  /\ OpShape(n) /\ n.handler = o.handler /\ n.p = o.p
         /\ BeforeOpen(n) => BeforeOpen(o) /\ StepOf(o) # "open"
         /\ BeforeClose(n) => BeforeClose(o) /\ StepOf(o) # "close"
         /\ AfterClose(n) => AfterClose(o) \/ StepOf(o) = "close"
         /\ \A k \in Kinds : Due(n, k) => Due(o, k) /\ StepOf(o) # k
<1>1. CASE o.handler = "reject"
  BY <1>1 DEF RejectOps, Order, OpShape, StepOf, Kinds, Entries, Closers, Keepers, Plans, OpenAt, CloseAt, BeforeOpen, BeforeClose, AfterClose, Due
<1>2. CASE o.handler = "entry"
  BY <1>2 DEF EntryOps, Order, OpShape, StepOf, Kinds, Entries, Closers, Keepers, Plans, OpenAt, CloseAt, BeforeOpen, BeforeClose, AfterClose, Due
<1>3. CASE o.handler = "live_entry"
  BY <1>3 DEF LiveEntryOps, Order, OpShape, StepOf, Kinds, Entries, Closers, Keepers, Plans, OpenAt, CloseAt, BeforeOpen, BeforeClose, AfterClose, Due
<1>4. CASE o.handler = "partial"
  BY <1>4 DEF PartialOps, Order, OpShape, StepOf, Kinds, Entries, Closers, Keepers, Plans, OpenAt, CloseAt, BeforeOpen, BeforeClose, AfterClose, Due
<1>5. CASE o.handler = "paper_exit"
  BY <1>5 DEF PaperExitOps, Order, OpShape, StepOf, Kinds, Entries, Closers, Keepers, Plans, OpenAt, CloseAt, BeforeOpen, BeforeClose, AfterClose, Due
<1>6. CASE o.handler = "shadow_exit"
  BY <1>6 DEF ShadowExitOps, Order, OpShape, StepOf, Kinds, Entries, Closers, Keepers, Plans, OpenAt, CloseAt, BeforeOpen, BeforeClose, AfterClose, Due
<1>7. CASE o.handler = "triggered"
  BY <1>7 DEF TriggeredOps, Order, OpShape, StepOf, Kinds, Entries, Closers, Keepers, Plans, OpenAt, CloseAt, BeforeOpen, BeforeClose, AfterClose, Due
<1>8. CASE o.handler = "waiting"
  BY <1>8 DEF WaitingOps, Order, OpShape, StepOf, Kinds, Entries, Closers, Keepers, Plans, OpenAt, CloseAt, BeforeOpen, BeforeClose, AfterClose, Due
<1>9. CASE o.handler = "timeout"
  BY <1>9 DEF TimeoutOps, Order, OpShape, StepOf, Kinds, Entries, Closers, Keepers, Plans, OpenAt, CloseAt, BeforeOpen, BeforeClose, AfterClose, Due
<1>10. CASE o.handler = "unavailable"
  BY <1>10 DEF UnavailableOps, Order, OpShape, StepOf, Kinds, Entries, Closers, Keepers, Plans, OpenAt, CloseAt, BeforeOpen, BeforeClose, AfterClose, Due
<1>11. CASE o.handler = "live_exit"
  BY <1>11 DEF LiveExitOps, Order, OpShape, StepOf, Kinds, Entries, Closers, Keepers, Plans, OpenAt, CloseAt, BeforeOpen, BeforeClose, AfterClose, Due
<1> QED BY <1>1, <1>2, <1>3, <1>4, <1>5, <1>6, <1>7, <1>8, <1>9, <1>10, <1>11 DEF OpShape, Plans, Entries, Closers, Keepers

-----------------------------------------------------------------------------
(* What a step keeps                                                       *)

(* The ledger as far as the invariant looks at it.                         *)
Books == <<mintOf, rows, saved, snapshot, workers>>

ThreadShapeKept == ThreadShape => ThreadShape'

\* A signal with a lifecycle has a position, active or closed.
LEMMA Lifecycle ==
  ASSUME Shapes
  PROVE  /\ \A p \in Signals : rows[p].status # "none" <=> p \in Active \cup Closed
         /\ Active \cap Closed = {} /\ Active \subseteq Signals /\ Closed \subseteq Signals
BY DEF Shapes, RowShape, Statuses, Active, Closed

\* A step that leaves the books and the handler alone.
LEMMA Quiet ==
  ASSUME PaperIInv, UNCHANGED Books, UNCHANGED op, ThreadShape'
  PROVE  PaperIInv'
BY DEF PaperIInv, Books, Shapes, SnapshotShape, SlotKept, OneLifecyclePerMint, TokenFree,
       HasMintLifecycle, ExitTarget, SnapshotsSound, SnapshotsDue, Active, Closed,
       BeforeOpen, BeforeClose, AfterClose, Due

\* A handler that a call may start: an entry needs a slot and a fresh token,
\* an exit an active position.
Starts(o) ==
  /\ OpShape(o)
  /\ o.handler # "none" => o.at = 1
  /\ o.handler \in Entries => Cardinality(Active) < MaxOpenPositions /\ ~HasMintLifecycle(o.p)
  /\ o.handler \in Closers \cup Keepers => o.p \in Active

LEMMA Started ==
  ASSUME PaperIInv, UNCHANGED Books, Starts(op'), ThreadShape'
  PROVE  PaperIInv'
<1>1. Active' = Active /\ Closed' = Closed BY DEF Books, Active, Closed
<1>2. Shapes' BY DEF PaperIInv, Shapes, SnapshotShape, Books, Starts
<1>3. SlotKept' /\ TokenFree'
  BY <1>1 DEF PaperIInv, SlotKept, TokenFree, HasMintLifecycle, Books, Starts, BeforeOpen
<1>4. OneLifecyclePerMint' BY DEF PaperIInv, OneLifecyclePerMint, Books
<1>5. ExitTarget'
  BY <1>1 DEF ExitTarget, Starts, BeforeClose, AfterClose, Closers, Keepers, CloseAt, OpShape
<1>6. SnapshotsSound' BY <1>1 DEF PaperIInv, SnapshotsSound, Books
<1>7. SnapshotsDue'
  <2> SUFFICES ASSUME NEW k \in Kinds, Due(op', k)
               PROVE  saved'[k][op'.p] = "none" /\ snapshot'[k][op'.p] = "none"
    BY DEF SnapshotsDue
  <2>1. op'.handler # "none" BY DEF Due
  <2>2. op'.handler \in Closers BY <2>1, Places DEF Starts
  <2>3. op'.p \in Active BY <2>2 DEF Starts
  <2> QED BY <2>3, Lifecycle DEF PaperIInv, SnapshotsSound, Books
<1> QED BY <1>2, <1>3, <1>4, <1>5, <1>6, <1>7 DEF PaperIInv

\* The handler stops, stays where it is or goes on.
Moves == \/ op' = Idle
         \/ op' = op
         \/ op.at # Len(Order[op.handler]) /\ op' = [op EXCEPT !.at = @ + 1]

LEMMA MovesShape ==
  ASSUME OpShape(op), ~LockFree, Moves
  PROVE  OpShape(op')
<1>1. OpShape(Idle) BY DEF OpShape, Idle, Plans
<1>2. CASE op.at # Len(Order[op.handler]) /\ op' = [op EXCEPT !.at = @ + 1]
  BY <1>2, Advanced DEF LockFree
<1> QED BY <1>1, <1>2 DEF Moves

\* What holds of the handler after any operation but the four that matter.
LEMMA MovesOn ==
  ASSUME OpShape(op), ~LockFree, Moves
  PROVE  /\ BeforeOpen(op') => BeforeOpen(op) /\ op'.p = op.p
         /\ BeforeClose(op') => BeforeClose(op) /\ op'.p = op.p
         /\ AfterClose(op') => (AfterClose(op) \/ StepOf(op) = "close") /\ op'.p = op.p
         /\ \A k \in Kinds : Due(op', k) => Due(op, k) /\ op'.p = op.p
<1>1. CASE op.at # Len(Order[op.handler]) /\ op' = [op EXCEPT !.at = @ + 1]
  BY <1>1, Advanced DEF LockFree
<1>2. CASE op' = Idle
  BY <1>2 DEF Idle, BeforeOpen, BeforeClose, AfterClose, Due, Entries, Closers, Keepers
<1>3. CASE op' = op
  BY <1>3
<1> QED BY <1>1, <1>2, <1>3 DEF Moves

RowsShape == DOMAIN rows = Signals /\ \A p \in Signals : RowShape(rows[p])

\* An operation that opens and closes nothing.
LEMMA Went ==
  ASSUME PaperIInv, ~LockFree, Moves, StepOf(op) # "close", RowsShape',
         Active' = Active, Closed' = Closed, UNCHANGED <<mintOf, saved, snapshot, workers>>,
         ThreadShape'
  PROVE  PaperIInv'
<1>1. OpShape(op) BY DEF PaperIInv, Shapes
<1>2. Shapes' BY <1>1, MovesShape DEF PaperIInv, Shapes, SnapshotShape, RowsShape
<1>3. SlotKept' /\ TokenFree'
  BY <1>1, MovesOn DEF PaperIInv, SlotKept, TokenFree, HasMintLifecycle
<1>4. OneLifecyclePerMint'
  <2>1. \A p \in Signals : rows'[p].status # "none" => p \in Active' \cup Closed'
    BY DEF RowsShape, RowShape, Statuses, Active, Closed
  <2>2. \A p \in Signals : rows'[p].status # "none" => rows[p].status # "none"
    BY <2>1, Lifecycle DEF PaperIInv
  <2> QED BY <2>2 DEF PaperIInv, OneLifecyclePerMint
<1>5. ExitTarget' BY <1>1, MovesOn DEF PaperIInv, ExitTarget
<1>6. SnapshotsSound' BY DEF PaperIInv, SnapshotsSound
<1>7. SnapshotsDue' BY <1>1, MovesOn DEF PaperIInv, SnapshotsDue
<1> QED BY <1>2, <1>3, <1>4, <1>5, <1>6, <1>7 DEF PaperIInv

-----------------------------------------------------------------------------
(* The operations of a handler                                             *)

\* What Advance and Raise do.
LEMMA AdvanceMoves == (Advance => Moves) /\ (Raise => Moves) /\ (UNCHANGED op => Moves)
BY DEF Advance, Raise, Moves

\* The operations that change no row of a position.
LEMMA PlainOps ==
  ASSUME PaperIInv, UNCHANGED <<workers, thread>>,
         \/ CandidateStep \/ EntryRowStep \/ SaleRowStep \/ AttemptRowStep \/ CountStep
         \/ OutcomeStep \/ FollowupStep
         \/ BuyStep \/ ApproveStep \/ SellStep \/ SendStep \/ ReceiptStep
  PROVE  PaperIInv'
<1>1. /\ ~LockFree /\ StepOf(op) # "close" /\ Moves
      /\ UNCHANGED <<mintOf, rows, saved, snapshot>>
  <2>1. CASE CandidateStep BY <2>1, AdvanceMoves DEF CandidateStep, At, StepOf
  <2>2. CASE EntryRowStep BY <2>2, AdvanceMoves DEF EntryRowStep, At, StepOf
  <2>3. CASE SaleRowStep BY <2>3, AdvanceMoves DEF SaleRowStep, At, StepOf
  <2>4. CASE AttemptRowStep BY <2>4, AdvanceMoves DEF AttemptRowStep, At, StepOf
  <2>5. CASE CountStep BY <2>5, AdvanceMoves DEF CountStep, durableVars, At, StepOf
  <2>6. CASE OutcomeStep BY <2>6, AdvanceMoves DEF OutcomeStep, At, StepOf
  <2>7. CASE FollowupStep BY <2>7, AdvanceMoves DEF FollowupStep, ledgerVars, durableVars, At, StepOf
  <2>8. CASE BuyStep BY <2>8, AdvanceMoves DEF BuyStep, ledgerVars, durableVars, At, StepOf
  <2>9. CASE ApproveStep BY <2>9, AdvanceMoves DEF ApproveStep, ledgerVars, durableVars, At, StepOf
  <2>10. CASE SellStep BY <2>10, AdvanceMoves DEF SellStep, ledgerVars, durableVars, At, StepOf
  <2>11. CASE SendStep BY <2>11, AdvanceMoves DEF SendStep, ledgerVars, durableVars, At, StepOf
  <2>12. CASE ReceiptStep BY <2>12, AdvanceMoves DEF ReceiptStep, ledgerVars, durableVars, At, StepOf
  <2> QED BY <2>1, <2>2, <2>3, <2>4, <2>5, <2>6, <2>7, <2>8, <2>9, <2>10, <2>11, <2>12
<1>2. RowsShape' /\ Active' = Active /\ Closed' = Closed /\ ThreadShape'
  BY <1>1 DEF PaperIInv, Shapes, RowsShape, Active, Closed, ThreadShape
<1> QED BY <1>1, <1>2, Went

\* A position goes on to its next status.
LEMMA TransitionOp ==
  ASSUME PaperIInv, UNCHANGED <<workers, thread>>, TransitionStep
  PROVE  PaperIInv'
<1>1. /\ ~LockFree /\ StepOf(op) # "close" /\ Moves
      /\ UNCHANGED <<mintOf, saved, snapshot>>
  BY AdvanceMoves DEF TransitionStep, At, StepOf
<1>2. PICK s \in {"OPEN", "EXIT_TRIGGERED"} : TransitionPosition(op.p, s)
  BY DEF TransitionStep
<1>3. RowsShape' /\ Active' = Active /\ Closed' = Closed
  BY <1>2 DEF PaperIInv, Shapes, RowsShape, RowShape, RowOf, Statuses, Active, Closed, TransitionPosition
<1>4. ThreadShape' BY DEF PaperIInv, Shapes, ThreadShape
<1> QED BY <1>1, <1>3, <1>4, Went

\* A take profit halves a position.
LEMMA PartialOp ==
  ASSUME PaperIInv, UNCHANGED <<workers, thread>>, PartialStep
  PROVE  PaperIInv'
<1>1. /\ ~LockFree /\ StepOf(op) # "close" /\ Moves
      /\ UNCHANGED <<mintOf, saved, snapshot>>
  BY AdvanceMoves DEF PartialStep, At, StepOf
<1>2. RowsShape' /\ Active' = Active /\ Closed' = Closed
  BY DEF PartialStep, RecordPartialTakeProfit, PaperIInv, Shapes, RowsShape, RowShape, RowOf,
         Statuses, Active, Closed
<1>3. ThreadShape' BY DEF PaperIInv, Shapes, ThreadShape
<1> QED BY <1>1, <1>2, <1>3, Went

\* The position an entry opens takes the slot that was free for it.
LEMMA OpenOp ==
  ASSUME PaperIInv, UNCHANGED <<workers, thread>>, OpenStep
  PROVE  PaperIInv'
<1>1. /\ ~LockFree /\ StepOf(op) = "open" /\ Moves /\ OpShape(op)
      /\ UNCHANGED <<mintOf, saved, snapshot>>
  BY AdvanceMoves DEF OpenStep, At, StepOf, PaperIInv, Shapes
<1>2. op.handler # "none" /\ op.handler \in Entries /\ op.at = OpenAt[op.handler] /\ op.p \in Signals
  BY <1>1, Places DEF LockFree, OpShape
<1>3. BeforeOpen(op) /\ ~BeforeOpen(op') /\ ~BeforeClose(op') /\ ~AfterClose(op')
  <2>1. BeforeOpen(op) /\ ~BeforeClose(op) /\ ~AfterClose(op)
    BY <1>2 DEF BeforeOpen, BeforeClose, AfterClose, OpenAt, Entries, Closers, Keepers
  <2>2. CASE op' = Idle
    BY <2>1, <2>2 DEF Idle, BeforeOpen, BeforeClose, AfterClose, Entries, Closers, Keepers
  <2>3. CASE op.at # Len(Order[op.handler]) /\ op' = [op EXCEPT !.at = @ + 1]
    BY <1>1, <1>2, <2>1, <2>3, Advanced
  <2> QED BY <2>1, <2>2, <2>3 DEF OpenStep, Advance
<1>4. /\ rows[op.p].status = "none" /\ rows' = [rows EXCEPT ![op.p] = RowOf("ENTRY_PENDING", 0, Quantity)]
  BY DEF OpenStep, OpenPosition
<1>5. RowsShape'
  BY <1>4 DEF RowsShape, RowShape, RowOf, Statuses, PaperIInv, Shapes
<1>6. Active' = Active \cup {op.p} /\ Closed' = Closed
  BY <1>2, <1>4 DEF RowOf, Active, Closed, PaperIInv, Shapes
<1>7. Shapes'
  BY <1>1, <1>5, MovesShape DEF PaperIInv, Shapes, SnapshotShape, RowsShape, ThreadShape
<1>8. SlotKept'
  <2>1. IsFiniteSet(Active) BY CoordinatorAssumption, FS_Subset DEF CoordinatorAssumption, Active
  <2>2. Cardinality(Active) \in Nat BY <2>1, FS_CardinalityType
  <2>3. op.p \notin Active BY <1>4 DEF Active
  <2>4. Cardinality(Active \cup {op.p}) = Cardinality(Active) + 1
    BY <2>1, <2>3, FS_AddElement
  <2>5. Cardinality(Active) < MaxOpenPositions BY <1>3 DEF PaperIInv, SlotKept
  <2> QED BY <1>3, <1>6, <2>2, <2>4, <2>5, LimitsAssumption DEF SlotKept, LimitsAssumption
<1>9. OneLifecyclePerMint'
  <2>1. \A q \in Signals : rows[q].status # "none" => mintOf[q] # mintOf[op.p]
    BY <1>3, Lifecycle DEF PaperIInv, TokenFree, HasMintLifecycle
  <2>2. \A q \in Signals \ {op.p} : rows'[q] = rows[q]
    BY <1>4 DEF PaperIInv, Shapes
  <2> QED BY <1>1, <2>1, <2>2 DEF PaperIInv, OneLifecyclePerMint
<1>10. TokenFree' /\ ExitTarget' BY <1>3 DEF TokenFree, ExitTarget
<1>11. SnapshotsSound' BY <1>1, <1>6 DEF PaperIInv, SnapshotsSound
<1>12. SnapshotsDue' BY <1>1, MovesOn DEF PaperIInv, SnapshotsDue
<1> QED BY <1>7, <1>8, <1>9, <1>10, <1>11, <1>12 DEF PaperIInv

\* An exit closes the position it works on.
LEMMA CloseOp ==
  ASSUME PaperIInv, UNCHANGED <<workers, thread>>, CloseStep
  PROVE  PaperIInv'
<1>1. /\ ~LockFree /\ StepOf(op) = "close" /\ Moves /\ OpShape(op)
      /\ UNCHANGED <<mintOf, saved, snapshot>>
  BY AdvanceMoves DEF CloseStep, At, StepOf, PaperIInv, Shapes
<1>2. op.handler # "none" /\ op.handler \in Closers /\ op.at = CloseAt[op.handler] /\ op.p \in Signals
  BY <1>1, Places DEF LockFree, OpShape
<1>3. ~BeforeOpen(op') /\ ~BeforeClose(op') /\ (AfterClose(op') => op'.p = op.p)
  <2>1. ~BeforeOpen(op)
    BY <1>2 DEF BeforeOpen, Entries, Closers
  <2>2. CASE op' = Idle
    BY <2>2 DEF Idle, BeforeOpen, BeforeClose, AfterClose, Entries, Closers, Keepers
  <2>3. CASE op.at # Len(Order[op.handler]) /\ op' = [op EXCEPT !.at = @ + 1]
    BY <1>1, <1>2, <2>1, <2>3, Advanced
  <2> QED BY <2>2, <2>3 DEF CloseStep, Advance
<1>4. op.p \in Active /\ rows' = [rows EXCEPT ![op.p].status = "CLOSED", ![op.p].units = 0]
  BY DEF CloseStep, ClosePosition
<1>5. RowsShape'
  BY <1>4 DEF RowsShape, RowShape, RowOf, Statuses, PaperIInv, Shapes
<1>6. Active' = Active \ {op.p} /\ Closed' = Closed \cup {op.p}
  BY <1>2, <1>4 DEF RowShape, RowOf, Active, Closed, PaperIInv, Shapes
<1>7. Shapes'
  BY <1>1, <1>5, MovesShape DEF PaperIInv, Shapes, SnapshotShape, RowsShape, ThreadShape
<1>8. SlotKept'
  <2>1. IsFiniteSet(Active) BY CoordinatorAssumption, FS_Subset DEF CoordinatorAssumption, Active
  <2>2. Cardinality(Active') <= Cardinality(Active)
    BY <1>6, <2>1, FS_Subset
  <2>3. IsFiniteSet(Active') BY <1>6, <2>1, FS_Subset
  <2> QED BY <1>3, <2>1, <2>2, <2>3, FS_CardinalityType, LimitsAssumption
          DEF SlotKept, PaperIInv, LimitsAssumption
<1>9. OneLifecyclePerMint'
  <2>1. rows[op.p].status # "none" BY <1>2, <1>4 DEF Active
  <2>2. \A q \in Signals \ {op.p} : rows'[q] = rows[q]
    BY <1>4 DEF PaperIInv, Shapes
  <2> QED BY <1>1, <2>1, <2>2 DEF PaperIInv, OneLifecyclePerMint
<1>10. TokenFree' /\ ExitTarget' BY <1>3, <1>6 DEF TokenFree, ExitTarget
<1>11. SnapshotsSound' BY <1>1, <1>6 DEF PaperIInv, SnapshotsSound
<1>12. SnapshotsDue' BY <1>1, MovesOn DEF PaperIInv, SnapshotsDue
<1> QED BY <1>7, <1>8, <1>9, <1>10, <1>11, <1>12 DEF PaperIInv

-----------------------------------------------------------------------------
(* The exit snapshots                                                      *)

\* Setting one cell of a table of tables.
LEMMA Cell ==
  ASSUME NEW T, NEW f \in [Kinds -> [Signals -> T]], NEW k \in Kinds, NEW p \in Signals, NEW v \in T,
         NEW g, g = [f EXCEPT ![k][p] = v]
  PROVE  /\ g \in [Kinds -> [Signals -> T]] /\ g[k][p] = v
         /\ \A j \in Kinds, q \in Signals : j # k \/ q # p => g[j][q] = f[j][q]
OBVIOUS

LEMMA SnapshotSet ==
  ASSUME SnapshotShape, NEW kind \in Kinds, NEW p \in Signals,
         NEW status \in SnapshotStatuses, NEW committed \in BOOLEAN,
         SetExitSnapshot(kind, p, status, committed)
  PROVE  /\ saved' \in [Kinds -> [Signals -> SnapshotStatuses]]
         /\ snapshot' \in [Kinds -> [Signals -> SnapshotStatuses]]
         /\ \A k \in Kinds, q \in Signals :
              k # kind \/ q # p => saved'[k][q] = saved[k][q] /\ snapshot'[k][q] = snapshot[k][q]
         /\ snapshot'[kind][p] = status
         /\ saved'[kind][p] = IF committed THEN status ELSE saved[kind][p]
<1>1. snapshot' = [snapshot EXCEPT ![kind][p] = status] BY DEF SetExitSnapshot
<1>2. CASE committed
  <2>1. saved' = [saved EXCEPT ![kind][p] = status] BY <1>2 DEF SetExitSnapshot
  <2> QED BY <1>1, <1>2, <2>1, Cell DEF SnapshotShape
<1>3. CASE ~committed
  <2>1. saved' = saved BY <1>3 DEF SetExitSnapshot
  <2> QED BY <1>1, <1>3, <2>1, Cell DEF SnapshotShape
<1> QED BY <1>2, <1>3

LEMMA SnapshotCommitted ==
  ASSUME SnapshotShape, NEW kind \in Kinds, NEW p \in Signals, NEW status \in SnapshotStatuses,
         SetExitSnapshot(kind, p, status, TRUE)
  PROVE  /\ saved' \in [Kinds -> [Signals -> SnapshotStatuses]]
         /\ snapshot' \in [Kinds -> [Signals -> SnapshotStatuses]]
         /\ \A k \in Kinds, q \in Signals :
              k # kind \/ q # p => saved'[k][q] = saved[k][q] /\ snapshot'[k][q] = snapshot[k][q]
         /\ snapshot'[kind][p] = status /\ saved'[kind][p] = status
<1>1. /\ snapshot' = [snapshot EXCEPT ![kind][p] = status]
      /\ saved' = [saved EXCEPT ![kind][p] = status]
  BY DEF SetExitSnapshot
<1> QED BY <1>1, Cell DEF SnapshotShape

\* An exit settles the snapshot of its position, or leaves it to a worker.
LEMMA FinalizeOp ==
  ASSUME PaperIInv, NEW kind \in Kinds, FinalizeSnapshot(kind)
  PROVE  PaperIInv'
<1>1. /\ ~LockFree /\ StepOf(op) = kind /\ Moves /\ OpShape(op)
      /\ UNCHANGED <<mintOf, rows, thread>>
  BY AdvanceMoves DEF FinalizeSnapshot, At, StepOf, PaperIInv, Shapes
<1>2. op.handler # "none" /\ op.p \in Signals BY <1>1 DEF LockFree, OpShape
<1>3. AfterClose(op) /\ Due(op, kind) BY <1>1, <1>2, Places
<1>4. op.p \in Closed BY <1>3 DEF PaperIInv, ExitTarget
<1>5. /\ Active' = Active /\ Closed' = Closed /\ RowsShape'
  BY <1>1 DEF Active, Closed, RowsShape, PaperIInv, Shapes
<1>6. SnapshotShape /\ saved[kind][op.p] = "none" /\ snapshot[kind][op.p] = "none"
  BY <1>3 DEF PaperIInv, SnapshotsDue, Shapes
<1>7. /\ SnapshotShape'
      /\ \A k \in Kinds, p \in Signals :
           k # kind \/ p # op.p => /\ saved'[k][p] = saved[k][p]
                                   /\ snapshot'[k][p] = snapshot[k][p]
                                   /\ workers'[k][p] = workers[k][p]
      /\ saved'[kind][op.p] = snapshot'[kind][op.p]
      /\ snapshot'[kind][op.p] = "pending" => workers'[kind][op.p] = "running"
  <2>1. CASE UNCHANGED <<saved, snapshot, workers>>
    BY <1>6, <2>1 DEF SnapshotShape
  <2>2. CASE \E s \in {"completed", "unavailable"} : SetExitSnapshot(kind, op.p, s, TRUE) /\ UNCHANGED workers
    <3>1. PICK s \in {"completed", "unavailable"} : SetExitSnapshot(kind, op.p, s, TRUE)
      BY <2>2
    <3>2. UNCHANGED workers /\ s \in SnapshotStatuses /\ s # "pending" BY <2>2 DEF SnapshotStatuses
    <3>3. /\ saved' \in [Kinds -> [Signals -> SnapshotStatuses]]
          /\ snapshot' \in [Kinds -> [Signals -> SnapshotStatuses]]
          /\ \A k \in Kinds, q \in Signals :
               k # kind \/ q # op.p => saved'[k][q] = saved[k][q] /\ snapshot'[k][q] = snapshot[k][q]
          /\ snapshot'[kind][op.p] = s /\ saved'[kind][op.p] = s
      BY <1>2, <1>6, <3>1, <3>2, SnapshotCommitted
    <3> QED BY <1>6, <3>2, <3>3 DEF SnapshotShape
  <2>3. CASE /\ SetExitSnapshot(kind, op.p, "pending", TRUE)
             /\ workers' = [workers EXCEPT ![kind][op.p] = "running"]
    <3>1. "running" \in WorkerStates /\ "pending" \in SnapshotStatuses BY DEF WorkerStates, SnapshotStatuses
    <3>2. workers \in [Kinds -> [Signals -> WorkerStates]] BY <1>6 DEF SnapshotShape
    <3>3. /\ workers' \in [Kinds -> [Signals -> WorkerStates]] /\ workers'[kind][op.p] = "running"
          /\ \A j \in Kinds, q \in Signals : j # kind \/ q # op.p => workers'[j][q] = workers[j][q]
      BY <1>2, <2>3, <3>1, <3>2, Cell
    <3>4. PICK s \in SnapshotStatuses : s = "pending" /\ SetExitSnapshot(kind, op.p, s, TRUE)
      BY <2>3, <3>1
    <3>5. /\ saved' \in [Kinds -> [Signals -> SnapshotStatuses]]
          /\ snapshot' \in [Kinds -> [Signals -> SnapshotStatuses]]
          /\ \A k \in Kinds, q \in Signals :
               k # kind \/ q # op.p => saved'[k][q] = saved[k][q] /\ snapshot'[k][q] = snapshot[k][q]
          /\ snapshot'[kind][op.p] = s /\ saved'[kind][op.p] = s
      <4>1. SetExitSnapshot(kind, op.p, s, TRUE) /\ SnapshotShape /\ s \in SnapshotStatuses BY <1>6, <3>4
      <4> QED BY <1>2, <4>1, SnapshotCommitted
    <3> QED BY <3>3, <3>5 DEF SnapshotShape
  <2> QED BY <2>1, <2>2, <2>3 DEF FinalizeSnapshot
<1>8. Shapes'
  BY <1>1, <1>5, <1>7, MovesShape DEF PaperIInv, Shapes, RowsShape, ThreadShape
<1>9. SlotKept' /\ TokenFree'
  BY <1>1, <1>5, MovesOn DEF PaperIInv, SlotKept, TokenFree, HasMintLifecycle
<1>10. OneLifecyclePerMint' BY <1>1 DEF PaperIInv, OneLifecyclePerMint
<1>11. ExitTarget' BY <1>1, <1>3, <1>5, MovesOn, <1>4, Lifecycle DEF PaperIInv, ExitTarget
<1>12. SnapshotsSound'
  BY <1>4, <1>5, <1>7 DEF PaperIInv, SnapshotsSound
<1>13. SnapshotsDue'
  <2> SUFFICES ASSUME NEW k \in Kinds, Due(op', k)
               PROVE  saved'[k][op'.p] = "none" /\ snapshot'[k][op'.p] = "none"
    BY DEF SnapshotsDue
  <2>1. Due(op, k) /\ op'.p = op.p BY <1>1, MovesOn
  <2>2. k # kind
    <3>1. op' # Idle BY DEF Due, Idle
    <3>2. CASE op' = [op EXCEPT !.at = @ + 1] /\ op.at # Len(Order[op.handler])
      BY <1>1, <1>2, <3>2, Advanced
    <3> QED BY <3>1, <3>2 DEF FinalizeSnapshot, Advance
  <2> QED BY <1>2, <1>7, <2>1, <2>2 DEF PaperIInv, SnapshotsDue
<1> QED BY <1>8, <1>9, <1>10, <1>11, <1>12, <1>13 DEF PaperIInv

\* A worker answers, or its answer is taken.
LEMMA Backfill ==
  ASSUME PaperIInv, UNCHANGED <<mintOf, rows, op, thread>>, LockFree, SnapshotShape',
         \A k \in Kinds, p \in Signals :
           \/ /\ saved'[k][p] = saved[k][p] /\ snapshot'[k][p] = snapshot[k][p]
              /\ workers'[k][p] = "idle" => snapshot[k][p] # "pending" \/ workers[k][p] = "idle"
           \/ /\ p \in Closed /\ snapshot[k][p] = "pending"
              /\ snapshot'[k][p] \in {"completed", "unavailable"}
              /\ saved'[k][p] \in {saved[k][p], snapshot'[k][p]}
  PROVE  PaperIInv'
<1>1. Active' = Active /\ Closed' = Closed BY DEF Active, Closed
<1>2. Shapes' BY DEF PaperIInv, Shapes, ThreadShape
<1>3. SlotKept' /\ TokenFree' /\ OneLifecyclePerMint' /\ ExitTarget'
  BY <1>1 DEF PaperIInv, SlotKept, TokenFree, HasMintLifecycle, OneLifecyclePerMint, ExitTarget
<1>4. SnapshotsSound'
  <2> SUFFICES ASSUME NEW k \in Kinds, NEW p \in Signals
               PROVE  /\ saved'[k][p] # "none" \/ snapshot'[k][p] # "none" => p \in Closed
                      /\ saved'[k][p] \in {"completed", "unavailable"} => snapshot'[k][p] = saved'[k][p]
                      /\ snapshot'[k][p] = "pending" => workers'[k][p] # "idle"
    BY <1>1 DEF SnapshotsSound
  <2> QED BY DEF PaperIInv, SnapshotsSound
<1>5. SnapshotsDue' BY DEF SnapshotsDue, Due, LockFree
<1> QED BY <1>2, <1>3, <1>4, <1>5 DEF PaperIInv

LEMMA BackfillOps ==
  ASSUME PaperIInv, NEW kind \in Kinds, NEW p \in Signals,
         BackfillAnswer(kind, p) \/ DrainBackfill(kind, p)
  PROVE  PaperIInv'
<1>1. SnapshotShape BY DEF PaperIInv, Shapes
<1>2. CASE BackfillAnswer(kind, p)
  <2>1. UNCHANGED <<mintOf, rows, op, thread, saved, snapshot>> /\ LockFree
    BY <1>2 DEF BackfillAnswer, ledgerVars, durableVars, engineVars
  <2>2. SnapshotShape' /\ \A k \in Kinds, q \in Signals : workers'[k][q] = "idle" => workers[k][q] = "idle"
    BY <1>1, <1>2, <2>1 DEF BackfillAnswer, SnapshotShape, WorkerStates
  <2> QED BY <2>1, <2>2, Backfill
<1>3. CASE DrainBackfill(kind, p)
  <2>1. UNCHANGED <<mintOf, rows, op, thread>> /\ LockFree
    BY <1>3 DEF DrainBackfill, engineVars
  <2>2. /\ SnapshotShape'
        /\ \A k \in Kinds, q \in Signals : k # kind \/ q # p =>
             saved'[k][q] = saved[k][q] /\ snapshot'[k][q] = snapshot[k][q] /\ workers'[k][q] = workers[k][q]
        /\ \/ saved'[kind][p] = saved[kind][p] /\ snapshot'[kind][p] = snapshot[kind][p]
                /\ (p \in Closed => snapshot[kind][p] # "pending")
           \/ /\ p \in Closed /\ snapshot[kind][p] = "pending"
              /\ snapshot'[kind][p] \in {"completed", "unavailable"}
              /\ saved'[kind][p] \in {saved[kind][p], snapshot'[kind][p]}
    <3>0. /\ workers' \in [Kinds -> [Signals -> WorkerStates]]
          /\ \A k \in Kinds, q \in Signals : k # kind \/ q # p => workers'[k][q] = workers[k][q]
      <4>1. "idle" \in WorkerStates /\ workers' = [workers EXCEPT ![kind][p] = "idle"]
        BY <1>3 DEF DrainBackfill, WorkerStates
      <4>2. workers \in [Kinds -> [Signals -> WorkerStates]] BY <1>1 DEF SnapshotShape
      <4> QED BY <4>1, <4>2, Cell
    <3>1. CASE p \in Closed /\ snapshot[kind][p] = "pending"
      <4>1. PICK status \in {"completed", "unavailable"}, committed \in BOOLEAN :
              SetExitSnapshot(kind, p, status, committed)
        BY <1>3, <3>1 DEF DrainBackfill
      <4> QED BY <1>1, <3>0, <3>1, <4>1, SnapshotSet DEF SnapshotShape, SnapshotStatuses
    <3>2. CASE ~(p \in Closed /\ snapshot[kind][p] = "pending")
      BY <1>1, <1>3, <3>0, <3>2 DEF DrainBackfill, SnapshotShape
    <3> QED BY <3>1, <3>2
  <2>3. p \notin Closed => snapshot[kind][p] # "pending" BY DEF PaperIInv, SnapshotsSound
  <2> QED BY <2>1, <2>2, <2>3, Backfill
<1> QED BY <1>2, <1>3

-----------------------------------------------------------------------------
(* The calls that start a handler                                          *)

LEMMA HandleStarts ==
  ASSUME NEW h \in Plans \ {"none"}, NEW p \in Signals, NEW u, NEW l, NEW e,
         h \in Entries => Cardinality(Active) < MaxOpenPositions /\ ~HasMintLifecycle(p),
         h \in Closers \cup Keepers => p \in Active
  PROVE  Starts(Handle(h, p, u, l, e))
<1>1. 1 \in DOMAIN Order[h]
  <2>1. CASE h \in Entries \cup Keepers
    BY <2>1 DEF Entries, Keepers, Order, EntryOps, LiveEntryOps, PartialOps, WaitingOps
  <2>2. CASE h \in Closers
    BY <2>2 DEF Closers, Order, PaperExitOps, ShadowExitOps, TriggeredOps, TimeoutOps, UnavailableOps, LiveExitOps
  <2>3. CASE h = "reject" BY <2>3 DEF Order, RejectOps
  <2> QED BY <2>1, <2>2, <2>3 DEF Plans
<1> QED BY <1>1 DEF Starts, Handle, OpShape

LEMMA IdleStarts == Starts(Idle)
BY DEF Starts, Idle, OpShape, Plans, Entries, Closers, Keepers

LEMMA EntryStarts ==
  ASSUME NEW p \in Signals, NEW f, NEW blocked
  PROVE  Starts(EntryPlan(p, f, blocked))
<1>1. {"entry", "live_entry", "reject"} \subseteq Plans \ {"none"}
  BY DEF Plans, Entries
<1>2. CASE EvaluateEntry(f) /\ ~blocked /\ LifecycleChecks(p)
  <2>1. Starts(Handle("live_entry", p, Quantity, 0, FALSE)) /\ Starts(Handle("entry", p, Quantity, 0, FALSE))
    BY <1>1, <1>2, HandleStarts DEF LifecycleChecks, Entries, Closers, Keepers
  <2> QED BY <1>2, <2>1 DEF EntryPlan
<1>3. CASE ~(EvaluateEntry(f) /\ ~blocked /\ LifecycleChecks(p))
  BY <1>1, <1>3, HandleStarts DEF EntryPlan, Entries, Closers, Keepers
<1> QED BY <1>2, <1>3

LEMMA ExitStarts ==
  ASSUME NEW p \in Active, NEW h \in Closers \cup Keepers, NEW u, NEW l, NEW e
  PROVE  Starts(Handle(h, p, u, l, e))
BY HandleStarts DEF Plans, Entries, Closers, Keepers, Active

LEMMA PartialStarts ==
  ASSUME NEW p \in Active, NEW half
  PROVE  Starts(PartialPlan(p, half))
BY ExitStarts, IdleStarts DEF PartialPlan, Keepers

LEMMA PaperStarts ==
  ASSUME NEW p \in Active, NEW q, NEW half
  PROVE  Starts(PaperPlan(p, q, half))
BY ExitStarts, IdleStarts, PartialStarts DEF PaperPlan, UnavailablePlan, Closers

LEMMA ShadowStarts ==
  ASSUME NEW p \in Active, NEW q, NEW half, NEW early
  PROVE  Starts(ShadowPlan(p, q, half, early))
BY ExitStarts, IdleStarts, PartialStarts DEF ShadowPlan, UnavailablePlan, Closers

LEMMA TimeoutStarts ==
  ASSUME NEW p \in Active, NEW q, NEW fallback
  PROVE  Starts(TimeoutPlan(p, q, fallback))
BY ExitStarts, IdleStarts DEF TimeoutPlan, Closers, Keepers

LEMMA TriggeredStarts ==
  ASSUME NEW p \in Active, NEW reason, NEW q, NEW half
  PROVE  Starts(TriggeredPlan(p, reason, q, half))
BY ExitStarts, IdleStarts, PartialStarts DEF TriggeredPlan, Closers

LEMMA LiveStarts ==
  ASSUME NEW p \in Active, NEW q
  PROVE  Starts(LivePlan(p, q))
BY ExitStarts, IdleStarts DEF LivePlan, Closers

\* The calls that read or write nothing but what a thread holds.
LEMMA QuietActions ==
  ASSUME PaperIInv, UNCHANGED <<ledgerVars, workers, op>>,
         UNCHANGED thread \/ (\E t \in Threads : \E v : v.pc # "quoting" /\ thread' = [thread EXCEPT ![t] = v])
  PROVE  PaperIInv'
<1>1. UNCHANGED Books BY DEF ledgerVars, durableVars, Books
<1>2. ThreadShape'
  <2>1. ThreadShape /\ "main" \in Threads BY DEF PaperIInv, Shapes, Threads
  <2>2. CASE UNCHANGED thread BY <2>1, <2>2 DEF ThreadShape
  <2>3. ASSUME NEW t \in Threads, NEW v, v.pc # "quoting", thread' = [thread EXCEPT ![t] = v]
        PROVE  ThreadShape'
    <3>1. thread'["main"] = v \/ thread'["main"] = thread["main"] BY <2>1, <2>3 DEF ThreadShape
    <3> QED BY <2>1, <2>3, <3>1 DEF ThreadShape
  <2> QED BY <2>2, <2>3
<1> QED BY <1>1, <1>2, Quiet

LEMMA EvaluateOp ==
  ASSUME PaperIInv, NEW p \in Signals, EvaluateObservation(p)
  PROVE  PaperIInv'
<1>1. UNCHANGED Books BY DEF EvaluateObservation, ledgerVars, durableVars, Books
<1>2. \/ UNCHANGED <<op, thread>>
      \/ Starts(op') /\ UNCHANGED thread
      \/ thread' = [thread EXCEPT !["main"] = Holding("quoting", p, NoRow, NoRule, NoRule)] /\ UNCHANGED op
  <2>1. PICK f \in EntryFeatures, blocked \in BOOLEAN :
          IF CandidateExists(p) THEN UNCHANGED <<op, thread>>
          ELSE IF chain = "bsc" THEN op' = EntryPlan(p, f, blocked) /\ UNCHANGED thread
          ELSE IF blocked \/ ~LocalEntryEligible(f)
            THEN op' = Handle("reject", p, 0, 0, FALSE) /\ UNCHANGED thread
          ELSE /\ thread' = [thread EXCEPT !["main"] = Holding("quoting", p, NoRow, NoRule, NoRule)]
               /\ UNCHANGED op
    BY DEF EvaluateObservation
  <2>2. Starts(Handle("reject", p, 0, 0, FALSE))
    BY HandleStarts DEF Plans, Entries, Closers, Keepers
  <2> QED BY <2>1, <2>2, EntryStarts
<1>3. ThreadShape'
  <2>1. DOMAIN thread = Threads /\ "main" \in Threads BY DEF PaperIInv, Shapes, ThreadShape, Threads
  <2>2. CASE UNCHANGED thread BY <2>2 DEF PaperIInv, Shapes, ThreadShape
  <2>3. CASE thread' = [thread EXCEPT !["main"] = Holding("quoting", p, NoRow, NoRule, NoRule)]
    <3>1. Holding("quoting", p, NoRow, NoRule, NoRule).p \in Signals BY DEF Holding
    <3> QED BY <2>1, <2>3, <3>1 DEF ThreadShape
  <2> QED BY <1>2, <2>2, <2>3
<1> QED BY <1>1, <1>2, <1>3, Quiet, Started

LEMMA EnterQuotedOp ==
  ASSUME PaperIInv, EnterQuoted
  PROVE  PaperIInv'
<1>1. UNCHANGED Books BY DEF EnterQuoted, ledgerVars, durableVars, Books
<1>2. Starts(op')
  <2>1. thread["main"].p \in Signals BY DEF EnterQuoted, PaperIInv, Shapes, ThreadShape
  <2> QED BY <2>1, EntryStarts DEF EnterQuoted
<1>3. ThreadShape' BY DEF EnterQuoted, PaperIInv, Shapes, ThreadShape, Resting, Threads
<1> QED BY <1>1, <1>2, <1>3, Started

LEMMA ProcessOp ==
  ASSUME PaperIInv, NEW t \in Threads, ProcessQueuedExit(t)
  PROVE  PaperIInv'
<1>1. UNCHANGED Books BY DEF ProcessQueuedExit, ledgerVars, durableVars, Books
<1>2. UNCHANGED op \/ Starts(op')
  <2> DEFINE p == thread[t].p
             row == thread[t].row
  <2>1. SUFFICES ASSUME NEW taken, op' \in ExitPlans(p, row, taken)
                 PROVE  Starts(op')
    BY DEF ProcessQueuedExit
  <2>2. CASE p \notin Active BY <2>1, <2>2, IdleStarts DEF ExitPlans
  <2>3. CASE p \in Active
    <3> HIDE DEF p, row
    <3>1. \/ \E q, fallback : op' = TimeoutPlan(p, q, fallback)
          \/ \E q, half : op' = PaperPlan(p, q, half)
          \/ \E q, half, early : op' = ShadowPlan(p, q, half, early)
      BY <2>1, <2>3 DEF ExitPlans
    <3> QED BY <2>3, <3>1, TimeoutStarts, PaperStarts, ShadowStarts
  <2> QED BY <2>2, <2>3
<1>3. ThreadShape' BY DEF ProcessQueuedExit, PaperIInv, Shapes, ThreadShape, Resting, Threads
<1> QED BY <1>1, <1>2, <1>3, Quiet, Started

LEMMA SettleOp ==
  ASSUME PaperIInv, SettleTriggered
  PROVE  PaperIInv'
<1>1. UNCHANGED Books BY DEF SettleTriggered, ledgerVars, durableVars, Books
<1>2. UNCHANGED op \/ Starts(op')
  <2> DEFINE v == thread["scheduler"]
  <2>1. UNCHANGED op \/ (v.p \in Active /\ \E q, half : op' = TriggeredPlan(v.p, v.reason, q, half))
    BY DEF SettleTriggered
  <2> HIDE DEF v
  <2> QED BY <2>1, TriggeredStarts
<1>3. ThreadShape' BY DEF SettleTriggered, PaperIInv, Shapes, ThreadShape, Resting, Dead, Threads
<1> QED BY <1>1, <1>2, <1>3, Quiet, Started

LEMMA CycleOp ==
  ASSUME PaperIInv, NEW p \in Signals, PositionCycle(p)
  PROVE  PaperIInv'
<1>1. UNCHANGED <<Books, thread>> BY DEF PositionCycle, Books, coordinatorVars
<1>2. UNCHANGED op \/ Starts(op')
  <2>1. p \in Active BY DEF PositionCycle
  <2>2. \/ \E q, half : op' = PaperPlan(p, q, half)
        \/ \E q, half, early : op' = ShadowPlan(p, q, half, early)
        \/ \E q : op' = LivePlan(p, q)
    BY DEF PositionCycle
  <2> QED BY <2>1, <2>2, PaperStarts, ShadowStarts, LiveStarts
<1>3. ThreadShape' BY <1>1 DEF PaperIInv, Shapes, ThreadShape
<1> QED BY <1>1, <1>2, <1>3, Quiet, Started

-----------------------------------------------------------------------------
(* The whole                                                               *)

LEMMA HandlerOps ==
  ASSUME PaperIInv, HandlerStep
  PROVE  PaperIInv'
<1>1. CASE EngineStep
  <2>1. UNCHANGED <<workers, thread>> BY <1>1 DEF EngineStep, coordinatorVars
  <2> QED BY <1>1, <2>1, PlainOps, TransitionOp, PartialOp, OpenOp, CloseOp
          DEF EngineStep, LedgerStep, ExecutorStep
<1> QED BY <1>1, FinalizeOp DEF HandlerStep

\* A restart reads memory back from the rows and forgets the handler.
LEMMA RestartOp ==
  ASSUME PaperIInv, Restart
  PROVE  PaperIInv'
<1>1. /\ UNCHANGED <<mintOf, rows>> /\ op' = Idle /\ snapshot' = saved'
      /\ thread' = [t \in Threads |-> Resting] /\ workers' = Resubmitted
  BY DEF Restart, Recover, RecoverSnapshots, EngineRecover
<1>2. PICK found \in SUBSET (Kinds \X Closed) : Recover(found) BY DEF Restart
<1>3. Active' = Active /\ Closed' = Closed BY <1>1 DEF Active, Closed
<1>4. /\ saved' \in [Kinds -> [Signals -> SnapshotStatuses]]
      /\ \A k \in Kinds, p \in Signals : saved'[k][p] # "none" => p \in Closed
  BY <1>2 DEF Recover, RecoverSnapshots, PaperIInv, Shapes, SnapshotShape, SnapshotsSound, SnapshotStatuses
<1>5. /\ workers' \in [Kinds -> [Signals -> WorkerStates]]
      /\ \A k \in Kinds, p \in Signals :
           p \in Closed /\ saved'[k][p] = "pending" => workers'[k][p] = "running"
  <2>1. \A k \in Kinds, p \in Signals : saved'[k][p] = "pending" => saved[k][p] = "pending"
    BY <1>2 DEF Recover, RecoverSnapshots
  <2> QED BY <1>1, <2>1 DEF Resubmitted, WorkerStates
<1>6. OpShape(op') /\ ThreadShape'
  <2>1. OpShape(Idle) BY DEF OpShape, Idle, Plans
  <2>2. Resting.pc = "idle" BY DEF Resting
  <2> QED BY <1>1, <2>1, <2>2 DEF ThreadShape, Threads
<1>7. Shapes' BY <1>1, <1>4, <1>5, <1>6 DEF PaperIInv, Shapes, SnapshotShape
<1>8. ~BeforeOpen(op') /\ ~BeforeClose(op') /\ ~AfterClose(op')
  BY <1>1 DEF Idle, BeforeOpen, BeforeClose, AfterClose, Entries, Closers, Keepers
<1>9. SlotKept' /\ TokenFree' /\ OneLifecyclePerMint' /\ ExitTarget'
  BY <1>1, <1>3, <1>8 DEF PaperIInv, SlotKept, TokenFree, OneLifecyclePerMint, ExitTarget
<1>10. SnapshotsSound'
  BY <1>1, <1>3, <1>4, <1>5 DEF SnapshotsSound
<1>11. SnapshotsDue' BY <1>1 DEF SnapshotsDue, Due, Idle
<1> QED BY <1>7, <1>9, <1>10, <1>11 DEF PaperIInv

LEMMA InitOp == Init => PaperIInv
<1> SUFFICES ASSUME Init PROVE PaperIInv OBVIOUS
<1>1. Active = {} /\ Closed = {}
  BY DEF Init, LedgerInit, Active, Closed, RowOf
<1>2. OpShape(Idle) /\ op = Idle BY DEF OpShape, Idle, Plans, Init, EngineInit
<1>3. ThreadShape
  <2>1. Resting.pc = "idle" BY DEF Resting
  <2> QED BY <2>1 DEF Init, ThreadShape, Threads
<1>4. SnapshotShape /\ \A k \in Kinds, p \in Signals : saved[k][p] = "none" /\ snapshot[k][p] = "none"
  BY DEF Init, LedgerInit, SnapshotShape, SnapshotStatuses, WorkerStates
<1>5. Shapes
  BY <1>2, <1>3, <1>4 DEF Shapes, Init, LedgerInit, RowShape, RowOf, Statuses
<1>6. ~BeforeOpen(op) /\ ~BeforeClose(op) /\ ~AfterClose(op)
  BY <1>2 DEF Idle, BeforeOpen, BeforeClose, AfterClose, Entries, Closers, Keepers
<1>7. SlotKept /\ TokenFree /\ ExitTarget
  <2>1. Cardinality(Active) = 0 BY <1>1, FS_EmptySet
  <2> QED BY <1>6, <2>1, LimitsAssumption DEF SlotKept, TokenFree, ExitTarget, LimitsAssumption
<1>8. OneLifecyclePerMint BY DEF Init, LedgerInit, RowOf, OneLifecyclePerMint
<1>9. SnapshotsSound /\ SnapshotsDue BY <1>4 DEF SnapshotsSound, SnapshotsDue, Due, OpShape, Kinds, Idle, Init, EngineInit
<1> QED BY <1>5, <1>7, <1>8, <1>9 DEF PaperIInv

LEMMA NextOps == PaperIInv /\ [Next]_vars => PaperIInv'
<1> SUFFICES ASSUME PaperIInv, [Next]_vars PROVE PaperIInv' OBVIOUS
<1>1. ASSUME NEW p \in Signals, DiscoverSignal(p) \/ FetchQuote(p) \/ FollowUp(p) \/ Age(p)
      PROVE  PaperIInv'
  <2>1. CASE DiscoverSignal(p) BY <2>1, QuietActions DEF DiscoverSignal, engineVars
  <2>2. CASE FetchQuote(p)
    <3>1. Holding("fetch", p, rows[p], NoRule, NoRule).pc # "quoting" BY DEF Holding
    <3> QED BY <2>2, <3>1, QuietActions DEF FetchQuote, engineVars, Threads
  <2>3. CASE FollowUp(p)
    <3>1. UNCHANGED <<Books, op, thread>>
      BY <2>3 DEF FollowUp, Books, coordinatorVars
    <3> QED BY <3>1, Quiet DEF PaperIInv, Shapes, ThreadShape
  <2>4. CASE Age(p) BY <2>4, QuietActions DEF Age, coordinatorVars
  <2> QED BY <1>1, <2>1, <2>2, <2>3, <2>4
<1>2. CASE StoreQuote
  <2>1. Resting.pc # "quoting" BY DEF Resting
  <2> QED BY <1>2, <2>1, QuietActions DEF StoreQuote, engineVars, Threads
<1>3. ASSUME NEW t \in Threads, NEW p \in Signals, ReadPosition(t, p) PROVE PaperIInv'
  <2>1. Holding("exit", p, rows[p], NoRule, NoRule).pc # "quoting" BY DEF Holding
  <2> QED BY <1>3, <2>1, QuietActions DEF ReadPosition, engineVars
<1>4. ASSUME NEW p \in Signals, NEW m \in Marks, ReadPriceEvent(p, m) PROVE PaperIInv'
  <2>1. Holding("tick", p, rows[p], m, NoRule).pc # "quoting" BY DEF Holding
  <2> QED BY <1>4, <2>1, QuietActions DEF ReadPriceEvent, engineVars, Threads
<1>5. CASE ObservePrice
  <2>1. PICK v : v.pc # "quoting" /\ thread' = [thread EXCEPT !["scheduler"] = v]
    <3>1. Dead.pc # "quoting" /\ Resting.pc # "quoting" BY DEF Dead, Resting
    <3>2. \A p, row, reason : Holding("settle", p, row, NoRule, reason).pc # "quoting" BY DEF Holding
    <3> QED BY <1>5, <3>1, <3>2 DEF ObservePrice
  <2> QED BY <1>5, <2>1, QuietActions DEF ObservePrice, engineVars, Threads
<1>6. CASE ChainStep BY <1>6, QuietActions DEF ChainStep, engineVars, coordinatorVars
<1>7. CASE UNCHANGED vars BY <1>7, QuietActions DEF vars, engineVars, coordinatorVars
<1> QED
  BY <1>1, <1>2, <1>3, <1>4, <1>5, <1>6, <1>7, EvaluateOp, EnterQuotedOp, ProcessOp, SettleOp, CycleOp,
     HandlerOps, BackfillOps, RestartOp DEF Next

\* Shapes, slots, tokens, exits and snapshots stay sound in every behaviour
\* of realtime.py with one engine.
THEOREM Invariance == Spec => []PaperIInv
BY InitOp, NextOps, PTL DEF Spec

\* max_open_positions is never exceeded: each entry commits its position
\* while the slot it was checked for is still free.
THEOREM Capacity == Spec => []CapacityRespected
<1>1. PaperIInv => CapacityRespected BY DEF PaperIInv, SlotKept, CapacityRespected
<1> QED BY <1>1, Invariance, PTL

\* one_trade_per_mint: two signals of a token never both have a position.
THEOREM OneLifecycle == Spec => []OneLifecyclePerMint
<1>1. PaperIInv => OneLifecyclePerMint BY DEF PaperIInv
<1> QED BY <1>1, Invariance, PTL

\* Every pending exit snapshot belongs to a closed position and has a worker
\* or a queued result, after restarts too.
THEOREM Pending == Spec => []PendingIsOwned
<1>1. PaperIInv => PendingIsOwned
  BY DEF PaperIInv, SnapshotsSound, PendingIsOwned
<1> QED BY <1>1, Invariance, PTL

\* What no step does to a closed position: its row changes, or a settled
\* snapshot in its row does.
Final(p) ==
  /\ rows'[p] = rows[p]
  /\ \A kind \in Kinds :
       saved[kind][p] \in {"completed", "unavailable"} => saved'[kind][p] = saved[kind][p]

LEMMA HandlersFinal ==
  ASSUME PaperIInv, HandlerStep, NEW p \in Closed
  PROVE  Final(p)
<1>1. /\ OpShape(op) /\ Active \cap Closed = {} /\ p \in Signals
      /\ DOMAIN rows = Signals
  BY Lifecycle DEF PaperIInv, Shapes
<1>2. CASE \E kind \in Kinds : FinalizeSnapshot(kind)
  <2>1. PICK kind \in Kinds : FinalizeSnapshot(kind) BY <1>2
  <2>2. ~LockFree /\ StepOf(op) = kind /\ UNCHANGED rows
    BY <2>1 DEF FinalizeSnapshot, At, StepOf
  <2>3. op.handler # "none" /\ op.p \in Signals BY <1>1, <2>2 DEF LockFree, OpShape
  <2>4. Due(op, kind) BY <1>1, <2>1, <2>2, <2>3, Places
  <2>5. saved[kind][op.p] = "none" /\ SnapshotShape
    BY <2>1, <2>4 DEF PaperIInv, SnapshotsDue, Shapes
  <2>6. UNCHANGED saved \/ \E s \in SnapshotStatuses : SetExitSnapshot(kind, op.p, s, TRUE)
    BY <2>1 DEF FinalizeSnapshot, SnapshotStatuses
  <2>7. \A k \in Kinds, q \in Signals : k # kind \/ q # op.p => saved'[k][q] = saved[k][q]
    <3>1. ASSUME NEW s \in SnapshotStatuses, SetExitSnapshot(kind, op.p, s, TRUE)
          PROVE  \A k \in Kinds, q \in Signals : k # kind \/ q # op.p => saved'[k][q] = saved[k][q]
      <4>1. saved' = [saved EXCEPT ![kind][op.p] = s] BY <3>1 DEF SetExitSnapshot
      <4> QED BY <2>3, <2>5, <4>1 DEF SnapshotShape
    <3> QED BY <2>6, <3>1
  <2> QED BY <1>1, <2>2, <2>5, <2>7 DEF Final
<1>3. CASE UNCHANGED <<rows, saved>> BY <1>3 DEF Final
<1>4. CASE EngineStep /\ rows' # rows
  <2>1. UNCHANGED saved /\ \A q \in Signals \ {op.p} : rows'[q] = rows[q]
    <3>1. CASE OpenStep BY <1>1, <3>1 DEF OpenStep, OpenPosition
    <3>2. CASE TransitionStep BY <1>1, <3>2 DEF TransitionStep, TransitionPosition
    <3>3. CASE PartialStep BY <1>1, <3>3 DEF PartialStep, RecordPartialTakeProfit
    <3>4. CASE CloseStep BY <1>1, <3>4 DEF CloseStep, ClosePosition
    <3> QED BY <1>4, <3>1, <3>2, <3>3, <3>4 DEF EngineStep, LedgerStep, ExecutorStep, CandidateStep,
          EntryRowStep, SaleRowStep, AttemptRowStep, CountStep, OutcomeStep, FollowupStep,
          BuyStep, ApproveStep, SellStep, SendStep, ReceiptStep, ledgerVars, durableVars
  <2>2. op.p # p
    <3>1. rows[op.p].status = "none" \/ op.p \in Active
      BY <1>4 DEF EngineStep, LedgerStep, ExecutorStep, OpenStep, TransitionStep, PartialStep, CloseStep,
          OpenPosition, TransitionPosition, RecordPartialTakeProfit, ClosePosition, CandidateStep,
          EntryRowStep, SaleRowStep, AttemptRowStep, CountStep, OutcomeStep, FollowupStep,
          BuyStep, ApproveStep, SellStep, SendStep, ReceiptStep, ledgerVars, durableVars
    <3> QED BY <1>1, <3>1 DEF Closed
  <2> QED BY <1>1, <2>1, <2>2 DEF Final
<1>5. EngineStep => UNCHANGED saved
  BY DEF EngineStep, LedgerStep, ExecutorStep, OpenStep, TransitionStep, PartialStep, CloseStep,
      CandidateStep, EntryRowStep, SaleRowStep, AttemptRowStep, CountStep, OutcomeStep, FollowupStep,
      BuyStep, ApproveStep, SellStep, SendStep, ReceiptStep, ledgerVars, durableVars
<1> QED BY <1>2, <1>3, <1>4, <1>5 DEF HandlerStep

LEMMA StepsFinal ==
  ASSUME PaperIInv, [Next]_vars, NEW p \in Closed
  PROVE  Final(p)
<1>1. CASE HandlerStep BY <1>1, HandlersFinal
<1>2. ASSUME NEW kind \in Kinds, NEW q \in Signals, DrainBackfill(kind, q) PROVE Final(p)
  <2>1. UNCHANGED rows /\ SnapshotShape /\ p \in Signals
    BY <1>2, Lifecycle DEF DrainBackfill, PaperIInv, Shapes
  <2>2. CASE UNCHANGED saved BY <2>1, <2>2 DEF Final
  <2>3. CASE saved' # saved
    <3>1. snapshot[kind][q] = "pending" BY <1>2, <2>3 DEF DrainBackfill
    <3>2. PICK s \in {"completed", "unavailable"}, c \in BOOLEAN : SetExitSnapshot(kind, q, s, c)
      BY <1>2, <2>3 DEF DrainBackfill
    <3>3. saved[kind][q] \notin {"completed", "unavailable"}
      BY <3>1 DEF PaperIInv, SnapshotsSound
    <3>4. \A k \in Kinds, x \in Signals : k # kind \/ x # q => saved'[k][x] = saved[k][x]
      <4>1. s \in SnapshotStatuses BY DEF SnapshotStatuses
      <4> QED BY <2>1, <3>2, <4>1, SnapshotSet
    <3> QED BY <2>1, <3>3, <3>4 DEF Final
  <2> QED BY <2>2, <2>3
<1>3. CASE Restart
  <2>1. PICK found \in SUBSET (Kinds \X Closed) : Recover(found) BY <1>3 DEF Restart
  <2>2. p \in Signals BY DEF Closed
  <2>3. \A k \in Kinds : saved[k][p] # "none" => saved'[k][p] = saved[k][p]
    BY <2>1, <2>2 DEF Recover, RecoverSnapshots
  <2> QED BY <2>1, <2>3 DEF Recover, Final
<1>4. CASE UNCHANGED <<rows, saved>> BY <1>4 DEF Final
<1>5. UNCHANGED vars => UNCHANGED <<rows, saved>> BY DEF vars, ledgerVars, durableVars
<1>6. \A q \in Signals : DiscoverSignal(q) \/ EvaluateObservation(q) \/ FetchQuote(q) \/ PositionCycle(q)
                         \/ FollowUp(q) \/ Age(q) => UNCHANGED <<rows, saved>>
  BY DEF DiscoverSignal, EvaluateObservation, FetchQuote, PositionCycle, FollowUp, Age, ledgerVars, durableVars
<1>7. EnterQuoted \/ StoreQuote \/ ObservePrice \/ SettleTriggered \/ ChainStep => UNCHANGED <<rows, saved>>
  BY DEF EnterQuoted, StoreQuote, ObservePrice, SettleTriggered, ChainStep, ledgerVars, durableVars
<1>8. \A t \in Threads, q \in Signals : ReadPosition(t, q) => UNCHANGED <<rows, saved>>
  BY DEF ReadPosition, ledgerVars, durableVars
<1>9. \A t \in Threads : ProcessQueuedExit(t) => UNCHANGED <<rows, saved>>
  BY DEF ProcessQueuedExit, ledgerVars, durableVars
<1>10. \A q \in Signals, m \in Marks : ReadPriceEvent(q, m) => UNCHANGED <<rows, saved>>
  BY DEF ReadPriceEvent, ledgerVars, durableVars
<1>11. \A k \in Kinds, q \in Signals : BackfillAnswer(k, q) => UNCHANGED <<rows, saved>>
  BY DEF BackfillAnswer, ledgerVars, durableVars
<1> QED BY <1>1, <1>2, <1>3, <1>4, <1>5, <1>6, <1>7, <1>8, <1>9, <1>10, <1>11 DEF Next

\* A closed position keeps its row and its settled snapshots whatever comes
\* late: quotes, price events, backfill results, restarts.
THEOREM Finality == Spec => ClosedIsFinal
<1>1. PaperIInv /\ [Next]_vars =>
        [\A p \in Closed :
           /\ rows'[p] = rows[p]
           /\ \A kind \in Kinds :
                saved[kind][p] \in {"completed", "unavailable"} => saved'[kind][p] = saved[kind][p]]_vars
  BY StepsFinal DEF Final
<1> QED BY <1>1, Invariance, PTL DEF Spec, ClosedIsFinal

-----------------------------------------------------------------------------
(* Units, exit rules and plans                                             *)

(* What is left of a position after so many take profits.                  *)
Share(stage) == IF stage = 0 THEN Quantity ELSE IF stage = 1 THEN Quantity \div 2 ELSE Quantity \div 4

\* The quantity halves twice.
LEMMA Shares ==
  /\ Quantity \in Nat /\ Quantity \div 2 \in Nat /\ Quantity \div 4 \in Nat
  /\ 2 * (Quantity \div 2) = Quantity /\ 2 * (Quantity \div 4) = Quantity \div 2
<1>1. Quantity \in Nat /\ Quantity % 4 = 0 BY QuantityAssumption DEF QuantityAssumption
<1> QED BY <1>1, SMT

LEMMA HalvesNat == Halves \subseteq Nat /\ 0 \in Halves
BY Shares DEF Halves

LEMMA HalfOfShare ==
  ASSUME NEW stage \in {0, 1}, NEW u \in Nat, 2 * u = Share(stage)
  PROVE  u \in Halves /\ u = Share(stage + 1)
BY Shares DEF Share, Halves

\* A rule that fires has the name and the conditions of one of the six.
LEMMA Reasons ==
  ASSUME NEW c, NEW stage, NEW mark, NEW a
  PROVE  /\ PaperExitReason(c, stage, mark, a) \in ReasonNames
         /\ PaperExitReason(c, stage, mark, a) \in DOMAIN TakeProfitStages => stage \in {0, 1}
<1> DEFINE rules == ExitRules(c, stage, mark, a)
           firing == {i \in DOMAIN rules : rules[i][2]}
           first == CHOOSE i \in firing : \A j \in firing : i <= j
<1>1. DOMAIN rules = 1..6 BY DEF ExitRules
<1>2. CASE firing = {} BY <1>2 DEF PaperExitReason, ReasonNames, NoRule, TakeProfitStages
<1>3. CASE firing # {}
  <2>1. firing \in SUBSET Nat BY <1>1
  <2>2. first \in firing BY <1>3, <2>1, Least
  <2>3. first \in 1..6 /\ rules[first][2] BY <1>1, <2>2
  <2>4. PaperExitReason(c, stage, mark, a) = rules[first][1] BY <1>3 DEF PaperExitReason
  <2>5. first \in {1, 2, 3, 4, 5, 6} BY <2>3
  <2> HIDE DEF first
  <2>6. /\ rules[1][1] = "stop_loss" /\ rules[2][1] = "tp2_breakeven_exit"
        /\ rules[3][1] = "take_profit_1" /\ rules[4][1] = "take_profit_2"
        /\ rules[5][1] = "take_profit" /\ rules[6][1] = "max_hold_timeout"
    BY DEF ExitRules
  <2>7. (rules[3][2] => stage = 0) /\ (rules[4][2] => stage = 1)
    BY Zenon DEF ExitRules
  <2> HIDE DEF rules
  <2>8. rules[first][1] \in ReasonNames BY <2>5, <2>6 DEF ReasonNames
  <2>9. rules[first][1] \in {"take_profit_1", "take_profit_2"} => stage \in {0, 1}
    BY <2>3, <2>5, <2>6, <2>7
  <2> QED BY <2>4, <2>8, <2>9 DEF TakeProfitStages
<1> QED BY <1>2, <1>3

-----------------------------------------------------------------------------
(* The types, and what they rest on                                        *)

(* A position that was halved is down to the share of its stage.           *)
Balanced == \A p \in Active : rows[p].units = Share(rows[p].stage)

HalfDue ==
  op.handler = "partial" /\ op.at = 1 => rows[op.p].stage < 2 /\ 2 * op.units = rows[op.p].units

(* Only Solana has work for the threads, only BSC a live mode.             *)
OnSolana ==
  /\ mode = "live" => chain = "bsc"
  /\ \A t \in Threads : thread[t].pc \notin {"idle", "dead"} => chain = "solana"

FiniteChain == IsFiniteSet(mempool) /\ IsFiniteSet(mined)

TypeIInv == TypeOK /\ Balanced /\ HalfDue /\ OnSolana /\ FiniteChain

-----------------------------------------------------------------------------
(* What the handlers that a call starts know                               *)

Begun(o) ==
  /\ o \in Handlers
  /\ o.handler # "none" => o.at = 1
  /\ o.handler = "partial" => rows[o.p].stage < 2 /\ 2 * o.units = rows[o.p].units
  /\ o.handler \in Entries => largeLosses < MaxLargeLosses
  /\ o.handler = "entry" => mode # "live"
  /\ o.handler = "live_entry" => mode = "live" /\ ~CandidateExists(o.p)
  /\ o.handler \in Closers /\ mode = "live" => o.handler = "live_exit"
  /\ o.handler = "live_exit" => mode = "live" /\ o.p \notin liveAttempted
  /\ o.handler = "shadow_exit" => mode = "shadow"

LEMMA IdleTyped == Idle.p \in Signals /\ Idle \in Handlers /\ NoRow \in Rows
<1>1. (CHOOSE p \in Signals : TRUE) \in Signals BY CoordinatorAssumption DEF CoordinatorAssumption
<1> QED BY <1>1, HalvesNat DEF Idle, Handlers, NoRow, RowOf, Rows, Statuses

LEMMA IdleBegun == Begun(Idle)
BY IdleTyped DEF Begun, Idle, Entries, Closers

LEMMA IdleHandler == Idle.handler = "none"
BY DEF Idle

LEMMA HandleTyped ==
  ASSUME NEW h \in DOMAIN Order, NEW p \in Signals, NEW u \in Halves, NEW l \in {0, 1}, NEW e \in BOOLEAN
  PROVE  /\ Handle(h, p, u, l, e) \in Handlers
         /\ Handle(h, p, u, l, e).handler = h /\ Handle(h, p, u, l, e).p = p
         /\ Handle(h, p, u, l, e).units = u /\ Handle(h, p, u, l, e).at = 1
BY DEF Handle, Handlers

LEMMA OrderDomain == DOMAIN Order = {"reject"} \cup Entries \cup Closers \cup Keepers
BY DEF Order, Entries, Closers, Keepers

LEMMA LossTyped ==
  ASSUME NEW p, NEW mark
  PROVE  LossOf(p, mark) \in {0, 1}
BY DEF LossOf

LEMMA OpenerBegun ==
  ASSUME NEW p \in Signals, NEW h \in {"reject"} \cup Entries, NEW u \in Halves, NEW l \in {0, 1},
         NEW e \in BOOLEAN,
         h \in Entries => largeLosses < MaxLargeLosses,
         h = "entry" => mode # "live", h = "live_entry" => mode = "live" /\ ~CandidateExists(p)
  PROVE  Begun(Handle(h, p, u, l, e))
<1>1. h \in DOMAIN Order BY OrderDomain
<1> QED BY <1>1, HandleTyped DEF Begun, Closers, Entries

LEMMA EntryBegun ==
  ASSUME NEW p \in Signals, NEW f, NEW blocked, mode = "live" => ~CandidateExists(p)
  PROVE  Begun(EntryPlan(p, f, blocked))
<1>1. Begun(Handle("reject", p, 0, 0, FALSE)) BY OpenerBegun, HalvesNat DEF Entries
<1>2. ASSUME LifecycleChecks(p)
      PROVE  /\ mode = "live" => Begun(Handle("live_entry", p, Quantity, 0, FALSE))
             /\ mode # "live" => Begun(Handle("entry", p, Quantity, 0, FALSE))
  <2>1. Quantity \in Halves BY DEF Halves
  <2> QED BY <1>2, <2>1, OpenerBegun DEF Entries, LifecycleChecks
<1> QED BY <1>1, <1>2 DEF EntryPlan

LEMMA HalfBegun ==
  ASSUME NEW p \in Active, NEW u \in Halves, NEW l \in {0, 1}, NEW e \in BOOLEAN,
         rows[p].stage \in {0, 1}, 2 * u = rows[p].units
  PROVE  Begun(Handle("partial", p, u, l, e))
<1>1. p \in Signals /\ "partial" \in DOMAIN Order BY OrderDomain DEF Active, Keepers
<1> QED BY <1>1, HandleTyped DEF Begun, Entries, Closers

LEMMA PartialBegun ==
  ASSUME TypeIInv, NEW p \in Active, NEW half, half.units \in Nat, rows[p].stage \in {0, 1}
  PROVE  Begun(PartialPlan(p, half))
<1>1. 2 * half.units = rows[p].units => half.units \in Halves BY HalfOfShare DEF TypeIInv, Balanced
<1>2. 2 * half.units = rows[p].units => Begun(Handle("partial", p, half.units, 0, FALSE))
  BY <1>1, HalfBegun
<1> QED BY <1>2, IdleBegun DEF PartialPlan

\* A take profit fires at a stage that has one.
LEMMA TakesProfit ==
  ASSUME NEW p, NEW q, ExitReason(p, q) \in DOMAIN TakeProfitStages
  PROVE  rows[p].stage \in {0, 1}
BY Reasons DEF ExitReason

\* A handler that closes its position, in a mode that has it.
LEMMA CloserBegun ==
  ASSUME NEW p \in Active, NEW h \in Closers \cup {"waiting"}, NEW u \in Halves, NEW l \in {0, 1},
         NEW e \in BOOLEAN,
         IF h = "live_exit" THEN mode = "live" /\ p \notin liveAttempted ELSE mode # "live",
         h = "shadow_exit" => mode = "shadow"
  PROVE  Begun(Handle(h, p, u, l, e))
<1>1. h \in DOMAIN Order /\ p \in Signals BY OrderDomain DEF Active, Keepers
<1> QED BY <1>1, HandleTyped DEF Begun, Closers, Entries

LEMMA RowUnits ==
  ASSUME TypeIInv, NEW p \in Active
  PROVE  rows[p].units \in Halves
BY DEF TypeIInv, TypeOK, Active, Rows

LEMMA PaperBegun ==
  ASSUME TypeIInv, NEW p \in Active, NEW q, NEW half, half.units \in Nat, mode = "paper"
  PROVE  Begun(PaperPlan(p, q, half))
<1>1. Begun(UnavailablePlan(p)) BY CloserBegun, HalvesNat DEF UnavailablePlan, Closers
<1>2. ValidSellQuote(q, rows[p].units) => Begun(Handle("paper_exit", p, q.units, LossOf(p, q.mark), FALSE))
  BY CloserBegun, RowUnits, LossTyped DEF ValidSellQuote, Closers
<1> QED BY <1>1, <1>2, IdleBegun, PartialBegun, TakesProfit DEF PaperPlan

LEMMA ShadowBegun ==
  ASSUME TypeIInv, NEW p \in Active, NEW q, NEW half, half.units \in Nat, NEW early, mode = "shadow"
  PROVE  Begun(ShadowPlan(p, q, half, early))
<1>1. Begun(UnavailablePlan(p)) BY CloserBegun, HalvesNat DEF UnavailablePlan, Closers
<1>2. ValidSellQuote(q, rows[p].units) =>
        Begun(Handle("shadow_exit", p, q.units, LossOf(p, q.mark), early = "followed"))
  BY CloserBegun, RowUnits, LossTyped DEF ValidSellQuote, Closers
<1> QED BY <1>1, <1>2, IdleBegun, PartialBegun, TakesProfit DEF ShadowPlan

LEMMA TimeoutBegun ==
  ASSUME TypeIInv, NEW p \in Active, NEW q, NEW fallback, mode # "live"
  PROVE  Begun(TimeoutPlan(p, q, fallback))
<1>1. Begun(Handle("waiting", p, 0, 0, FALSE)) /\ Begun(Handle("timeout", p, 0, 0, FALSE))
  BY CloserBegun, HalvesNat DEF Closers
<1>2. \A x : ValidSellQuote(x, rows[p].units) => Begun(Handle("timeout", p, x.units, LossOf(p, x.mark), FALSE))
  BY CloserBegun, RowUnits, LossTyped DEF ValidSellQuote, Closers
<1> QED BY <1>1, <1>2, IdleBegun DEF TimeoutPlan

LEMMA TriggeredBegun ==
  ASSUME TypeIInv, NEW p \in Active, NEW reason, NEW q, q.units \in Halves, NEW half, half.units \in Nat,
         mode # "live"
  PROVE  Begun(TriggeredPlan(p, reason, q, half))
<1>1. Begun(Handle("triggered", p, q.units, LossOf(p, q.mark), FALSE))
  BY CloserBegun, LossTyped DEF Closers
<1> QED BY <1>1, IdleBegun, PartialBegun, TakesProfit DEF TriggeredPlan

LEMMA LiveBegun ==
  ASSUME TypeIInv, NEW p \in Active, NEW q, mode = "live"
  PROVE  Begun(LivePlan(p, q)) /\ (LivePlan(p, q) # Idle => LivePlan(p, q).handler = "live_exit" /\ LivePlan(p, q).p = p)
<1>1. ValidSellQuote(q, rows[p].units) /\ p \notin liveAttempted =>
        Begun(Handle("live_exit", p, q.units, LossOf(p, q.mark), FALSE))
  BY CloserBegun, RowUnits, LossTyped DEF ValidSellQuote, Closers
<1> QED BY <1>1, IdleBegun DEF LivePlan, Handle

-----------------------------------------------------------------------------
(* The types one by one                                                    *)

BookTypes ==
  /\ candidates \in [Signals -> {"none", "ACCEPTED", "REJECTED"}]
  /\ rows \in [Signals -> Rows]
  /\ lastMark \in [Signals -> LastMarks]
  /\ entries \subseteq Signals /\ attempts \subseteq Signals
  /\ sales \in [Signals -> [sold : Nat, exits : Nat, large : Nat]]
  /\ outcomes \in [Signals -> {"none", "initial", "complete"}]
  /\ largeLosses \in Nat

EngineTypes ==
  /\ chain \in {"solana", "bsc"} /\ mode \in {"paper", "shadow", "live"}
  /\ mode = "live" => chain = "bsc"
  /\ age \in [Signals -> Ages]
  /\ op \in Handlers
  /\ liveAttempted \subseteq Signals /\ followups \subseteq Signals
  /\ calls \in [buy : [Signals -> Nat], sell : [Signals -> Nat]]

ChainTypes ==
  /\ mempool \subseteq Txs /\ mined \subseteq [tx : Txs, ok : BOOLEAN]
  /\ FiniteChain

ExecutorTypes == signed \in [tx : Txs, offers : Nat] /\ ChainTypes

ThreadStates == [pc : {"idle", "dead", "quoting", "fetch", "exit", "tick", "settle"},
                 p : Signals, row : Rows, mark : LastMarks, reason : ReasonNames]

ThreadTypes ==
  /\ thread \in [Threads -> ThreadStates]
  /\ \A t \in Threads : thread[t].pc \notin {"idle", "dead"} => chain = "solana"

QuoteTypes == DOMAIN quotes \subseteq Signals /\ \A p \in DOMAIN quotes : quotes[p] \in Quotes

QueueTypes ==
  /\ pending \subseteq Signals /\ excluded \subseteq Mints
  /\ finished \in [Kinds -> SUBSET Signals]
  /\ restarts \in 0..MaxRestarts

AllTypes ==
  /\ BookTypes /\ EngineTypes /\ ExecutorTypes /\ ThreadTypes /\ QuoteTypes /\ QueueTypes

LEMMA Parts ==
  ASSUME PaperIInv, TypeIInv
  PROVE  AllTypes /\ Balanced /\ HalfDue
BY DEF AllTypes, BookTypes, EngineTypes, ExecutorTypes, ChainTypes, ThreadTypes, ThreadStates, QuoteTypes,
       QueueTypes, TypeOK, OnSolana, TypeIInv

LEMMA Joined ==
  ASSUME PaperIInv', AllTypes', Balanced', HalfDue'
  PROVE  TypeIInv'
<1>1. /\ LockFree' \/ op'.at \in DOMAIN Order[op'.handler]
      /\ mintOf' \in [Signals -> Mints]
      /\ saved' \in [Kinds -> [Signals -> SnapshotStatuses]]
      /\ snapshot' \in [Kinds -> [Signals -> SnapshotStatuses]]
      /\ workers' \in [Kinds -> [Signals -> {"idle", "running", "success", "failure"}]]
  BY DEF PaperIInv, Shapes, OpShape, LockFree, SnapshotShape, WorkerStates
<1> QED
  BY <1>1 DEF AllTypes, BookTypes, EngineTypes, ExecutorTypes, ChainTypes, ThreadTypes, ThreadStates, QuoteTypes,
     QueueTypes, TypeOK, OnSolana, TypeIInv

-----------------------------------------------------------------------------
(* The threads and their quotes                                            *)

LEMMA HeldTyped ==
  ASSUME NEW pc \in {"idle", "dead", "quoting", "fetch", "exit", "tick", "settle"}, NEW p \in Signals,
         NEW row \in Rows, NEW mark \in LastMarks, NEW reason \in ReasonNames
  PROVE  Holding(pc, p, row, mark, reason) \in ThreadStates /\ Holding(pc, p, row, mark, reason).pc = pc
BY DEF Holding, ThreadStates

LEMMA IdlersTyped ==
  Resting \in ThreadStates /\ Dead \in ThreadStates /\ Resting.pc = "idle" /\ Dead.pc = "dead"
<1>1. NoRule \in LastMarks /\ NoRule \in ReasonNames BY DEF LastMarks, ReasonNames
<1> QED BY <1>1, IdleTyped DEF Resting, Dead, ThreadStates

\* A thread goes on to a state of its own.
LEMMA ThreadSet ==
  ASSUME ThreadTypes, NEW t \in Threads, NEW v \in ThreadStates, v.pc \notin {"idle", "dead"} => chain = "solana",
         thread' = [thread EXCEPT ![t] = v], UNCHANGED chain
  PROVE  ThreadTypes'
BY DEF ThreadTypes

LEMMA QuoteShapes ==
  ASSUME NEW units \in Halves, NEW q \in QuotesFor(units)
  PROVE  q \in Quotes /\ q.units \in Halves
<1>1. NoQuote \in Quotes /\ NoQuote.units \in Halves
  BY HalvesNat DEF NoQuote, Quotes, AllMarks
<1>2. ASSUME NEW m \in Marks, NEW u \in BOOLEAN, q = [units |-> units, mark |-> m, usable |-> u]
      PROVE  q \in Quotes /\ q.units \in Halves
  BY <1>2, MarksAssumption DEF Quotes, MarksAssumption
<1> QED BY <1>1, <1>2 DEF QuotesFor

LEMMA AgedShapes ==
  ASSUME NEW q \in Quotes, NEW x \in Aged(q)
  PROVE  x \in Quotes
BY DEF Aged, Quotes

LEMMA HalfUnits ==
  ASSUME NEW p, NEW row \in Rows, NEW q \in Quotes, NEW half \in HalfQuotes(p, row, q)
  PROVE  half.units \in Nat
<1>1. row.units \in Nat BY HalvesNat DEF Rows
<1>2. NoQuote.units \in Nat /\ [q EXCEPT !.units = row.units \div 2].units = row.units \div 2
  BY DEF NoQuote, Quotes
<1>3. row.units \div 2 \in Nat BY <1>1
<1> QED BY <1>2, <1>3 DEF HalfQuotes

-----------------------------------------------------------------------------
(* The steps, by what they touch                                           *)

Account == <<mintOf, candidates, rows, attempts, sales, largeLosses, chain, mode, calls>>

Pauses == UNCHANGED <<Account, executorVars, restarts, op, liveAttempted>>

Begins ==
  /\ LockFree /\ Begun(op')
  /\ liveAttempted' = liveAttempted \cup (IF op'.handler = "live_exit" THEN {op'.p} ELSE {})
  /\ UNCHANGED <<Account, executorVars, restarts>>

(* What the calls that may start a handler do.                             *)
Calls ==
  /\ Pauses \/ Begins
  /\ UNCHANGED <<calls, entries, outcomes, age, followups>>

\* What such a call leaves the types to be shown of.
LEMMA CallTypes ==
  ASSUME PaperIInv, PaperIInv', TypeIInv, Calls, lastMark' \in [Signals -> LastMarks],
         ThreadTypes', QuoteTypes', QueueTypes'
  PROVE  TypeIInv'
<1>1. AllTypes /\ Balanced /\ HalfDue BY Parts
<1>2. CASE Pauses
  <2>1. AllTypes'
    BY <1>1, <1>2 DEF Calls, Pauses, Account, AllTypes, BookTypes, EngineTypes, ExecutorTypes, ChainTypes,
       FiniteChain, executorVars
  <2>2. Balanced' /\ HalfDue' BY <1>1, <1>2 DEF Pauses, Account, Balanced, HalfDue, Active
  <2> QED BY <2>1, <2>2, Joined
<1>3. CASE Begins
  <2>1. AllTypes'
    BY <1>1, <1>3 DEF Calls, Begins, Begun, Handlers, Account, AllTypes, BookTypes, EngineTypes, ExecutorTypes,
       ChainTypes, FiniteChain, executorVars
  <2>2. Balanced' /\ HalfDue' BY <1>1, <1>3 DEF Begins, Begun, Account, Balanced, HalfDue, Active
  <2> QED BY <2>1, <2>2, Joined
<1> QED BY <1>2, <1>3 DEF Calls

LEMMA EvaluateTypes ==
  ASSUME PaperIInv, TypeIInv, NEW p \in Signals, EvaluateObservation(p)
  PROVE  Calls /\ (PaperIInv' => TypeIInv')
<1>1. AllTypes BY Parts
<1>2. PICK f \in EntryFeatures, blocked \in BOOLEAN :
        IF CandidateExists(p) THEN UNCHANGED <<op, thread>>
        ELSE IF chain = "bsc" THEN op' = EntryPlan(p, f, blocked) /\ UNCHANGED thread
        ELSE IF blocked \/ ~LocalEntryEligible(f)
          THEN op' = Handle("reject", p, 0, 0, FALSE) /\ UNCHANGED thread
        ELSE /\ thread' = [thread EXCEPT !["main"] = Holding("quoting", p, NoRow, NoRule, NoRule)]
             /\ UNCHANGED op
  BY DEF EvaluateObservation
<1>3. /\ LockFree /\ UNCHANGED <<Account, executorVars, restarts, liveAttempted, entries, outcomes, age, followups,
                                  lastMark, quotes, excluded, finished>>
      /\ pending' = pending \ {p}
  BY DEF EvaluateObservation, ledgerVars, durableVars, Account
<1>4. UNCHANGED op \/ (Begun(op') /\ op'.handler # "live_exit")
  <2>1. Begun(Handle("reject", p, 0, 0, FALSE)) /\ Handle("reject", p, 0, 0, FALSE).handler # "live_exit"
    BY OpenerBegun, HalvesNat DEF Entries, Handle
  <2>2. ~CandidateExists(p) => Begun(EntryPlan(p, f, blocked)) /\ EntryPlan(p, f, blocked).handler # "live_exit"
    BY EntryBegun DEF EntryPlan, Handle
  <2> QED BY <1>2, <2>1, <2>2
<1>5. Calls BY <1>3, <1>4 DEF Calls, Pauses, Begins, Account
<1>6. ThreadTypes'
  <2>1. ThreadTypes /\ UNCHANGED chain BY <1>1, <1>3 DEF AllTypes, Account
  <2>2. CASE UNCHANGED thread BY <2>1, <2>2 DEF ThreadTypes
  <2>3. CASE chain # "bsc" /\ thread' = [thread EXCEPT !["main"] = Holding("quoting", p, NoRow, NoRule, NoRule)]
    <3>1. chain = "solana" BY <1>1, <2>3 DEF AllTypes, EngineTypes
    <3>2. Holding("quoting", p, NoRow, NoRule, NoRule) \in ThreadStates
      BY HeldTyped, IdleTyped DEF LastMarks, ReasonNames
    <3> QED BY <2>1, <2>3, <3>1, <3>2, ThreadSet DEF Threads
  <2> QED BY <1>2, <2>2, <2>3
<1>7. lastMark' \in [Signals -> LastMarks] /\ QuoteTypes' /\ QueueTypes'
  BY <1>1, <1>3 DEF AllTypes, BookTypes, QuoteTypes, QueueTypes
<1> QED BY <1>5, <1>6, <1>7, CallTypes

LEMMA EnterTypes ==
  ASSUME PaperIInv, TypeIInv, EnterQuoted
  PROVE  Calls /\ (PaperIInv' => TypeIInv')
<1>1. AllTypes BY Parts
<1>2. /\ LockFree /\ UNCHANGED <<Account, executorVars, restarts, liveAttempted, entries, outcomes, age, followups,
                                  lastMark, quotes, excluded, finished, pending>>
      /\ thread' = [thread EXCEPT !["main"] = Resting]
  BY DEF EnterQuoted, ledgerVars, durableVars, Account
<1>3. Begun(op') /\ op'.handler # "live_exit"
  <2>1. thread["main"].p \in Signals /\ mode # "live"
    BY <1>1 DEF EnterQuoted, AllTypes, ThreadTypes, ThreadStates, EngineTypes, Threads
  <2>2. PICK f, blocked : op' = EntryPlan(thread["main"].p, f, blocked)
    BY DEF EnterQuoted
  <2> QED BY <2>1, <2>2, EntryBegun DEF EntryPlan, Handle
<1>4. Calls BY <1>2, <1>3 DEF Calls, Begins, Account
<1>5. ThreadTypes' BY <1>1, <1>2, IdlersTyped, ThreadSet DEF AllTypes, Threads, Account
<1>6. lastMark' \in [Signals -> LastMarks] /\ QuoteTypes' /\ QueueTypes'
  BY <1>1, <1>2 DEF AllTypes, BookTypes, QuoteTypes, QueueTypes
<1> QED BY <1>4, <1>5, <1>6, CallTypes

LEMMA ProcessTypes ==
  ASSUME PaperIInv, TypeIInv, NEW t \in Threads, ProcessQueuedExit(t)
  PROVE  Calls /\ (PaperIInv' => TypeIInv')
<1> DEFINE p == thread[t].p
           row == thread[t].row
           known == IF p \in DOMAIN quotes THEN Aged(quotes[p]) ELSE QuotesFor(row.units)
<1>1. AllTypes BY Parts
<1>2. /\ LockFree /\ UNCHANGED <<Account, executorVars, restarts, liveAttempted, entries, outcomes, age, followups,
                                  lastMark, excluded, finished, pending>>
      /\ thread' = [thread EXCEPT ![t] = Resting]
      /\ UNCHANGED <<op, quotes>> \/ /\ op' \in ExitPlans(p, row, known)
                                     /\ quotes' = [x \in DOMAIN quotes \ {p} |-> quotes[x]]
  BY DEF ProcessQueuedExit, ledgerVars, durableVars, Account
<1>3. p \in Signals /\ row \in Rows /\ row.units \in Halves /\ mode # "live"
  BY <1>1 DEF ProcessQueuedExit, AllTypes, ThreadTypes, ThreadStates, EngineTypes, Rows
<1>4. \A q \in known : q \in Quotes BY <1>1, <1>3, AgedShapes, QuoteShapes DEF AllTypes, QuoteTypes
<1> HIDE DEF p, row, known
<1>5. op' \in ExitPlans(p, row, known) => Begun(op') /\ op'.handler # "live_exit"
  <2> SUFFICES ASSUME op' \in ExitPlans(p, row, known)
               PROVE  Begun(op') /\ op'.handler # "live_exit"
    OBVIOUS
  <2>1. CASE p \notin Active BY <2>1, IdleBegun, IdleHandler DEF ExitPlans
  <2>2. CASE p \in Active
    <3>1. ASSUME NEW q, NEW fallback, op' = TimeoutPlan(p, q, fallback)
          PROVE  Begun(op') /\ op'.handler # "live_exit"
      BY <1>3, <2>2, <3>1, TimeoutBegun, IdleHandler DEF TimeoutPlan, Handle
    <3>2. ASSUME NEW q \in known, NEW half \in HalfQuotes(p, row, q), mode = "paper", op' = PaperPlan(p, q, half)
          PROVE  Begun(op') /\ op'.handler # "live_exit"
      <4>1. half.units \in Nat BY <1>3, <1>4, HalfUnits
      <4> QED BY <2>2, <3>2, <4>1, PaperBegun, IdleHandler DEF PaperPlan, PartialPlan, UnavailablePlan, Handle
    <3>3. ASSUME NEW q \in known, NEW half \in HalfQuotes(p, row, q), NEW early, mode # "paper",
                 op' = ShadowPlan(p, q, half, early)
          PROVE  Begun(op') /\ op'.handler # "live_exit"
      <4>1. half.units \in Nat BY <1>3, <1>4, HalfUnits
      <4>2. mode = "shadow" BY <1>1, <1>3, <3>3 DEF AllTypes, EngineTypes
      <4> QED BY <2>2, <3>3, <4>1, <4>2, ShadowBegun, IdleHandler DEF ShadowPlan, PartialPlan, UnavailablePlan, Handle
    <3>4. \/ \E q, fallback : op' = TimeoutPlan(p, q, fallback)
          \/ mode = "paper" /\ \E q \in known : \E half \in HalfQuotes(p, row, q) : op' = PaperPlan(p, q, half)
          \/ mode # "paper" /\ \E q \in known : \E half \in HalfQuotes(p, row, q) : \E early :
                                 op' = ShadowPlan(p, q, half, early)
      BY <2>2 DEF ExitPlans
    <3> QED BY <3>1, <3>2, <3>3, <3>4
  <2> QED BY <2>1, <2>2
<1>6. Calls BY <1>2, <1>5 DEF Calls, Pauses, Begins, Account
<1>7. ThreadTypes' BY <1>1, <1>2, IdlersTyped, ThreadSet DEF AllTypes, Account
<1>8. lastMark' \in [Signals -> LastMarks] /\ QuoteTypes' /\ QueueTypes'
  BY <1>1, <1>2 DEF AllTypes, BookTypes, QuoteTypes, QueueTypes
<1> QED BY <1>6, <1>7, <1>8, CallTypes

LEMMA SettleTypes ==
  ASSUME PaperIInv, TypeIInv, SettleTriggered
  PROVE  Calls /\ (PaperIInv' => TypeIInv')
<1> DEFINE v == thread["scheduler"]
<1>1. AllTypes BY Parts
<1>2. /\ LockFree /\ UNCHANGED <<Account, executorVars, restarts, liveAttempted, entries, outcomes, age, followups,
                                  lastMark, excluded, finished, pending, quotes>>
      /\ \E x \in {Resting, Dead} : thread' = [thread EXCEPT !["scheduler"] = x]
  BY DEF SettleTriggered, ledgerVars, durableVars, Account
<1>3. v.row.units \in Halves /\ mode # "live"
  BY <1>1 DEF SettleTriggered, AllTypes, ThreadTypes, ThreadStates, EngineTypes, Rows, Threads
<1>4. UNCHANGED op \/ (Begun(op') /\ op'.handler # "live_exit")
  <2> SUFFICES ASSUME op' # op PROVE Begun(op') /\ op'.handler # "live_exit" OBVIOUS
  <2>1. v.p \in Active BY DEF SettleTriggered
  <2>2. PICK m \in Marks, half \in QuotesFor(v.row.units \div 2) :
          op' = TriggeredPlan(v.p, v.reason, [units |-> v.row.units, mark |-> m, usable |-> TRUE], half)
    BY DEF SettleTriggered
  <2>3. half.units \in Nat
    <3> HIDE DEF v
    <3>0. v.row.units \in Nat BY <1>3, HalvesNat
    <3>1. v.row.units \div 2 \in Nat BY <3>0
    <3> QED BY <3>1 DEF QuotesFor, NoQuote
  <2> DEFINE q == [units |-> v.row.units, mark |-> m, usable |-> TRUE]
  <2>4. q.units \in Halves BY <1>3
  <2> HIDE DEF v, q
  <2> QED BY <1>3, <2>1, <2>2, <2>3, <2>4, TriggeredBegun, IdleHandler DEF TriggeredPlan, PartialPlan, Handle, q
<1>5. Calls BY <1>2, <1>4 DEF Calls, Pauses, Begins, Account
<1>6. ThreadTypes' BY <1>1, <1>2, IdlersTyped, ThreadSet DEF AllTypes, Threads, Account
<1>7. lastMark' \in [Signals -> LastMarks] /\ QuoteTypes' /\ QueueTypes'
  BY <1>1, <1>2 DEF AllTypes, BookTypes, QuoteTypes, QueueTypes
<1> QED BY <1>5, <1>6, <1>7, CallTypes

LEMMA CycleTypes ==
  ASSUME PaperIInv, TypeIInv, NEW p \in Signals, PositionCycle(p)
  PROVE  Calls /\ (PaperIInv' => TypeIInv')
<1>1. AllTypes BY Parts
<1>2. /\ LockFree /\ p \in Active
      /\ UNCHANGED <<Account, executorVars, restarts, entries, outcomes, age, followups,
                     excluded, finished, pending, quotes, thread>>
  BY DEF PositionCycle, Account, coordinatorVars
<1>3. PICK q \in QuotesFor(rows[p].units) :
        /\ Observe(p, q)
        /\ \/ /\ mode = "paper"
              /\ op' = PaperPlan(p, q, NoQuote) /\ UNCHANGED liveAttempted
           \/ /\ mode = "shadow"
              /\ \E early \in {"none", "plain", "followed"} :
                   op' = ShadowPlan(p, q, NoQuote, early)
              /\ UNCHANGED liveAttempted
           \/ /\ mode = "live"
              /\ op' = LivePlan(p, q)
              /\ liveAttempted' = liveAttempted \cup (IF op' = Idle THEN {} ELSE {p})
  BY DEF PositionCycle
<1>4. NoQuote.units \in Nat BY DEF NoQuote
<1>5. Begun(op') /\ liveAttempted' = liveAttempted \cup (IF op'.handler = "live_exit" THEN {op'.p} ELSE {})
  <2>1. CASE mode = "paper"
    <3>1. Begun(op') BY <1>2, <1>3, <1>4, <2>1, PaperBegun
    <3>2. op'.handler # "live_exit" /\ UNCHANGED liveAttempted
      BY <1>3, <2>1, IdleHandler DEF PaperPlan, PartialPlan, UnavailablePlan, Handle
    <3> QED BY <3>1, <3>2
  <2>2. CASE mode = "shadow"
    <3>1. Begun(op') BY <1>2, <1>3, <1>4, <2>2, ShadowBegun
    <3>2. op'.handler # "live_exit" /\ UNCHANGED liveAttempted
      BY <1>3, <2>2, IdleHandler DEF ShadowPlan, PartialPlan, UnavailablePlan, Handle
    <3> QED BY <3>1, <3>2
  <2>3. CASE mode = "live"
    <3>1. Idle.handler # "live_exit" BY DEF Idle
    <3> QED BY <1>2, <1>3, <2>3, <3>1, LiveBegun
  <2> QED BY <1>1, <2>1, <2>2, <2>3 DEF AllTypes, EngineTypes
<1>6. Calls BY <1>2, <1>5 DEF Calls, Begins, Account
<1>7. lastMark' \in [Signals -> LastMarks]
  <2>1. q.mark \in LastMarks \/ ~q.usable BY DEF QuotesFor, LastMarks, NoQuote
  <2> QED BY <1>1, <1>3, <2>1 DEF Observe, ValidSellQuote, AllTypes, BookTypes
<1>8. ThreadTypes' /\ QuoteTypes' /\ QueueTypes'
  BY <1>1, <1>2 DEF AllTypes, ThreadTypes, QuoteTypes, QueueTypes, Account
<1> QED BY <1>6, <1>7, <1>8, CallTypes

-----------------------------------------------------------------------------
(* The calls that start nothing                                            *)

LEMMA DiscoverTypes ==
  ASSUME PaperIInv, TypeIInv, NEW p \in Signals, DiscoverSignal(p)
  PROVE  Calls /\ (PaperIInv' => TypeIInv')
<1>1. AllTypes BY Parts
<1>2. Calls /\ UNCHANGED lastMark
  BY DEF DiscoverSignal, Calls, Pauses, Account, ledgerVars, durableVars, engineVars
<1>3. ThreadTypes' /\ QuoteTypes' /\ QueueTypes'
  BY <1>1 DEF DiscoverSignal, AllTypes, ThreadTypes, QuoteTypes, QueueTypes, engineVars
<1> QED BY <1>1, <1>2, <1>3, CallTypes DEF AllTypes, BookTypes

\* A thread that is free for it reads a position that is active.
LEMMA ReadTypes ==
  ASSUME PaperIInv, TypeIInv, NEW p \in Signals,
         \/ FetchQuote(p)
         \/ \E t \in Threads : ReadPosition(t, p)
         \/ \E m \in Marks : ReadPriceEvent(p, m)
  PROVE  Calls /\ (PaperIInv' => TypeIInv')
<1>1. AllTypes BY Parts
<1>2. Calls /\ UNCHANGED <<lastMark, quotes, pending, excluded, finished, restarts, chain>> /\ chain = "solana"
  BY DEF FetchQuote, ReadPosition, ReadPriceEvent, Calls, Pauses, Account, ledgerVars, durableVars, engineVars
<1>3. PICK s \in Threads, pc \in {"fetch", "exit", "tick"}, mark \in LastMarks :
        thread' = [thread EXCEPT ![s] = Holding(pc, p, rows[p], mark, NoRule)]
  BY DEF FetchQuote, ReadPosition, ReadPriceEvent, Threads, LastMarks
<1>4. Holding(pc, p, rows[p], mark, NoRule) \in ThreadStates
  BY <1>1, HeldTyped DEF AllTypes, BookTypes, ReasonNames
<1>5. ThreadTypes' BY <1>1, <1>2, <1>3, <1>4, ThreadSet DEF AllTypes
<1>6. QuoteTypes' /\ QueueTypes' BY <1>1, <1>2 DEF AllTypes, QuoteTypes, QueueTypes
<1> QED BY <1>1, <1>2, <1>5, <1>6, CallTypes DEF AllTypes, BookTypes

LEMMA StoreTypes ==
  ASSUME PaperIInv, TypeIInv, StoreQuote
  PROVE  Calls /\ (PaperIInv' => TypeIInv')
<1> DEFINE v == thread["scheduler"]
<1>1. AllTypes BY Parts
<1>2. Calls /\ UNCHANGED <<lastMark, pending, excluded, finished, restarts, chain>>
      /\ thread' = [thread EXCEPT !["scheduler"] = Resting]
  BY DEF StoreQuote, Calls, Pauses, Account, ledgerVars, durableVars, engineVars
<1>3. v.p \in Signals /\ v.row.units \in Halves
  BY <1>1 DEF AllTypes, ThreadTypes, ThreadStates, Rows, Threads
<1>4. PICK q \in QuotesFor(v.row.units) :
        quotes' = [p \in DOMAIN quotes \cup {v.p} |-> IF p = v.p THEN q ELSE quotes[p]]
  BY DEF StoreQuote
<1>5. q \in Quotes BY <1>3, QuoteShapes
<1>6. QuoteTypes'
  <2> HIDE DEF v
  <2> QED BY <1>1, <1>3, <1>4, <1>5 DEF AllTypes, QuoteTypes
<1>7. ThreadTypes' BY <1>1, <1>2, IdlersTyped, ThreadSet DEF AllTypes, Threads
<1>8. QueueTypes' BY <1>1, <1>2 DEF AllTypes, QueueTypes
<1> QED BY <1>1, <1>2, <1>6, <1>7, <1>8, CallTypes DEF AllTypes, BookTypes

LEMMA ObserveTypes ==
  ASSUME PaperIInv, TypeIInv, ObservePrice
  PROVE  Calls /\ (PaperIInv' => TypeIInv')
<1> DEFINE v == thread["scheduler"]
<1>1. AllTypes BY Parts
<1>2. Calls /\ UNCHANGED <<lastMark, quotes, pending, excluded, finished, restarts, chain>> /\ chain = "solana"
  BY <1>1 DEF ObservePrice, Calls, Pauses, Account, ledgerVars, durableVars, engineVars, AllTypes, ThreadTypes, Threads
<1>3. PICK x : /\ thread' = [thread EXCEPT !["scheduler"] = x]
               /\ \/ x \in {Dead, Resting}
                  \/ \E reason \in ReasonNames :
                       v.p \in Active /\ x = Holding("settle", v.p, rows[v.p], NoRule, reason)
  <2>1. PaperExitReason(chain, rows[v.p].stage, v.mark, age[v.p]) \in ReasonNames /\ NoRule \in ReasonNames
    BY Reasons DEF ReasonNames
  <2> QED BY <2>1 DEF ObservePrice
<1>4. x \in ThreadStates
  <2>1. ASSUME NEW reason \in ReasonNames, v.p \in Active
        PROVE  Holding("settle", v.p, rows[v.p], NoRule, reason) \in ThreadStates
    BY <1>1, <2>1, HeldTyped DEF AllTypes, BookTypes, LastMarks, Active
  <2> QED BY <1>3, <2>1, IdlersTyped
<1>5. ThreadTypes' BY <1>1, <1>2, <1>3, <1>4, ThreadSet DEF AllTypes, Threads
<1>6. QuoteTypes' /\ QueueTypes' BY <1>1, <1>2 DEF AllTypes, QuoteTypes, QueueTypes
<1> QED BY <1>1, <1>2, <1>5, <1>6, CallTypes DEF AllTypes, BookTypes

\* What passes while no handler runs.
LEMMA PauseTypes ==
  ASSUME PaperIInv, PaperIInv', TypeIInv, Pauses,
         UNCHANGED <<entries, lastMark, thread, quotes, pending, excluded>>,
         outcomes' \in [Signals -> {"none", "initial", "complete"}], age' \in [Signals -> Ages],
         followups' \subseteq Signals, finished' \in [Kinds -> SUBSET Signals]
  PROVE  TypeIInv'
<1>1. AllTypes /\ Balanced /\ HalfDue BY Parts
<1>2. BookTypes' /\ EngineTypes' /\ ExecutorTypes'
  BY <1>1 DEF Pauses, Account, AllTypes, BookTypes, EngineTypes, ExecutorTypes, ChainTypes, FiniteChain, executorVars
<1>3. ThreadTypes' /\ QuoteTypes' /\ QueueTypes'
  BY <1>1 DEF Pauses, Account, AllTypes, ThreadTypes, QuoteTypes, QueueTypes
<1>4. Balanced' /\ HalfDue' BY <1>1 DEF Pauses, Account, Balanced, HalfDue, Active
<1> QED BY <1>2, <1>3, <1>4, Joined DEF AllTypes

LEMMA PassingTypes ==
  ASSUME PaperIInv, TypeIInv, NEW p \in Signals, NEW kind \in Kinds,
         FollowUp(p) \/ Age(p) \/ BackfillAnswer(kind, p) \/ DrainBackfill(kind, p)
  PROVE  Pauses /\ (PaperIInv' => TypeIInv')
<1>1. AllTypes BY Parts
<1>2. Pauses /\ UNCHANGED <<entries, lastMark, thread, quotes, pending, excluded>>
  BY DEF FollowUp, Age, BackfillAnswer, DrainBackfill, Pauses, Account, ledgerVars, durableVars, engineVars, coordinatorVars
<1>3. /\ outcomes \in [Signals -> {"none", "initial", "complete"}] /\ age \in [Signals -> Ages]
      /\ followups \subseteq Signals /\ finished \in [Kinds -> SUBSET Signals]
  BY <1>1 DEF AllTypes, BookTypes, EngineTypes, QueueTypes
<1>4. outcomes' \in [Signals -> {"none", "initial", "complete"}]
  BY <1>3 DEF FollowUp, RecordShadowOutcome, Age, BackfillAnswer, DrainBackfill, ledgerVars, durableVars
<1>5. age' \in [Signals -> Ages]
  BY <1>3 DEF FollowUp, Age, BackfillAnswer, DrainBackfill, engineVars, Ages
<1>6. followups' \subseteq Signals
  BY <1>3 DEF FollowUp, Age, BackfillAnswer, DrainBackfill, engineVars
<1>7. finished' \in [Kinds -> SUBSET Signals]
  BY <1>3 DEF FollowUp, Age, BackfillAnswer, DrainBackfill, coordinatorVars
<1> QED BY <1>2, <1>4, <1>5, <1>6, <1>7, PauseTypes

\* The blocks go on.
LEMMA MinedMore ==
  ASSUME ChainTypes, ChainStep
  PROVE  ChainTypes' /\ UNCHANGED signed
<1>1. PICK tx \in mempool : Mine(tx) \/ Forget(tx) BY DEF ChainStep
<1>2. mempool' = mempool \ {tx} /\ UNCHANGED signed BY <1>1 DEF Mine, Forget
<1>3. mined' = mined \/ \E ok \in BOOLEAN : mined' = mined \cup {[tx |-> tx, ok |-> ok]}
  BY <1>1 DEF Mine, Forget
<1>4. tx \in Txs /\ \A ok \in BOOLEAN : [tx |-> tx, ok |-> ok] \in [tx : Txs, ok : BOOLEAN]
  BY <1>1 DEF ChainTypes
<1>5. mempool' \subseteq Txs /\ mined' \subseteq [tx : Txs, ok : BOOLEAN]
  BY <1>2, <1>3, <1>4 DEF ChainTypes
<1>6. IsFiniteSet(mempool') BY <1>2, FS_RemoveElement DEF ChainTypes, FiniteChain
<1>7. IsFiniteSet(mined') BY <1>3, FS_AddElement DEF ChainTypes, FiniteChain
<1> QED BY <1>2, <1>5, <1>6, <1>7 DEF ChainTypes, FiniteChain

LEMMA ChainStepTypes ==
  ASSUME PaperIInv, PaperIInv', TypeIInv, ChainStep
  PROVE  TypeIInv'
<1>1. AllTypes /\ Balanced /\ HalfDue BY Parts
<1>2. UNCHANGED <<ledgerVars, engineVars, coordinatorVars, restarts>> BY DEF ChainStep
<1>3. BookTypes' /\ EngineTypes' BY <1>1, <1>2 DEF AllTypes, BookTypes, EngineTypes, ledgerVars, durableVars, engineVars
<1>4. ThreadTypes' /\ QuoteTypes' /\ QueueTypes'
  BY <1>1, <1>2 DEF AllTypes, ThreadTypes, QuoteTypes, QueueTypes, coordinatorVars, engineVars
<1>5. Balanced' /\ HalfDue'
  BY <1>1, <1>2 DEF Balanced, HalfDue, Active, ledgerVars, durableVars, engineVars
<1>6. ExecutorTypes' BY <1>1, MinedMore DEF AllTypes, ExecutorTypes
<1> QED BY <1>3, <1>4, <1>5, <1>6, Joined DEF AllTypes

LEMMA UnsignedTyped == Unsigned \in [tx : Txs, offers : Nat] /\ Unsigned.tx.kind = "none"
<1>1. (CHOOSE p \in Signals : TRUE) \in Signals BY CoordinatorAssumption DEF CoordinatorAssumption
<1> QED BY <1>1 DEF Unsigned, Tx, Txs

LEMMA LossRows ==
  ASSUME BookTypes
  PROVE  LargeLossRows = SumOf([p \in Signals |-> sales[p].large], Signals) /\ LargeLossRows \in Nat
<1> DEFINE f == [p \in Signals |-> sales[p].large]
<1>1. LargeLossRows = SumOf(f, Signals)
  <2>1. DOMAIN f = Signals OBVIOUS
  <2> HIDE DEF f
  <2> QED BY <2>1, SumOfFunction DEF LargeLossRows, f
<1>2. \A x \in Signals : f[x] \in Nat BY DEF BookTypes
<1> HIDE DEF f
<1>3. SumOf(f, Signals) \in Nat BY <1>2, SumNat, CoordinatorAssumption DEF CoordinatorAssumption
<1> QED BY <1>1, <1>3 DEF f

LEMMA RestartTypes ==
  ASSUME PaperIInv, PaperIInv', TypeIInv, Restart
  PROVE  TypeIInv'
<1>1. AllTypes /\ Balanced /\ HalfDue /\ mintOf \in [Signals -> Mints] BY Parts DEF PaperIInv, Shapes
<1>2. /\ UNCHANGED <<candidates, rows, entries, attempts, sales, outcomes, lastMark>>
      /\ largeLosses' = LargeLossRows /\ op' = Idle /\ signed' = Unsigned
      /\ liveAttempted' = attempts /\ followups' = {} /\ pending' = {}
      /\ excluded' \subseteq {mintOf[p] : p \in {x \in Signals : CandidateExists(x)}}
      /\ thread' = [t \in Threads |-> Resting] /\ quotes' = <<>> /\ finished' = [k \in Kinds |-> {}]
      /\ UNCHANGED <<chain, mode, age, calls, mempool, mined>>
      /\ restarts < MaxRestarts /\ restarts' = restarts + 1
  BY DEF Restart, Recover, RecoverLosses, EngineRecover
<1>3. BookTypes' BY <1>1, <1>2, LossRows DEF AllTypes, BookTypes
<1>4. EngineTypes' /\ HalfDue'
  <2>1. op' \in Handlers /\ op'.handler = "none" BY <1>2, IdleTyped, IdleHandler
  <2> QED BY <1>1, <1>2, <2>1 DEF AllTypes, BookTypes, EngineTypes, HalfDue
<1>5. ExecutorTypes' BY <1>1, <1>2, UnsignedTyped DEF AllTypes, ExecutorTypes, ChainTypes, FiniteChain
<1>6. ThreadTypes' BY <1>2, IdlersTyped DEF ThreadTypes
<1>7. QuoteTypes' BY <1>2 DEF QuoteTypes
<1>8. QueueTypes' BY <1>1, <1>2, CoordinatorAssumption DEF AllTypes, QueueTypes, CoordinatorAssumption
<1>9. Balanced' BY <1>1, <1>2 DEF Balanced, Active
<1> QED BY <1>3, <1>4, <1>5, <1>6, <1>7, <1>8, <1>9, Joined DEF AllTypes

-----------------------------------------------------------------------------
(* The steps of a handler                                                  *)

\* There is a nonce for the next transaction.
LEMMA NonceFree ==
  ASSUME ChainTypes
  PROVE  PendingNonce \in Nat
<1> DEFINE taken == {tx.nonce : tx \in mempool}
           M == MinedNonce
           N == Cardinality(mempool)
           free == (M..(M + N)) \ taken
<1>1. M \in Nat /\ N \in Nat BY FS_CardinalityType DEF ChainTypes, FiniteChain, MinedNonce
<1>2. IsFiniteSet(taken) /\ Cardinality(taken) <= N
  <2> DEFINE f == [tx \in mempool |-> tx.nonce]
  <2>1. f \in Surjection(mempool, taken) BY DEF Surjection
  <2> HIDE DEF f
  <2> QED BY <2>1, FS_Surjection DEF ChainTypes, FiniteChain
<1> HIDE DEF M, N, taken
<1>3. free # {}
  <2> SUFFICES ASSUME M..(M + N) \subseteq taken PROVE FALSE OBVIOUS
  <2>1. Cardinality(M..(M + N)) <= Cardinality(taken) BY <1>2, FS_Subset
  <2>2. M \in Int /\ M + N \in Int BY <1>1
  <2>3. Cardinality(M..(M + N)) = (M + N) - M + 1 BY <1>1, <2>2, FS_Interval
  <2>4. Cardinality(taken) \in Nat BY <1>2, FS_CardinalityType
  <2> QED BY <1>1, <1>2, <2>1, <2>3, <2>4
<1>4. free \in SUBSET Nat BY <1>1
<1>5. PendingNonce = CHOOSE n \in free : \A m \in free : n <= m BY DEF PendingNonce, M, N, taken
<1> HIDE DEF free
<1>6. PendingNonce \in free BY <1>3, <1>4, <1>5, Least
<1> QED BY <1>4, <1>6

(* The handlers that have, at the named operation, the loss rows to count. *)
RowAt(h) == IF h = "paper_exit" THEN 1 ELSE IF h = "live_exit" THEN 10 ELSE 3
CountAt(h) == IF h = "live_exit" THEN 11 ELSE 4
Counters == {"paper_exit", "triggered", "timeout", "live_exit"}

PlacesOf(o) ==
  /\ StepOf(o) = "partial" <=> o.handler = "partial" /\ o.at = 1
  /\ StepOf(o) = "partial_row" <=> o.handler = "partial" /\ o.at = 2
  /\ StepOf(o) = "exit_row" <=> \/ o.handler \in Counters /\ o.at = RowAt(o.handler)
                                \/ o.handler = "shadow_exit" /\ o.at = 2
  /\ StepOf(o) = "unknown_row" <=> o.handler = "unavailable" /\ o.at = 3
  /\ StepOf(o) = "count" <=> o.handler \in Counters /\ o.at = CountAt(o.handler)
  /\ StepOf(o) = "candidate" <=> o.handler \in {"reject"} \cup Entries /\ o.at = 1
  /\ StepOf(o) = "attempt_row" <=> o.handler = "live_exit" /\ o.at = 1
  /\ StepOf(o) = "buy" <=> o.handler = "live_entry" /\ o.at = 2
  /\ StepOf(o) = "approve" <=> o.handler = "live_exit" /\ o.at = 2
  /\ StepOf(o) = "sell" <=> o.handler = "live_exit" /\ o.at = 5
  /\ StepOf(o) = "send" <=> \/ o.handler = "live_entry" /\ o.at = 3
                            \/ o.handler = "live_exit" /\ o.at \in {3, 6}
  /\ StepOf(o) = "receipt" <=> \/ o.handler = "live_entry" /\ o.at = 4
                               \/ o.handler = "live_exit" /\ o.at \in {4, 7}
  /\ o.at \in 1..Len(Order[o.handler]) /\ Len(Order[o.handler]) \in Nat

\* Which handler runs each operation, and when.
LEMMA Operations ==
  ASSUME NEW o, OpShape(o), o.handler # "none"
  PROVE  PlacesOf(o)
<1>1. CASE o.handler = "reject"
  BY <1>1 DEF PlacesOf, RejectOps, Order, OpShape, StepOf, Entries, Counters, RowAt, CountAt
<1>2. CASE o.handler = "entry"
  BY <1>2 DEF PlacesOf, EntryOps, Order, OpShape, StepOf, Entries, Counters, RowAt, CountAt
<1>3. CASE o.handler = "live_entry"
  BY <1>3 DEF PlacesOf, LiveEntryOps, Order, OpShape, StepOf, Entries, Counters, RowAt, CountAt
<1>4. CASE o.handler = "partial"
  BY <1>4 DEF PlacesOf, PartialOps, Order, OpShape, StepOf, Entries, Counters, RowAt, CountAt
<1>5. CASE o.handler = "paper_exit"
  BY <1>5 DEF PlacesOf, PaperExitOps, Order, OpShape, StepOf, Entries, Counters, RowAt, CountAt
<1>6. CASE o.handler = "shadow_exit"
  BY <1>6 DEF PlacesOf, ShadowExitOps, Order, OpShape, StepOf, Entries, Counters, RowAt, CountAt
<1>7. CASE o.handler = "triggered"
  BY <1>7 DEF PlacesOf, TriggeredOps, Order, OpShape, StepOf, Entries, Counters, RowAt, CountAt
<1>8. CASE o.handler = "waiting"
  BY <1>8 DEF PlacesOf, WaitingOps, Order, OpShape, StepOf, Entries, Counters, RowAt, CountAt
<1>9. CASE o.handler = "timeout"
  BY <1>9 DEF PlacesOf, TimeoutOps, Order, OpShape, StepOf, Entries, Counters, RowAt, CountAt
<1>10. CASE o.handler = "unavailable"
  BY <1>10 DEF PlacesOf, UnavailableOps, Order, OpShape, StepOf, Entries, Counters, RowAt, CountAt
<1>11. CASE o.handler = "live_exit"
  BY <1>11 DEF PlacesOf, LiveExitOps, Order, OpShape, StepOf, Entries, Counters, RowAt, CountAt
<1> QED BY <1>1, <1>2, <1>3, <1>4, <1>5, <1>6, <1>7, <1>8, <1>9, <1>10, <1>11 DEF OpShape, Plans, Entries, Closers, Keepers

\* A handler that moves keeps its type and never comes back to its start.
LEMMA MovesTyped ==
  ASSUME OpShape(op), op \in Handlers, ~LockFree, Moves
  PROVE  /\ op' \in Handlers
         /\ op' = op \/ op' = Idle \/ (/\ op'.handler = op.handler /\ op'.at = op.at + 1 /\ op'.p = op.p
                                        /\ op'.units = op.units /\ op'.large = op.large)
         /\ op.at \in Nat /\ op.at >= 1 /\ op.p \in Signals
<1>1. op.at \in Nat /\ op.at >= 1 BY Operations DEF PlacesOf, LockFree, Handlers
<1>2. CASE op' = [op EXCEPT !.at = @ + 1] BY <1>1, <1>2 DEF Handlers
<1>3. CASE op' = op BY <1>1, <1>3 DEF Handlers
<1>4. CASE op' = Idle BY <1>1, <1>4, IdleTyped DEF Handlers
<1> QED BY <1>2, <1>3, <1>4 DEF Moves

\* What a handler's step leaves the types to be shown of.
LEMMA StepTypes ==
  ASSUME PaperIInv, PaperIInv', TypeIInv, ~LockFree, Moves, BookTypes', Balanced',
         UNCHANGED op => UNCHANGED rows, ExecutorTypes',
         calls' \in [buy : [Signals -> Nat], sell : [Signals -> Nat]], followups' \subseteq Signals,
         UNCHANGED <<chain, mode, age, liveAttempted, pending, excluded, thread, quotes, finished, restarts>>
  PROVE  TypeIInv'
<1>1. AllTypes /\ Balanced /\ HalfDue BY Parts
<1>2. /\ op' \in Handlers
      /\ op' = op \/ op' = Idle \/ op'.at = op.at + 1
      /\ op.at \in Nat /\ op.at >= 1
  BY <1>1, MovesTyped DEF AllTypes, EngineTypes, PaperIInv, Shapes
<1>3. EngineTypes' BY <1>1, <1>2 DEF AllTypes, EngineTypes
<1>4. HalfDue'
  <2>1. CASE op' = op BY <1>1, <2>1 DEF HalfDue
  <2>2. CASE op' = Idle BY <2>2, IdleHandler DEF HalfDue
  <2>3. CASE op'.at = op.at + 1 BY <1>2, <2>3 DEF HalfDue
  <2> QED BY <1>2, <2>1, <2>2, <2>3
<1>5. ThreadTypes' /\ QuoteTypes' /\ QueueTypes' BY <1>1 DEF AllTypes, ThreadTypes, QuoteTypes, QueueTypes
<1> QED BY <1>3, <1>4, <1>5, Joined DEF AllTypes

\* Every step of a handler goes on, stops or waits.
LEMMA HandlerMoves ==
  ASSUME HandlerStep
  PROVE  ~LockFree /\ Moves
<1>1. CASE LedgerStep
  BY <1>1, AdvanceMoves DEF LedgerStep, CandidateStep, OpenStep, TransitionStep, EntryRowStep, PartialStep,
     CloseStep, SaleRowStep, AttemptRowStep, CountStep, OutcomeStep, FollowupStep, At
<1>2. CASE ExecutorStep
  BY <1>2, AdvanceMoves DEF ExecutorStep, BuyStep, ApproveStep, SellStep, SendStep, ReceiptStep, At
<1>3. CASE \E kind \in Kinds : FinalizeSnapshot(kind)
  BY <1>3, AdvanceMoves DEF FinalizeSnapshot, At
<1> QED BY <1>1, <1>2, <1>3 DEF HandlerStep, EngineStep

LEMMA TransactionTyped ==
  ASSUME NEW kind \in Kind, NEW p \in Signals, NEW nonce \in Nat, Sign(kind, p, nonce), ChainTypes
  PROVE  ExecutorTypes'
<1>1. signed' \in [tx : Txs, offers : Nat] BY DEF Sign, Tx, Txs
<1> QED BY <1>1 DEF Sign, ExecutorTypes, ChainTypes, FiniteChain

\* The executor's steps.
LEMMA ExecutorTyped ==
  ASSUME PaperIInv, PaperIInv', TypeIInv, EngineStep, ExecutorStep
  PROVE  TypeIInv'
<1>1. AllTypes /\ Balanced BY Parts
<1>2. ~LockFree /\ Moves /\ op.p \in Signals
  BY <1>1, HandlerMoves, MovesTyped DEF HandlerStep, AllTypes, EngineTypes, PaperIInv, Shapes
<1>3. UNCHANGED <<ledgerVars, liveAttempted, followups, chain, mode, age, pending, excluded, thread, quotes,
                 finished, restarts>>
  BY DEF EngineStep, ExecutorStep, BuyStep, ApproveStep, SellStep, SendStep, ReceiptStep, coordinatorVars
<1>4. BookTypes' /\ Balanced' /\ UNCHANGED rows /\ followups' \subseteq Signals
  BY <1>1, <1>3 DEF AllTypes, BookTypes, Balanced, Active, ledgerVars, durableVars, EngineTypes
<1>5. calls' \in [buy : [Signals -> Nat], sell : [Signals -> Nat]]
  <2>1. calls \in [buy : [Signals -> Nat], sell : [Signals -> Nat]] BY <1>1 DEF AllTypes, EngineTypes
  <2>2. \/ UNCHANGED calls \/ calls' = [calls EXCEPT !.buy[op.p] = @ + 1]
        \/ calls' = [calls EXCEPT !.sell[op.p] = @ + 1]
    BY DEF ExecutorStep, BuyStep, ApproveStep, SellStep, SendStep, ReceiptStep
  <2> QED BY <1>2, <2>1, <2>2
<1>6. ExecutorTypes'
  <2>1. ExecutorTypes /\ ChainTypes BY <1>1 DEF AllTypes, ExecutorTypes
  <2>2. UNCHANGED executorVars => ExecutorTypes'
    BY <2>1 DEF executorVars, ExecutorTypes, ChainTypes, FiniteChain
  <2>3. CASE BuyStep BY <1>2, <2>1, <2>2, <2>3, NonceFree, TransactionTyped DEF BuyStep, Kind
  <2>4. CASE ApproveStep BY <1>2, <2>1, <2>2, <2>4, NonceFree, TransactionTyped DEF ApproveStep, Kind
  <2>5. CASE SellStep
    <3>1. signed.tx.nonce + 1 \in Nat BY <2>1 DEF ExecutorTypes, Txs
    <3> QED BY <1>2, <2>1, <2>2, <2>5, <3>1, TransactionTyped DEF SellStep, Kind
  <2>6. CASE SendStep
    <3>1. mempool' = mempool \/ mempool' = mempool \cup {signed.tx} BY <2>6 DEF SendStep, Delivered, Undelivered
    <3>2. IsFiniteSet(mempool') BY <2>1, <3>1, FS_AddElement DEF ChainTypes, FiniteChain
    <3>3. UNCHANGED mined /\ signed' \in [tx : Txs, offers : Nat]
      BY <2>1, <2>6 DEF SendStep, Delivered, Undelivered, ExecutorTypes
    <3> QED BY <2>1, <3>1, <3>2, <3>3 DEF ExecutorTypes, ChainTypes, FiniteChain
  <2>7. CASE ReceiptStep BY <2>2, <2>7 DEF ReceiptStep
  <2> QED BY <2>3, <2>4, <2>5, <2>6, <2>7 DEF ExecutorStep
<1> QED BY <1>2, <1>3, <1>4, <1>5, <1>6, StepTypes

\* A row that keeps its balance, or is halved with its stage.
LEMMA RowSteps ==
  ASSUME PaperIInv, TypeIInv, ~LockFree,
         OpenStep \/ TransitionStep \/ PartialStep \/ CloseStep
  PROVE  rows' \in [Signals -> Rows] /\ Balanced'
<1>1. AllTypes /\ Balanced /\ HalfDue BY Parts
<1>2. rows \in [Signals -> Rows] /\ op.p \in Signals BY <1>1 DEF AllTypes, BookTypes, EngineTypes, Handlers
<1>3. CASE OpenStep
  <2>1. rows' = [rows EXCEPT ![op.p] = RowOf("ENTRY_PENDING", 0, Quantity)] BY <1>3 DEF OpenStep, OpenPosition
  <2>2. RowOf("ENTRY_PENDING", 0, Quantity) \in Rows BY DEF RowOf, Rows, Halves, Statuses
  <2>3. RowOf("ENTRY_PENDING", 0, Quantity).units = Share(RowOf("ENTRY_PENDING", 0, Quantity).stage)
    BY DEF RowOf, Share
  <2> QED BY <1>1, <1>2, <2>1, <2>2, <2>3 DEF Balanced, Active
<1>4. CASE TransitionStep
  <2>1. PICK st \in {"OPEN", "EXIT_TRIGGERED"} : op.p \in Active /\ rows' = [rows EXCEPT ![op.p].status = st]
    BY <1>4 DEF TransitionStep, TransitionPosition
  <2> QED BY <1>1, <1>2, <2>1 DEF Balanced, Active, Rows, Statuses
<1>5. CASE PartialStep
  <2>1. op.handler = "partial" /\ op.at = 1
    BY <1>5, Operations DEF PartialStep, At, StepOf, PlacesOf, LockFree, PaperIInv, Shapes
  <2>2. op.p \in Active /\ rows[op.p].stage \in {0, 1} /\ 2 * op.units = rows[op.p].units /\ op.units \in Nat
    BY <1>1, <1>2, <1>5, <2>1, HalvesNat DEF PartialStep, RecordPartialTakeProfit, HalfDue, Rows, AllTypes, EngineTypes, Handlers
  <2>3. op.units \in Halves /\ op.units = Share(rows[op.p].stage + 1)
    BY <1>1, <2>2, HalfOfShare DEF Balanced
  <2>4. rows' = [rows EXCEPT ![op.p].stage = rows[op.p].stage + 1, ![op.p].units = @ - op.units]
    BY <1>5 DEF PartialStep, RecordPartialTakeProfit
  <2>5. rows[op.p].units - op.units = op.units BY <2>2
  <2>6. rows[op.p].stage + 1 \in 0..2 BY <2>2
  <2>7. /\ rows' \in [Signals -> Rows]
        /\ \A q \in Signals : rows'[q].status = rows[q].status
        /\ \A q \in Signals \ {op.p} : rows'[q] = rows[q]
        /\ rows'[op.p].stage = rows[op.p].stage + 1 /\ rows'[op.p].units = op.units
    BY <1>2, <2>3, <2>4, <2>5, <2>6 DEF Rows
  <2>8. rows'[op.p].units = Share(rows'[op.p].stage) BY <2>3, <2>7
  <2>9. ASSUME NEW q \in Active' PROVE rows'[q].units = Share(rows'[q].stage)
    <3>0. q \in Signals /\ rows'[q].status \in {"ENTRY_PENDING", "OPEN", "EXIT_TRIGGERED"}
      BY <2>9 DEF Active
    <3>1. q \in Active BY <2>7, <3>0 DEF Active
    <3>2. CASE q = op.p BY <2>8, <3>2
    <3>3. CASE q # op.p
      <4>1. rows'[q] = rows[q] BY <2>7, <3>0, <3>3
      <4> QED BY <1>1, <3>1, <4>1 DEF Balanced
    <3> QED BY <3>2, <3>3
  <2> QED BY <2>7, <2>9 DEF Balanced
<1>6. CASE CloseStep
  <2>1. rows' = [rows EXCEPT ![op.p].status = "CLOSED", ![op.p].units = 0] BY <1>6 DEF CloseStep, ClosePosition
  <2> QED BY <1>1, <1>2, <2>1, HalvesNat DEF Balanced, Active, Rows, Statuses
<1> QED BY <1>3, <1>4, <1>5, <1>6

\* The ledger's steps.
LEMMA LedgerTyped ==
  ASSUME PaperIInv, PaperIInv', TypeIInv, EngineStep, LedgerStep
  PROVE  TypeIInv'
<1>1. AllTypes /\ Balanced BY Parts
<1>2. ~LockFree /\ Moves /\ op.p \in Signals /\ op.units \in Nat /\ op.large \in {0, 1}
  BY <1>1, HandlerMoves, MovesTyped, HalvesNat DEF HandlerStep, AllTypes, EngineTypes, PaperIInv, Shapes, Handlers
<1>3. UNCHANGED <<executorVars, liveAttempted, calls, chain, mode, age, pending, excluded, thread, quotes,
                 finished, restarts, lastMark>>
  BY DEF EngineStep, LedgerStep, CandidateStep, OpenStep, TransitionStep, EntryRowStep, PartialStep,
     CloseStep, SaleRowStep, AttemptRowStep, CountStep, OutcomeStep, FollowupStep, coordinatorVars, ledgerVars, durableVars
<1>4. /\ ExecutorTypes'
      /\ calls' \in [buy : [Signals -> Nat], sell : [Signals -> Nat]]
      /\ lastMark' \in [Signals -> LastMarks]
  BY <1>1, <1>3 DEF AllTypes, ExecutorTypes, ChainTypes, FiniteChain, executorVars, EngineTypes, BookTypes
<1>5. rows' \in [Signals -> Rows] /\ Balanced'
  <2>1. CASE UNCHANGED rows BY <1>1, <2>1 DEF AllTypes, BookTypes, Balanced, Active
  <2>2. CASE OpenStep \/ TransitionStep \/ PartialStep \/ CloseStep BY <1>2, <2>2, RowSteps
  <2> QED BY <2>1, <2>2 DEF LedgerStep, CandidateStep, EntryRowStep, SaleRowStep, AttemptRowStep, CountStep,
          OutcomeStep, FollowupStep, ledgerVars, durableVars
<1>6. op' # op
  <2>0. Advance
    BY DEF LedgerStep, CandidateStep, OpenStep, TransitionStep, EntryRowStep, PartialStep,
       CloseStep, SaleRowStep, AttemptRowStep, CountStep, OutcomeStep, FollowupStep
  <2>1. op' = Idle \/ op'.at = op.at + 1
    BY <1>1, <2>0 DEF Advance, AllTypes, EngineTypes, Handlers
  <2>2. op.at \in Nat BY <1>1 DEF AllTypes, EngineTypes, Handlers
  <2> QED BY <1>2, <2>1, <2>2, IdleHandler DEF LockFree
<1>7. candidates' \in [Signals -> {"none", "ACCEPTED", "REJECTED"}]
  <2>1. candidates' = candidates \/ \E v \in {"ACCEPTED", "REJECTED"} : candidates' = [candidates EXCEPT ![op.p] = v]
    BY DEF LedgerStep, CandidateStep, OpenStep, TransitionStep, EntryRowStep, PartialStep,
     CloseStep, SaleRowStep, AttemptRowStep, CountStep, OutcomeStep, FollowupStep, ledgerVars, durableVars, RecordCandidate
  <2> QED BY <1>1, <1>2, <2>1 DEF AllTypes, BookTypes
<1>8. sales' \in [Signals -> [sold : Nat, exits : Nat, large : Nat]]
  <2>1. sales' = sales \/ \E u \in {0, op.units}, e \in {0, 1}, l \in {0, op.large} : RecordSale(op.p, u, e, l)
    BY DEF LedgerStep, CandidateStep, OpenStep, TransitionStep, EntryRowStep, PartialStep,
     CloseStep, SaleRowStep, AttemptRowStep, CountStep, OutcomeStep, FollowupStep, ledgerVars, durableVars
  <2>2. sales \in [Signals -> [sold : Nat, exits : Nat, large : Nat]] BY <1>1 DEF AllTypes, BookTypes
  <2>3. ASSUME NEW u \in {0, op.units}, NEW e \in {0, 1}, NEW l \in {0, op.large}, RecordSale(op.p, u, e, l)
        PROVE  sales' \in [Signals -> [sold : Nat, exits : Nat, large : Nat]]
    BY <1>2, <2>2, <2>3 DEF RecordSale
  <2> QED BY <2>1, <2>2, <2>3
<1>9. entries' \subseteq Signals /\ attempts' \subseteq Signals /\ followups' \subseteq Signals
  BY <1>1, <1>2 DEF AllTypes, BookTypes, EngineTypes, LedgerStep, CandidateStep, OpenStep, TransitionStep, EntryRowStep,
     PartialStep, CloseStep, SaleRowStep, AttemptRowStep, CountStep, OutcomeStep, FollowupStep, ledgerVars, durableVars,
     RecordEntry, RecordAttempt
<1>10. outcomes' \in [Signals -> {"none", "initial", "complete"}]
  <2>1. outcomes' = outcomes \/ outcomes' = [outcomes EXCEPT ![op.p] = "initial"]
    BY DEF LedgerStep, CandidateStep, OpenStep, TransitionStep, EntryRowStep, PartialStep,
     CloseStep, SaleRowStep, AttemptRowStep, CountStep, OutcomeStep, FollowupStep, ledgerVars, durableVars, RecordShadowOutcome
  <2> QED BY <1>1, <1>2, <2>1 DEF AllTypes, BookTypes
<1>11. largeLosses' \in Nat
  BY <1>1, <1>2 DEF AllTypes, BookTypes, LedgerStep, CandidateStep, OpenStep, TransitionStep, EntryRowStep,
     PartialStep, CloseStep, SaleRowStep, AttemptRowStep, CountStep, OutcomeStep, FollowupStep, ledgerVars, durableVars
<1>12. BookTypes' BY <1>4, <1>5, <1>7, <1>8, <1>9, <1>10, <1>11 DEF BookTypes
<1> QED BY <1>2, <1>3, <1>4, <1>5, <1>6, <1>9, <1>12, StepTypes

LEMMA FinalizeTyped ==
  ASSUME PaperIInv, PaperIInv', TypeIInv, NEW kind \in Kinds, FinalizeSnapshot(kind)
  PROVE  TypeIInv'
<1>1. AllTypes /\ Balanced BY Parts
<1>2. ~LockFree /\ Moves BY HandlerMoves DEF HandlerStep
<1>3. UNCHANGED <<candidates, rows, entries, attempts, sales, outcomes, lastMark, largeLosses,
                 chain, mode, age, liveAttempted, calls, followups,
                 pending, excluded, thread, quotes, finished, restarts, executorVars>>
  BY DEF FinalizeSnapshot
<1>4. BookTypes' /\ Balanced' BY <1>1, <1>3 DEF AllTypes, BookTypes, Balanced, Active
<1>5. /\ ExecutorTypes'
      /\ calls' \in [buy : [Signals -> Nat], sell : [Signals -> Nat]]
      /\ followups' \subseteq Signals
  BY <1>1, <1>3 DEF AllTypes, ExecutorTypes, ChainTypes, FiniteChain, executorVars, EngineTypes
<1> QED BY <1>2, <1>3, <1>4, <1>5, StepTypes

-----------------------------------------------------------------------------
(* The types as a whole                                                    *)

\* Every step starts a handler, runs its next operation, restarts, or changes
\* nothing that the books below are about.
LEMMA StepKinds ==
  ASSUME PaperIInv, TypeIInv, [Next]_vars
  PROVE  /\ Pauses \/ Begins \/ HandlerStep \/ ChainStep \/ Restart
         /\ PaperIInv' => TypeIInv'
<1>1. ASSUME NEW p \in Signals, DiscoverSignal(p) \/ EvaluateObservation(p) \/ PositionCycle(p)
      PROVE  Calls /\ (PaperIInv' => TypeIInv')
  BY <1>1, DiscoverTypes, EvaluateTypes, CycleTypes
<1>2. CASE EnterQuoted \/ StoreQuote \/ ObservePrice \/ SettleTriggered
  BY <1>2, EnterTypes, StoreTypes, ObserveTypes, SettleTypes DEF Calls
<1>3. ASSUME NEW p \in Signals,
             \/ FetchQuote(p)
             \/ \E t \in Threads : ReadPosition(t, p)
             \/ \E m \in Marks : ReadPriceEvent(p, m)
      PROVE  Calls /\ (PaperIInv' => TypeIInv')
  BY <1>3, ReadTypes
<1>4. ASSUME NEW t \in Threads, ProcessQueuedExit(t) PROVE Calls /\ (PaperIInv' => TypeIInv')
  BY <1>4, ProcessTypes
<1>5. ASSUME NEW p \in Signals, NEW kind \in Kinds,
             FollowUp(p) \/ Age(p) \/ BackfillAnswer(kind, p) \/ DrainBackfill(kind, p)
      PROVE  Pauses /\ (PaperIInv' => TypeIInv')
  BY <1>5, PassingTypes
<1>6. CASE HandlerStep BY <1>6, ExecutorTyped, LedgerTyped, FinalizeTyped DEF HandlerStep, EngineStep
<1>7. CASE ChainStep BY <1>7, ChainStepTypes
<1>8. CASE Restart BY <1>8, RestartTypes
<1>9. CASE UNCHANGED vars
  <2>1. Pauses BY <1>9 DEF vars, Pauses, Account, ledgerVars, durableVars, engineVars
  <2>2. UNCHANGED <<entries, lastMark, thread, quotes, pending, excluded, outcomes, age, followups, finished>>
    BY <1>9 DEF vars, ledgerVars, durableVars, engineVars, coordinatorVars
  <2>3. /\ outcomes \in [Signals -> {"none", "initial", "complete"}] /\ age \in [Signals -> Ages]
        /\ followups \subseteq Signals /\ finished \in [Kinds -> SUBSET Signals]
    BY Parts DEF AllTypes, BookTypes, EngineTypes, QueueTypes
  <2> QED BY <2>1, <2>2, <2>3, PauseTypes
<1>10. \/ \E p \in Signals : DiscoverSignal(p) \/ EvaluateObservation(p) \/ PositionCycle(p)
       \/ EnterQuoted \/ StoreQuote \/ ObservePrice \/ SettleTriggered
       \/ \E p \in Signals : \/ FetchQuote(p)
                             \/ \E t \in Threads : ReadPosition(t, p)
                             \/ \E m \in Marks : ReadPriceEvent(p, m)
       \/ \E t \in Threads : ProcessQueuedExit(t)
       \/ \E p \in Signals, kind \in Kinds :
            FollowUp(p) \/ Age(p) \/ BackfillAnswer(kind, p) \/ DrainBackfill(kind, p)
       \/ HandlerStep \/ ChainStep \/ Restart \/ UNCHANGED vars
  <2>1. "holders" \in Kinds BY DEF Kinds
  <2>2. CASE \E p \in Signals : FollowUp(p) \/ Age(p) BY <2>1, <2>2
  <2>3. CASE \E kind \in Kinds, p \in Signals : BackfillAnswer(kind, p) \/ DrainBackfill(kind, p) BY <2>3
  <2>4. CASE \E t \in Threads : ProcessQueuedExit(t) \/ \E p \in Signals : ReadPosition(t, p) BY <2>4
  <2>5. CASE \E p \in Signals, m \in Marks : ReadPriceEvent(p, m)
    <3>1. PICK p \in Signals, m \in Marks : ReadPriceEvent(p, m) BY <2>5
    <3>2. \E x \in Marks : ReadPriceEvent(p, x) BY <3>1
    <3> QED BY <3>2
  <2>6. CASE \E p \in Signals : DiscoverSignal(p) \/ EvaluateObservation(p) BY <2>6
  <2>7. CASE \E p \in Signals : FetchQuote(p) BY <2>7
  <2>8. CASE \E p \in Signals : PositionCycle(p) BY <2>8
  <2>9. CASE EnterQuoted \/ StoreQuote \/ ObservePrice \/ SettleTriggered \/ HandlerStep \/ ChainStep \/ Restart
             \/ UNCHANGED vars
    BY <2>9
  <2> QED BY <2>2, <2>3, <2>4, <2>5, <2>6, <2>7, <2>8, <2>9 DEF Next
<1>11. Calls => Pauses \/ Begins BY DEF Calls
<1> QED
  <2>1. (\E p \in Signals : DiscoverSignal(p) \/ EvaluateObservation(p) \/ PositionCycle(p)) => Calls /\ (PaperIInv' => TypeIInv')
    BY <1>1
  <2>2. (\E t \in Threads : ProcessQueuedExit(t)) => Calls /\ (PaperIInv' => TypeIInv')
    BY <1>4
  <2>3. (\E p \in Signals : \/ FetchQuote(p)
                            \/ \E t \in Threads : ReadPosition(t, p)
                            \/ \E m \in Marks : ReadPriceEvent(p, m)) => Calls /\ (PaperIInv' => TypeIInv')
    BY <1>3
  <2>4. (\E p \in Signals, kind \in Kinds :
           FollowUp(p) \/ Age(p) \/ BackfillAnswer(kind, p) \/ DrainBackfill(kind, p)) => Pauses /\ (PaperIInv' => TypeIInv')
    BY <1>5
  <2> QED BY <1>2, <1>6, <1>7, <1>8, <1>9, <1>10, <1>11, <2>1, <2>2, <2>3, <2>4

LEMMA InitTypes == Init => TypeIInv
<1> SUFFICES ASSUME Init PROVE TypeIInv OBVIOUS
<1>1. PaperIInv BY InitOp
<1>2. /\ mintOf \in [Signals -> Mints]
      /\ LockFree
      /\ saved \in [Kinds -> [Signals -> SnapshotStatuses]]
      /\ snapshot \in [Kinds -> [Signals -> SnapshotStatuses]]
      /\ workers \in [Kinds -> [Signals -> {"idle", "running", "success", "failure"}]]
  BY <1>1, IdleHandler DEF PaperIInv, Shapes, LockFree, SnapshotShape, WorkerStates, Init, EngineInit
<1>3. /\ candidates \in [Signals -> {"none", "ACCEPTED", "REJECTED"}]
      /\ rows \in [Signals -> Rows]
      /\ lastMark \in [Signals -> LastMarks]
      /\ entries \subseteq Signals /\ attempts \subseteq Signals /\ liveAttempted \subseteq Signals
      /\ sales \in [Signals -> [sold : Nat, exits : Nat, large : Nat]]
      /\ outcomes \in [Signals -> {"none", "initial", "complete"}]
      /\ largeLosses \in Nat
  <2>1. RowOf("none", 0, 0) \in Rows BY IdleTyped DEF NoRow
  <2>2. NoRule \in LastMarks BY DEF LastMarks
  <2> QED BY <2>1, <2>2 DEF Init, LedgerInit, EngineInit
<1>4. /\ chain \in {"solana", "bsc"} /\ mode \in {"paper", "shadow", "live"}
      /\ age \in [Signals -> Ages] /\ op \in Handlers
      /\ calls \in [buy : [Signals -> Nat], sell : [Signals -> Nat]]
      /\ followups \subseteq Signals
      /\ mode = "live" => chain = "bsc"
  BY IdleTyped DEF Init, EngineInit, Ages
<1>5. /\ signed \in [tx : Txs, offers : Nat] /\ mempool \subseteq Txs
      /\ mined \subseteq [tx : Txs, ok : BOOLEAN] /\ FiniteChain
  BY UnsignedTyped, FS_EmptySet DEF Init, EngineInit, ExecutorInit, FiniteChain
<1>6. /\ ThreadTypes /\ QuoteTypes /\ pending \subseteq Signals /\ excluded \subseteq Mints
      /\ finished \in [Kinds -> SUBSET Signals] /\ restarts \in 0..MaxRestarts
  <2>1. thread = [t \in Threads |-> Resting] BY DEF Init
  <2>2. ThreadTypes BY <2>1, IdlersTyped DEF ThreadTypes
  <2>3. QuoteTypes BY DEF Init, QuoteTypes
  <2> QED BY <2>2, <2>3, CoordinatorAssumption DEF Init, CoordinatorAssumption
<1>7. Balanced /\ HalfDue
  <2>1. Active = {} BY DEF Init, LedgerInit, RowOf, Active
  <2> QED BY <1>2, <2>1 DEF Balanced, HalfDue, LockFree
<1> QED BY <1>2, <1>3, <1>4, <1>5, <1>6, <1>7 DEF TypeIInv, TypeOK, OnSolana, ThreadTypes, ThreadStates, QuoteTypes

\* No step leaves the structure and the types that later results rest on.
THEOREM Typing == Spec => [](PaperIInv /\ TypeIInv)
<1>1. PaperIInv /\ TypeIInv /\ [Next]_vars => PaperIInv' /\ TypeIInv' BY NextOps, StepKinds
<1> QED BY <1>1, InitOp, InitTypes, PTL DEF Spec

\* Every variable of the engine, its coordinator and its executor keeps its
\* type; a position is whole, half or a quarter.
THEOREM Types == Spec => []TypeOK
BY Typing, PTL DEF TypeIInv

-----------------------------------------------------------------------------
(* The rows of the take-profit ladder                                      *)

(* What has left the position and is not yet in a row.                     *)
Booking(p) == IF op.handler = "partial" /\ op.at = 2 /\ op.p = p THEN op.units ELSE 0

LadderInv ==
  \A p \in Signals :
    /\ rows[p].status = "none" => sales[p].sold = 0
    /\ p \in Active /\ sales[p].exits = 0 =>
         /\ sales[p].sold + rows[p].units + Booking(p) <= Quantity
         /\ restarts = 0 => sales[p].sold + rows[p].units + Booking(p) = Quantity

\* What the handler in progress is and what its operands may be.
LEMMA InProgress ==
  ASSUME PaperIInv, TypeIInv, HandlerStep
  PROVE  /\ ~LockFree /\ Moves /\ OpShape(op) /\ PlacesOf(op) /\ op \in Handlers
         /\ op.p \in Signals /\ op.units \in Nat /\ op.large \in {0, 1}
         /\ op' = op \/ op' = Idle \/ (/\ op'.handler = op.handler /\ op'.at = op.at + 1 /\ op'.p = op.p
                                       /\ op'.units = op.units /\ op'.large = op.large)
         /\ op.at \in Nat /\ op.at >= 1
         /\ UNCHANGED <<mintOf, restarts, mode, chain, liveAttempted>>
<1>1. ~LockFree /\ Moves /\ OpShape(op) BY HandlerMoves DEF PaperIInv, Shapes
<1>2. op \in Handlers BY Parts DEF AllTypes, EngineTypes
<1>3. UNCHANGED <<mintOf, restarts, mode, chain, liveAttempted>>
  BY DEF HandlerStep, EngineStep, FinalizeSnapshot, LedgerStep, CandidateStep, OpenStep, TransitionStep, EntryRowStep,
     PartialStep, CloseStep, SaleRowStep, AttemptRowStep, CountStep, OutcomeStep, FollowupStep,
     ExecutorStep, BuyStep, ApproveStep, SellStep, SendStep, ReceiptStep, ledgerVars, durableVars
<1> QED BY <1>1, <1>2, <1>3, MovesTyped, Operations, HalvesNat DEF Handlers, LockFree

\* Between the two commits of a partial exit, and only there, units are due.
LEMMA BookingMoves ==
  ASSUME PaperIInv, TypeIInv, HandlerStep
  PROVE  /\ StepOf(op) # "partial" /\ StepOf(op) # "partial_row" =>
              \A p \in Signals : Booking(p) = 0 /\ Booking(p)' = 0
         /\ \A p \in Signals : Booking(p) \in Nat
<1>1. /\ PlacesOf(op) /\ op.units \in Nat /\ op.at \in Nat
      /\ op' = op \/ op' = Idle \/ (op'.handler = op.handler /\ op'.at = op.at + 1)
  BY InProgress
<1>2. ASSUME StepOf(op) # "partial", StepOf(op) # "partial_row"
      PROVE  ~(op.handler = "partial" /\ op.at = 2) /\ ~(op'.handler = "partial" /\ op'.at = 2)
  BY <1>1, <1>2, IdleHandler DEF PlacesOf
<1> QED BY <1>1, <1>2 DEF Booking

LEMMA LadderKept ==
  ASSUME PaperIInv, TypeIInv, TypeIInv', LadderInv, UNCHANGED <<rows, sales>>,
         \A p \in Signals : Booking(p) \in Nat /\ Booking(p)' \in Nat /\ Booking(p)' <= Booking(p),
         restarts' = 0 => restarts = 0 /\ \A p \in Signals : Booking(p)' = Booking(p)
  PROVE  LadderInv'
<1> SUFFICES ASSUME NEW p \in Signals
             PROVE  /\ rows'[p].status = "none" => sales'[p].sold = 0
                    /\ p \in Active' /\ sales'[p].exits = 0 =>
                         /\ sales'[p].sold + rows'[p].units + Booking(p)' <= Quantity
                         /\ restarts' = 0 => sales'[p].sold + rows'[p].units + Booking(p)' = Quantity
  BY DEF LadderInv
<1>1. /\ sales[p].sold \in Nat /\ rows[p].units \in Nat /\ Quantity \in Nat
  BY Parts, HalvesNat, Shares DEF AllTypes, BookTypes, Rows
<1>2. p \in Active' => p \in Active BY DEF Active
<1>3. Booking(p) \in Nat /\ Booking(p)' \in Nat /\ Booking(p)' <= Booking(p) OBVIOUS
<1> QED BY <1>1, <1>2, <1>3 DEF LadderInv

LEMMA LadderSale ==
  ASSUME PaperIInv, TypeIInv, LadderInv, HandlerStep, SaleRowStep
  PROVE  LadderInv'
<1>1. /\ PlacesOf(op) /\ OpShape(op) /\ ~LockFree /\ op.p \in Signals /\ op.units \in Nat /\ op.large \in {0, 1} /\ op.at \in Nat
      /\ op' = op \/ op' = Idle \/ (op'.handler = op.handler /\ op'.at = op.at + 1)
      /\ UNCHANGED restarts
  BY InProgress
<1>2. UNCHANGED rows /\ Active' = Active BY DEF SaleRowStep, Active
<1>3. sales \in [Signals -> [sold : Nat, exits : Nat, large : Nat]] /\ rows \in [Signals -> Rows]
  BY Parts DEF AllTypes, BookTypes
<1>4. StepOf(op) \in {"partial_row", "exit_row", "unknown_row"} BY DEF SaleRowStep, At, StepOf
<1>5. op' = Idle \/ op'.at = op.at + 1 BY <1>1 DEF SaleRowStep, Advance, Handlers
<1>6. \A p \in Signals : Booking(p)' = 0
  <2>1. ~(op.handler = "partial" /\ op.at = 1) BY <1>1, <1>4 DEF PlacesOf
  <2>2. ~(op'.handler = "partial" /\ op'.at = 2)
    <3>1. CASE op' = Idle BY <3>1, IdleHandler
    <3>2. CASE op' = op /\ op'.at = op.at + 1 BY <1>1, <3>2
    <3>3. CASE op'.handler = op.handler /\ op'.at = op.at + 1 BY <1>1, <2>1, <3>3
    <3> QED BY <1>1, <1>5, <3>1, <3>2, <3>3
  <2> QED BY <2>2 DEF Booking
<1>7. op.p \in Active \cup Closed
  <2>1. op.handler \in Closers \cup Keepers
    BY <1>1, <1>4 DEF PlacesOf, Closers, Keepers, Counters
  <2>2. op.handler \in Closers => CloseAt[op.handler] \in Nat BY DEF Closers, CloseAt
  <2>3. BeforeClose(op) \/ AfterClose(op) BY <1>1, <2>1, <2>2 DEF BeforeClose, AfterClose
  <2> QED BY <2>3 DEF PaperIInv, ExitTarget
<1>8. rows[op.p].status # "none" BY <1>1, <1>7 DEF Active, Closed
<1>9. CASE StepOf(op) = "partial_row"
  <2>1. op.handler = "partial" /\ op.at = 2 BY <1>1, <1>9 DEF PlacesOf
  <2>2. RecordSale(op.p, op.units, 0, 0) BY <1>9 DEF SaleRowStep, At, StepOf
  <2>3. /\ \A p \in Signals \ {op.p} : sales'[p] = sales[p]
        /\ sales'[op.p].sold = sales[op.p].sold + op.units /\ sales'[op.p].exits = sales[op.p].exits
    BY <1>1, <1>3, <2>2 DEF RecordSale
  <2>4. Booking(op.p) = op.units /\ \A p \in Signals \ {op.p} : Booking(p) = 0 BY <2>1 DEF Booking
  <2>5. ASSUME NEW p \in Signals
        PROVE  sales'[p].sold + rows[p].units = sales[p].sold + rows[p].units + Booking(p) /\ sales'[p].exits = sales[p].exits
    <3>1. sales[p].sold \in Nat /\ rows[p].units \in Nat BY <1>3, HalvesNat DEF Rows
    <3> QED BY <1>1, <2>3, <2>4, <3>1
  <2>6. ASSUME NEW p \in Signals
        PROVE  sales'[p].sold + rows'[p].units + Booking(p)' = sales[p].sold + rows[p].units + Booking(p)
    <3>1. sales[p].sold \in Nat /\ sales[op.p].sold \in Nat /\ rows[p].units \in Nat
      BY <1>1, <1>3, HalvesNat DEF Rows
    <3>2. sales'[p].sold \in Nat BY <1>1, <2>3, <3>1
    <3>3. rows'[p].units = rows[p].units /\ Booking(p)' = 0 BY <1>2, <1>6
    <3>4. sales'[p].sold + rows'[p].units + Booking(p)' = sales'[p].sold + rows[p].units BY <3>1, <3>2, <3>3
    <3> QED BY <2>5, <3>4
  <2> QED BY <1>1, <1>2, <1>8, <2>3, <2>5, <2>6 DEF LadderInv
<1>10. CASE StepOf(op) # "partial_row"
  <2>1. \E u, l : RecordSale(op.p, u, 1, l) BY <1>10 DEF SaleRowStep, At, StepOf
  <2>2. /\ \A p \in Signals \ {op.p} : sales'[p] = sales[p]
        /\ sales'[op.p].exits # 0
    BY <1>1, <1>3, <2>1 DEF RecordSale
  <2>3. ~(op.handler = "partial" /\ op.at = 2) BY <1>1, <1>10 DEF PlacesOf
  <2>4. \A p \in Signals : Booking(p) = 0 BY <2>3 DEF Booking
  <2> QED BY <1>1, <1>2, <1>6, <1>8, <2>2, <2>4 DEF LadderInv
<1> QED BY <1>9, <1>10

LEMMA LadderRows ==
  ASSUME PaperIInv, TypeIInv, LadderInv, HandlerStep, OpenStep \/ TransitionStep \/ PartialStep \/ CloseStep
  PROVE  LadderInv'
<1>1. /\ PlacesOf(op) /\ OpShape(op) /\ ~LockFree /\ op.p \in Signals /\ op.units \in Nat /\ op.at \in Nat
      /\ UNCHANGED restarts
  BY InProgress
<1>2. sales \in [Signals -> [sold : Nat, exits : Nat, large : Nat]] /\ rows \in [Signals -> Rows] /\ Quantity \in Nat
  BY Parts, Shares DEF AllTypes, BookTypes
<1>3. UNCHANGED sales BY DEF OpenStep, TransitionStep, PartialStep, CloseStep
<1>4. \A p \in Signals : sales[p].sold \in Nat /\ rows[p].units \in Nat BY <1>2, HalvesNat DEF Rows
<1>5. ~PartialStep => \A p \in Signals : Booking(p) = 0 /\ Booking(p)' = 0
  BY BookingMoves DEF OpenStep, TransitionStep, CloseStep, At, StepOf
<1>6. CASE OpenStep
  <2>1. /\ rows[op.p].status = "none" /\ rows'[op.p].status = "ENTRY_PENDING" /\ rows'[op.p].units = Quantity
        /\ \A p \in Signals \ {op.p} : rows'[p] = rows[p]
    BY <1>1, <1>2, <1>6 DEF OpenStep, OpenPosition, RowOf
  <2>2. ~PartialStep BY <1>6 DEF OpenStep, PartialStep, At
  <2>3. ASSUME NEW p \in Signals, p = op.p
        PROVE  sales'[p].sold + rows'[p].units + Booking(p)' = Quantity
    <3>1. sales'[p].sold = 0 BY <1>1, <1>3, <2>1, <2>3 DEF LadderInv
    <3> QED BY <1>2, <1>5, <2>1, <2>2, <2>3, <3>1
  <2> QED BY <1>1, <1>2, <1>3, <1>5, <2>1, <2>2, <2>3 DEF LadderInv, Active
<1>7. CASE TransitionStep
  <2>1. /\ op.p \in Active /\ rows'[op.p].status # "none" /\ rows'[op.p].units = rows[op.p].units
        /\ \A p \in Signals \ {op.p} : rows'[p] = rows[p]
    BY <1>1, <1>2, <1>7 DEF TransitionStep, TransitionPosition, Rows
  <2>2. ~PartialStep BY <1>7 DEF TransitionStep, PartialStep, At
  <2>3. \A p \in Signals : (p \in Active' => p \in Active) /\ rows'[p].units = rows[p].units
    BY <2>1 DEF Active
  <2> QED BY <1>1, <1>3, <1>5, <2>1, <2>2, <2>3 DEF LadderInv
<1>8. CASE PartialStep
  <2>1. op.handler = "partial" /\ op.at = 1 BY <1>1, <1>8 DEF PartialStep, At, StepOf, PlacesOf
  <2>2. op' = [op EXCEPT !.at = 2]
    <3>1. Len(Order["partial"]) = 2 BY DEF Order, PartialOps
    <3> QED BY <1>8, <2>1, <3>1, InProgress DEF PartialStep, Advance, Handlers
  <2>3. op'.handler = "partial" /\ op'.at = 2 /\ op'.p = op.p /\ op'.units = op.units
    BY <2>1, <2>2, InProgress DEF Handlers
  <2>4. \A p \in Signals : Booking(p) = 0 /\ Booking(p)' = IF p = op.p THEN op.units ELSE 0
    BY <2>1, <2>3 DEF Booking
  <2>5. /\ op.p \in Active /\ rows'[op.p].status = rows[op.p].status
        /\ rows'[op.p].units = rows[op.p].units - op.units /\ 2 * op.units = rows[op.p].units
        /\ \A p \in Signals \ {op.p} : rows'[p] = rows[p]
    BY <1>1, <1>2, <1>8 DEF PartialStep, RecordPartialTakeProfit, Rows
  <2>6. \A p \in Signals : rows'[p].status = rows[p].status /\ (p \in Active' => p \in Active)
    BY <2>5 DEF Active
  <2>7. ASSUME NEW p \in Signals
        PROVE  sales'[p].sold + rows'[p].units + Booking(p)' = sales[p].sold + rows[p].units + Booking(p)
    <3>1. sales[p].sold \in Nat /\ rows[p].units \in Nat BY <1>4
    <3>2. CASE p = op.p BY <1>1, <1>3, <2>4, <2>5, <3>1, <3>2
    <3>3. CASE p # op.p BY <1>3, <2>4, <2>5, <3>1, <3>3
    <3> QED BY <3>2, <3>3
  <2> QED BY <1>1, <1>3, <2>6, <2>7 DEF LadderInv
<1>9. CASE CloseStep
  <2>1. /\ rows'[op.p].status = "CLOSED" /\ \A p \in Signals \ {op.p} : rows'[p] = rows[p]
    BY <1>1, <1>2, <1>9 DEF CloseStep, ClosePosition, Rows
  <2>2. ~PartialStep BY <1>9 DEF CloseStep, PartialStep, At
  <2> QED BY <1>1, <1>3, <1>5, <2>1, <2>2 DEF LadderInv, Active
<1> QED BY <1>6, <1>7, <1>8, <1>9

LEMMA LadderSteps ==
  ASSUME PaperIInv, TypeIInv, TypeIInv', LadderInv, [Next]_vars
  PROVE  LadderInv'
<1>1. CASE Pauses \/ ChainStep
  <2>1. UNCHANGED <<op, restarts, rows, sales>>
    BY <1>1 DEF Pauses, Account, ChainStep, ledgerVars, durableVars, engineVars
  <2>2. \A p \in Signals : Booking(p) \in Nat /\ Booking(p)' = Booking(p)
    BY <2>1, Parts, HalvesNat DEF Booking, AllTypes, EngineTypes, Handlers
  <2> QED BY <2>1, <2>2, LadderKept
<1>2. CASE Begins
  <2>1. \A p \in Signals : Booking(p) = 0 /\ Booking(p)' = 0
    BY <1>2 DEF Begins, Begun, LockFree, Booking
  <2>2. UNCHANGED <<restarts, rows, sales>> BY <1>2 DEF Begins, Account
  <2> QED BY <2>1, <2>2, LadderKept
<1>3. CASE Restart
  <2>1. UNCHANGED <<rows, sales>> /\ op' = Idle /\ restarts' # 0
    BY <1>3, Parts, CoordinatorAssumption DEF Restart, Recover, EngineRecover, AllTypes, QueueTypes, CoordinatorAssumption
  <2>2. \A p \in Signals : Booking(p) \in Nat /\ Booking(p)' = 0
    BY <2>1, IdleHandler, Parts, HalvesNat DEF Booking, AllTypes, EngineTypes, Handlers
  <2> QED BY <2>1, <2>2, LadderKept
<1>4. CASE HandlerStep /\ ~SaleRowStep /\ ~(OpenStep \/ TransitionStep \/ PartialStep \/ CloseStep)
  <2>1. UNCHANGED <<rows, sales, restarts>> /\ StepOf(op) # "partial" /\ StepOf(op) # "partial_row"
    BY <1>4 DEF HandlerStep, EngineStep, FinalizeSnapshot, LedgerStep, CandidateStep, EntryRowStep, AttemptRowStep,
       CountStep, OutcomeStep, FollowupStep, ExecutorStep, BuyStep, ApproveStep, SellStep, SendStep, ReceiptStep,
       ledgerVars, durableVars, At, StepOf, Kinds
  <2> QED BY <1>4, <2>1, BookingMoves, LadderKept
<1> QED BY <1>1, <1>2, <1>3, <1>4, LadderSale, LadderRows, StepKinds

\* Rows, what is held and what is being booked add up at every operation.
THEOREM LadderInvariance == Spec => []LadderInv
<1>1. Init => LadderInv
  <2>1. Init => Active = {} /\ \A p \in Signals : sales[p].sold = 0
    BY DEF Init, LedgerInit, RowOf, Active
  <2> QED BY <2>1 DEF LadderInv
<1>2. PaperIInv /\ TypeIInv /\ TypeIInv' /\ LadderInv /\ [Next]_vars => LadderInv' BY LadderSteps
<1> QED BY <1>1, <1>2, Typing, PTL DEF Spec

\* The execution rows of a position and what it still holds add up to the
\* quantity bought, while no handler runs and no restart has lost a row; they
\* never exceed it.
THEOREM Ladder == Spec => []LadderBooked
<1>1. PaperIInv /\ TypeIInv /\ LadderInv => LadderBooked
  <2> SUFFICES ASSUME PaperIInv, TypeIInv, LadderInv, NEW p \in Active, sales[p].exits = 0
               PROVE  /\ sales[p].sold + rows[p].units <= Quantity
                      /\ LockFree /\ restarts = 0 => sales[p].sold + rows[p].units = Quantity
    BY DEF LadderBooked
  <2>1. p \in Signals /\ sales[p].sold \in Nat /\ rows[p].units \in Nat /\ Quantity \in Nat /\ Booking(p) \in Nat
    BY Parts, HalvesNat, Shares DEF AllTypes, BookTypes, EngineTypes, Handlers, Rows, Active, Booking
  <2>2. LockFree => Booking(p) = 0 BY DEF LockFree, Booking
  <2> QED BY <2>1, <2>2 DEF LadderInv
<1> QED BY <1>1, Typing, LadderInvariance, PTL

-----------------------------------------------------------------------------
(* The swaps of the wallet                                                 *)

(* The transactions there are: signed last, with a node, in a block.       *)
Known == {signed.tx} \cup mempool \cup {m.tx : m \in mined}

Nonces ==
  /\ \A m \in mined : m.tx.nonce < MinedNonce
  /\ \A m, n \in mined : m.tx.nonce = n.tx.nonce => m = n
  /\ \A tx \in mempool : tx.nonce >= MinedNonce
  /\ \A a, b \in mempool : a.nonce = b.nonce => a = b

(* A position has one transaction of each side.                            *)
Single == \A a, b \in Known : a.kind = b.kind /\ a.kind \in {"buy", "sell"} /\ a.p = b.p => a = b

BuyCalls ==
  \A p \in Signals :
    /\ calls.buy[p] <= 1 /\ (calls.buy[p] > 0 => CandidateExists(p))
    /\ \A a \in Known : a.kind = "buy" /\ a.p = p => calls.buy[p] > 0

SellCalls ==
  /\ attempts \subseteq liveAttempted
  /\ \A p \in Signals :
       /\ calls.sell[p] <= 1 /\ (calls.sell[p] > 0 => p \in attempts)
       /\ \A a \in Known : a.kind = "sell" /\ a.p = p => p \in attempts

(* How far the handler in progress is with its swap.                       *)
EntryDue ==
  op.handler = "live_entry" =>
    /\ op.at <= 2 => calls.buy[op.p] = 0
    /\ op.at >= 2 => CandidateExists(op.p)
    /\ op.at \in {3, 4} => signed.tx.kind = "buy" /\ signed.tx.p = op.p
    /\ op.at >= 5 => Succeeded("buy", op.p)

ExitDue ==
  op.handler = "live_exit" =>
    /\ op.p \in liveAttempted
    /\ op.at = 1 => op.p \notin attempts
    /\ op.at > 1 => op.p \in attempts
    /\ op.at <= 2 => calls.sell[op.p] = 0
    /\ op.at <= 5 => \A a \in Known : a.kind = "sell" => a.p # op.p
    /\ op.at \in {6, 7} => signed.tx.kind = "sell" /\ signed.tx.p = op.p
    /\ op.at >= 8 => Succeeded("sell", op.p)

ModeHandlers ==
  /\ op.handler = "entry" => mode # "live"
  /\ op.handler \in {"live_entry", "live_exit"} => mode = "live"
  /\ op.handler \in Closers /\ mode = "live" => op.handler = "live_exit"
  /\ op.handler = "shadow_exit" => mode = "shadow"

(* What was opened was bought, what was closed was sold.                   *)
Bought ==
  mode = "live" => /\ \A p \in Active : Succeeded("buy", p)
                   /\ \A p \in Closed : Succeeded("sell", p)

SwapInv == Nonces /\ Single /\ BuyCalls /\ SellCalls /\ EntryDue /\ ExitDue /\ ModeHandlers /\ Bought

LEMMA MinedNat ==
  ASSUME ChainTypes
  PROVE  MinedNonce \in Nat /\ \A tx \in mempool : tx.nonce \in Nat
BY FS_CardinalityType DEF ChainTypes, FiniteChain, MinedNonce, Txs

\* What is in a block stays there.
LEMMA SucceededOn ==
  ASSUME mined \subseteq mined'
  PROVE  \A k, p : Succeeded(k, p) => Succeeded(k, p)'
BY DEF Succeeded

LEMMA NoncesForget ==
  ASSUME Nonces, mempool' \subseteq mempool, UNCHANGED mined
  PROVE  Nonces'
BY DEF Nonces, MinedNonce

LEMMA NoncesSend ==
  ASSUME Nonces, mempool' \subseteq mempool \cup {signed.tx}, UNCHANGED mined,
         mempool' # mempool => Takes(signed.tx)
  PROVE  Nonces'
BY DEF Nonces, MinedNonce, Takes

LEMMA NoncesMine ==
  ASSUME ChainTypes, Nonces, NEW tx \in mempool, Mine(tx)
  PROVE  Nonces'
<1>1. PICK ok : mined' = mined \cup {[tx |-> tx, ok |-> ok]} BY DEF Mine
<1> DEFINE x == [tx |-> tx, ok |-> ok]
<1>2. mempool' = mempool \ {tx} /\ tx.nonce = MinedNonce BY DEF Mine
<1>3. MinedNonce \in Nat /\ (\A t \in mempool : t.nonce \in Nat) /\ \A m \in mined : m.tx.nonce \in Nat
  BY MinedNat DEF ChainTypes, Txs
<1>4. x.tx = tx OBVIOUS
<1> HIDE DEF x
<1>5. x \notin mined BY <1>2, <1>3, <1>4 DEF Nonces
<1>6. MinedNonce' = MinedNonce + 1
  BY <1>1, <1>5, FS_AddElement DEF MinedNonce, ChainTypes, FiniteChain, x
<1>7. \A m \in mined' : m \in mined \/ m = x BY <1>1 DEF x
<1>8. \A m \in mined' : m.tx.nonce < MinedNonce'
  BY <1>2, <1>3, <1>4, <1>6, <1>7 DEF Nonces
<1>9. \A m, n \in mined' : m.tx.nonce = n.tx.nonce => m = n
  BY <1>2, <1>3, <1>4, <1>7 DEF Nonces
<1>10. \A t \in mempool' : t.nonce >= MinedNonce'
  <2> SUFFICES ASSUME NEW t \in mempool' PROVE t.nonce >= MinedNonce' OBVIOUS
  <2>1. t \in mempool /\ t # tx BY <1>2
  <2>2. t.nonce >= MinedNonce /\ t.nonce # MinedNonce BY <1>2, <2>1 DEF Nonces
  <2> QED BY <1>3, <1>6, <2>1, <2>2
<1>11. \A a, b \in mempool' : a.nonce = b.nonce => a = b BY <1>2 DEF Nonces
<1> QED BY <1>8, <1>9, <1>10, <1>11 DEF Nonces

\* A step that adds at most one transaction, and no second swap.
LEMMA SingleKept ==
  ASSUME Single, NEW t, Known' \subseteq Known \cup {t},
         t.kind \in {"buy", "sell"} => \A a \in Known : ~(a.kind = t.kind /\ a.p = t.p)
  PROVE  Single'
BY DEF Single

\* What a step of the chain or of the executor does to the transactions.
LEMMA ChainKnown ==
  ASSUME ChainTypes, Nonces, ChainStep
  PROVE  Nonces' /\ Known' \subseteq Known /\ mined \subseteq mined' /\ UNCHANGED signed
<1>1. PICK tx \in mempool : Mine(tx) \/ Forget(tx) BY DEF ChainStep
<1>2. CASE Mine(tx)
  <2>1. Nonces' BY <1>2, NoncesMine
  <2>2. PICK ok : mined' = mined \cup {[tx |-> tx, ok |-> ok]} BY <1>2 DEF Mine
  <2>3. mempool' = mempool \ {tx} /\ UNCHANGED signed BY <1>2 DEF Mine
  <2>4. \A m \in mined' : m \in mined \/ m.tx = tx BY <2>2
  <2>5. Known' \subseteq Known
    <3> SUFFICES ASSUME NEW a \in Known' PROVE a \in Known OBVIOUS
    <3>1. \/ a = signed.tx \/ a \in mempool
          \/ \E m \in mined' : a = m.tx
      BY <2>3 DEF Known
    <3> QED BY <1>1, <2>4, <3>1 DEF Known
  <2> QED BY <2>1, <2>2, <2>3, <2>5
<1>3. CASE Forget(tx)
  <2>1. mempool' = mempool \ {tx} /\ UNCHANGED <<signed, mined>> BY <1>3 DEF Forget
  <2> QED BY <2>1, NoncesForget DEF Known
<1> QED BY <1>1, <1>2, <1>3

LEMMA SignKnown ==
  ASSUME NEW kind, NEW p, NEW n, Sign(kind, p, n), Nonces
  PROVE  /\ Nonces' /\ Known' \subseteq Known \cup {Tx(kind, p, n)} /\ UNCHANGED mined
         /\ signed'.tx = Tx(kind, p, n) /\ Tx(kind, p, n).kind = kind /\ Tx(kind, p, n).p = p
<1>1. signed' = [tx |-> Tx(kind, p, n), offers |-> 0] /\ UNCHANGED <<mempool, mined>> BY DEF Sign
<1>2. Nonces' BY <1>1, NoncesForget
<1>3. Known' \subseteq Known \cup {Tx(kind, p, n)} BY <1>1 DEF Known
<1> QED BY <1>1, <1>2, <1>3 DEF Tx

LEMMA SendKnown ==
  ASSUME ExecutorTypes, Nonces, Delivered \/ Undelivered
  PROVE  Nonces' /\ Known' \subseteq Known /\ UNCHANGED mined /\ signed'.tx = signed.tx
<1>1. mempool' = mempool \/ (Takes(signed.tx) /\ mempool' = mempool \cup {signed.tx})
  BY DEF Delivered, Undelivered
<1>2. UNCHANGED mined BY DEF Delivered, Undelivered
<1>3. signed'.tx = signed.tx BY DEF Delivered, Undelivered, ExecutorTypes
<1>4. Nonces' BY <1>1, <1>2, NoncesSend
<1> QED BY <1>1, <1>2, <1>3, <1>4 DEF Known

(* A step that makes no call and adds no swap.                             *)
SwapsKept ==
  /\ Known' \subseteq Known \cup {Unsigned.tx} /\ mined \subseteq mined'
  /\ UNCHANGED <<calls, attempts, mode>> /\ attempts \subseteq liveAttempted'
  /\ \A p \in Signals : CandidateExists(p) => CandidateExists(p)'

LEMMA CallsKept ==
  ASSUME Single, BuyCalls, SellCalls, SwapsKept
  PROVE  Single' /\ BuyCalls' /\ SellCalls'
<1>1. Unsigned.tx.kind \notin {"buy", "sell"} BY UnsignedTyped
<1>2. Single' BY <1>1, SingleKept DEF SwapsKept
<1>3. \A a \in Known' : a.kind \in {"buy", "sell"} => a \in Known BY <1>1 DEF SwapsKept
<1>4. BuyCalls' BY <1>3 DEF BuyCalls, SwapsKept
<1>5. SellCalls' BY <1>3 DEF SellCalls, SwapsKept
<1> QED BY <1>2, <1>4, <1>5

\* A live position that is opened was bought, one that is closed was sold.
LEMMA BoughtKept ==
  ASSUME Bought, mined \subseteq mined', UNCHANGED mode,
         \A p \in Active' : p \in Active \/ (mode = "live" => Succeeded("buy", p)),
         \A p \in Closed' : p \in Closed \/ (mode = "live" => Succeeded("sell", p))
  PROVE  Bought'
BY SucceededOn DEF Bought

\* Nothing runs before or after.
LEMMA SwapPauses ==
  ASSUME SwapInv, Pauses
  PROVE  SwapInv'
<1>1. UNCHANGED <<signed, mempool, mined, calls, attempts, mode, liveAttempted, candidates, rows, op>>
  BY DEF Pauses, Account, executorVars
<1>2. SwapsKept /\ Known' = Known BY <1>1 DEF SwapsKept, Known, CandidateExists, SwapInv, SellCalls
<1>3. Nonces' BY <1>1, NoncesForget DEF SwapInv
<1>4. EntryDue' BY <1>1 DEF SwapInv, EntryDue, CandidateExists, Succeeded
<1>5. ExitDue' BY <1>1, <1>2 DEF SwapInv, ExitDue, Succeeded
<1>6. ModeHandlers' BY <1>1 DEF SwapInv, ModeHandlers
<1>7. Bought' BY <1>1 DEF SwapInv, Bought, Succeeded, Active, Closed
<1> QED BY <1>2, <1>3, <1>4, <1>5, <1>6, <1>7, CallsKept DEF SwapInv

LEMMA SwapChain ==
  ASSUME PaperIInv, TypeIInv, SwapInv, ChainStep
  PROVE  SwapInv'
<1>1. ChainTypes BY Parts DEF AllTypes, ExecutorTypes
<1>2. Nonces' /\ Known' \subseteq Known /\ mined \subseteq mined' /\ UNCHANGED signed
  BY <1>1, ChainKnown DEF SwapInv
<1>3. UNCHANGED <<calls, attempts, mode, liveAttempted, candidates, rows, op>>
  BY DEF ChainStep, ledgerVars, durableVars, engineVars
<1>4. SwapsKept BY <1>2, <1>3 DEF SwapsKept, CandidateExists, SwapInv, SellCalls
<1>5. EntryDue' BY <1>2, <1>3, SucceededOn DEF SwapInv, EntryDue, CandidateExists
<1>6. ExitDue' BY <1>2, <1>3, SucceededOn DEF SwapInv, ExitDue
<1>7. ModeHandlers' BY <1>3 DEF SwapInv, ModeHandlers
<1>8. Bought' BY <1>2, <1>3, BoughtKept DEF SwapInv, Active, Closed
<1> QED BY <1>2, <1>4, <1>5, <1>6, <1>7, <1>8, CallsKept DEF SwapInv

LEMMA SwapBegins ==
  ASSUME PaperIInv, TypeIInv, SwapInv, Begins
  PROVE  SwapInv'
<1>1. UNCHANGED <<signed, mempool, mined, calls, attempts, mode, candidates, rows>>
  BY DEF Begins, Account, executorVars
<1>2. Known' = Known /\ attempts \subseteq liveAttempted /\ liveAttempted \subseteq liveAttempted'
  BY <1>1 DEF Known, SwapInv, SellCalls, Begins
<1>3. SwapsKept BY <1>1, <1>2 DEF SwapsKept, CandidateExists
<1>4. Nonces' BY <1>1, NoncesForget DEF SwapInv
<1>5. /\ op'.handler # "none" => op'.at = 1 /\ op'.p \in Signals
      /\ op'.handler = "live_entry" => mode = "live" /\ ~CandidateExists(op'.p)
      /\ op'.handler = "live_exit" => mode = "live" /\ op'.p \notin liveAttempted /\ op'.p \in liveAttempted'
      /\ op'.handler = "entry" => mode # "live"
      /\ op'.handler \in Closers /\ mode = "live" => op'.handler = "live_exit"
      /\ op'.handler = "shadow_exit" => mode = "shadow"
  BY DEF Begins, Begun, Handlers
<1>6. calls \in [buy : [Signals -> Nat], sell : [Signals -> Nat]] BY Parts DEF AllTypes, EngineTypes
<1>7. EntryDue'
  <2>1. op'.handler = "live_entry" => calls.buy[op'.p] = 0
    BY <1>5, <1>6 DEF SwapInv, BuyCalls
  <2> QED BY <1>1, <1>5, <2>1 DEF EntryDue
<1>8. ExitDue'
  <2>1. op'.handler = "live_exit" =>
          /\ op'.p \notin attempts /\ calls.sell[op'.p] = 0
          /\ \A a \in Known : a.kind = "sell" => a.p # op'.p
    BY <1>2, <1>5, <1>6 DEF SwapInv, SellCalls
  <2> QED BY <1>1, <1>2, <1>5, <2>1 DEF ExitDue
<1>9. ModeHandlers' BY <1>1, <1>5 DEF ModeHandlers
<1>10. Bought' BY <1>1 DEF SwapInv, Bought, Succeeded, Active, Closed
<1> QED BY <1>3, <1>4, <1>7, <1>8, <1>9, <1>10, CallsKept DEF SwapInv

LEMMA SwapRestart ==
  ASSUME SwapInv, Restart
  PROVE  SwapInv'
<1>1. /\ UNCHANGED <<mempool, mined, calls, attempts, mode, candidates, rows>>
      /\ signed' = Unsigned /\ liveAttempted' = attempts /\ op' = Idle
  BY DEF Restart, Recover, EngineRecover
<1>2. Known' \subseteq Known \cup {Unsigned.tx} BY <1>1 DEF Known
<1>3. SwapsKept BY <1>1, <1>2 DEF SwapsKept, CandidateExists
<1>4. Nonces' BY <1>1, NoncesForget DEF SwapInv
<1>5. EntryDue' /\ ExitDue' /\ ModeHandlers'
  BY <1>1, IdleHandler DEF EntryDue, ExitDue, ModeHandlers, Closers
<1>6. Bought' BY <1>1 DEF SwapInv, Bought, Succeeded, Active, Closed
<1> QED BY <1>3, <1>4, <1>5, <1>6, CallsKept DEF SwapInv

Swapping == {"attempt_row", "buy", "approve", "sell", "send", "receipt"}

LEMMA HandlerBought ==
  ASSUME PaperIInv, TypeIInv, SwapInv, HandlerStep
  PROVE  Bought' /\ UNCHANGED mined /\ ModeHandlers'
<1>1. /\ ~LockFree /\ OpShape(op) /\ op.p \in Signals /\ op.handler # "none"
      /\ op'.handler = op.handler \/ op' = Idle
      /\ UNCHANGED mode
  BY InProgress DEF LockFree
<1>2. UNCHANGED mined
  BY DEF HandlerStep, EngineStep, FinalizeSnapshot, LedgerStep, ExecutorStep, BuyStep, ApproveStep, SellStep, SendStep,
     ReceiptStep, Sign, Delivered, Undelivered, executorVars
<1>3. ModeHandlers' BY <1>1, IdleHandler DEF SwapInv, ModeHandlers, Closers
<1>4. rows \in [Signals -> Rows] BY Parts DEF AllTypes, BookTypes
<1>5. CASE OpenStep
  <2>1. /\ \A p \in Signals \ {op.p} : rows'[p] = rows[p]
        /\ rows'[op.p].status = "ENTRY_PENDING"
    BY <1>1, <1>4, <1>5 DEF OpenStep, OpenPosition, RowOf
  <2>2. op.handler \in Entries /\ op.at = OpenAt[op.handler]
    BY <1>1, <1>5, Places DEF OpenStep, At, StepOf
  <2>3. mode = "live" => Succeeded("buy", op.p)
    BY <2>2 DEF SwapInv, ModeHandlers, EntryDue, Entries, OpenAt
  <2> QED BY <1>1, <1>2, <1>3, <2>1, <2>3, BoughtKept DEF SwapInv, Active, Closed
<1>6. CASE CloseStep
  <2>1. \A p \in Signals \ {op.p} : rows'[p] = rows[p]
    BY <1>1, <1>4, <1>6 DEF CloseStep, ClosePosition
  <2>2. op.handler \in Closers /\ op.at = CloseAt[op.handler]
    BY <1>1, <1>6, Places DEF CloseStep, At, StepOf
  <2>3. mode = "live" => Succeeded("sell", op.p)
    BY <2>2 DEF SwapInv, ModeHandlers, ExitDue, CloseAt
  <2>4. rows'[op.p].status = "CLOSED" BY <1>1, <1>4, <1>6 DEF CloseStep, ClosePosition, Rows
  <2> QED BY <1>1, <1>2, <1>3, <2>1, <2>3, <2>4, BoughtKept DEF SwapInv, Active, Closed
<1>7. CASE TransitionStep \/ PartialStep
  <2>1. op.p \in Active /\ \A p \in Signals \ {op.p} : rows'[p] = rows[p]
    BY <1>1, <1>4, <1>7 DEF TransitionStep, TransitionPosition, PartialStep, RecordPartialTakeProfit
  <2>2. rows'[op.p].status # "CLOSED"
    BY <1>1, <1>4, <1>7 DEF TransitionStep, TransitionPosition, PartialStep, RecordPartialTakeProfit, Rows, Active
  <2> QED BY <1>1, <1>2, <1>3, <2>1, <2>2, BoughtKept DEF SwapInv, Active, Closed
<1>8. CASE UNCHANGED rows BY <1>1, <1>2, <1>3, <1>8, BoughtKept DEF SwapInv, Active, Closed
<1>9. UNCHANGED rows \/ OpenStep \/ CloseStep \/ TransitionStep \/ PartialStep
  BY DEF HandlerStep, EngineStep, FinalizeSnapshot, LedgerStep, CandidateStep, EntryRowStep, SaleRowStep, AttemptRowStep,
     CountStep, OutcomeStep, FollowupStep, ExecutorStep, BuyStep, ApproveStep, SellStep, SendStep, ReceiptStep,
     ledgerVars, durableVars
<1> QED BY <1>5, <1>6, <1>7, <1>8, <1>9

LEMMA SwapOthers ==
  ASSUME PaperIInv, TypeIInv, SwapInv, HandlerStep, StepOf(op) \notin Swapping
  PROVE  SwapInv'
<1>1. /\ PlacesOf(op) /\ OpShape(op) /\ ~LockFree /\ op.p \in Signals /\ op.at \in Nat /\ op.at >= 1
      /\ op' = op \/ op' = Idle \/ (op'.handler = op.handler /\ op'.at = op.at + 1 /\ op'.p = op.p)
      /\ UNCHANGED <<mode, liveAttempted>>
  BY InProgress
<1>2. UNCHANGED <<signed, mempool, mined, calls, attempts>>
  BY DEF HandlerStep, EngineStep, FinalizeSnapshot, LedgerStep, CandidateStep, OpenStep, TransitionStep, EntryRowStep,
     PartialStep, CloseStep, SaleRowStep, AttemptRowStep, CountStep, OutcomeStep, FollowupStep, ExecutorStep, BuyStep,
     ApproveStep, SellStep, SendStep, ReceiptStep, ledgerVars, durableVars, executorVars, At, StepOf, Swapping
<1>3. /\ \A p \in Signals : CandidateExists(p) => CandidateExists(p)'
      /\ StepOf(op) = "candidate" => \A p \in Signals : p = op.p => CandidateExists(p)'
  <2>1. (UNCHANGED candidates /\ StepOf(op) # "candidate") \/ CandidateStep
    BY DEF HandlerStep, EngineStep, FinalizeSnapshot, LedgerStep, CandidateStep, OpenStep, TransitionStep, EntryRowStep,
     PartialStep, CloseStep, SaleRowStep, AttemptRowStep, CountStep, OutcomeStep, FollowupStep, ExecutorStep, BuyStep,
     ApproveStep, SellStep, SendStep, ReceiptStep, ledgerVars, durableVars, At, StepOf, Kinds
  <2>2. candidates \in [Signals -> {"none", "ACCEPTED", "REJECTED"}] BY Parts DEF AllTypes, BookTypes
  <2> QED BY <1>1, <2>1, <2>2 DEF CandidateStep, RecordCandidate, CandidateExists
<1>4. SwapsKept BY <1>1, <1>2, <1>3 DEF SwapsKept, Known, SwapInv, SellCalls
<1>5. Nonces' BY <1>2, NoncesForget DEF SwapInv
<1>6. EntryDue'
  <2> SUFFICES ASSUME op'.handler = "live_entry" PROVE EntryDue' BY DEF EntryDue
  <2>1. op.handler = "live_entry" /\ op'.p = op.p /\ op'.at \in {op.at, op.at + 1} /\ (op'.at = op.at + 1 \/ op' = op)
    BY <1>1, IdleHandler
  <2>2. op.at \notin {2, 3, 4} BY <1>1, <2>1 DEF PlacesOf, Swapping
  <2>3. op.at = 1 => StepOf(op) = "candidate" BY <1>1, <2>1 DEF PlacesOf, Entries
  <2>4. op'.at <= 2 => calls.buy[op.p] = 0 BY <1>1, <2>1, <2>2 DEF SwapInv, EntryDue
  <2>5. op'.at >= 2 => \A p \in Signals : p = op.p => CandidateExists(p)'
    BY <1>1, <1>3, <2>1, <2>2, <2>3 DEF SwapInv, EntryDue
  <2>6. op'.at \notin {3, 4} BY <1>1, <2>1, <2>2
  <2>7. op'.at >= 5 => Succeeded("buy", op.p) BY <1>1, <2>1, <2>2 DEF SwapInv, EntryDue
  <2> QED BY <1>1, <1>2, <2>1, <2>4, <2>5, <2>6, <2>7 DEF EntryDue, Succeeded
<1>7. ExitDue'
  <2> SUFFICES ASSUME op'.handler = "live_exit" PROVE ExitDue' BY DEF ExitDue
  <2>1. op.handler = "live_exit" /\ op'.p = op.p /\ op'.at \in {op.at, op.at + 1} /\ (op'.at = op.at + 1 \/ op' = op)
    BY <1>1, IdleHandler
  <2>2. op.at \notin {1, 2, 3, 4, 5, 6, 7} BY <1>1, <2>1 DEF PlacesOf, Swapping
  <2>3. op.at >= 8 /\ op'.at >= 8 BY <1>1, <2>1, <2>2
  <2>4. op.p \in liveAttempted /\ op.p \in attempts /\ Succeeded("sell", op.p)
    BY <1>1, <2>1, <2>3 DEF SwapInv, ExitDue
  <2> QED BY <1>1, <1>2, <2>1, <2>3, <2>4 DEF ExitDue, Succeeded
<1> QED BY <1>4, <1>5, <1>6, <1>7, HandlerBought, CallsKept DEF SwapInv

\* The attempt is on record before anything is sold.
LEMMA SwapAttempt ==
  ASSUME PaperIInv, TypeIInv, SwapInv, HandlerStep, AttemptRowStep, UNCHANGED executorVars
  PROVE  SwapInv'
<1>1. /\ PlacesOf(op) /\ op.p \in Signals /\ op.at \in Nat
      /\ op' = op \/ op' = Idle \/ (op'.handler = op.handler /\ op'.at = op.at + 1 /\ op'.p = op.p)
      /\ op.handler = "live_exit" /\ op.at = 1
      /\ UNCHANGED <<mode, liveAttempted>>
  BY InProgress DEF AttemptRowStep, At, StepOf, PlacesOf
<1>2. attempts' = attempts \cup {op.p} /\ UNCHANGED <<signed, mempool, mined, calls, candidates>>
  BY DEF AttemptRowStep, RecordAttempt, executorVars
<1>3. Known' = Known BY <1>2 DEF Known
<1>4. op'.handler = "live_exit" => op'.at = 2 /\ op'.p = op.p
  <2>1. op' = Idle \/ op'.at = op.at + 1 BY <1>1, InProgress DEF AttemptRowStep, Advance, Handlers
  <2> QED BY <1>1, <2>1, IdleHandler
<1>5. op.p \in liveAttempted /\ calls.sell[op.p] = 0 /\ \A a \in Known : a.kind = "sell" => a.p # op.p
  BY <1>1 DEF SwapInv, ExitDue
<1>6. Nonces' /\ Single' BY <1>2, <1>3, NoncesForget DEF SwapInv, Single
<1>7. BuyCalls' BY <1>2, <1>3 DEF SwapInv, BuyCalls, CandidateExists
<1>8. SellCalls' BY <1>1, <1>2, <1>3, <1>5 DEF SwapInv, SellCalls
<1>9. EntryDue' BY <1>1, IdleHandler DEF EntryDue
<1>10. ExitDue' BY <1>1, <1>2, <1>3, <1>4, <1>5 DEF ExitDue
<1> QED BY <1>6, <1>7, <1>8, <1>9, <1>10, HandlerBought DEF SwapInv

LEMMA SwapBuy ==
  ASSUME PaperIInv, TypeIInv, SwapInv, HandlerStep, BuyStep
  PROVE  SwapInv'
<1>1. /\ PlacesOf(op) /\ op.p \in Signals /\ op.at \in Nat /\ op \in Handlers
      /\ op.handler = "live_entry" /\ op.at = 2
      /\ UNCHANGED <<mode, liveAttempted>>
  BY InProgress DEF BuyStep, At, StepOf, PlacesOf
<1>2. UNCHANGED <<attempts, candidates>> BY DEF BuyStep, ledgerVars, durableVars
<1>3. calls \in [buy : [Signals -> Nat], sell : [Signals -> Nat]] BY Parts DEF AllTypes, EngineTypes
<1>4. calls.buy[op.p] = 0 /\ CandidateExists(op.p) /\ \A a \in Known : a.kind = "buy" => a.p # op.p
  BY <1>1, <1>3 DEF SwapInv, EntryDue, BuyCalls
<1>5. /\ calls' = calls \/ calls' = [calls EXCEPT !.buy[op.p] = @ + 1]
      /\ calls' # calls \/ UNCHANGED executorVars
  BY <1>1, <1>3 DEF BuyStep
<1>6. CASE op' = Idle /\ UNCHANGED executorVars
  <2>1. Known' = Known /\ UNCHANGED <<mempool, mined>> BY <1>6 DEF Known, executorVars
  <2>2. Nonces' /\ Single' BY <2>1, NoncesForget DEF SwapInv, Single
  <2>3. calls'.sell = calls.sell /\ \A p \in Signals : calls'.buy[p] = calls.buy[p] \/ (p = op.p /\ calls'.buy[p] = 1)
    BY <1>1, <1>3, <1>4, <1>5
  <2>4. BuyCalls' BY <1>2, <1>3, <1>4, <2>1, <2>3 DEF SwapInv, BuyCalls, CandidateExists
  <2>5. SellCalls' BY <1>1, <1>2, <2>1, <2>3 DEF SwapInv, SellCalls
  <2>6. EntryDue' /\ ExitDue' BY <1>6, IdleHandler DEF EntryDue, ExitDue
  <2> QED BY <2>2, <2>4, <2>5, <2>6, HandlerBought DEF SwapInv
<1>7. CASE calls' = [calls EXCEPT !.buy[op.p] = @ + 1] /\ Sign("buy", op.p, PendingNonce) /\ Advance
  <2> DEFINE t == Tx("buy", op.p, PendingNonce)
  <2>1. /\ Nonces' /\ Known' \subseteq Known \cup {t} /\ UNCHANGED mined
        /\ signed'.tx = t /\ t.kind = "buy" /\ t.p = op.p
    BY <1>7, SignKnown DEF SwapInv
  <2> HIDE DEF t
  <2>2. Single' BY <1>4, <2>1, SingleKept DEF SwapInv
  <2>3. /\ calls'.sell = calls.sell /\ calls'.buy[op.p] = 1
        /\ \A p \in Signals \ {op.p} : calls'.buy[p] = calls.buy[p]
    BY <1>1, <1>3, <1>4, <1>7
  <2>4. BuyCalls'
    <3> SUFFICES ASSUME NEW p \in Signals
                 PROVE  /\ calls'.buy[p] <= 1 /\ (calls'.buy[p] > 0 => CandidateExists(p)')
                        /\ \A a \in Known' : a.kind = "buy" /\ a.p = p => calls'.buy[p] > 0
      BY DEF BuyCalls
    <3>1. CASE p = op.p BY <1>2, <1>4, <2>3, <3>1 DEF CandidateExists
    <3>2. CASE p # op.p BY <1>2, <2>1, <2>3, <3>2 DEF SwapInv, BuyCalls, CandidateExists
    <3> QED BY <3>1, <3>2
  <2>5. SellCalls'
    <3>1. \A a \in Known' : a.kind = "sell" => a \in Known BY <2>1
    <3> QED BY <1>1, <1>2, <2>3, <3>1 DEF SwapInv, SellCalls
  <2>6. op' = Idle \/ (op'.handler = "live_entry" /\ op'.at = 3 /\ op'.p = op.p)
    BY <1>1, <1>7 DEF Advance, Handlers
  <2>7. EntryDue' /\ ExitDue'
    BY <1>2, <1>4, <2>1, <2>6, IdleHandler DEF EntryDue, ExitDue, CandidateExists
  <2> QED BY <2>1, <2>2, <2>4, <2>5, <2>7, HandlerBought DEF SwapInv
<1> QED BY <1>6, <1>7 DEF BuyStep, Raise

LEMMA SwapApprove ==
  ASSUME PaperIInv, TypeIInv, SwapInv, HandlerStep, ApproveStep
  PROVE  SwapInv'
<1>1. /\ PlacesOf(op) /\ op.p \in Signals /\ op.at \in Nat /\ op \in Handlers
      /\ op.handler = "live_exit" /\ op.at = 2
      /\ UNCHANGED <<mode, liveAttempted>>
  BY InProgress DEF ApproveStep, At, StepOf, PlacesOf
<1>2. UNCHANGED <<attempts, candidates>> BY DEF ApproveStep, ledgerVars, durableVars
<1>3. calls \in [buy : [Signals -> Nat], sell : [Signals -> Nat]] BY Parts DEF AllTypes, EngineTypes
<1>4. /\ calls.sell[op.p] = 0 /\ op.p \in attempts /\ op.p \in liveAttempted
      /\ \A a \in Known : a.kind = "sell" => a.p # op.p
  BY <1>1 DEF SwapInv, ExitDue
<1>5. /\ calls'.buy = calls.buy /\ calls'.sell[op.p] = 1
      /\ \A p \in Signals \ {op.p} : calls'.sell[p] = calls.sell[p]
  BY <1>1, <1>3, <1>4 DEF ApproveStep
<1>6. /\ Nonces' /\ Single' /\ UNCHANGED mined
      /\ \A a \in Known' : a.kind \in {"buy", "sell"} => a \in Known
  <2>1. CASE UNCHANGED executorVars
    <3>1. Known' = Known /\ UNCHANGED <<mempool, mined>> BY <2>1 DEF Known, executorVars
    <3> QED BY <3>1, NoncesForget DEF SwapInv, Single
  <2>2. CASE Sign("approve", op.p, PendingNonce)
    <3> DEFINE t == Tx("approve", op.p, PendingNonce)
    <3>1. Nonces' /\ Known' \subseteq Known \cup {t} /\ UNCHANGED mined /\ t.kind = "approve"
      BY <2>2, SignKnown DEF SwapInv
    <3> HIDE DEF t
    <3> QED BY <3>1, SingleKept DEF SwapInv
  <2> QED BY <2>1, <2>2 DEF ApproveStep
<1>7. BuyCalls' BY <1>2, <1>5, <1>6 DEF SwapInv, BuyCalls, CandidateExists
<1>8. SellCalls'
  <2>1. \A p \in Signals : calls'.sell[p] <= 1 /\ (calls'.sell[p] > 0 => p \in attempts)
    BY <1>4, <1>5 DEF SwapInv, SellCalls
  <2> QED BY <1>1, <1>2, <1>6, <2>1 DEF SwapInv, SellCalls
<1>9. op' = Idle \/ (op'.handler = "live_exit" /\ op'.at = 3 /\ op'.p = op.p)
  BY <1>1 DEF ApproveStep, Raise, Advance, Handlers
<1>10. EntryDue' BY <1>9, IdleHandler DEF EntryDue
<1>11. ExitDue' BY <1>1, <1>2, <1>4, <1>6, <1>9, IdleHandler DEF ExitDue
<1> QED BY <1>6, <1>7, <1>8, <1>10, <1>11, HandlerBought DEF SwapInv

LEMMA SwapSell ==
  ASSUME PaperIInv, TypeIInv, SwapInv, HandlerStep, SellStep
  PROVE  SwapInv'
<1>1. /\ PlacesOf(op) /\ op.p \in Signals /\ op.at \in Nat /\ op \in Handlers
      /\ op.handler = "live_exit" /\ op.at = 5
      /\ UNCHANGED <<mode, liveAttempted>>
  BY InProgress DEF SellStep, At, StepOf, PlacesOf
<1>2. UNCHANGED <<attempts, candidates, calls>> BY DEF SellStep, ledgerVars, durableVars
<1>3. /\ op.p \in attempts /\ op.p \in liveAttempted
      /\ \A a \in Known : a.kind = "sell" => a.p # op.p
  BY <1>1 DEF SwapInv, ExitDue
<1>4. CASE op' = Idle /\ UNCHANGED executorVars
  <2>1. Known' = Known /\ UNCHANGED <<mempool, mined>> BY <1>4 DEF Known, executorVars
  <2>2. Nonces' /\ Single' BY <2>1, NoncesForget DEF SwapInv, Single
  <2>3. BuyCalls' /\ SellCalls' BY <1>1, <1>2, <2>1 DEF SwapInv, BuyCalls, SellCalls, CandidateExists
  <2>4. EntryDue' /\ ExitDue' BY <1>4, IdleHandler DEF EntryDue, ExitDue
  <2> QED BY <2>2, <2>3, <2>4, HandlerBought DEF SwapInv
<1>5. CASE Sign("sell", op.p, signed.tx.nonce + 1) /\ Advance
  <2> DEFINE t == Tx("sell", op.p, signed.tx.nonce + 1)
  <2>1. /\ Nonces' /\ Known' \subseteq Known \cup {t} /\ UNCHANGED mined
        /\ signed'.tx = t /\ t.kind = "sell" /\ t.p = op.p
    BY <1>5, SignKnown DEF SwapInv
  <2> HIDE DEF t
  <2>2. Single' BY <1>3, <2>1, SingleKept DEF SwapInv
  <2>3. BuyCalls'
    <3>1. \A a \in Known' : a.kind = "buy" => a \in Known BY <2>1
    <3> QED BY <1>2, <3>1 DEF SwapInv, BuyCalls, CandidateExists
  <2>4. SellCalls' BY <1>1, <1>2, <1>3, <2>1 DEF SwapInv, SellCalls
  <2>5. op' = Idle \/ (op'.handler = "live_exit" /\ op'.at = 6 /\ op'.p = op.p)
    BY <1>1, <1>5 DEF Advance, Handlers
  <2>6. EntryDue' /\ ExitDue'
    BY <1>1, <1>2, <1>3, <2>1, <2>5, IdleHandler DEF EntryDue, ExitDue
  <2> QED BY <2>1, <2>2, <2>3, <2>4, <2>6, HandlerBought DEF SwapInv
<1> QED BY <1>4, <1>5 DEF SellStep, Raise

\* Offering the transaction and waiting for it.
LEMMA SwapSend ==
  ASSUME PaperIInv, TypeIInv, SwapInv, HandlerStep, SendStep \/ ReceiptStep
  PROVE  SwapInv'
<1>1. /\ PlacesOf(op) /\ op.p \in Signals /\ op.at \in Nat
      /\ op' = op \/ op' = Idle \/ (op'.handler = op.handler /\ op'.at = op.at + 1 /\ op'.p = op.p)
      /\ UNCHANGED <<mode, liveAttempted>>
  BY InProgress
<1>2. UNCHANGED <<attempts, candidates, calls>> BY DEF SendStep, ReceiptStep, ledgerVars, durableVars
<1>3. Nonces' /\ Known' \subseteq Known /\ UNCHANGED mined /\ signed'.tx = signed.tx
  <2>1. CASE SendStep
    <3>1. ExecutorTypes BY Parts DEF AllTypes
    <3>2. Delivered \/ Undelivered BY <2>1 DEF SendStep
    <3> QED BY <3>1, <3>2, SendKnown DEF SwapInv
  <2>2. CASE ReceiptStep
    <3>1. UNCHANGED <<signed, mempool, mined>> BY <2>2 DEF ReceiptStep, executorVars
    <3> QED BY <3>1, NoncesForget DEF SwapInv, Known
  <2> QED BY <2>1, <2>2
<1>4. SwapsKept BY <1>1, <1>2, <1>3 DEF SwapsKept, CandidateExists, SwapInv, SellCalls
<1>5. ReceiptStep /\ op' # Idle => Succeeded(signed.tx.kind, signed.tx.p)
  BY DEF ReceiptStep, Raise, Settled, Succeeded
<1>6. ReceiptStep /\ op' # Idle => op'.at = op.at + 1
  BY <1>1, InProgress DEF ReceiptStep, Raise, Advance, Handlers
<1>7. StepOf(op) = IF SendStep THEN "send" ELSE "receipt" BY DEF SendStep, ReceiptStep, At, StepOf
<1>8. EntryDue'
  <2> SUFFICES ASSUME op'.handler = "live_entry" PROVE EntryDue' BY DEF EntryDue
  <2>1. op.handler = "live_entry" /\ op' # Idle /\ op'.p = op.p BY <1>1, IdleHandler
  <2>2. /\ SendStep => op.at = 3 /\ op'.at \in {3, 4}
        /\ ~SendStep => op.at = 4 /\ op'.at = 5
    BY <1>1, <1>6, <1>7, <2>1 DEF PlacesOf
  <2>3. CandidateExists(op.p) /\ signed.tx.kind = "buy" /\ signed.tx.p = op.p
    BY <2>1, <2>2 DEF SwapInv, EntryDue
  <2> QED BY <1>2, <1>3, <1>5, <2>1, <2>2, <2>3 DEF EntryDue, Succeeded, CandidateExists
<1>9. ExitDue'
  <2> SUFFICES ASSUME op'.handler = "live_exit" PROVE ExitDue' BY DEF ExitDue
  <2>1. op.handler = "live_exit" /\ op' # Idle /\ op'.p = op.p BY <1>1, IdleHandler
  <2>2. /\ SendStep => \/ op.at = 3 /\ op'.at \in {3, 4}
                       \/ op.at = 6 /\ op'.at \in {6, 7}
        /\ ~SendStep => \/ op.at = 4 /\ op'.at = 5
                        \/ op.at = 7 /\ op'.at = 8
    BY <1>1, <1>6, <1>7, <2>1 DEF PlacesOf
  <2>3. op.p \in attempts /\ op.p \in liveAttempted BY <2>1, <2>2 DEF SwapInv, ExitDue
  <2>4. op'.at \in {3, 4, 5} => \A a \in Known : a.kind = "sell" => a.p # op.p
    BY <2>1, <2>2 DEF SwapInv, ExitDue
  <2>5. op.at \in {6, 7} => signed.tx.kind = "sell" /\ signed.tx.p = op.p
    BY <2>1 DEF SwapInv, ExitDue
  <2>6. op'.at = 8 => Succeeded("sell", op.p) BY <1>5, <2>1, <2>2, <2>5
  <2>7. op'.at \in {3, 4, 5, 6, 7, 8} /\ (op'.at \in {6, 7} => op.at = 6) BY <2>2
  <2> QED BY <1>1, <1>2, <1>3, <2>1, <2>3, <2>4, <2>5, <2>6, <2>7 DEF ExitDue, Succeeded
<1> QED BY <1>3, <1>4, <1>8, <1>9, HandlerBought, CallsKept DEF SwapInv

LEMMA SwapSteps ==
  ASSUME PaperIInv, TypeIInv, SwapInv, [Next]_vars
  PROVE  SwapInv'
<1>1. ASSUME HandlerStep PROVE SwapInv'
  <2>1. CASE StepOf(op) \notin Swapping BY <1>1, <2>1, SwapOthers
  <2>2. CASE AttemptRowStep /\ UNCHANGED executorVars BY <1>1, <2>2, SwapAttempt
  <2>3. CASE BuyStep \/ ApproveStep \/ SellStep \/ SendStep \/ ReceiptStep
    BY <1>1, <2>3, SwapBuy, SwapApprove, SwapSell, SwapSend
  <2>4. \/ StepOf(op) \notin Swapping \/ (AttemptRowStep /\ UNCHANGED executorVars)
        \/ BuyStep \/ ApproveStep \/ SellStep \/ SendStep \/ ReceiptStep
    BY <1>1 DEF HandlerStep, EngineStep, FinalizeSnapshot, LedgerStep, CandidateStep, OpenStep, TransitionStep,
     EntryRowStep, PartialStep, CloseStep, SaleRowStep, CountStep, OutcomeStep, FollowupStep,
     ExecutorStep, At, StepOf, Kinds, Swapping
  <2> QED BY <2>1, <2>2, <2>3, <2>4
<1> QED BY <1>1, SwapPauses, SwapChain, SwapBegins, SwapRestart, StepKinds

\* Every transaction there is belongs to one call of its side, and a live
\* handler is as far with its swap as its next operation says.
THEOREM SwapInvariance == Spec => []SwapInv
<1>1. Init => SwapInv
  <2> SUFFICES ASSUME Init PROVE SwapInv OBVIOUS
  <2>1. mempool = {} /\ mined = {} /\ Known = {Unsigned.tx} /\ op.handler = "none"
    BY IdleHandler DEF Init, EngineInit, ExecutorInit, Known
  <2>2. Active = {} /\ Closed = {} BY DEF Init, LedgerInit, RowOf, Active, Closed
  <2>3. Nonces /\ Single BY <2>1 DEF Nonces, Single
  <2>4. \A a \in Known : a.kind = "none" BY <2>1, UnsignedTyped
  <2>5. BuyCalls /\ SellCalls BY <2>4 DEF Init, EngineInit, LedgerInit, BuyCalls, SellCalls
  <2>6. EntryDue /\ ExitDue /\ ModeHandlers BY <2>1 DEF EntryDue, ExitDue, ModeHandlers, Closers
  <2> QED BY <2>2, <2>3, <2>5, <2>6 DEF SwapInv, Bought
<1>2. PaperIInv /\ TypeIInv /\ SwapInv /\ [Next]_vars => SwapInv' BY SwapSteps
<1> QED BY <1>1, <1>2, Typing, PTL DEF Spec

\* The executor is called once per position and side, and one swap of each is
\* mined, whatever the nodes, the answers and the restarts do.  It says nothing of
\* two positions of one token.
THEOREM OneSwap == Spec => []OneSwapMined
<1>1. PaperIInv /\ TypeIInv /\ SwapInv => OneSwapMined
  <2> SUFFICES ASSUME PaperIInv, TypeIInv, SwapInv, NEW p \in Signals, NEW side \in {"buy", "sell"}
               PROVE  Cardinality({m \in mined : m.tx.kind = side /\ m.tx.p = p}) <= 1
    BY DEF OneSwapMined, SwapInv, BuyCalls, SellCalls
  <2> DEFINE S == {m \in mined : m.tx.kind = side /\ m.tx.p = p}
  <2>1. \A m, n \in S : m = n
    <3> SUFFICES ASSUME NEW m \in S, NEW n \in S PROVE m = n OBVIOUS
    <3>1. m.tx \in Known /\ n.tx \in Known BY DEF Known
    <3>2. m.tx = n.tx BY <3>1 DEF SwapInv, Single
    <3> QED BY <3>2 DEF SwapInv, Nonces
  <2> HIDE DEF S
  <2>2. Cardinality(S) <= 1
    <3>1. CASE S = {} BY <3>1, FS_EmptySet
    <3>2. CASE S # {}
      <4>1. PICK m \in S : TRUE BY <3>2
      <4>2. S = {m} BY <2>1, <4>1
      <4> QED BY <4>2, FS_Singleton
    <3> QED BY <3>1, <3>2
  <2> QED BY <2>2 DEF S
<1> QED BY <1>1, Typing, SwapInvariance, PTL

\* A live position that no sell was tried for is in the wallet, a closed one
\* has left it.
THEOREM Backed == Spec => []WalletBacked
<1>1. PaperIInv /\ TypeIInv /\ SwapInv => WalletBacked
  <2> SUFFICES ASSUME SwapInv, mode = "live", NEW p \in Active \ attempts
               PROVE  p \in Wallet
    BY DEF WalletBacked, SwapInv, Bought
  <2>1. p \in Signals /\ Succeeded("buy", p) BY DEF SwapInv, Bought, Active
  <2>2. ~Succeeded("sell", p)
    <3> SUFFICES ASSUME NEW m \in mined, m.tx.kind = "sell", m.tx.p = p PROVE FALSE BY DEF Succeeded
    <3>1. m.tx \in Known BY DEF Known
    <3> QED BY <2>1, <3>1 DEF SwapInv, SellCalls
  <2> QED BY <2>1, <2>2 DEF Wallet
<1> QED BY <1>1, Typing, SwapInvariance, PTL

-----------------------------------------------------------------------------
(* The large losses                                                        *)

(* A loss that has its row and is not counted yet.                         *)
Uncounted ==
  IF op.handler \in Counters /\ op.at > RowAt(op.handler) /\ op.at <= CountAt(op.handler)
  THEN op.large ELSE 0

LossInv ==
  /\ mode # "shadow" => LargeLossRows = largeLosses + Uncounted
  /\ BeforeOpen(op) => largeLosses < MaxLargeLosses

Losses(s) == [p \in Signals |-> s[p].large]

LEMMA RowsSum ==
  ASSUME NEW s
  PROVE  SumFunction(Losses(s)) = SumOf(Losses(s), Signals)
<1>1. DOMAIN Losses(s) = Signals BY DEF Losses
<1> QED BY <1>1, SumOfFunction

\* One row more adds its loss.
LEMMA OneMoreLoss ==
  ASSUME BookTypes, NEW p \in Signals, NEW units, NEW exits, NEW large \in Nat, RecordSale(p, units, exits, large)
  PROVE  LargeLossRows' = LargeLossRows + large
<1> DEFINE f == Losses(sales)
           g == Losses(sales')
           R == Signals \ {p}
<1>1. LargeLossRows = SumOf(f, Signals) /\ LargeLossRows' = SumOf(g, Signals)
  BY RowsSum DEF LargeLossRows, Losses
<1>2. (\A x \in Signals : f[x] \in Nat) /\ (\A x \in R : f[x] = g[x]) /\ g[p] = f[p] + large
  BY DEF BookTypes, RecordSale, Losses
<1> HIDE DEF f, g
<1>3. \A x \in Signals : g[x] \in Nat
  <2>1. g[p] \in Nat BY <1>2
  <2> QED BY <1>2, <2>1
<1>4. IsFiniteSet(Signals) /\ IsFiniteSet(R) BY CoordinatorAssumption, FS_RemoveElement DEF CoordinatorAssumption
<1>5. SumOf(f, Signals) = f[p] + SumOf(f, R) /\ SumOf(g, Signals) = g[p] + SumOf(g, R)
  BY <1>2, <1>3, <1>4, SumRemove
<1>6. SumOf(f, R) = SumOf(g, R) BY <1>2, <1>4, SumSame
<1>7. SumOf(f, R) \in Nat BY <1>2, <1>4, SumNat
<1> QED BY <1>1, <1>2, <1>5, <1>6, <1>7

LEMMA SameLosses ==
  ASSUME UNCHANGED sales
  PROVE  LargeLossRows' = LargeLossRows
BY DEF LargeLossRows

\* Where a handler can end.
LEMMA HandlerEnds ==
  ASSUME HandlerStep
  PROVE  \/ StepOf(op) \in Swapping
         \/ (op.at = Len(Order[op.handler]) /\ op' = Idle)
         \/ (op.at # Len(Order[op.handler]) /\ op' = [op EXCEPT !.at = @ + 1])
BY DEF HandlerStep, EngineStep, FinalizeSnapshot, LedgerStep, CandidateStep, OpenStep, TransitionStep, EntryRowStep,
     PartialStep, CloseStep, SaleRowStep, AttemptRowStep, CountStep, OutcomeStep, FollowupStep, ExecutorStep, BuyStep,
     ApproveStep, SellStep, SendStep, ReceiptStep, Advance, At, StepOf, Swapping

\* A loss waits to be counted between its row and its count, and only there.
LEMMA CountsMove ==
  ASSUME PaperIInv, TypeIInv, HandlerStep
  PROVE  /\ Uncounted \in Nat
         /\ StepOf(op) = "exit_row" /\ op.handler # "shadow_exit" => Uncounted = 0 /\ Uncounted' = op.large
         /\ StepOf(op) = "count" => Uncounted = op.large /\ Uncounted' = 0
         /\ StepOf(op) # "exit_row" /\ StepOf(op) # "count" => Uncounted' = Uncounted
<1>1. /\ PlacesOf(op) /\ op.at \in Nat /\ op.at >= 1 /\ op.large \in {0, 1} /\ op.handler # "none"
      /\ OpShape(op)
      /\ op' = op \/ op' = Idle \/ (/\ op'.handler = op.handler /\ op'.at = op.at + 1 /\ op'.p = op.p
                                       /\ op'.units = op.units /\ op'.large = op.large)
  BY InProgress DEF LockFree
<1>2. op.handler \in Counters =>
        /\ RowAt(op.handler) \in Nat /\ CountAt(op.handler) \in Nat
        /\ RowAt(op.handler) < CountAt(op.handler) /\ CountAt(op.handler) <= Len(Order[op.handler])
        /\ StepOf(op) = "exit_row" => op.at = RowAt(op.handler)
        /\ StepOf(op) = "count" => op.at = CountAt(op.handler)
        /\ StepOf(op) # "exit_row" /\ StepOf(op) # "count" => op.at # RowAt(op.handler) /\ op.at # CountAt(op.handler)
        /\ StepOf(op) \in Swapping => op.handler = "live_exit" /\ op.at <= 7
        /\ op.at <= Len(Order[op.handler])
  <2>1. op.handler \in Counters =>
          /\ RowAt(op.handler) \in Nat /\ CountAt(op.handler) \in Nat
          /\ RowAt(op.handler) < CountAt(op.handler) /\ CountAt(op.handler) <= Len(Order[op.handler])
    <3>1. CASE op.handler = "paper_exit" BY <3>1 DEF RowAt, CountAt, Order, PaperExitOps
    <3>2. CASE op.handler = "triggered" BY <3>2 DEF RowAt, CountAt, Order, TriggeredOps
    <3>3. CASE op.handler = "timeout" BY <3>3 DEF RowAt, CountAt, Order, TimeoutOps
    <3>4. CASE op.handler = "live_exit" BY <3>4 DEF RowAt, CountAt, Order, LiveExitOps
    <3> QED BY <3>1, <3>2, <3>3, <3>4 DEF Counters
  <2>2. op.handler \in Counters => (StepOf(op) \in Swapping => op.handler = "live_exit" /\ op.at <= 7)
    BY <1>1 DEF PlacesOf, Swapping, Counters
  <2> QED BY <1>1, <2>1, <2>2 DEF PlacesOf, Counters
<1>3. CASE op.handler \notin Counters
  <2>1. Uncounted = 0 /\ Uncounted' = 0 BY <1>1, <1>3, IdleHandler DEF Uncounted, Counters
  <2>2. StepOf(op) # "count" /\ (StepOf(op) = "exit_row" => op.handler = "shadow_exit") BY <1>1, <1>3 DEF PlacesOf
  <2> QED BY <2>1, <2>2
<1>4. CASE op.handler \in Counters
  <2>1. Uncounted = IF op.at > RowAt(op.handler) /\ op.at <= CountAt(op.handler) THEN op.large ELSE 0
    BY <1>4 DEF Uncounted
  <2>2. CASE op' = Idle
    <3>1. Uncounted' = 0 BY <2>2, IdleHandler DEF Uncounted, Counters
    <3>2. op.at = Len(Order[op.handler]) \/ (op.at <= 7 /\ op.handler = "live_exit")
      <4>1. op.at # Len(Order[op.handler]) => op' # [op EXCEPT !.at = @ + 1]
        BY <1>1, <2>2, IdleHandler, InProgress DEF Handlers
      <4> QED BY <1>2, <1>4, <4>1, HandlerEnds
    <3>3. op.handler = "live_exit" => RowAt(op.handler) = 10 /\ CountAt(op.handler) = 11
      BY DEF RowAt, CountAt
    <3> QED BY <1>1, <1>2, <1>4, <2>1, <3>1, <3>2, <3>3
  <2>3. CASE op' = op
    <3>1. StepOf(op) \in Swapping
      BY <1>1, <2>3, HandlerEnds, IdleHandler, InProgress DEF Handlers
    <3> QED BY <1>1, <2>1, <2>3, <3>1 DEF Uncounted, Swapping
  <2>4. CASE op'.handler = op.handler /\ op'.at = op.at + 1 /\ op'.large = op.large
    <3>1. Uncounted' = IF op.at + 1 > RowAt(op.handler) /\ op.at + 1 <= CountAt(op.handler) THEN op.large ELSE 0
      BY <1>4, <2>4 DEF Uncounted
    <3> QED BY <1>1, <1>2, <1>4, <2>1, <3>1
  <2> QED BY <1>1, <2>2, <2>3, <2>4
<1> QED BY <1>3, <1>4

LEMMA LossHandler ==
  ASSUME PaperIInv, TypeIInv, TypeIInv', SwapInv, LossInv, HandlerStep
  PROVE  LossInv'
<1>1. /\ PlacesOf(op) /\ OpShape(op) /\ ~LockFree /\ op.p \in Signals /\ op.large \in Nat /\ Moves
      /\ UNCHANGED mode
  BY InProgress
<1>2. BookTypes /\ largeLosses \in Nat /\ LargeLossRows \in Nat BY Parts, LossRows DEF AllTypes, BookTypes
<1>3. BeforeOpen(op') => BeforeOpen(op) BY <1>1, MovesOn
<1>4. CASE SaleRowStep
  <2>1. UNCHANGED largeLosses BY <1>4 DEF SaleRowStep
  <2>2. mode # "shadow" => LargeLossRows' = largeLosses' + Uncounted'
    <3> SUFFICES ASSUME mode # "shadow" PROVE LargeLossRows' = largeLosses' + Uncounted' OBVIOUS
    <3>1. op.handler # "shadow_exit" BY DEF SwapInv, ModeHandlers
    <3>2. CASE StepOf(op) = "exit_row"
      <4>1. RecordSale(op.p, op.units, 1, op.large) BY <1>4, <3>2 DEF SaleRowStep, At, StepOf
      <4>2. LargeLossRows' = LargeLossRows + op.large BY <1>1, <1>2, <4>1, OneMoreLoss
      <4> QED BY <1>2, <2>1, <3>1, <3>2, <4>2, CountsMove DEF LossInv
    <3>3. CASE StepOf(op) # "exit_row"
      <4>1. (\E u, e : RecordSale(op.p, u, e, 0)) /\ StepOf(op) # "count"
        BY <1>4, <3>3 DEF SaleRowStep, At, StepOf
      <4>2. LargeLossRows' = LargeLossRows + 0 BY <1>1, <1>2, <4>1, OneMoreLoss
      <4> QED BY <1>2, <2>1, <3>3, <4>1, <4>2, CountsMove DEF LossInv
    <3> QED BY <3>2, <3>3
  <2> QED BY <1>1, <1>3, <2>1, <2>2 DEF LossInv
<1>5. CASE CountStep
  <2>1. UNCHANGED sales /\ largeLosses' = largeLosses + op.large /\ StepOf(op) = "count"
    BY <1>5 DEF CountStep, durableVars, At, StepOf
  <2>2. ~BeforeOpen(op)
    BY <1>1, <2>1 DEF BeforeOpen, PlacesOf, Counters, Entries
  <2> QED BY <1>1, <1>2, <1>3, <2>1, <2>2, SameLosses, CountsMove DEF LossInv
<1>6. CASE ~SaleRowStep /\ ~CountStep
  <2>1. UNCHANGED <<sales, largeLosses>> /\ StepOf(op) # "exit_row" /\ StepOf(op) # "count"
    BY <1>6 DEF HandlerStep, EngineStep, FinalizeSnapshot, LedgerStep, CandidateStep, OpenStep, TransitionStep,
     EntryRowStep, PartialStep, CloseStep, AttemptRowStep, OutcomeStep, FollowupStep, ExecutorStep, BuyStep,
     ApproveStep, SellStep, SendStep, ReceiptStep, ledgerVars, durableVars, At, StepOf, Kinds
  <2> QED BY <1>1, <1>3, <2>1, SameLosses, CountsMove DEF LossInv
<1> QED BY <1>4, <1>5, <1>6

LEMMA LossSteps ==
  ASSUME PaperIInv, TypeIInv, TypeIInv', SwapInv, LossInv, [Next]_vars
  PROVE  LossInv'
<1>1. CASE Pauses \/ ChainStep
  <2>1. UNCHANGED <<sales, largeLosses, op, mode>>
    BY <1>1 DEF Pauses, Account, ChainStep, ledgerVars, durableVars, engineVars
  <2> QED BY <2>1, SameLosses DEF LossInv, Uncounted
<1>2. CASE Begins
  <2>1. UNCHANGED <<sales, largeLosses, mode>> BY <1>2 DEF Begins, Account
  <2>2. Uncounted = 0 BY <1>2 DEF Begins, LockFree, Uncounted, Counters
  <2>3. Uncounted' = 0 BY <1>2 DEF Begins, Begun, Uncounted, Counters, RowAt
  <2>4. BeforeOpen(op') => largeLosses < MaxLargeLosses BY <1>2 DEF Begins, Begun, BeforeOpen
  <2> QED BY <2>1, <2>2, <2>3, <2>4, SameLosses DEF LossInv
<1>3. CASE Restart
  <2>1. UNCHANGED <<sales, mode>> /\ largeLosses' = LargeLossRows /\ op' = Idle
    BY <1>3 DEF Restart, Recover, RecoverLosses, EngineRecover
  <2>2. Uncounted' = 0 /\ ~BeforeOpen(op')
    BY <2>1, IdleHandler DEF Uncounted, Counters, BeforeOpen, Entries
  <2>3. LargeLossRows \in Nat BY Parts, LossRows DEF AllTypes
  <2> QED BY <2>1, <2>2, <2>3, SameLosses DEF LossInv
<1> QED BY <1>1, <1>2, <1>3, LossHandler, StepKinds

LEMMA NoLosses == Init => LargeLossRows = 0
<1> SUFFICES ASSUME Init PROVE LargeLossRows = 0 OBVIOUS
<1> DEFINE f == Losses(sales)
<1>1. LargeLossRows = SumOf(f, Signals) BY RowsSum DEF LargeLossRows, Losses
<1>2. \A x \in Signals : f[x] = 0 BY DEF Init, LedgerInit, Losses
<1> HIDE DEF f
<1> QED BY <1>1, <1>2, SumZero, CoordinatorAssumption DEF CoordinatorAssumption

\* The count in memory is that of the exit rows, but for the loss whose row
\* has just been written, and an entry under way was below the limit.
THEOREM LossInvariance == Spec => []LossInv
<1>1. Init => LossInv
  BY NoLosses, IdleHandler DEF Init, LedgerInit, EngineInit, LossInv, Uncounted, Counters, BeforeOpen, Entries
<1>2. PaperIInv /\ TypeIInv /\ TypeIInv' /\ SwapInv /\ LossInv /\ [Next]_vars => LossInv' BY LossSteps
<1> QED BY <1>1, <1>2, Typing, SwapInvariance, PTL DEF Spec

\* After so many large losses on record no position opens any more, whatever
\* was counted in memory and whatever a restart counted again.
THEOREM Paused == Spec => PausedAfterLosses
<1>1. PaperIInv /\ TypeIInv /\ LossInv /\ [Next]_vars =>
        [(\E p \in Signals : rows[p].status = "none" /\ rows'[p].status # "none") =>
           mode = "shadow" \/ LargeLossRows < MaxLargeLosses]_vars
  <2> SUFFICES ASSUME PaperIInv, TypeIInv, LossInv, [Next]_vars, mode # "shadow",
                      NEW p \in Signals, rows[p].status = "none", rows'[p].status # "none"
               PROVE  LargeLossRows < MaxLargeLosses
    OBVIOUS
  <2>1. HandlerStep
    <3>1. ~Pauses /\ ~Begins /\ ~ChainStep /\ ~Restart
      BY DEF Pauses, Begins, Account, ChainStep, ledgerVars, durableVars, Restart, Recover
    <3> QED BY <3>1, StepKinds
  <2>2. rows \in [Signals -> Rows] /\ largeLosses \in Nat BY Parts DEF AllTypes, BookTypes
  <2>3. OpenStep
    <3>1. ~(TransitionStep \/ PartialStep \/ CloseStep)
      BY <2>2 DEF TransitionStep, TransitionPosition, PartialStep, RecordPartialTakeProfit, CloseStep, ClosePosition, Active
    <3> QED BY <2>1, <3>1 DEF HandlerStep, EngineStep, FinalizeSnapshot, LedgerStep, CandidateStep, EntryRowStep,
         SaleRowStep, AttemptRowStep, CountStep, OutcomeStep, FollowupStep, ExecutorStep, BuyStep, ApproveStep, SellStep,
         SendStep, ReceiptStep, ledgerVars, durableVars
  <2>4. op.handler \in Entries /\ op.at = OpenAt[op.handler]
    BY <2>1, <2>3, InProgress, Places DEF OpenStep, At, StepOf, LockFree
  <2>5. BeforeOpen(op)
    <3>1. OpenAt[op.handler] \in Nat BY <2>4 DEF Entries, OpenAt
    <3> QED BY <2>4, <3>1 DEF BeforeOpen
  <2>6. Uncounted = 0 BY <2>4 DEF Uncounted, Counters, Entries
  <2> QED BY <2>2, <2>5, <2>6, LimitsAssumption DEF LossInv, LimitsAssumption
<1> QED BY <1>1, Typing, LossInvariance, PTL DEF Spec, PausedAfterLosses

-----------------------------------------------------------------------------
(* The operations of a handler do not raise                                *)

(* What was opened is still open at the next operation.                    *)
Opened == op.handler \in Entries /\ op.at > OpenAt[op.handler] => op.p \in Active

(* The guard of the operation that comes next.                             *)
Ready ==
  ~LockFree =>
    /\ StepOf(op) = "open" => rows[op.p].status = "none"
    /\ StepOf(op) \in {"opened", "trigger", "partial", "close"} => op.p \in Active
    /\ StepOf(op) = "partial" => rows[op.p].stage < 2 /\ 2 * op.units = rows[op.p].units

LEMMA RowPlaces ==
  ASSUME NEW o, OpShape(o), o.handler # "none"
  PROVE  /\ StepOf(o) = "opened" => o.handler \in Entries /\ o.at > OpenAt[o.handler]
         /\ StepOf(o) = "trigger" => BeforeClose(o)
<1>1. CASE o.handler = "reject"
  BY <1>1 DEF RejectOps, Order, OpShape, StepOf
<1>2. CASE o.handler = "entry"
  BY <1>2 DEF EntryOps, Order, OpShape, StepOf, Entries, OpenAt
<1>3. CASE o.handler = "live_entry"
  BY <1>3 DEF LiveEntryOps, Order, OpShape, StepOf, Entries, OpenAt
<1>4. CASE o.handler = "partial"
  BY <1>4 DEF PartialOps, Order, OpShape, StepOf
<1>5. CASE o.handler = "paper_exit"
  BY <1>5 DEF PaperExitOps, Order, OpShape, StepOf, BeforeClose, Closers, CloseAt
<1>6. CASE o.handler = "shadow_exit"
  BY <1>6 DEF ShadowExitOps, Order, OpShape, StepOf, BeforeClose, Closers, CloseAt
<1>7. CASE o.handler = "triggered"
  BY <1>7 DEF TriggeredOps, Order, OpShape, StepOf, BeforeClose, Closers, CloseAt
<1>8. CASE o.handler = "waiting"
  BY <1>8 DEF WaitingOps, Order, OpShape, StepOf, BeforeClose, Keepers
<1>9. CASE o.handler = "timeout"
  BY <1>9 DEF TimeoutOps, Order, OpShape, StepOf, BeforeClose, Closers, CloseAt
<1>10. CASE o.handler = "unavailable"
  BY <1>10 DEF UnavailableOps, Order, OpShape, StepOf, BeforeClose, Closers, CloseAt
<1>11. CASE o.handler = "live_exit"
  BY <1>11 DEF LiveExitOps, Order, OpShape, StepOf, BeforeClose, Closers, CloseAt
<1> QED BY <1>1, <1>2, <1>3, <1>4, <1>5, <1>6, <1>7, <1>8, <1>9, <1>10, <1>11 DEF OpShape, Plans, Entries, Closers, Keepers

LEMMA OpenedHandler ==
  ASSUME PaperIInv, TypeIInv, Opened, HandlerStep
  PROVE  Opened'
<1> SUFFICES ASSUME op'.handler \in Entries, op'.at > OpenAt[op'.handler] PROVE op'.p \in Active' BY DEF Opened
<1>1. /\ OpShape(op) /\ op.p \in Signals /\ op.at \in Nat /\ op.handler # "none"
      /\ op' = op \/ op' = Idle \/ (/\ op'.handler = op.handler /\ op'.at = op.at + 1 /\ op'.p = op.p
                                       /\ op'.units = op.units /\ op'.large = op.large)
  BY InProgress DEF LockFree
<1>2. rows \in [Signals -> Rows] BY Parts DEF AllTypes, BookTypes
<1>3. op.handler \in Entries /\ op'.p = op.p /\ op.handler = op'.handler BY <1>1, IdleHandler DEF Entries
<1>4. OpenAt[op.handler] \in Nat BY <1>3 DEF Entries, OpenAt
<1>5. CASE OpenStep
  <2>1. rows'[op.p].status = "ENTRY_PENDING" BY <1>1, <1>2, <1>5 DEF OpenStep, OpenPosition, RowOf
  <2> QED BY <1>1, <1>3, <2>1 DEF Active
<1>6. CASE ~OpenStep
  <2>1. StepOf(op) # "open" /\ StepOf(op) # "close"
    <3>1. StepOf(op) # "close" BY <1>1, <1>3, Places DEF Entries, Closers
    <3>2. StepOf(op) = "open" => OpenStep
      BY <1>1 DEF HandlerStep, EngineStep, FinalizeSnapshot, LedgerStep, CandidateStep, TransitionStep,
     EntryRowStep, PartialStep, CloseStep, SaleRowStep, AttemptRowStep, CountStep, OutcomeStep, FollowupStep, ExecutorStep,
     BuyStep, ApproveStep, SellStep, SendStep, ReceiptStep, At, StepOf, Kinds
    <3> QED BY <1>6, <3>1, <3>2
  <2>2. op.at # OpenAt[op.handler] BY <1>1, <1>3, <2>1, Places
  <2>3. op.at > OpenAt[op.handler] BY <1>1, <1>3, <1>4, <2>2, IdleHandler DEF Entries
  <2>4. op.p \in Active BY <1>3, <2>3 DEF Opened
  <2>5. ~CloseStep BY <2>1 DEF CloseStep, At, StepOf
  <2>6. rows'[op.p].status \in {"ENTRY_PENDING", "OPEN", "EXIT_TRIGGERED"}
    <3>1. CASE TransitionStep \/ PartialStep
      BY <1>1, <1>2, <2>4, <3>1 DEF TransitionStep, TransitionPosition, PartialStep, RecordPartialTakeProfit, Rows, Active
    <3>2. CASE ~(TransitionStep \/ PartialStep)
      <4>1. UNCHANGED rows
        BY <1>6, <2>5, <3>2 DEF HandlerStep, EngineStep, FinalizeSnapshot, LedgerStep, CandidateStep, EntryRowStep,
         SaleRowStep, AttemptRowStep, CountStep, OutcomeStep, FollowupStep, ExecutorStep, BuyStep, ApproveStep, SellStep,
         SendStep, ReceiptStep, ledgerVars, durableVars
      <4> QED BY <2>4, <4>1 DEF Active
    <3> QED BY <3>1, <3>2
  <2> QED BY <1>1, <1>3, <2>6 DEF Active
<1> QED BY <1>5, <1>6

LEMMA OpenedSteps ==
  ASSUME PaperIInv, TypeIInv, Opened, [Next]_vars
  PROVE  Opened'
<1>1. CASE Pauses \/ ChainStep
  BY <1>1 DEF Pauses, Account, ChainStep, ledgerVars, durableVars, engineVars, Opened, Active
<1>2. CASE Begins BY <1>2 DEF Begins, Begun, Opened, Entries, OpenAt
<1>3. CASE Restart BY <1>3, IdleHandler DEF Restart, EngineRecover, Opened, Entries
<1> QED BY <1>1, <1>2, <1>3, OpenedHandler, StepKinds

\* Whatever came between a decision and its operations, a death apart, the
\* next operation of a handler finds the row it needs: a position to open does
\* not exist, one to change is active, the half to sell is half of what is left.
THEOREM Readiness == Spec => []Ready
<1>1. Init => Opened BY IdleHandler DEF Init, EngineInit, Opened, Entries
<1>2. PaperIInv /\ TypeIInv /\ Opened /\ [Next]_vars => Opened' BY OpenedSteps
<1>3. PaperIInv /\ TypeIInv /\ Opened => Ready
  <2> SUFFICES ASSUME PaperIInv, TypeIInv, Opened, ~LockFree
               PROVE  /\ StepOf(op) = "open" => rows[op.p].status = "none"
                      /\ StepOf(op) \in {"opened", "trigger", "partial", "close"} => op.p \in Active
                      /\ StepOf(op) = "partial" => rows[op.p].stage < 2 /\ 2 * op.units = rows[op.p].units
    BY DEF Ready
  <2>1. OpShape(op) /\ op.handler # "none" /\ op.p \in Signals BY DEF PaperIInv, Shapes, LockFree, OpShape
  <2>2. PlacesOf(op) BY <2>1, Operations
  <2>3. StepOf(op) = "open" => rows[op.p].status = "none"
    <3> SUFFICES ASSUME StepOf(op) = "open" PROVE rows[op.p].status = "none" OBVIOUS
    <3>1. op.handler \in Entries /\ op.at = OpenAt[op.handler] BY <2>1, Places
    <3>2. OpenAt[op.handler] \in Nat BY <3>1 DEF Entries, OpenAt
    <3>3. ~HasMintLifecycle(op.p) BY <3>1, <3>2 DEF BeforeOpen, PaperIInv, TokenFree
    <3> QED BY <2>1, <3>3, Lifecycle DEF HasMintLifecycle, PaperIInv
  <2>4. StepOf(op) = "close" => BeforeClose(op)
    <3>1. op.handler \in Closers => CloseAt[op.handler] \in Nat BY DEF Closers, CloseAt
    <3> QED BY <2>1, <3>1, Places DEF BeforeClose
  <2>5. StepOf(op) = "partial" => BeforeClose(op) BY <2>2 DEF PlacesOf, BeforeClose, Keepers
  <2>6. StepOf(op) \in {"opened", "trigger", "partial", "close"} => op.p \in Active
    BY <2>1, <2>4, <2>5, RowPlaces DEF Opened, PaperIInv, ExitTarget
  <2>7. StepOf(op) = "partial" => rows[op.p].stage < 2 /\ 2 * op.units = rows[op.p].units
    BY <2>2, Parts DEF PlacesOf, HalfDue
  <2> QED BY <2>3, <2>6, <2>7
<1> QED BY <1>1, <1>2, <1>3, Typing, PTL DEF Spec
-----------------------------------------------------------------------------
(* The rows are the lifecycles of PositionLifecycle                        *)

(* What was just opened is pending when its next operation comes.          *)
JustOpened ==
  op.handler \in Entries /\ op.at = OpenAt[op.handler] + 1 => rows[op.p].status = "ENTRY_PENDING"

RowCommits == OpenStep \/ TransitionStep \/ PartialStep \/ CloseStep

LEMMA OpenedPlace ==
  ASSUME NEW o, OpShape(o), o.handler # "none", StepOf(o) = "opened"
  PROVE  o.handler \in Entries /\ o.at = OpenAt[o.handler] + 1
<1>1. o.handler \in Entries BY RowPlaces
<1>2. CASE o.handler = "entry" BY <1>1, <1>2 DEF EntryOps, Order, OpShape, StepOf, OpenAt
<1>3. CASE o.handler = "live_entry" BY <1>1, <1>3 DEF LiveEntryOps, Order, OpShape, StepOf, OpenAt
<1> QED BY <1>1, <1>2, <1>3 DEF Entries

\* Four operations write the rows of the positions, each its own position's,
\* and the handler then goes on.
LEMMA RowWriters ==
  ASSUME PaperIInv, TypeIInv, HandlerStep
  PROVE  \/ UNCHANGED rows
         \/ RowCommits /\ (op' = Idle \/ op'.at = op.at + 1)
<1>1. CASE RowCommits
  BY <1>1, InProgress DEF RowCommits, OpenStep, TransitionStep, PartialStep, CloseStep, Advance, Handlers
<1>2. CASE ~RowCommits
  BY <1>2 DEF RowCommits, HandlerStep, EngineStep, FinalizeSnapshot, LedgerStep, CandidateStep, EntryRowStep,
     SaleRowStep, AttemptRowStep, CountStep, OutcomeStep, FollowupStep, ExecutorStep, BuyStep, ApproveStep, SellStep,
     SendStep, ReceiptStep, ledgerVars, durableVars
<1> QED BY <1>1, <1>2

LEMMA JustOpenedHandler ==
  ASSUME PaperIInv, TypeIInv, JustOpened, HandlerStep
  PROVE  JustOpened'
<1> SUFFICES ASSUME op'.handler \in Entries, op'.at = OpenAt[op'.handler] + 1
             PROVE  rows'[op'.p].status = "ENTRY_PENDING"
  BY DEF JustOpened
<1>1. /\ OpShape(op) /\ op.p \in Signals /\ op.at \in Nat /\ op.handler # "none"
      /\ op' = op \/ op' = Idle \/ (op'.handler = op.handler /\ op'.at = op.at + 1 /\ op'.p = op.p)
  BY InProgress DEF LockFree
<1>2. op.handler \in Entries /\ op'.p = op.p /\ op.handler = op'.handler BY <1>1, IdleHandler DEF Entries
<1>3. OpenAt[op.handler] \in Nat BY <1>2 DEF Entries, OpenAt
<1>4. CASE op' = op
  <2>1. rows' = rows BY <1>1, <1>2, <1>4, RowWriters, IdleHandler DEF Entries
  <2> QED BY <1>4, <2>1 DEF JustOpened
<1>5. CASE op'.at = op.at + 1
  <2>1. StepOf(op) = "open" BY <1>1, <1>2, <1>3, <1>5, Places
  <2>2. OpenStep
    BY <1>1, <2>1 DEF HandlerStep, EngineStep, FinalizeSnapshot, LedgerStep, CandidateStep, TransitionStep,
       EntryRowStep, PartialStep, CloseStep, SaleRowStep, AttemptRowStep, CountStep, OutcomeStep, FollowupStep, ExecutorStep,
       BuyStep, ApproveStep, SellStep, SendStep, ReceiptStep, At, StepOf, Kinds
  <2>3. rows \in [Signals -> Rows] BY Parts DEF AllTypes, BookTypes
  <2> QED BY <1>1, <1>2, <2>2, <2>3 DEF OpenStep, OpenPosition, RowOf
<1> QED BY <1>1, <1>2, <1>4, <1>5, IdleHandler DEF Entries

LEMMA JustOpenedSteps ==
  ASSUME PaperIInv, TypeIInv, JustOpened, [Next]_vars
  PROVE  JustOpened'
<1>1. CASE Pauses \/ ChainStep
  BY <1>1 DEF Pauses, Account, ChainStep, ledgerVars, durableVars, engineVars, JustOpened
<1>2. CASE Begins BY <1>2 DEF Begins, Begun, JustOpened, Entries, OpenAt
<1>3. CASE Restart BY <1>3, IdleHandler DEF Restart, EngineRecover, JustOpened, Entries
<1> QED BY <1>1, <1>2, <1>3, JustOpenedHandler, StepKinds

\* The positions of the abstract specification are those of the ledger.
LEMMA LivesOf ==
  /\ Life!Held = Active /\ Life!Used = Active \cup Closed
  /\ \A p \in Signals : Lives[p] = Life!Living(rows[p].status, rows[p].stage, rows[p].units)
<1>1. \A p \in Signals : Lives[p].phase = rows[p].status BY DEF Lives
<1>2. /\ Life!Phases[1] = "ENTRY_PENDING" /\ Life!Phases[2] = "OPEN"
      /\ Life!Phases[3] = "EXIT_TRIGGERED" /\ Life!Phases[4] = "CLOSED"
  BY DEF Life!Phases
<1>3. 1..3 = {1, 2, 3} /\ 1..4 = {1, 2, 3, 4} OBVIOUS
<1>4. Life!Held = Active BY <1>1, <1>2, <1>3 DEF Life!Held, Life!InPhase, Active
<1>5. Life!Used = Active \cup Closed BY <1>1, <1>2, <1>3 DEF Life!Used, Life!InPhase, Active, Closed
<1> QED BY <1>4, <1>5 DEF Lives, Life!Living

\* One row changes: so does one life.
LEMMA LivesChanged ==
  ASSUME NEW p \in Signals, \A q \in Signals \ {p} : rows'[q] = rows[q]
  PROVE  Lives' = [Lives EXCEPT ![p] = Life!Living(rows'[p].status, rows'[p].stage, rows'[p].units)]
BY DEF Lives, Life!Living

LEMMA OpenLives ==
  ASSUME PaperIInv, TypeIInv, HandlerStep, OpenStep
  PROVE  Life!Open(op.p)
<1>1. OpShape(op) /\ op.p \in Signals /\ op.handler # "none" /\ StepOf(op) = "open"
  BY InProgress DEF LockFree, OpenStep, At, StepOf
<1>2. op.handler \in Entries /\ op.at = OpenAt[op.handler] BY <1>1, Places
<1>3. OpenAt[op.handler] \in Nat BY <1>2 DEF Entries, OpenAt
<1>4. BeforeOpen(op) BY <1>2, <1>3 DEF BeforeOpen
<1>5. /\ Cardinality(Life!Held) < MaxOpenPositions
      /\ \A q \in Life!Used : mintOf[q] # mintOf[op.p]
  BY <1>4, LivesOf DEF PaperIInv, SlotKept, TokenFree, HasMintLifecycle
<1>6. rows \in [Signals -> Rows] BY Parts DEF AllTypes, BookTypes
<1>7. rows[op.p].status = "none" /\ rows' = [rows EXCEPT ![op.p] = RowOf("ENTRY_PENDING", 0, Quantity)]
  BY DEF OpenStep, OpenPosition
<1>8. Lives' = [Lives EXCEPT ![op.p] = Life!Living("ENTRY_PENDING", 0, Quantity)]
  BY <1>1, <1>6, <1>7, LivesChanged DEF RowOf
<1>9. Lives[op.p].phase = "none" BY <1>1, <1>7 DEF Lives
<1>10. Life!Phases[1] = "ENTRY_PENDING" BY DEF Life!Phases
<1>11. Life!Cardinality(Active) = Cardinality(Active) BY Zenon DEF Life!Cardinality, Cardinality
<1> QED BY <1>5, <1>8, <1>9, <1>10, <1>11, LivesOf DEF Life!Open

LEMMA TransitionLives ==
  ASSUME PaperIInv, TypeIInv, JustOpened, HandlerStep, TransitionStep
  PROVE  Life!Forward(op.p) \/ Lives' = Lives
<1>1. OpShape(op) /\ op.p \in Signals /\ op.handler # "none" /\ op.p \in Active
  BY InProgress DEF LockFree, TransitionStep, TransitionPosition
<1>2. rows \in [Signals -> Rows] BY Parts DEF AllTypes, BookTypes
<1>3. PICK s \in {"OPEN", "EXIT_TRIGGERED"} :
        rows' = [rows EXCEPT ![op.p].status = s] /\ (s = "OPEN" => StepOf(op) = "opened")
  BY DEF TransitionStep, TransitionPosition, At, StepOf
<1>4. s = "OPEN" => rows[op.p].status = "ENTRY_PENDING"
  BY <1>1, <1>3, OpenedPlace DEF JustOpened
<1>5. Lives' = [Lives EXCEPT ![op.p].phase = s]
  BY <1>1, <1>2, <1>3, LivesChanged DEF Lives, Life!Living, Rows
<1>6. Lives[op.p].phase = rows[op.p].status BY <1>1 DEF Lives
<1>7. /\ Life!Phases[1] = "ENTRY_PENDING" /\ Life!Phases[2] = "OPEN" /\ Life!Phases[3] = "EXIT_TRIGGERED"
  BY DEF Life!Phases
<1>8. CASE rows[op.p].status = s
  <2>1. \A q \in Signals : rows'[q] = rows[q] BY <1>1, <1>2, <1>3, <1>8 DEF Rows
  <2> QED BY <2>1 DEF Lives
<1>9. CASE rows[op.p].status # s
  <2>1. \E i \in 1..3, j \in 1..3 : i < j /\ Lives[op.p].phase = Life!Phases[i] /\ s = Life!Phases[j]
    <3>1. CASE s = "OPEN"
      <4>1. 1 \in 1..3 /\ 2 \in 1..3 /\ 1 < 2 OBVIOUS
      <4> QED BY <1>4, <1>6, <1>7, <3>1, <4>1
    <3>2. CASE s = "EXIT_TRIGGERED"
      <4>1. rows[op.p].status \in {"ENTRY_PENDING", "OPEN"} BY <1>1, <1>9, <3>2 DEF Active
      <4>2. 1 \in 1..3 /\ 2 \in 1..3 /\ 3 \in 1..3 /\ 1 < 3 /\ 2 < 3 OBVIOUS
      <4> QED BY <1>6, <1>7, <3>2, <4>1, <4>2
    <3> QED BY <3>1, <3>2
  <2> QED BY <1>5, <2>1 DEF Life!Forward
<1> QED BY <1>8, <1>9

LEMMA PartialLives ==
  ASSUME PaperIInv, TypeIInv, HandlerStep, PartialStep
  PROVE  Life!Halve(op.p)
<1>1. PlacesOf(op) /\ op.p \in Signals /\ op.units \in Nat /\ op.p \in Active /\ StepOf(op) = "partial"
  BY InProgress DEF PartialStep, RecordPartialTakeProfit, At, StepOf
<1>2. op.handler = "partial" /\ op.at = 1 BY <1>1 DEF PlacesOf
<1>3. rows[op.p].stage < 2 /\ rows[op.p].stage \in 0..2 /\ 2 * op.units = rows[op.p].units
  BY <1>1, <1>2, Parts DEF HalfDue, AllTypes, BookTypes, Rows
<1>4. rows \in [Signals -> Rows] BY Parts DEF AllTypes, BookTypes
<1>5. rows[op.p].units - op.units = rows[op.p].units \div 2 BY <1>1, <1>3
<1>6. /\ rows'[op.p].status = rows[op.p].status /\ rows'[op.p].stage = rows[op.p].stage + 1
      /\ rows'[op.p].units = rows[op.p].units \div 2
      /\ \A q \in Signals \ {op.p} : rows'[q] = rows[q]
  BY <1>1, <1>4, <1>5 DEF PartialStep, RecordPartialTakeProfit, Rows
<1>7. Lives' = [Lives EXCEPT ![op.p].halvings = @ + 1, ![op.p].held = @ \div 2]
  BY <1>1, <1>6, LivesChanged DEF Lives, Life!Living
<1>8. op.p \in Life!Held /\ Lives[op.p].halvings < 2 BY <1>1, <1>3, LivesOf DEF Lives
<1> QED BY <1>7, <1>8 DEF Life!Halve

LEMMA CloseLives ==
  ASSUME PaperIInv, TypeIInv, HandlerStep, CloseStep
  PROVE  Life!Close(op.p)
<1>1. op.p \in Signals /\ op.p \in Active BY InProgress DEF CloseStep, ClosePosition
<1>2. rows \in [Signals -> Rows] BY Parts DEF AllTypes, BookTypes
<1>3. /\ rows'[op.p].status = "CLOSED" /\ rows'[op.p].stage = rows[op.p].stage /\ rows'[op.p].units = 0
      /\ \A q \in Signals \ {op.p} : rows'[q] = rows[q]
  BY <1>1, <1>2 DEF CloseStep, ClosePosition, Rows
<1>4. Lives' = [Lives EXCEPT ![op.p].phase = "CLOSED", ![op.p].held = 0]
  BY <1>1, <1>3, LivesChanged DEF Lives, Life!Living
<1>5. Life!Phases[4] = "CLOSED" BY DEF Life!Phases
<1> QED BY <1>1, <1>4, <1>5, LivesOf DEF Life!Close

LEMMA NextLives ==
  ASSUME PaperIInv, TypeIInv, JustOpened, [Next]_vars
  PROVE  [Life!Next]_<<mintOf, Lives>>
<1>1. rows' = rows => Lives' = Lives BY DEF Lives
<1>2. CASE Pauses \/ Begins \/ ChainStep \/ Restart
  <2>1. UNCHANGED <<mintOf, rows>>
    BY <1>2 DEF Pauses, Begins, Account, ChainStep, ledgerVars, durableVars, Restart, Recover
  <2> QED BY <1>1, <2>1
<1>3. CASE HandlerStep
  <2>1. op.p \in Signals /\ UNCHANGED mintOf BY <1>3, InProgress
  <2>2. CASE UNCHANGED rows BY <1>1, <2>1, <2>2
  <2>3. CASE RowCommits
    <3>1. Lives' = Lives \/ Life!Open(op.p) \/ Life!Forward(op.p) \/ Life!Halve(op.p) \/ Life!Close(op.p)
      BY <1>3, <2>3, OpenLives, TransitionLives, PartialLives, CloseLives DEF RowCommits
    <3> QED BY <2>1, <3>1 DEF Life!Next
  <2> QED BY <1>3, <2>2, <2>3, RowWriters
<1> QED BY <1>2, <1>3, StepKinds

LEMMA InitLives == Init => Life!Init
BY DEF Init, LedgerInit, Life!Init, Lives, Life!Living, RowOf

\* The rows of virtual_positions implement the abstract lifecycles: a slot and
\* a fresh token at the commit that opens, two halvings at most, no phase ever
\* left backwards and nothing after the close, over deaths anywhere.
THEOREM Refinement == Spec => ImplementsLifecycle
<1>1. Init => JustOpened BY IdleHandler DEF Init, EngineInit, JustOpened, Entries
<1>2. PaperIInv /\ TypeIInv /\ JustOpened /\ [Next]_vars => JustOpened' BY JustOpenedSteps
<1>3. Init => Life!Init BY InitLives
<1>4. PaperIInv /\ TypeIInv /\ JustOpened /\ [Next]_vars => [Life!Next]_<<mintOf, Lives>> BY NextLives
<1> QED BY <1>1, <1>2, <1>3, <1>4, Typing, PTL DEF Spec, ImplementsLifecycle, Life!Spec, Life!lifeVars
=============================================================================
