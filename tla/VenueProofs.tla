---------------------------- MODULE VenueProofs ----------------------------
(***************************************************************************)
(* The pool of a migrated token stays attached, no gap answer sets a       *)
(* factory's cursor over a pool it has not found, a creation is validated  *)
(* once at a time and the variables have their types, for any factories,   *)
(* chain, chunk, bounds and number of jobs in flight.                      *)
(***************************************************************************)
EXTENDS VenueResolution, SumFacts, FiniteSetTheorems, TLAPS

\* Memory and the committed row are a candidate's venue facts.
VenueShape == v \in Venues /\ row \in Venues

\* What a change of the facts must keep, and what an answer to a question
\* about the token before its migration may still change.
Keeps(c, d) == d \in Venues /\ (c.desc => d.desc) /\ (c.mig = "yes" => d.mig = "yes")

LEMMA NewVenueTyped == NewVenue \in Venues BY DEF NewVenue, Venues

LEMMA KeepsKeeps == \A c, d, e : Keeps(c, d) /\ Keeps(d, e) => Keeps(c, e)
BY DEF Keeps

LEMMA StatusKeeps ==
  ASSUME NEW c \in Venues, NEW status \in {"unknown", "no", "yes"}, NEW lower
  PROVE  Keeps(c, WithMigrateStatus(c, status, lower))
<1>1. [c EXCEPT !.mig = status] \in Venues BY DEF Venues
<1>2. CASE status = "unknown" \/ lower \/ c.mig = "yes" BY <1>2 DEF Keeps, WithMigrateStatus
<1>3. CASE ~(status = "unknown" \/ lower \/ c.mig = "yes")
  <2>1. WithMigrateStatus(c, status, lower) = [c EXCEPT !.mig = status] BY <1>3 DEF WithMigrateStatus
  <2>2. [c EXCEPT !.mig = status].desc = c.desc BY DEF Venues
  <2> QED BY <1>1, <1>3, <2>1, <2>2 DEF Keeps
<1> QED BY <1>2, <1>3

LEMMA MarkersKeep ==
  ASSUME NEW c \in Venues
  PROVE  /\ Keeps(c, c) /\ Keeps(c, MarkPending(c)) /\ Keeps(c, RecoveryQueued(c))
         /\ Keeps(c, Launched(c)) /\ Keeps(c, AttachPool(c))
         /\ \A x \in {"VENUE_RESOLVING", "MIGRATED_POOL_DISCOVERY"} : Keeps(c, [c EXCEPT !.state = x])
         /\ \A state, subscribed : Keeps(c, Subscription(c, state, subscribed))
         /\ \A noPool : Keeps(c, RecoveryFailed(c, noPool))
<1>1. Keeps(c, c) BY DEF Keeps
<1>2. Keeps(c, MarkPending(c))
  <2>1. CASE c.resolved BY <1>1, <2>1 DEF MarkPending
  <2>2. CASE ~c.resolved BY <2>2 DEF Keeps, MarkPending, Venues
  <2> QED BY <2>1, <2>2
<1>3. Keeps(c, RecoveryQueued(c)) BY DEF Keeps, RecoveryQueued, Venues
<1>4. Keeps(c, Launched(c)) BY DEF Keeps, Launched, Venues
<1>5. Keeps(c, AttachPool(c)) BY DEF Keeps, AttachPool, Venues
<1>6. \A x \in {"VENUE_RESOLVING", "MIGRATED_POOL_DISCOVERY"} : Keeps(c, [c EXCEPT !.state = x])
  BY DEF Keeps, Venues
<1>7. \A x \in {"SUBSCRIBED", "WSS_SUBSCRIBE_FAILED", "READY"} : Keeps(c, [c EXCEPT !.sub = x])
  BY DEF Keeps, Venues
<1>8. \A state, subscribed : Keeps(c, Subscription(c, state, subscribed)) BY <1>7 DEF Subscription
<1>9. ASSUME NEW noPool PROVE Keeps(c, RecoveryFailed(c, noPool))
  <2>1. CASE noPool BY <2>1 DEF Keeps, RecoveryFailed, Venues
  <2>2. CASE ~noPool BY <2>2 DEF Keeps, RecoveryFailed, Venues
  <2> QED BY <2>1, <2>2
<1> QED BY <1>1, <1>2, <1>3, <1>4, <1>5, <1>6, <1>8, <1>9

LEMMA EnsureKeeps ==
  ASSUME NEW c \in Venues, NEW due, EnsureMigrated(c, due)
  PROVE  Keeps(c, v')
BY MarkersKeep DEF EnsureMigrated

LEMMA ScheduleKeeps ==
  ASSUME NEW c \in Venues, NEW status, NEW gates, ScheduleVenue(c, status, gates)
  PROVE  Keeps(c, v')
BY MarkersKeep DEF ScheduleVenue

LEMMA AnswerKeeps ==
  ASSUME NEW c \in Venues, NEW r
  PROVE  /\ VenueResultApplied(c, r) \in Venues
         /\ v.mig = "yes" => VenueResultApplied(c, r) = c
<1>1. FlapVenue(c) \in Venues /\ UnknownVenue(c) \in Venues BY DEF FlapVenue, UnknownVenue, Venues
<1> QED BY <1>1 DEF VenueResultApplied, Discarded

-----------------------------------------------------------------------------
(* The steps                                                               *)

\* What every step must do: keep the shape, and the pool of a migrated token.
Good == VenueShape' /\ (v.mig = "yes" /\ v.desc /\ pc' # "down" => v'.desc)

LEMMA RecordOp ==
  ASSUME VenueShape, NEW status \in {"unknown", "no", "yes"}, NEW lower, NEW first, NEW gates, NEW due,
         OnRecord(status, lower, first, gates, due)
  PROVE  Good
<1> DEFINE c == WithMigrateStatus(v, status, lower)
<1>1. Keeps(v, c) /\ c \in Venues BY StatusKeeps DEF VenueShape, Keeps
<1> HIDE DEF c
<1>2. /\ row' = v'
      /\ \/ \E k : ScheduleVenue(IF first THEN MarkPending(c) ELSE c, k, gates)
         \/ EnsureMigrated(c, due)
         \/ v' = c
  BY DEF OnRecord, c
<1>3. Keeps(c, v')
  <2> DEFINE d == IF first THEN MarkPending(c) ELSE c
  <2>1. Keeps(c, d) /\ d \in Venues BY <1>1, MarkersKeep DEF Keeps
  <2> HIDE DEF d
  <2>2. CASE \E k : ScheduleVenue(d, k, gates) BY <2>1, <2>2, ScheduleKeeps, KeepsKeeps
  <2>3. CASE EnsureMigrated(c, due) BY <1>1, <2>3, EnsureKeeps
  <2>4. CASE v' = c BY <1>1, <2>4, MarkersKeep
  <2> QED BY <1>2, <2>2, <2>3, <2>4 DEF d
<1> QED BY <1>1, <1>2, <1>3, KeepsKeeps DEF Good, VenueShape, Keeps

LEMMA StartOp == ASSUME VenueShape, Start PROVE Good
<1>1. Keeps(v, v') BY EnsureKeeps DEF Start, VenueShape
<1> QED BY <1>1 DEF Start, Good, VenueShape, Keeps

LEMMA EventsOp == ASSUME VenueShape, DrainEvents PROVE Good
<1>1. Keeps(v, v')
  <2>1. CASE UNCHANGED v BY <2>1, MarkersKeep DEF VenueShape
  <2>2. CASE \E due \in BOOLEAN : EnsureMigrated(Launched(v), due)
    BY <2>2, MarkersKeep, EnsureKeeps, KeepsKeeps DEF VenueShape, Keeps
  <2> QED BY <2>1, <2>2 DEF DrainEvents, ApplyFlapMigration
<1>2. row' = row \/ row' = v BY DEF DrainEvents, ApplyFlapMigration, ApplyFactoryPoolEvent
<1> QED BY <1>1, <1>2 DEF Good, VenueShape, Keeps

\* A recovery that answers after the pool was attached resets the markers,
\* not the descriptor.
LEMMA FactoryOp == ASSUME VenueShape, DrainFactoryResults PROVE Good
<1>1. row' = row /\ (v' = v \/ v' = FactoryResultApplied(Head(factoryResults)))
  BY DEF DrainFactoryResults
<1>2. Keeps(v, v') BY <1>1, MarkersKeep DEF FactoryResultApplied, VenueShape
<1> QED BY <1>1, <1>2 DEF Good, VenueShape, Keeps

LEMMA GapsOp == ASSUME VenueShape, DrainGapResults PROVE Good
<1>1. (row' = row \/ row' = v') /\ (v' = v \/ ScheduleVenue(v, v.mig, TRUE))
  BY DEF DrainGapResults, ResubmitStaleVenue
<1>2. Keeps(v, v') BY <1>1, MarkersKeep, ScheduleKeeps DEF VenueShape
<1> QED BY <1>1, <1>2 DEF Good, VenueShape, Keeps

\* An answer asked for before the migration is discarded after it.
LEMMA VenueOp == ASSUME VenueShape, DrainVenueResults PROVE Good
<1>1. Keeps(v, AfterMigrations) /\ AfterMigrations \in Venues
  BY MarkersKeep DEF AfterMigrations, VenueShape, Keeps
<1>2. row' = v' /\ (v' = AfterMigrations \/ v' = VenueResultApplied(AfterMigrations, Head(venueResults)))
  BY DEF DrainVenueResults
<1>3. v' \in Venues /\ (v.mig = "yes" => v' = AfterMigrations)
  BY <1>1, <1>2, AnswerKeeps
<1> QED BY <1>1, <1>2, <1>3 DEF Good, VenueShape, Keeps

LEMMA WatchOp == ASSUME VenueShape, Watch PROVE Good
<1>1. row' = row /\ v' = [v EXCEPT !.desc = @ \/ (scenario.open /\ v.addr)] BY DEF Watch, OwnerOnly
<1>2. v' \in Venues /\ (v.desc => v'.desc)
  <2>1. (v.desc \/ (scenario.open /\ v.addr)) \in BOOLEAN OBVIOUS
  <2> QED BY <1>1, <2>1 DEF VenueShape, Venues
<1> QED BY <1>1, <1>2 DEF Good, VenueShape

LEMMA StatusOp == ASSUME VenueShape, NEW next, UpdateWssStatus(next) PROVE Good
<1>1. Keeps(v, v') BY MarkersKeep DEF UpdateWssStatus, PublishSubscription, VenueShape
<1>2. row' = row \/ row' = v' BY DEF UpdateWssStatus
<1> QED BY <1>1, <1>2 DEF Good, VenueShape, Keeps

LEMMA DeathOp == ASSUME VenueShape, Die PROVE Good
<1>1. Hydrated(row) \in Venues BY DEF Hydrated, VenueShape, Venues
<1> QED BY <1>1 DEF Die, Good, VenueShape

\* The rest moves the facts nowhere but into the row.
LEMMA OtherOp == ASSUME VenueShape, v' = v, row' = row \/ row' = v PROVE Good
BY DEF Good, VenueShape

LEMMA NextOps == VenueShape /\ [Next]_vars => Good
<1> SUFFICES ASSUME VenueShape, [Next]_vars PROVE Good OBVIOUS
<1>1. CASE UNCHANGED vars BY <1>1, OtherOp DEF vars
<1>2. CASE Owner
  <2>1. CASE StartupStatus BY <2>1, StatusOp DEF StartupStatus
  <2>2. CASE PollStatus BY <2>2, StatusOp DEF PollStatus
  <2>3. CASE StartupGapFill BY <2>3, OtherOp DEF StartupGapFill
  <2>4. CASE DrainGapEvents BY <2>4, OtherOp DEF DrainGapEvents, ApplyFactoryPoolEvent
  <2>5. CASE ScheduleGapChunk BY <2>5, OtherOp DEF ScheduleGapChunk
  <2> QED BY <1>2, <2>1, <2>2, <2>3, <2>4, <2>5, StartOp, EventsOp, FactoryOp, GapsOp, VenueOp, WatchOp DEF Owner
<1>3. CASE Die BY <1>3, DeathOp
<1>4. CASE \E status \in {"unknown", "no", "yes"}, lower, first, gates, due \in BOOLEAN :
             OnRecord(status, lower, first, gates, due)
  BY <1>4, RecordOp
<1>5. CASE \E w \in venueWork : RunVenueJob(w) BY <1>5, OtherOp DEF RunVenueJob
<1>6. CASE \E c \in poolWork : RunPoolResolution(c) BY <1>6, OtherOp DEF RunPoolResolution
<1>7. CASE RunRecovery BY <1>7, OtherOp DEF RunRecovery
<1>8. CASE \E r \in gapWork : RunGapJob(r) BY <1>8, OtherOp DEF RunGapJob
<1>9. CASE Connect \/ Disconnect \/ Resubscribe BY <1>9, OtherOp DEF Connect, Disconnect, Resubscribe
<1>10. CASE \E t \in scenario.types : MineBlock(t) BY <1>10, OtherOp DEF MineBlock
<1>11. CASE Migrate BY <1>11, OtherOp DEF Migrate
<1> QED BY <1>1, <1>2, <1>3, <1>4, <1>5, <1>6, <1>7, <1>8, <1>9, <1>10, <1>11 DEF Next

-----------------------------------------------------------------------------
\* The pool of a migrated token stays attached while the process lives: no
\* venue job asked before the migration, no late recovery and no record of
\* the feed takes the descriptor away (SR 2322).
THEOREM PoolKept == Spec => MigratedPoolKept
<1>1. Init => VenueShape BY NewVenueTyped DEF Init, VenueShape
<1>2. VenueShape /\ [Next]_vars => VenueShape' BY NextOps DEF Good
<1>3. VenueShape /\ [Next]_vars => [v.mig = "yes" /\ v.desc /\ pc' # "down" => v'.desc]_vars
  BY NextOps DEF Good
<1> QED BY <1>1, <1>2, <1>3, PTL DEF Spec, MigratedPoolKept
-----------------------------------------------------------------------------
(* The gap fill: the inductive invariant                                   *)

\* A range in flight has its job, starts no later than behind the cursor,
\* and ends on the chain.
Meets(r) == r.type \in gapJobs /\ r.from <= cursor[r.type] + 1 /\ r.to <= head

\* Of one factory at most one range is in flight: being read, or read.
OneInFlight ==
  /\ \A r, s \in gapWork : r.type = s.type => r = s
  /\ \A i, j \in DOMAIN gapResults : gapResults[i].job.type = gapResults[j].job.type => i = j
  /\ \A r \in gapWork : \A i \in DOMAIN gapResults : r.type # gapResults[i].job.type

InFlight ==
  /\ \A r \in gapWork : Meets(r)
  /\ \A i \in DOMAIN gapResults : Meets(gapResults[i].job)
  /\ OneInFlight

\* An answer has every pool of its range, also when the chain has grown.
Complete ==
  \A i \in DOMAIN gapResults : gapResults[i].ok => gapResults[i].found = InRange(gapResults[i].job)

GapShape == GapTypeOK /\ scenario \in Scenarios /\ IsFiniteSet(created) /\ target <= head

GapIInv == GapShape /\ InFlight /\ Complete

-----------------------------------------------------------------------------
(* The events of a range have an order                                     *)

Ordered(s) == \A i, j \in DOMAIN s : i < j => s[i][2] < s[j][2]

Orders(found) == {s \in [1 .. Cardinality(found) -> found] : Ordered(s)}

LEMMA EarliestFirst ==
  ASSUME NEW S, IsFiniteSet(S), NEW x \in S, x[2] \in Nat, \A y \in S : y[2] \in Nat,
         \A y \in S \ {x} : x[2] < y[2],
         Orders(S \ {x}) # {}
  PROVE  Orders(S) # {}
<1> DEFINE n == Cardinality(S)
<1>1. n \in Nat \ {0} /\ Cardinality(S \ {x}) = n - 1
  BY FS_CardinalityType, FS_EmptySet, FS_RemoveElement
<1>2. PICK s \in Orders(S \ {x}) : TRUE OBVIOUS
<1>3. s \in [1 .. n - 1 -> S \ {x}] /\ Ordered(s) BY <1>1, <1>2 DEF Orders
<1> HIDE DEF n
<1> DEFINE u == [i \in 1 .. n |-> IF i = 1 THEN x ELSE s[i - 1]]
<1>4. u \in [1 .. n -> S]
  <2>1. \A i \in 1 .. n : i # 1 => i - 1 \in 1 .. n - 1 BY <1>1
  <2> QED BY <1>3, <2>1
<1>5. ASSUME NEW i \in 1 .. n, NEW j \in 1 .. n, i < j PROVE u[i][2] < u[j][2]
  <2>1. j - 1 \in 1 .. n - 1 /\ u[j] = s[j - 1] BY <1>1, <1>5
  <2>2. CASE i = 1 BY <1>3, <2>1, <2>2
  <2>3. CASE i # 1
    <3>1. i - 1 \in 1 .. n - 1 /\ i - 1 < j - 1 /\ u[i] = s[i - 1] BY <1>1, <1>5, <2>3
    <3> QED BY <1>3, <2>1, <3>1 DEF Ordered
  <2> QED BY <2>2, <2>3
<1> HIDE DEF u
<1>6. DOMAIN u = 1 .. n BY <1>4
<1> QED BY <1>4, <1>5, <1>6 DEF Orders, Ordered, n

\* Pools of one factory are of different blocks, so the RPC has one order
\* for them: a smallest set without one would lose its earliest pool.
LEMMA OrderExists ==
  ASSUME NEW t, NEW S, IsFiniteSet(S), S \subseteq {t} \X Nat
  PROVE  Orders(S) # {}
<1> DEFINE Bad == {T \in SUBSET S : Orders(T) = {}}
<1>1. SUFFICES ASSUME Bad # {} PROVE FALSE OBVIOUS
<1>2. PICK T \in Bad : \A U \in Bad : U \subseteq T => U = T
  <2>1. Bad \subseteq SUBSET S OBVIOUS
  <2> HIDE DEF Bad
  <2> QED BY <1>1, <2>1, SmallestSubset
<1>3. T \subseteq S /\ IsFiniteSet(T) BY <1>2, FS_Subset
<1>4. T # {}
  <2>1. SUFFICES ASSUME T = {} PROVE FALSE OBVIOUS
  <2>2. Cardinality(T) = 0 BY <2>1, FS_EmptySet
  <2>3. <<>> \in [1 .. 0 -> T] /\ Ordered(<<>>) BY DEF Ordered
  <2> QED BY <1>2, <2>2, <2>3 DEF Orders
<1>5. \A y \in T : y = <<t, y[2]>> /\ y[2] \in Nat BY <1>3
<1>6. PICK x \in T : \A y \in T : x[2] <= y[2]
  <2> DEFINE blocks == {y[2] : y \in T}
  <2>1. blocks \in SUBSET Nat /\ blocks # {} BY <1>4, <1>5
  <2>2. PICK b \in blocks : \A c \in blocks : b <= c BY <2>1, Least
  <2> QED BY <2>2
<1>7. \A y \in T \ {x} : x[2] < y[2] BY <1>5, <1>6
<1>8. Orders(T \ {x}) # {} BY <1>2, <1>3, <1>6
<1> QED BY <1>2, <1>3, <1>5, <1>6, <1>7, <1>8, EarliestFirst

LEMMA InOrderIsSeq ==
  ASSUME GapShape, NEW r \in Ranges
  PROVE  InOrder(InRange(r)) \in Seq(Creations)
<1> DEFINE S == InRange(r)
<1>1. IsFiniteSet(S) /\ S \subseteq Creations BY FS_Subset DEF InRange, GapShape, GapTypeOK
<1>2. S \subseteq {r.type} \X Nat BY <1>1 DEF InRange, Creations, Blocks
<1> HIDE DEF S
<1>3. Orders(S) # {} BY <1>1, <1>2, OrderExists
<1>4. InOrder(S) \in [1 .. Cardinality(S) -> S]
  BY <1>3 DEF InOrder, Orders, Ordered
<1>5. Cardinality(S) \in Nat BY <1>1, FS_CardinalityType
<1> QED BY <1>1, <1>4, <1>5 DEF S
-----------------------------------------------------------------------------
(* The steps of the gap fill                                               *)

LEMMA NextRangeFits ==
  ASSUME GapShape, NEW t \in PoolTypes, Behind(t)
  PROVE  /\ NextRange(t) \in Ranges /\ NextRange(t).type = t
         /\ NextRange(t).from = cursor[t] + 1
         /\ cursor[t] < NextRange(t).to /\ NextRange(t).to <= target
<1>1. /\ cursor[t] \in 0 .. MaxBlock /\ target \in 0 .. MaxBlock /\ cursor[t] < target
      /\ Chunk \in Nat \ {0} /\ MaxBlock \in Nat
  BY GapAssumption DEF GapShape, GapTypeOK, Behind
<1> QED BY <1>1 DEF NextRange, Ranges, Blocks

Answers == [job : Ranges, found : SUBSET Creations, ok : BOOLEAN]

LEMMA InHand ==
  ASSUME GapShape
  PROVE  /\ gapResults \in Seq(Answers)
         /\ \A r \in gapWork : r \in Ranges
         /\ \A i \in DOMAIN gapResults : gapResults[i] \in Answers /\ gapResults[i].job \in Ranges
<1>1. gapResults \in Seq(Answers) /\ gapWork \subseteq Ranges BY DEF GapShape, GapTypeOK, Answers
<1>2. \A i \in DOMAIN gapResults : gapResults[i] \in Answers BY <1>1
<1> QED BY <1>1, <1>2 DEF Answers

\* A cursor that only moves forward overtakes no range in flight.
LEMMA CursorForward ==
  ASSUME GapIInv, UNCHANGED <<scenario, chainVars, gapJobs, gapWork, gapResults>>,
         target' \in 0 .. MaxBlock, target' <= head, required' \in BOOLEAN,
         seenHealthy' \in BOOLEAN, failures' \in Nat,
         cursor' \in [PoolTypes -> 0 .. MaxBlock], \A t \in PoolTypes : cursor[t] <= cursor'[t],
         events' \in Seq(Creations \union ({"launched"} \X Blocks)), gapEvents' \in Seq(Creations)
  PROVE  GapIInv'
<1>1. GapShape' BY DEF GapIInv, GapShape, GapTypeOK, chainVars
<1>2. ASSUME NEW r \in Ranges, Meets(r) PROVE Meets(r)'
  <2>1. /\ r.from \in Nat /\ r.type \in PoolTypes
        /\ cursor[r.type] \in Nat /\ cursor'[r.type] \in Nat /\ cursor[r.type] <= cursor'[r.type]
    BY DEF Ranges, Blocks, GapIInv, GapShape, GapTypeOK
  <2> QED BY <1>2, <2>1 DEF Meets, chainVars
<1>3. InFlight' BY <1>2, InHand DEF GapIInv, InFlight, OneInFlight
<1>4. Complete' BY DEF GapIInv, Complete, InRange, chainVars
<1> QED BY <1>1, <1>3, <1>4 DEF GapIInv

LEMMA GapStart == ASSUME GapIInv, Start PROVE GapIInv'
<1>1. /\ cursor' = [t \in PoolTypes |-> IF cursor[t] = 0 THEN head ELSE cursor[t]]
      /\ required' = TRUE
      /\ UNCHANGED <<scenario, chainVars, target, seenHealthy, gapJobs, gapWork, gapResults, events,
                     gapEvents, failures>>
  BY DEF Start, EnsureFactoryCursors
<1>2. head \in 0 .. MaxBlock /\ cursor \in [PoolTypes -> 0 .. MaxBlock]
  BY GapAssumption DEF GapIInv, GapShape, GapTypeOK, Blocks
<1>3. cursor' \in [PoolTypes -> 0 .. MaxBlock] /\ \A t \in PoolTypes : cursor[t] <= cursor'[t]
  BY <1>1, <1>2
<1> QED BY <1>1, <1>3, CursorForward DEF GapIInv, GapShape, GapTypeOK

LEMMA GapDeath == ASSUME GapIInv, Die PROVE GapIInv'
<1>1. ForgetGap /\ UNCHANGED <<scenario, chainVars, cursor, failures>> BY DEF Die
<1>2. DOMAIN gapResults' = {} BY <1>1 DEF ForgetGap
<1>3. GapShape'
  <2>1. 0 \in 0 .. MaxBlock /\ 0 <= head BY GapAssumption DEF GapIInv, GapShape, GapTypeOK, Blocks
  <2>2. \A S : <<>> \in Seq(S) OBVIOUS
  <2>3. GapTypeOK' BY <1>1, <2>1, <2>2 DEF GapIInv, GapShape, GapTypeOK, ForgetGap, chainVars
  <2> QED BY <1>1, <2>1, <2>3 DEF GapIInv, GapShape, ForgetGap, chainVars
<1>4. InFlight' /\ Complete' BY <1>1, <1>2 DEF InFlight, OneInFlight, Complete, ForgetGap
<1> QED BY <1>3, <1>4 DEF GapIInv

LEMMA GapPoll == ASSUME GapIInv, NEW next, UpdateWssStatus(next) PROVE GapIInv'
<1>1. /\ GapStatus(wss, scenario.max.failures) /\ scenario' = scenario
  BY DEF UpdateWssStatus, OwnerOnly
<1>2. head \in 0 .. MaxBlock /\ head <= head /\ failures + 1 \in Nat
  BY GapAssumption DEF GapIInv, GapShape, GapTypeOK, Blocks
<1>3. target' \in 0 .. MaxBlock /\ target' <= head /\ failures' \in Nat
  BY <1>1, <1>2 DEF GapStatus, GapIInv, GapShape, GapTypeOK
<1>4. required' \in BOOLEAN /\ seenHealthy' \in BOOLEAN
  BY <1>1 DEF GapStatus, GapIInv, GapShape, GapTypeOK
<1>5. \A t \in PoolTypes : cursor[t] <= cursor[t] BY DEF GapIInv, GapShape, GapTypeOK
<1>6. UNCHANGED <<chainVars, cursor, gapJobs, gapWork, gapResults, events, gapEvents>>
  BY <1>1 DEF GapStatus
<1> QED BY <1>1, <1>3, <1>4, <1>5, <1>6, CursorForward DEF GapIInv, GapShape, GapTypeOK

LEMMA GapStartupFill == ASSUME GapIInv, StartupGapFill PROVE GapIInv'
<1>1. \A t \in PoolTypes : cursor[t] <= cursor[t] BY DEF GapIInv, GapShape, GapTypeOK
<1>2. CASE \E i \in DOMAIN FactoryOrder : FillInline(FactoryOrder[i])
  <2>1. PICK i \in DOMAIN FactoryOrder : FillInline(FactoryOrder[i]) BY <1>2
  <2> DEFINE t == FactoryOrder[i]
             r == NextRange(t)
  <2>2. t \in PoolTypes BY VenueAssumption
  <2>3. /\ r \in Ranges /\ r.type = t /\ cursor[t] < r.to /\ r.to \in 0 .. MaxBlock
    BY <2>1, <2>2, NextRangeFits DEF FillInline, GapIInv, Ranges, Blocks
  <2>4. InOrder(InRange(r)) \in Seq(Creations) BY <2>3, InOrderIsSeq DEF GapIInv
  <2> HIDE DEF t, r
  <2>5. FinishRange(r, InRange(r)) BY <2>1 DEF FillInline, t, r
  <2>6. /\ cursor' = [cursor EXCEPT ![t] = r.to]
        /\ gapEvents' = gapEvents \o InOrder(InRange(r))
        /\ required' \in BOOLEAN
    BY <2>3, <2>5 DEF FinishRange, GapIInv, GapShape, GapTypeOK
  <2>7. gapEvents' \in Seq(Creations) BY <2>4, <2>6 DEF GapIInv, GapShape, GapTypeOK
  <2>8. cursor' \in [PoolTypes -> 0 .. MaxBlock] /\ \A u \in PoolTypes : cursor[u] <= cursor'[u]
    BY <2>2, <2>3, <2>6 DEF GapIInv, GapShape, GapTypeOK
  <2>9. UNCHANGED <<scenario, chainVars, target, seenHealthy, gapJobs, gapWork, gapResults, events,
                    failures>>
    BY <2>1 DEF FillInline, StartupGapFill, OwnerOnly
  <2> QED BY <2>6, <2>7, <2>8, <2>9, CursorForward DEF GapIInv, GapShape, GapTypeOK
<1>3. CASE FillInlineStops
  BY <1>1, <1>3, CursorForward DEF FillInlineStops, StartupGapFill, OwnerOnly, GapIInv, GapShape, GapTypeOK
<1> QED BY <1>2, <1>3 DEF StartupGapFill

\* A live event moves its factory's cursor forward or not at all.
LEMMA LiveEvent ==
  ASSUME GapShape, NEW c \in Creations
  PROVE  /\ CursorAfter(c) \in [PoolTypes -> 0 .. MaxBlock]
         /\ \A t \in PoolTypes : cursor[t] <= CursorAfter(c)[t]
<1>1. c[1] \in PoolTypes /\ c[2] \in 0 .. MaxBlock BY DEF Creations, Blocks
<1>2. cursor \in [PoolTypes -> 0 .. MaxBlock] BY DEF GapShape, GapTypeOK
<1> QED BY <1>1, <1>2 DEF CursorAfter

LEMMA GapLiveEvents == ASSUME GapIInv, DrainEvents PROVE GapIInv'
<1> DEFINE Heard == Creations \union ({"launched"} \X Blocks)
<1>1. UNCHANGED <<scenario, chainVars, required, target, seenHealthy, gapJobs, gapWork, gapResults,
                  gapEvents, failures>>
  BY DEF DrainEvents
<1>2. \A t \in PoolTypes : cursor[t] <= cursor[t] BY DEF GapIInv, GapShape, GapTypeOK
<1>3. events \in Seq(Heard) BY DEF GapIInv, GapShape, GapTypeOK
<1>4. events' \in Seq(Heard) BY <1>3 DEF DrainEvents
<1>5. CASE cursor' = cursor
  BY <1>1, <1>2, <1>4, <1>5, CursorForward DEF GapIInv, GapShape, GapTypeOK
<1>6. CASE events # <<>> /\ Head(events)[1] # "launched"
  <2>1. Head(events) \in Creations BY <1>3, <1>6
  <2>2. cursor' = CursorAfter(Head(events)) BY <1>6 DEF DrainEvents, ApplyFactoryPoolEvent
  <2> QED BY <1>1, <1>4, <2>1, <2>2, LiveEvent, CursorForward DEF GapIInv, GapShape, GapTypeOK
<1> QED BY <1>5, <1>6 DEF DrainEvents, ApplyFlapMigration

LEMMA GapReadEvents == ASSUME GapIInv, DrainGapEvents PROVE GapIInv'
<1>1. UNCHANGED <<scenario, chainVars, required, target, seenHealthy, gapJobs, gapWork, gapResults,
                  events, failures>>
  BY DEF DrainGapEvents
<1>2. \A t \in PoolTypes : cursor[t] <= cursor[t] BY DEF GapIInv, GapShape, GapTypeOK
<1>3. gapEvents \in Seq(Creations) BY DEF GapIInv, GapShape, GapTypeOK
<1>4. CASE gapEvents = <<>>
  BY <1>1, <1>2, <1>4, CursorForward DEF DrainGapEvents, GapIInv, GapShape, GapTypeOK
<1>5. CASE gapEvents # <<>>
  <2>1. Head(gapEvents) \in Creations /\ Tail(gapEvents) \in Seq(Creations) BY <1>3, <1>5
  <2>2. gapEvents' = Tail(gapEvents) /\ cursor' = CursorAfter(Head(gapEvents))
    BY <1>5 DEF DrainGapEvents, ApplyFactoryPoolEvent
  <2> QED BY <1>1, <2>1, <2>2, LiveEvent, CursorForward DEF GapIInv, GapShape, GapTypeOK
<1> QED BY <1>4, <1>5
\* The range goes to the worker behind the job that keeps others away.
LEMMA GapSchedule == ASSUME GapIInv, ScheduleGapChunk PROVE GapIInv'
<1>1. UNCHANGED <<scenario, chainVars, cursor, required, target, seenHealthy, gapResults, events,
                  gapEvents, failures>>
  BY DEF ScheduleGapChunk, OwnerOnly
<1>2. CASE UNCHANGED <<gapJobs, gapWork>>
  <2>1. \A u \in PoolTypes : cursor[u] <= cursor[u] BY DEF GapIInv, GapShape, GapTypeOK
  <2> QED BY <1>1, <1>2, <2>1, CursorForward DEF GapIInv, GapShape, GapTypeOK
<1>3. CASE \E t \in PoolTypes : /\ Behind(t) /\ t \notin gapJobs
                                /\ gapJobs' = gapJobs \union {t}
                                /\ gapWork' = gapWork \union {NextRange(t)}
  <2>1. PICK t \in PoolTypes : /\ Behind(t) /\ t \notin gapJobs
                               /\ gapJobs' = gapJobs \union {t}
                               /\ gapWork' = gapWork \union {NextRange(t)}
    BY <1>3
  <2>1a. PICK r : r = NextRange(t) OBVIOUS
  <2>2. r \in Ranges /\ r.type = t /\ r.from = cursor[t] + 1 /\ r.to <= target
    BY <2>1a, <2>1, NextRangeFits DEF GapIInv
  <2>3. GapShape'
    <3>1. gapJobs' \subseteq PoolTypes /\ gapWork' \subseteq Ranges
      BY <2>1a, <2>1, <2>2 DEF GapIInv, GapShape, GapTypeOK
    <3> QED BY <1>1, <3>1 DEF GapIInv, GapShape, GapTypeOK, chainVars
  <2>4. \A s \in gapWork : s.type # t BY <2>1 DEF GapIInv, InFlight, Meets
  <2>5. \A i \in DOMAIN gapResults : gapResults[i].job.type # t BY <2>1 DEF GapIInv, InFlight, Meets
  <2>6. \A s : Meets(s) => Meets(s)' BY <1>1, <2>1 DEF Meets, chainVars
  <2>7. Meets(r)'
    <3>1. /\ target <= head /\ target \in Nat /\ head \in Nat /\ r.to \in Nat /\ cursor[t] \in Nat
          /\ head' = head /\ cursor' = cursor
      BY <1>1, <2>2 DEF GapIInv, GapShape, GapTypeOK, Ranges, Blocks, chainVars
    <3>2. r.to <= head' /\ r.from <= cursor'[r.type] + 1 BY <2>2, <3>1
    <3> QED BY <2>1, <2>2, <3>2 DEF Meets
  <2>8. InFlight'
    <3>1. \A s \in gapWork' : Meets(s)' BY <2>1a, <2>1, <2>6, <2>7 DEF GapIInv, InFlight
    <3>2. \A i \in DOMAIN gapResults' : Meets(gapResults[i].job)' BY <1>1, <2>6 DEF GapIInv, InFlight
    <3>3. OneInFlight' BY <1>1, <2>1a, <2>1, <2>2, <2>4, <2>5 DEF GapIInv, InFlight, OneInFlight
    <3> QED BY <3>1, <3>2, <3>3 DEF InFlight
  <2>9. Complete' BY <1>1 DEF GapIInv, Complete, InRange, chainVars
  <2> QED BY <2>3, <2>8, <2>9 DEF GapIInv
<1>4. UNCHANGED <<gapJobs, gapWork>> \/ \E t \in PoolTypes : /\ Behind(t) /\ t \notin gapJobs
                                                            /\ gapJobs' = gapJobs \union {t}
                                                            /\ gapWork' = gapWork \union {NextRange(t)}
  <2> DEFINE ready == {i \in DOMAIN FactoryOrder : Behind(FactoryOrder[i]) /\ FactoryOrder[i] \notin gapJobs}
             first == CHOOSE i \in ready : \A j \in ready : i <= j
  <2>1. CASE ready # {} /\ gapJobs' = gapJobs \union {FactoryOrder[first]}
                        /\ gapWork' = gapWork \union {NextRange(FactoryOrder[first])}
    <3>1. ready \in SUBSET Nat BY VenueAssumption
    <3>2. first \in ready
      <4> HIDE DEF ready
      <4>1. \E i \in ready : \A j \in ready : i <= j BY <2>1, <3>1, Least
      <4> QED BY <4>1
    <3> HIDE DEF first
    <3>3. FactoryOrder[first] \in PoolTypes BY <3>2, VenueAssumption
    <3> QED BY <2>1, <3>2, <3>3
  <2>2. CASE UNCHANGED <<gapJobs, gapWork>> BY <2>2
  <2> QED BY <2>1, <2>2 DEF ScheduleGapChunk, ScheduleFactoryGapFill
<1> QED BY <1>2, <1>3, <1>4

\* The answer takes the place of its range.
LEMMA GapAnswer == ASSUME GapIInv, NEW r \in gapWork, RunGapJob(r) PROVE GapIInv'
<1> DEFINE yes == [job |-> r, found |-> InRange(r), ok |-> TRUE]
           no == [job |-> r, found |-> {}, ok |-> FALSE]
<1>1. /\ gapWork' = gapWork \ {r}
      /\ UNCHANGED <<scenario, chainVars, cursor, required, target, seenHealthy, gapJobs, events,
                     gapEvents>>
      /\ failures' \in {failures, failures + 1}
  BY DEF RunGapJob, RunFactoryGapFillJob
<1>2. PICK a \in {yes, no} : gapResults' = Append(gapResults, a)
  BY DEF RunGapJob, RunFactoryGapFillJob
<1>3. a \in Answers /\ a.job = r /\ (a.ok => a.found = InRange(r))
  <2>1. r \in Ranges /\ InRange(r) \in SUBSET Creations
    BY InHand DEF GapIInv, GapShape, GapTypeOK, InRange
  <2>2. yes \in Answers /\ no \in Answers BY <2>1 DEF Answers
  <2>3. CASE a = yes BY <2>2, <2>3
  <2>4. CASE a = no BY <2>2, <2>4
  <2> QED BY <1>2, <2>3, <2>4
<1> HIDE DEF yes, no
<1> DEFINE n == Len(gapResults)
<1>4. /\ gapResults' \in Seq(Answers)
      /\ n \in Nat /\ DOMAIN gapResults = 1 .. n /\ DOMAIN gapResults' = 1 .. n + 1
      /\ gapResults'[n + 1] = a
      /\ \A i \in 1 .. n : gapResults'[i] = gapResults[i]
  BY <1>2, <1>3, InHand DEF GapIInv
<1> HIDE DEF n
<1>5. GapShape'
  <2>1. failures' \in Nat /\ gapWork' \subseteq Ranges BY <1>1 DEF GapIInv, GapShape, GapTypeOK
  <2> QED BY <1>1, <1>4, <2>1 DEF GapIInv, GapShape, GapTypeOK, Answers, chainVars
<1>6. \A i \in DOMAIN gapResults' : i \in DOMAIN gapResults \/ i = n + 1 BY <1>4
<1>7. \A s : Meets(s) => Meets(s)' BY <1>1 DEF Meets, chainVars
<1>8. InFlight'
  <2>1. \A s \in gapWork' : Meets(s)' BY <1>1, <1>7 DEF GapIInv, InFlight
  <2>2. \A i \in DOMAIN gapResults' : Meets(gapResults[i].job)'
    BY <1>3, <1>4, <1>6, <1>7 DEF GapIInv, InFlight
  <2>3. OneInFlight' BY <1>1, <1>3, <1>4, <1>6 DEF GapIInv, InFlight, OneInFlight
  <2> QED BY <2>1, <2>2, <2>3 DEF InFlight
<1>9. Complete' BY <1>1, <1>3, <1>4, <1>6 DEF GapIInv, Complete, InRange, chainVars
<1> QED BY <1>5, <1>8, <1>9 DEF GapIInv

\* The first answer sets the cursor, maybe back: no other range of its
\* factory is in flight that could start too late for it.
LEMMA GapDrain == ASSUME GapIInv, DrainGapResults PROVE GapIInv'
<1> DEFINE a == Head(gapResults)
<1>1. UNCHANGED <<scenario, chainVars, target, seenHealthy, gapWork, events, failures>>
  BY DEF DrainGapResults, OwnerOnly
<1>2. CASE gapResults = <<>>
  <2>1. \A u \in PoolTypes : cursor[u] <= cursor[u] BY DEF GapIInv, GapShape, GapTypeOK
  <2> QED BY <1>1, <1>2, <2>1, CursorForward DEF DrainGapResults, GapIInv, GapShape, GapTypeOK
<1>3. CASE gapResults # <<>>
  <2>1. gapResults \in Seq(Answers) BY InHand DEF GapIInv
  <2> DEFINE n == Len(gapResults)
             t == a.job.type
  <2>2. /\ n \in Nat \ {0} /\ DOMAIN gapResults = 1 .. n /\ a = gapResults[1]
        /\ a \in Answers /\ gapResults' = Tail(gapResults)
    BY <1>3, <2>1 DEF DrainGapResults, DrainGapResult
  <2>3. /\ gapResults' \in Seq(Answers) /\ DOMAIN gapResults' = 1 .. n - 1
        /\ \A i \in 1 .. n - 1 : i + 1 \in DOMAIN gapResults /\ i + 1 # 1 /\ gapResults'[i] = gapResults[i + 1]
    BY <1>3, <2>1, <2>2
  <2> HIDE DEF n
  <2>4. /\ gapJobs' = gapJobs \ {t}
        /\ IF a.ok THEN FinishRange(a.job, a.found) ELSE UNCHANGED <<cursor, required, gapEvents>>
    BY <1>3 DEF DrainGapResults, DrainGapResult, JobsLeft
  <2>5. a.job \in Ranges /\ t \in PoolTypes /\ a.job.to \in 0 .. MaxBlock
    BY <2>2 DEF Answers, Ranges, Blocks
  <2>6. a.ok => a.found = InRange(a.job) BY <2>2 DEF GapIInv, Complete
  <2> HIDE DEF a, t
  <2>7. /\ cursor' \in [PoolTypes -> 0 .. MaxBlock]
        /\ \A u \in PoolTypes \ {t} : cursor'[u] = cursor[u]
        /\ required' \in BOOLEAN /\ gapEvents' \in Seq(Creations)
    <3>1. CASE a.ok
      <4>1. cursor' = [cursor EXCEPT ![t] = a.job.to]
        BY <2>4, <3>1 DEF FinishRange, t
      <4>2. gapEvents' = gapEvents \o InOrder(InRange(a.job)) BY <2>4, <2>6, <3>1 DEF FinishRange
      <4>3. InOrder(InRange(a.job)) \in Seq(Creations) BY <2>5, InOrderIsSeq DEF GapIInv
      <4>4. gapEvents' \in Seq(Creations) BY <4>2, <4>3 DEF GapIInv, GapShape, GapTypeOK
      <4>5. required' \in BOOLEAN BY <2>4, <3>1 DEF FinishRange, GapIInv, GapShape, GapTypeOK
      <4> QED BY <2>5, <4>1, <4>4, <4>5 DEF GapIInv, GapShape, GapTypeOK
    <3>2. CASE ~a.ok BY <2>4, <3>2 DEF GapIInv, GapShape, GapTypeOK
    <3> QED BY <3>1, <3>2
  <2>8. GapShape'
    <3>1. gapJobs' \subseteq PoolTypes BY <2>4 DEF GapIInv, GapShape, GapTypeOK
    <3> QED BY <1>1, <2>3, <2>7, <3>1 DEF GapIInv, GapShape, GapTypeOK, Answers, chainVars
  <2>9. ASSUME NEW s \in Ranges, Meets(s), s.type # t PROVE Meets(s)'
    <3>1. s.type \in PoolTypes \ {t} BY <2>9 DEF Ranges
    <3> QED BY <1>1, <2>4, <2>7, <2>9, <3>1 DEF Meets, chainVars
  <2>10. \A s \in gapWork : s.type # t BY <2>2 DEF GapIInv, InFlight, OneInFlight, t
  <2>11. \A i \in 1 .. n - 1 : gapResults[i + 1].job.type # t
    <3>1. 1 \in DOMAIN gapResults BY <2>2
    <3> QED BY <2>2, <2>3, <3>1 DEF GapIInv, InFlight, OneInFlight, t
  <2>12. InFlight'
    <3>1. \A s \in gapWork' : Meets(s)' BY <1>1, <2>9, <2>10, InHand DEF GapIInv, InFlight
    <3>2. \A i \in DOMAIN gapResults' : Meets(gapResults[i].job)'
      BY <2>3, <2>9, <2>11, InHand DEF GapIInv, InFlight
    <3>3. OneInFlight'
      <4>1. \A r, s \in gapWork' : r.type = s.type => r = s BY <1>1 DEF GapIInv, InFlight, OneInFlight
      <4>2. \A i, j \in DOMAIN gapResults' : gapResults'[i].job.type = gapResults'[j].job.type => i = j
        <5>1. \A i, j \in 1 .. n - 1 : i + 1 = j + 1 => i = j BY <2>2
        <5> QED BY <2>3, <5>1 DEF GapIInv, InFlight, OneInFlight
      <4>3. \A r \in gapWork' : \A i \in DOMAIN gapResults' : r.type # gapResults'[i].job.type
        BY <1>1, <2>3 DEF GapIInv, InFlight, OneInFlight
      <4> QED BY <4>1, <4>2, <4>3 DEF OneInFlight
    <3> QED BY <3>1, <3>2, <3>3 DEF InFlight
  <2>13. Complete' BY <1>1, <2>3 DEF GapIInv, Complete, InRange, chainVars
  <2> QED BY <2>8, <2>12, <2>13 DEF GapIInv
<1> QED BY <1>2, <1>3

\* A new block is behind the end of every range in flight.
LEMMA GapGrowth ==
  ASSUME GapIInv, NEW c, c[2] = head + 1,
         UNCHANGED <<scenario, cursor, required, target, seenHealthy, gapJobs, gapWork, gapResults,
                     gapEvents, failures>>,
         head' = head + 1, head + 1 <= MaxBlock,
         created' = created \/ created' = created \union {c}, created' \subseteq Creations,
         events' \in Seq(Creations \union ({"launched"} \X Blocks))
  PROVE  GapIInv'
<1>1. head \in Nat \ {0} /\ target \in Nat /\ target <= head /\ MaxBlock \in Nat
  BY GapAssumption DEF GapIInv, GapShape, GapTypeOK, Blocks
<1>2. GapShape'
  <2>1. IsFiniteSet(created') BY FS_AddElement DEF GapIInv, GapShape
  <2>2. head' \in Blocks /\ target' <= head' BY <1>1 DEF Blocks
  <2> QED BY <2>1, <2>2 DEF GapIInv, GapShape, GapTypeOK
<1>3. ASSUME NEW r \in Ranges, Meets(r) PROVE Meets(r)' /\ InRange(r)' = InRange(r)
  <2>1. r.from \in Nat /\ r.to \in Nat /\ r.to <= head BY <1>3 DEF Meets, Ranges, Blocks
  <2>2. r.to <= head' /\ head + 1 \notin r.from .. r.to BY <1>1, <2>1
  <2> QED BY <1>3, <2>2 DEF Meets, InRange
<1>4. InFlight' BY <1>3, InHand DEF GapIInv, InFlight, OneInFlight
<1>5. Complete' BY <1>3, InHand DEF GapIInv, InFlight, Complete
<1> QED BY <1>2, <1>4, <1>5 DEF GapIInv

LEMMA GapMined == ASSUME GapIInv, NEW t, MineBlock(t) PROVE GapIInv'
<1> DEFINE c == <<t, head + 1>>
<1>1. c[2] = head + 1 OBVIOUS
<1>2. /\ head < MaxBlock /\ head' = head + 1
      /\ created' = created \union ({c} \intersect Creations)
      /\ UNCHANGED <<scenario, cursor, required, target, seenHealthy, gapJobs, gapWork, gapResults,
                     gapEvents, failures>>
  BY DEF MineBlock, Mine
<1>3. head + 1 <= MaxBlock BY <1>2, GapAssumption DEF GapIInv, GapShape, GapTypeOK, Blocks
<1>4. (created' = created \/ created' = created \union {c}) /\ created' \subseteq Creations
  BY <1>2 DEF GapIInv, GapShape, GapTypeOK
<1>5. events' \in Seq(Creations \union ({"launched"} \X Blocks))
  <2>1. events' = events \/ (c \in Creations /\ events' = Append(events, c)) BY DEF MineBlock, Mine
  <2>2. events \in Seq(Creations \union ({"launched"} \X Blocks)) BY DEF GapIInv, GapShape, GapTypeOK
  <2> HIDE DEF c
  <2> QED BY <2>1, <2>2
<1> HIDE DEF c
<1> QED BY <1>1, <1>2, <1>3, <1>4, <1>5, GapGrowth

LEMMA GapMigrated == ASSUME GapIInv, Migrate PROVE GapIInv'
<1> DEFINE c == <<"v2", head + 1>>
           l == <<"launched", head + 1>>
           Heard == Creations \union ({"launched"} \X Blocks)
<1>1. c[2] = head + 1 OBVIOUS
<1>2. /\ head' = head + 1 /\ head + 1 <= scenario.max.blocks
      /\ created' = created \union {c}
      /\ UNCHANGED <<scenario, cursor, required, target, seenHealthy, gapJobs, gapWork, gapResults,
                     gapEvents, failures>>
  BY DEF Migrate
<1>3. head \in Nat /\ head + 1 <= MaxBlock /\ head + 1 \in Blocks
  BY <1>2, GapAssumption, VenueAssumption DEF GapIInv, GapShape, GapTypeOK, Blocks
<1>4. c \in Creations /\ c \in Heard /\ l \in Heard BY <1>3, VenueAssumption DEF Creations
<1>5. created' \subseteq Creations BY <1>2, <1>4 DEF GapIInv, GapShape, GapTypeOK
<1>6. events' \in Seq(Heard)
  <2>1. events \in Seq(Heard) BY DEF GapIInv, GapShape, GapTypeOK
  <2>2. events' = events \o ((IF Delivers("factory") THEN <<c>> ELSE <<>>)
                             \o (IF Delivers("portal") THEN <<l>> ELSE <<>>))
    BY DEF Migrate
  <2> HIDE DEF Heard, c, l
  <2>3. /\ (IF Delivers("factory") THEN <<c>> ELSE <<>>) \in Seq(Heard)
        /\ (IF Delivers("portal") THEN <<l>> ELSE <<>>) \in Seq(Heard)
    BY <1>4
  <2> QED BY <2>1, <2>2, <2>3
<1> HIDE DEF c
<1> QED BY <1>1, <1>2, <1>3, <1>5, <1>6, GapGrowth

\* The rest touches neither the chain nor the gap fill.
LEMMA GapElsewhere == ASSUME GapIInv, UNCHANGED <<scenario, gapVars>> PROVE GapIInv'
<1>1. UNCHANGED <<scenario, chainVars, cursor, required, target, seenHealthy, gapJobs, gapWork,
                  gapResults, events, gapEvents, failures>>
  BY DEF gapVars, gapMemory
<1>2. \A t \in PoolTypes : cursor[t] <= cursor[t] BY DEF GapIInv, GapShape, GapTypeOK
<1> QED BY <1>1, <1>2, CursorForward DEF GapIInv, GapShape, GapTypeOK

LEMMA GapNext == GapIInv /\ [Next]_vars => GapIInv'
<1> SUFFICES ASSUME GapIInv, [Next]_vars PROVE GapIInv' OBVIOUS
<1>1. CASE UNCHANGED vars BY <1>1, GapElsewhere DEF vars
<1>2. CASE Owner
  <2>1. CASE StartupStatus BY <2>1, GapPoll DEF StartupStatus
  <2>2. CASE PollStatus BY <2>2, GapPoll DEF PollStatus
  <2>3. CASE DrainFactoryResults BY <2>3, GapElsewhere DEF DrainFactoryResults, OwnerOnly
  <2>4. CASE DrainVenueResults BY <2>4, GapElsewhere DEF DrainVenueResults
  <2>5. CASE Watch BY <2>5, GapElsewhere DEF Watch, OwnerOnly
  <2> QED BY <1>2, <2>1, <2>2, <2>3, <2>4, <2>5, GapStart, GapStartupFill, GapLiveEvents, GapReadEvents,
             GapDrain, GapSchedule DEF Owner
<1>3. CASE Die BY <1>3, GapDeath
<1>4. CASE \E status \in {"unknown", "no", "yes"}, lower, first, gates, due \in BOOLEAN :
             OnRecord(status, lower, first, gates, due)
  BY <1>4, GapElsewhere DEF OnRecord
<1>5. CASE \E w \in venueWork : RunVenueJob(w) BY <1>5, GapElsewhere DEF RunVenueJob
<1>6. CASE \E c \in poolWork : RunPoolResolution(c) BY <1>6, GapElsewhere DEF RunPoolResolution
<1>7. CASE RunRecovery BY <1>7, GapElsewhere DEF RunRecovery
<1>8. CASE \E r \in gapWork : RunGapJob(r) BY <1>8, GapAnswer
<1>9. CASE Connect \/ Disconnect \/ Resubscribe BY <1>9, GapElsewhere DEF Connect, Disconnect, Resubscribe
<1>10. CASE \E t \in scenario.types : MineBlock(t) BY <1>10, GapMined
<1>11. CASE Migrate BY <1>11, GapMigrated
<1> QED BY <1>1, <1>2, <1>3, <1>4, <1>5, <1>6, <1>7, <1>8, <1>9, <1>10, <1>11 DEF Next

LEMMA GapFirst == Init => GapIInv
<1> SUFFICES ASSUME Init PROVE GapIInv OBVIOUS
<1>1. 1 \in Blocks /\ 0 \in 0 .. MaxBlock BY GapAssumption DEF Blocks
<1>2. \A S : <<>> \in Seq(S) OBVIOUS
<1>3. IsFiniteSet({}) BY FS_EmptySet
<1>4. GapTypeOK BY <1>1, <1>2 DEF Init, GapInit, GapTypeOK
<1>5. GapShape BY <1>3, <1>4 DEF Init, GapInit, GapShape
<1>6. DOMAIN gapResults = {} BY DEF Init, GapInit
<1>7. InFlight /\ Complete BY <1>6 DEF Init, GapInit, InFlight, OneInFlight, Complete
<1> QED BY <1>5, <1>7 DEF GapIInv

\* A pool between the cursor and the end of a range is in the range, which
\* starts no later than behind the cursor.
LEMMA GapImplies == GapIInv => NoPoolSkipped
<1> SUFFICES ASSUME GapIInv, NEW i \in DOMAIN gapResults, gapResults[i].ok,
                    NEW c \in created, c[1] = gapResults[i].job.type,
                    cursor[c[1]] < c[2], c[2] <= gapResults[i].job.to
             PROVE  c \in gapResults[i].found
  BY DEF NoPoolSkipped
<1> DEFINE r == gapResults[i].job
<1>1. r \in Ranges BY InHand DEF GapIInv
<1>2. gapResults[i].found = InRange(r) /\ Meets(r) BY DEF GapIInv, Complete, InFlight
<1> HIDE DEF r
<1>3. r.from \in Nat /\ r.to \in Nat /\ r.type \in PoolTypes BY <1>1 DEF Ranges, Blocks
<1>4. c[2] \in Nat /\ cursor[r.type] \in Nat
  BY <1>3 DEF GapIInv, GapShape, GapTypeOK, Creations, Blocks
<1>5. c[1] = r.type /\ cursor[r.type] < c[2] /\ c[2] <= r.to BY DEF r
<1>6. c[2] \in r.from .. r.to BY <1>2, <1>3, <1>4, <1>5 DEF Meets
<1> QED BY <1>2, <1>5, <1>6 DEF InRange

-----------------------------------------------------------------------------
\* The answer to a range sets the cursor over no pool: whatever happened while it was read,
\* live events that moved the cursor, blocks, a later target, a failure or
\* a restart, the answer that will set the cursor to the end of the range
\* has every pool created between the two (SR 3781-3814).  Live events may move the
\* cursor over pools that nobody read; of that it says nothing.
THEOREM NoneSkipped == Spec => []NoPoolSkipped
<1> QED BY GapFirst, GapNext, GapImplies, PTL DEF Spec
-----------------------------------------------------------------------------
(* Types: who writes what                                                  *)

Records == \E status \in {"unknown", "no", "yes"}, lower, first, gates, due \in BOOLEAN :
             OnRecord(status, lower, first, gates, due)

\* The groups of variables besides those of the gap fill, each with the steps
\* that may change it.
Written ==
  /\ UNCHANGED monitorVars \/ Start \/ Die \/ Watch \/ Connect \/ Disconnect \/ Resubscribe
  /\ UNCHANGED jobVars \/ Die \/ Records \/ DrainGapResults \/ DrainVenueResults
     \/ \E w \in venueWork : RunVenueJob(w)
  /\ \/ UNCHANGED poolVars \/ Start \/ Die \/ Records \/ DrainEvents \/ DrainGapEvents
     \/ DrainFactoryResults \/ DrainVenueResults \/ RunRecovery
     \/ \E c \in poolWork : RunPoolResolution(c)
  /\ pc' \in Stages
  /\ home' = home \/ Migrate
  /\ records' \in {records, records + 1} /\ wakes' \in {wakes, wakes + 1}
  /\ deaths' \in {deaths, deaths + 1}

LEMMA Writers == pc \in Stages /\ [Next]_vars => Written
<1> SUFFICES ASSUME pc \in Stages, [Next]_vars PROVE Written OBVIOUS
<1> USE DEF Written, Stages, jobVars, poolVars, boundVars, OwnerOnly
<1>1. CASE UNCHANGED vars BY <1>1 DEF vars
<1>2. CASE Owner
  <2>1. CASE Start BY <2>1 DEF Start
  <2>2. CASE StartupStatus \/ PollStatus
    BY <2>2 DEF StartupStatus, PollStatus, UpdateWssStatus
  <2>3. CASE StartupGapFill BY <2>3 DEF StartupGapFill
  <2>4. CASE DrainEvents BY <2>4 DEF DrainEvents
  <2>5. CASE DrainGapEvents BY <2>5 DEF DrainGapEvents
  <2>6. CASE DrainFactoryResults BY <2>6 DEF DrainFactoryResults
  <2>7. CASE DrainGapResults BY <2>7 DEF DrainGapResults
  <2>8. CASE ScheduleGapChunk BY <2>8 DEF ScheduleGapChunk
  <2>9. CASE DrainVenueResults BY <2>9 DEF DrainVenueResults
  <2>10. CASE Watch BY <2>10 DEF Watch
  <2> QED BY <1>2, <2>1, <2>2, <2>3, <2>4, <2>5, <2>6, <2>7, <2>8, <2>9, <2>10 DEF Owner
<1>3. CASE Die BY <1>3 DEF Die
<1>4. CASE Records
  <2>1. /\ pc' = "watch" /\ records' = records + 1
        /\ UNCHANGED <<home, wakes, deaths, monitorVars>>
    BY <1>4 DEF Records, OnRecord
  <2> QED BY <1>4, <2>1
<1>5. CASE \E w \in venueWork : RunVenueJob(w)
  <2>1. UNCHANGED <<pc, home, poolVars, boundVars, monitorVars>> BY <1>5 DEF RunVenueJob
  <2> QED BY <1>5, <2>1
<1>6. CASE \E c \in poolWork : RunPoolResolution(c)
  <2>1. UNCHANGED <<pc, home, jobVars, boundVars, monitorVars>> BY <1>6 DEF RunPoolResolution
  <2> QED BY <1>6, <2>1
<1>7. CASE RunRecovery
  <2>1. UNCHANGED <<pc, home, jobVars, boundVars, monitorVars>> BY <1>7 DEF RunRecovery
  <2> QED BY <1>7, <2>1
<1>8. CASE \E r \in gapWork : RunGapJob(r) BY <1>8 DEF RunGapJob
<1>9. CASE Connect BY <1>9 DEF Connect
<1>10. CASE Disconnect BY <1>10 DEF Disconnect
<1>11. CASE Resubscribe BY <1>11 DEF Resubscribe
<1>12. CASE \E t \in scenario.types : MineBlock(t) BY <1>12 DEF MineBlock
<1>13. CASE Migrate BY <1>13 DEF Migrate
<1> QED BY <1>1, <1>2, <1>3, <1>4, <1>5, <1>6, <1>7, <1>8, <1>9, <1>10, <1>11, <1>12, <1>13
       DEF Next, Records

-----------------------------------------------------------------------------
(* Types: the variables                                                    *)

Lanes == {"normal", "priority"}
VenueAnswers == [gen : 1 .. venueGen, flap : BOOLEAN]

JobTypes ==
  /\ venueGen \in Nat /\ venueJob \in 0 .. venueGen /\ priority \in BOOLEAN
  /\ venueWork \subseteq (1 .. venueGen) \X Lanes
  /\ venueResults \in Seq(VenueAnswers)

FactoryAnswers ==
  [source : {"factory", "recovery"}, at : Creations \union {NoCreation},
   answer : {"pool", "no_pool", "failed"}]

\* A creation is validated once at a time: its job is with the worker, or in
\* one result.
ValidatedOnce ==
  /\ poolWork \subseteq poolJobs
  /\ \A i \in DOMAIN factoryResults : factoryResults[i].source = "factory" =>
       factoryResults[i].at \in poolJobs \ poolWork
  /\ \A i, j \in DOMAIN factoryResults :
       factoryResults[i].at = factoryResults[j].at /\ factoryResults[i].source = "factory" => i = j
  /\ \A i \in DOMAIN factoryResults : factoryResults[i].source = "recovery" =>
       factoryResults[i].at = NoCreation

PoolJobTypes ==
  /\ poolJobs \subseteq Creations
  /\ recovering \in BOOLEAN /\ recoveryWork \in BOOLEAN
  /\ factoryResults \in Seq(FactoryAnswers)
  /\ migrations \in 0 .. 1
  /\ ValidatedOnce

LEMMA MonitorTypes == ASSUME MonitorTypeOK, Written PROVE MonitorTypeOK'
<1>1. CASE UNCHANGED monitorVars BY <1>1 DEF MonitorTypeOK, monitorVars
<1>2. CASE Start
  <2>1. PICK pools \in SUBSET {"pool"} : StartMonitor(pools) BY <1>2 DEF Start
  <2> QED BY <2>1 DEF StartMonitor, MonitorTypeOK, Addresses
<1>3. CASE Die BY <1>3 DEF Die, MonitorTypeOK
<1>4. CASE Watch
  <2>1. PICK pools \in SUBSET {"pool", "portal"} : SetPoolDescriptors(pools) BY <1>4 DEF Watch
  <2> QED BY <2>1 DEF SetPoolDescriptors, MonitorTypeOK, Addresses
<1>5. CASE Connect BY <1>5 DEF Connect, Dial, Acknowledged, Wake, MonitorTypeOK
<1>6. CASE Disconnect BY <1>6 DEF Disconnect, Drop, MonitorTypeOK
<1>7. CASE Resubscribe BY <1>7 DEF Resubscribe, RequestResubscribe, MonitorTypeOK
<1> QED BY <1>1, <1>2, <1>3, <1>4, <1>5, <1>6, <1>7 DEF Written

LEMMA ScheduleTypes ==
  ASSUME JobTypes, NEW c, NEW status, NEW gates \in BOOLEAN, ScheduleVenue(c, status, gates),
         venueResults' = venueResults
  PROVE  JobTypes'
<1>1. CASE UNCHANGED <<venueGen, venueJob, priority, venueWork>> BY <1>1 DEF JobTypes, VenueAnswers
<1>2. CASE /\ venueJob # 0
           /\ priority' = (priority \/ gates)
           /\ venueWork' = IF gates /\ ~priority THEN venueWork \union {<<venueJob, "priority">>} ELSE venueWork
           /\ UNCHANGED <<venueGen, venueJob>>
  <2>1. <<venueJob, "priority">> \in (1 .. venueGen) \X Lanes BY <1>2 DEF JobTypes, Lanes
  <2>2. venueWork' \subseteq (1 .. venueGen) \X Lanes BY <1>2, <2>1 DEF JobTypes
  <2>3. VenueAnswers' = VenueAnswers BY <1>2 DEF VenueAnswers
  <2> QED BY <1>2, <2>2, <2>3 DEF JobTypes
<1>3. CASE /\ venueGen' = venueGen + 1 /\ venueJob' = venueGen + 1 /\ priority' = gates
           /\ venueWork' = venueWork \union {<<venueGen + 1, IF gates THEN "priority" ELSE "normal">>}
  <2>1. /\ 1 .. venueGen \subseteq 1 .. venueGen' /\ venueGen + 1 \in 1 .. venueGen'
        /\ venueGen' \in Nat /\ venueJob' \in 0 .. venueGen'
    BY <1>3 DEF JobTypes
  <2>2. <<venueGen + 1, IF gates THEN "priority" ELSE "normal">> \in (1 .. venueGen') \X Lanes
    BY <2>1 DEF Lanes
  <2>3. venueWork' \subseteq (1 .. venueGen') \X Lanes BY <1>3, <2>1, <2>2 DEF JobTypes
  <2>4. venueResults' \in Seq(VenueAnswers')
    <3>1. VenueAnswers \subseteq VenueAnswers' BY <2>1 DEF VenueAnswers
    <3> QED BY <3>1 DEF JobTypes
  <2> QED BY <1>3, <2>1, <2>3, <2>4 DEF JobTypes
<1> QED BY <1>1, <1>2, <1>3 DEF ScheduleVenue

LEMMA JobsTyped == ASSUME JobTypes, Written PROVE JobTypes'
<1>1. CASE UNCHANGED jobVars BY <1>1 DEF JobTypes, VenueAnswers, jobVars
<1>2. CASE Die
  <2>1. \A S : <<>> \in Seq(S) OBVIOUS
  <2>2. venueGen' = 0 /\ venueJob' = 0 /\ priority' = FALSE /\ venueWork' = {} /\ venueResults' = <<>>
    BY <1>2 DEF Die
  <2>3. venueJob' \in 0 .. venueGen' /\ venueResults' \in Seq(VenueAnswers') BY <2>1, <2>2
  <2> QED BY <2>2, <2>3 DEF JobTypes
<1>3. CASE Records
  <2>1. PICK status \in {"unknown", "no", "yes"}, lower, first, gates, due \in BOOLEAN :
          OnRecord(status, lower, first, gates, due)
    BY <1>3 DEF Records
  <2>2. venueResults' = venueResults BY <2>1 DEF OnRecord
  <2>3. \/ UNCHANGED <<venueGen, venueJob, priority, venueWork>>
        \/ \E c, k : ScheduleVenue(c, k, gates)
    BY <2>1 DEF OnRecord
  <2> QED BY <2>2, <2>3, ScheduleTypes DEF JobTypes, VenueAnswers
<1>4. CASE DrainGapResults
  <2>1. venueResults' = venueResults BY <1>4 DEF DrainGapResults, OwnerOnly
  <2>2. \/ UNCHANGED <<venueGen, venueJob, priority, venueWork>>
        \/ ScheduleVenue(v, v.mig, TRUE)
    BY <1>4 DEF DrainGapResults, ResubmitStaleVenue
  <2> QED BY <2>1, <2>2, ScheduleTypes DEF JobTypes, VenueAnswers
<1>5. CASE DrainVenueResults
  <2>1. UNCHANGED <<venueGen, venueWork>> BY <1>5 DEF DrainVenueResults
  <2>2. CASE UNCHANGED <<venueJob, priority, venueResults>> BY <2>1, <2>2 DEF JobTypes, VenueAnswers
  <2>3. CASE venueResults # <<>> /\ venueResults' = Tail(venueResults) /\ venueJob' = 0 /\ priority' = FALSE
    <3>1. venueResults' \in Seq(VenueAnswers) BY <2>3 DEF JobTypes
    <3>2. VenueAnswers' = VenueAnswers BY <2>1 DEF VenueAnswers
    <3>3. venueResults' \in Seq(VenueAnswers') BY <3>1, <3>2
    <3>4. venueGen' \in Nat /\ venueJob' \in 0 .. venueGen' /\ venueWork' \subseteq (1 .. venueGen') \X Lanes
      BY <2>1, <2>3 DEF JobTypes
    <3> QED BY <2>3, <3>3, <3>4 DEF JobTypes
  <2> QED BY <1>5, <2>2, <2>3 DEF DrainVenueResults
<1>6. CASE \E w \in venueWork : RunVenueJob(w)
  <2>1. PICK w \in venueWork : RunVenueJob(w) BY <1>6
  <2>2. PICK flap \in BOOLEAN : venueResults' = Append(venueResults, [gen |-> w[1], flap |-> flap])
    BY <2>1 DEF RunVenueJob
  <2>3. [gen |-> w[1], flap |-> flap] \in VenueAnswers BY <2>1 DEF JobTypes, VenueAnswers
  <2>4. venueResults' \in Seq(VenueAnswers) BY <2>2, <2>3 DEF JobTypes
  <2>5. UNCHANGED <<venueGen, venueJob, priority>> /\ venueWork' = venueWork \ {w} BY <2>1 DEF RunVenueJob
  <2>6. VenueAnswers' = VenueAnswers BY <2>5 DEF VenueAnswers
  <2> QED BY <2>4, <2>5, <2>6 DEF JobTypes
<1> QED BY <1>1, <1>2, <1>3, <1>4, <1>5, <1>6 DEF Written
LEMMA EnsureTypes ==
  ASSUME PoolJobTypes, NEW c, NEW due, EnsureMigrated(c, due)
  PROVE  recovering' \in BOOLEAN /\ recoveryWork' \in BOOLEAN
BY DEF EnsureMigrated, PoolJobTypes

\* A creation goes to the worker unless its job is there already.
LEMMA CreationTypes ==
  ASSUME PoolJobTypes, NEW c \in Creations, ApplyFactoryPoolEvent(c), factoryResults' = factoryResults
  PROVE  poolJobs' \subseteq Creations /\ ValidatedOnce'
<1>1. poolJobs' = poolJobs \union {c} /\ poolWork' = IF c \in poolJobs THEN poolWork ELSE poolWork \union {c}
  BY DEF ApplyFactoryPoolEvent
<1>2. \A d \in poolJobs \ poolWork : d \in poolJobs' \ poolWork' BY <1>1
<1> QED BY <1>1, <1>2 DEF PoolJobTypes, ValidatedOnce

\* A new result: its creation has left the worker, or it is a recovery's.
LEMMA ResultTypes ==
  ASSUME PoolJobTypes, NEW r \in FactoryAnswers, factoryResults' = Append(factoryResults, r),
         poolJobs' = poolJobs,
         \/ r.source = "factory" /\ r.at \in poolWork /\ poolWork' = poolWork \ {r.at}
         \/ r.source = "recovery" /\ r.at = NoCreation /\ poolWork' = poolWork
  PROVE  factoryResults' \in Seq(FactoryAnswers) /\ ValidatedOnce'
<1> DEFINE n == Len(factoryResults)
<1>1. /\ factoryResults' \in Seq(FactoryAnswers)
      /\ n \in Nat /\ DOMAIN factoryResults = 1 .. n /\ DOMAIN factoryResults' = 1 .. n + 1
      /\ factoryResults'[n + 1] = r
      /\ \A i \in 1 .. n : factoryResults'[i] = factoryResults[i]
  BY DEF PoolJobTypes
<1> HIDE DEF n
<1>2. \A i \in DOMAIN factoryResults' : i \in DOMAIN factoryResults \/ i = n + 1 BY <1>1
<1>3. \A i \in 1 .. n : factoryResults[i].source \in {"factory", "recovery"}
  <2>1. \A i \in 1 .. n : factoryResults[i] \in FactoryAnswers BY <1>1 DEF PoolJobTypes
  <2> QED BY <2>1 DEF FactoryAnswers
<1>4. NoCreation \notin Creations BY DEF NoCreation, Creations, Blocks
<1>5. \A i \in 1 .. n : factoryResults[i].at # r.at \/ (factoryResults[i].source = "recovery" /\ r.source = "recovery")
  BY <1>1, <1>3, <1>4 DEF PoolJobTypes, ValidatedOnce
<1>6. poolWork' \subseteq poolJobs' BY DEF PoolJobTypes, ValidatedOnce
<1>7. \A i \in DOMAIN factoryResults' : factoryResults'[i].source = "factory" =>
        factoryResults'[i].at \in poolJobs' \ poolWork'
  BY <1>1, <1>2 DEF PoolJobTypes, ValidatedOnce
<1>8. \A i, j \in DOMAIN factoryResults' :
        factoryResults'[i].at = factoryResults'[j].at /\ factoryResults'[i].source = "factory" => i = j
  BY <1>1, <1>2, <1>5 DEF PoolJobTypes, ValidatedOnce
<1>9. \A i \in DOMAIN factoryResults' : factoryResults'[i].source = "recovery" =>
        factoryResults'[i].at = NoCreation
  BY <1>1, <1>2 DEF PoolJobTypes, ValidatedOnce
<1> QED BY <1>1, <1>6, <1>7, <1>8, <1>9 DEF ValidatedOnce

\* The first result takes its job away, and no other.
LEMMA DrainTypes ==
  ASSUME PoolJobTypes, DrainFactoryResults, factoryResults # <<>>
  PROVE  PoolJobTypes'
<1> DEFINE r == Head(factoryResults)
           n == Len(factoryResults)
<1>1. /\ n \in Nat \ {0} /\ DOMAIN factoryResults = 1 .. n /\ r = factoryResults[1] /\ r \in FactoryAnswers
      /\ factoryResults' \in Seq(FactoryAnswers) /\ DOMAIN factoryResults' = 1 .. n - 1
      /\ \A i \in 1 .. n - 1 : /\ i + 1 \in 1 .. n /\ i + 1 # 1
                               /\ factoryResults'[i] = factoryResults[i + 1]
  BY DEF PoolJobTypes, DrainFactoryResults
<1>2. /\ poolJobs' = poolJobs \ {r.at} /\ UNCHANGED <<poolWork, recoveryWork, migrations>>
      /\ recovering' \in BOOLEAN
  BY DEF DrainFactoryResults, OwnerOnly
<1> HIDE DEF r, n
<1>3. 1 \in DOMAIN factoryResults BY <1>1
<1>4. r.source = "recovery" => r.at \notin Creations
  BY <1>1, <1>3 DEF PoolJobTypes, ValidatedOnce, NoCreation, Creations, Blocks
<1>5. r.source = "factory" => r.at \notin poolWork BY <1>1, <1>3 DEF PoolJobTypes, ValidatedOnce
<1>6. r.source \in {"factory", "recovery"} BY <1>1 DEF FactoryAnswers
<1>7. poolWork' \subseteq poolJobs' BY <1>2, <1>4, <1>5, <1>6 DEF PoolJobTypes, ValidatedOnce
<1>8. ASSUME NEW i \in 1 .. n - 1, factoryResults'[i].source = "factory"
      PROVE  factoryResults'[i].at \in poolJobs' \ poolWork'
  <2>1. i + 1 \in DOMAIN factoryResults /\ i + 1 # 1 /\ factoryResults[i + 1].source = "factory"
    BY <1>1, <1>8
  <2>2. factoryResults[i + 1].at \in poolJobs \ poolWork /\ factoryResults[i + 1].at # r.at
    BY <1>1, <1>3, <2>1 DEF PoolJobTypes, ValidatedOnce
  <2> QED BY <1>1, <1>2, <2>2
<1>9. ASSUME NEW i \in 1 .. n - 1, NEW j \in 1 .. n - 1,
             factoryResults'[i].at = factoryResults'[j].at, factoryResults'[i].source = "factory"
      PROVE  i = j
  <2>1. i + 1 \in DOMAIN factoryResults /\ j + 1 \in DOMAIN factoryResults BY <1>1
  <2>2. i + 1 = j + 1 BY <1>1, <1>9, <2>1 DEF PoolJobTypes, ValidatedOnce
  <2> QED BY <1>1, <2>2
<1>10. \A i \in 1 .. n - 1 : factoryResults'[i].source = "recovery" => factoryResults'[i].at = NoCreation
  BY <1>1 DEF PoolJobTypes, ValidatedOnce
<1>11. ValidatedOnce' BY <1>1, <1>7, <1>8, <1>9, <1>10 DEF ValidatedOnce
<1> QED BY <1>1, <1>2, <1>11 DEF PoolJobTypes

LEMMA PoolsTyped == ASSUME PoolJobTypes, GapShape, Written PROVE PoolJobTypes'
<1>0. UNCHANGED <<poolJobs, poolWork, factoryResults>> => ValidatedOnce'
  BY DEF PoolJobTypes, ValidatedOnce
<1>1. CASE UNCHANGED poolVars BY <1>0, <1>1 DEF PoolJobTypes, poolVars
<1>2. CASE Start
  <2>1. recovering' \in BOOLEAN /\ recoveryWork' \in BOOLEAN BY <1>2, EnsureTypes DEF Start
  <2> QED BY <1>0, <1>2, <2>1 DEF Start, PoolJobTypes
<1>3. CASE Die
  <2>1. \A S : <<>> \in Seq(S) OBVIOUS
  <2>2. /\ poolJobs' = {} /\ poolWork' = {} /\ recovering' = FALSE /\ recoveryWork' = FALSE
        /\ factoryResults' = <<>> /\ migrations' = 0
    BY <1>3 DEF Die
  <2>3. DOMAIN factoryResults' = {} BY <2>2
  <2>4. ValidatedOnce' BY <2>2, <2>3 DEF ValidatedOnce
  <2>5. factoryResults' \in Seq(FactoryAnswers) /\ migrations' \in 0 .. 1 BY <2>1, <2>2
  <2> QED BY <2>2, <2>4, <2>5 DEF PoolJobTypes, FactoryAnswers
<1>4. CASE Records
  <2>1. PICK status \in {"unknown", "no", "yes"}, lower, first, gates, due \in BOOLEAN :
          OnRecord(status, lower, first, gates, due)
    BY <1>4 DEF Records
  <2>2. UNCHANGED <<poolJobs, poolWork, factoryResults, migrations>> BY <2>1 DEF OnRecord
  <2>3. UNCHANGED <<recovering, recoveryWork>> \/ \E c : EnsureMigrated(c, due) BY <2>1 DEF OnRecord
  <2>4. recovering' \in BOOLEAN /\ recoveryWork' \in BOOLEAN BY <2>3, EnsureTypes DEF PoolJobTypes
  <2> QED BY <1>0, <2>2, <2>4 DEF PoolJobTypes
<1>5. CASE DrainEvents
  <2>1. factoryResults' = factoryResults BY <1>5 DEF DrainEvents
  <2>2. CASE /\ UNCHANGED <<poolJobs, poolWork>> /\ migrations' \in {migrations, 1}
             /\ UNCHANGED <<recovering, recoveryWork>> \/ \E c, due : EnsureMigrated(c, due)
    <3>1. recovering' \in BOOLEAN /\ recoveryWork' \in BOOLEAN BY <2>2, EnsureTypes DEF PoolJobTypes
    <3>2. migrations' \in 0 .. 1 BY <2>2 DEF PoolJobTypes
    <3> QED BY <1>0, <2>1, <2>2, <3>1, <3>2 DEF PoolJobTypes
  <2>3. CASE /\ events # <<>> /\ Head(events)[1] # "launched" /\ ApplyFactoryPoolEvent(Head(events))
             /\ UNCHANGED <<migrations, recovering, recoveryWork>>
    <3>1. events \in Seq(Creations \union ({"launched"} \X Blocks)) BY DEF GapShape, GapTypeOK
    <3>2. Head(events) \in Creations BY <2>3, <3>1
    <3>3. poolJobs' \subseteq Creations /\ ValidatedOnce' BY <2>1, <2>3, <3>2, CreationTypes
    <3> QED BY <2>1, <2>3, <3>3 DEF PoolJobTypes, FactoryAnswers
  <2> QED BY <1>5, <2>2, <2>3 DEF DrainEvents, ApplyFlapMigration
<1>6. CASE DrainGapEvents
  <2>1. UNCHANGED <<factoryResults, migrations, recovering, recoveryWork>> BY <1>6 DEF DrainGapEvents
  <2>2. CASE UNCHANGED <<poolJobs, poolWork>> BY <1>0, <2>1, <2>2 DEF PoolJobTypes
  <2>3. CASE gapEvents # <<>> /\ ApplyFactoryPoolEvent(Head(gapEvents))
    <3>1. gapEvents \in Seq(Creations) BY DEF GapShape, GapTypeOK
    <3>2. Head(gapEvents) \in Creations BY <2>3, <3>1
    <3>3. poolJobs' \subseteq Creations /\ ValidatedOnce' BY <2>1, <2>3, <3>2, CreationTypes
    <3> QED BY <2>1, <3>3 DEF PoolJobTypes
  <2> QED BY <1>6, <2>2, <2>3 DEF DrainGapEvents
<1>7. CASE DrainFactoryResults
  <2>1. CASE factoryResults = <<>>
    <3>1. UNCHANGED <<poolJobs, poolWork, recovering, recoveryWork, factoryResults, migrations>>
      BY <1>7, <2>1 DEF DrainFactoryResults, OwnerOnly
    <3> QED BY <1>0, <3>1 DEF PoolJobTypes
  <2> QED BY <1>7, <2>1, DrainTypes
<1>8. CASE DrainVenueResults
  <2>1. UNCHANGED <<poolJobs, poolWork, recovering, recoveryWork, factoryResults>> /\ migrations' = 0
    BY <1>8 DEF DrainVenueResults
  <2>2. migrations' \in 0 .. 1 BY <2>1
  <2> QED BY <1>0, <2>1, <2>2 DEF PoolJobTypes
<1>9. CASE RunRecovery
  <2>1. PICK answer \in {"pool", "no_pool", "failed"} :
          factoryResults' = Append(factoryResults, [source |-> "recovery", at |-> NoCreation, answer |-> answer])
    BY <1>9 DEF RunRecovery
  <2> DEFINE r == [source |-> "recovery", at |-> NoCreation, answer |-> answer]
  <2>2. r \in FactoryAnswers /\ r.source = "recovery" /\ r.at = NoCreation BY DEF FactoryAnswers
  <2>3. UNCHANGED <<poolJobs, poolWork, recovering, migrations>> /\ recoveryWork' = FALSE
    BY <1>9 DEF RunRecovery
  <2> HIDE DEF r
  <2>4. factoryResults' \in Seq(FactoryAnswers) /\ ValidatedOnce' BY <2>1, <2>2, <2>3, ResultTypes DEF r
  <2> QED BY <2>3, <2>4 DEF PoolJobTypes, FactoryAnswers
<1>10. CASE \E c \in poolWork : RunPoolResolution(c)
  <2>1. PICK c \in poolWork : RunPoolResolution(c) BY <1>10
  <2>2. PICK answer \in {"pool", "failed"} :
          factoryResults' = Append(factoryResults, [source |-> "factory", at |-> c, answer |-> answer])
    BY <2>1 DEF RunPoolResolution
  <2> DEFINE r == [source |-> "factory", at |-> c, answer |-> answer]
  <2>3. r \in FactoryAnswers /\ r.source = "factory" /\ r.at = c
    BY DEF FactoryAnswers, PoolJobTypes, ValidatedOnce
  <2>4. UNCHANGED <<poolJobs, recovering, recoveryWork, migrations>> /\ poolWork' = poolWork \ {c}
    BY <2>1 DEF RunPoolResolution
  <2> HIDE DEF r
  <2>5. factoryResults' \in Seq(FactoryAnswers) /\ ValidatedOnce' BY <2>2, <2>3, <2>4, ResultTypes DEF r
  <2> QED BY <2>4, <2>5 DEF PoolJobTypes, FactoryAnswers
<1> QED BY <1>1, <1>2, <1>3, <1>4, <1>5, <1>6, <1>7, <1>8, <1>9, <1>10 DEF Written

-----------------------------------------------------------------------------
Control ==
  /\ MonitorTypeOK /\ pc \in Stages /\ home \in 0 .. MaxBlock
  /\ {records, wakes, deaths} \subseteq Nat

VenueIInv == GapIInv /\ VenueShape /\ JobTypes /\ PoolJobTypes /\ Control

LEMMA VenueFirst == Init => VenueIInv
<1> SUFFICES ASSUME Init PROVE VenueIInv OBVIOUS
<1>1. \A S : <<>> \in Seq(S) OBVIOUS
<1>2. JobTypes
  <2>1. venueGen = 0 /\ venueJob = 0 /\ priority = FALSE /\ venueWork = {} /\ venueResults = <<>>
    BY DEF Init
  <2>2. venueJob \in 0 .. venueGen /\ venueResults \in Seq(VenueAnswers) BY <1>1, <2>1
  <2> QED BY <2>1, <2>2 DEF JobTypes
<1>3. DOMAIN factoryResults = {} BY DEF Init
<1>4. ValidatedOnce BY <1>3 DEF Init, ValidatedOnce
<1>5. PoolJobTypes
  <2>1. /\ poolJobs = {} /\ recovering = FALSE /\ recoveryWork = FALSE
        /\ factoryResults = <<>> /\ migrations = 0
    BY DEF Init
  <2>2. factoryResults \in Seq(FactoryAnswers) /\ migrations \in 0 .. 1 BY <1>1, <2>1
  <2> QED BY <1>4, <2>1, <2>2 DEF PoolJobTypes
<1>6. MonitorTypeOK BY DEF Init, NoMonitor, MonitorTypeOK
<1>7. Control BY <1>6, GapAssumption DEF Init, Control, Stages
<1>8. VenueShape BY NewVenueTyped DEF Init, VenueShape
<1> QED BY <1>2, <1>5, <1>7, <1>8, GapFirst DEF VenueIInv

LEMMA VenueNext == VenueIInv /\ [Next]_vars => VenueIInv'
<1> SUFFICES ASSUME VenueIInv, [Next]_vars PROVE VenueIInv' OBVIOUS
<1>1. Written BY Writers DEF VenueIInv, Control
<1>2. GapIInv' /\ VenueShape' BY GapNext, NextOps DEF VenueIInv, Good
<1>3. JobTypes' BY <1>1, JobsTyped DEF VenueIInv
<1>4. PoolJobTypes' BY <1>1, PoolsTyped DEF VenueIInv, GapIInv
<1>5. home' \in 0 .. MaxBlock
  <2>1. CASE home' = home BY <2>1 DEF VenueIInv, Control
  <2>2. CASE Migrate
    <3>1. home' = head' /\ head' \in Blocks BY <1>2, <2>2 DEF Migrate, GapIInv, GapShape, GapTypeOK
    <3> QED BY <3>1 DEF Blocks
  <2> QED BY <1>1, <2>1, <2>2 DEF Written
<1>6. Control' BY <1>1, <1>5, MonitorTypes DEF VenueIInv, Control, Written
<1> QED BY <1>2, <1>3, <1>4, <1>6 DEF VenueIInv

\* The variables have their types, for which a creation must never be
\* validated twice at a time: a result takes away the job of its creation
\* while nothing of it is left with the worker.
THEOREM Types == Spec => []TypeOK
<1>1. VenueIInv => TypeOK
  BY DEF VenueIInv, GapIInv, GapShape, VenueShape, JobTypes, VenueAnswers, Lanes, PoolJobTypes, FactoryAnswers,
         ValidatedOnce, Control, TypeOK
<1> QED BY <1>1, VenueFirst, VenueNext, PTL DEF Spec

\* Each creation is validated once at a time.
THEOREM CreationsValidatedOnce == Spec => []ValidatedOnce
<1>1. VenueIInv => ValidatedOnce BY DEF VenueIInv, PoolJobTypes
<1> QED BY <1>1, VenueFirst, VenueNext, PTL DEF Spec
=============================================================================
