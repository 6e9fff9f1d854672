-------------------------- MODULE VenueResolution --------------------------
(***************************************************************************)
(* The market-data side of the survivor engine: the socket monitor, the    *)
(* factories' gap fill, and the workers that find out where a candidate    *)
(* trades, before and after its migration to a Pancake pool.  The workers  *)
(* only read; their answers wait in queues that the owner loop drains, in  *)
(* the order of evaluate(), and by then the candidate may have moved on.   *)
(***************************************************************************)
EXTENDS FactoryGap, VenueCandidate

CONSTANTS
  FactoryOrder,  \* the factories in the order the code tries them
  Scenarios      \* [open, migrates, types, max]: whether a position of the
                 \* token is open, whether the token migrates, which
                 \* factories create other pools, and the bounds [blocks,
                 \* drops, failures, records, wakes, deaths]

ASSUME VenueAssumption ==
  /\ FactoryOrder \in Seq(PoolTypes)
  /\ PoolTypes = {FactoryOrder[i] : i \in DOMAIN FactoryOrder}
  /\ "v2" \in PoolTypes
  /\ \A s \in Scenarios :
       /\ s.open \in BOOLEAN /\ s.migrates \in BOOLEAN
       /\ s.types \subseteq PoolTypes
       /\ s.max \in [blocks : Blocks, drops : Nat, failures : Nat, records : Nat, wakes : Nat,
                     deaths : Nat]

VARIABLES
  scenario,
  pc,              \* where the owner loop is
  v,               \* the candidate's venue facts
  row,             \* the same, as committed
  home,            \* the block of the token's migration, 0 before it
  venueGen,        \* _venue_resolution_generation
  venueJob,        \* _venue_resolution_jobs: the generation asked for, 0 for none
  priority,        \* _priority_venue_resolution_jobs
  venueWork,       \* submitted copies of jobs, <<generation, lane>>
  venueResults,    \* _venue_resolution_results
  poolJobs,        \* _factory_resolution_jobs
  poolWork,        \* creations being validated
  recovering,      \* _migrated_pool_recovery_jobs
  recoveryWork,    \* the recovery worker runs
  factoryResults,  \* _factory_resolution_results
  migrations,      \* _pending_flap_migrations
  records, wakes, deaths

jobVars == <<venueGen, venueJob, priority, venueWork, venueResults>>
poolVars == <<poolJobs, poolWork, recovering, recoveryWork, factoryResults, migrations>>
boundVars == <<records, wakes, deaths>>
vars == <<scenario, pc, v, row, home, jobVars, poolVars, boundVars, monitorVars, gapVars>>

Stages == {"down", "starting", "filling", "idle", "events", "gapEvents", "factory", "gaps",
           "chunk", "venue", "watch", "status"}

NoCreation == <<"none", 0>>

TypeOK ==
  /\ MonitorTypeOK /\ GapTypeOK
  /\ scenario \in Scenarios /\ pc \in Stages
  /\ v \in Venues /\ row \in Venues
  /\ home \in 0 .. MaxBlock
  /\ venueGen \in Nat /\ venueJob \in 0 .. venueGen /\ priority \in BOOLEAN
  /\ venueWork \subseteq (1 .. venueGen) \X {"normal", "priority"}
  /\ venueResults \in Seq([gen : 1 .. venueGen, flap : BOOLEAN])
  /\ poolJobs \subseteq Creations /\ poolWork \subseteq poolJobs
  /\ recovering \in BOOLEAN /\ recoveryWork \in BOOLEAN
  /\ factoryResults \in Seq([source : {"factory", "recovery"}, at : Creations \union {NoCreation},
                             answer : {"pool", "no_pool", "failed"}])
  /\ migrations \in 0 .. 1
  /\ {records, wakes, deaths} \subseteq Nat

Init ==
  /\ scenario \in Scenarios
  /\ pc = "down"
  /\ v = NewVenue /\ row = NewVenue
  /\ home = 0
  /\ venueGen = 0 /\ venueJob = 0 /\ priority = FALSE /\ venueWork = {} /\ venueResults = <<>>
  /\ poolJobs = {} /\ poolWork = {} /\ factoryResults = <<>>
  /\ recovering = FALSE /\ recoveryWork = FALSE
  /\ migrations = 0
  /\ records = 0 /\ wakes = 0 /\ deaths = 0
  /\ NoMonitor /\ drops = 0
  /\ GapInit

OwnerOnly == UNCHANGED <<scenario, home, venueResults, poolWork, boundVars>>

-----------------------------------------------------------------------------
(* What several handlers do.                                               *)

(* ensure_migrated_market_data: due stands for the age limit and for the   *)
(* discovery schedule.                                                     *)
EnsureMigrated(c, due) ==
  IF c.mig = "yes" /\ ~MarketDataBound(c) /\ ~recovering /\ due
    THEN v' = RecoveryQueued(c) /\ recovering' = TRUE /\ recoveryWork' = TRUE
    ELSE v' = c /\ UNCHANGED <<recovering, recoveryWork>>

(* _schedule_pre_migration_venue_resolution: a job in the queue is only    *)
(* submitted again, to the fast lane; otherwise a new generation starts.   *)
ScheduleVenue(c, status, gates) ==
  IF status = "yes"
    THEN v' = [c EXCEPT !.state = "MIGRATED_POOL_DISCOVERY"] /\ UNCHANGED <<venueGen, venueJob, priority, venueWork>>
  ELSE IF venueJob # 0
    THEN /\ v' = c
         /\ priority' = (priority \/ gates)
         /\ venueWork' = IF gates /\ ~priority THEN venueWork \union {<<venueJob, "priority">>} ELSE venueWork
         /\ UNCHANGED <<venueGen, venueJob>>
  ELSE /\ venueGen' = venueGen + 1
       /\ venueJob' = venueGen + 1
       /\ priority' = gates
       /\ venueWork' = venueWork \union {<<venueGen + 1, IF gates THEN "priority" ELSE "normal">>}
       /\ v' = [c EXCEPT !.state = "VENUE_RESOLVING"]

(* _apply_factory_pool_event: move the cursor, at once durable, and submit *)
(* the pool for validation unless it is being validated.                   *)
ApplyFactoryPoolEvent(c) ==
  /\ cursor' = CursorAfter(c)
  /\ poolJobs' = poolJobs \union {c}
  /\ poolWork' = IF c \in poolJobs THEN poolWork ELSE poolWork \union {c}
  /\ row' = IF cursor' = cursor THEN row ELSE v

-----------------------------------------------------------------------------
(* The process.                                                            *)

Start ==
  /\ pc = "down"
  /\ pc' = "starting"
  /\ EnsureFactoryCursors
  /\ \E due \in BOOLEAN : EnsureMigrated(v, due)
  /\ \E pools \in SUBSET {"pool"} : /\ pools # {} => scenario.open /\ v.addr
                                    /\ StartMonitor(pools)
  /\ UNCHANGED <<scenario, row, home, jobVars, poolJobs, poolWork, factoryResults, migrations,
                 boundVars, chainVars, target, seenHealthy, gapJobs, gapWork, gapResults, events,
                 gapEvents, failures>>

Die ==
  /\ pc # "down"
  /\ deaths < scenario.max.deaths
  /\ deaths' = deaths + 1
  /\ pc' = "down"
  /\ v' = Hydrated(row)
  /\ venueGen' = 0 /\ venueJob' = 0 /\ priority' = FALSE /\ venueWork' = {} /\ venueResults' = <<>>
  /\ poolJobs' = {} /\ poolWork' = {} /\ recovering' = FALSE /\ recoveryWork' = FALSE
  /\ factoryResults' = <<>> /\ migrations' = 0
  /\ desired' = {} /\ asked' = {} /\ changed' = FALSE /\ link' = "none" /\ wss' = "DISCONNECTED"
  /\ ForgetGap
  /\ UNCHANGED <<scenario, row, home, records, wakes, drops, chainVars, cursor, failures>>

(* The subscription half of update_wss_status.  The list it is given is    *)
(* the monitor's list of addresses to watch, whatever the socket asked     *)
(* for; watched stands for the candidate's state and its eligibility.      *)
PublishSubscription(watched) ==
  IF watched /\ (v.desc \/ v.flap)
    THEN v' = Subscription(v, wss, WatchedAddress(v) \in desired)
    ELSE v' = v

UpdateWssStatus(next) ==
  /\ GapStatus(wss, scenario.max.failures)
  /\ \E watched \in BOOLEAN : (scenario.open => watched) /\ PublishSubscription(watched)
  /\ row' = IF v' = v THEN row ELSE v'
  /\ pc' = next
  /\ OwnerOnly
  /\ UNCHANGED <<monitorVars, venueGen, venueJob, priority, venueWork, poolJobs, recovering,
                 recoveryWork, factoryResults, migrations>>

(* Start-up waits for the factories' acknowledgement, 15 seconds at most.  *)
StartupStatus ==
  /\ pc = "starting"
  /\ UpdateWssStatus(IF wss = "HEALTHY" THEN "filling" ELSE "idle")

(* complete_factory_startup_gap_fill: chunk after chunk while reads        *)
(* succeed and 30 seconds last.                                            *)
StartupGapFill ==
  /\ pc = "filling"
  /\ \/ \E i \in DOMAIN FactoryOrder :
          /\ \A j \in 1 .. i - 1 : ~Behind(FactoryOrder[j])
          /\ FillInline(FactoryOrder[i])
          /\ row' = v
          /\ pc' \in {"filling", "idle"}
     \/ /\ FillInlineStops
        /\ pc' = "idle"
        /\ UNCHANGED row
  /\ OwnerOnly
  /\ UNCHANGED <<monitorVars, v, venueGen, venueJob, priority, venueWork, poolJobs, recovering,
                 recoveryWork, factoryResults, migrations>>

-----------------------------------------------------------------------------
(* The discovery feed: the venue half of on_records, committed at its end. *)
(* first stands for the first sight of the token or of its eligibility; a  *)
(* resolved Flap token may have an old registry row to be renewed.         *)
OnRecord(status, lowerRank, first, gates, due) ==
  LET c == WithMigrateStatus(v, status, lowerRank)
      effective == EffectiveStatus(c, status)
      asks == effective = "no" /\ (~c.resolved \/ c.flap)
  IN /\ pc = "idle"
     /\ records < scenario.max.records
     /\ records' = records + 1
     /\ status = "yes" => home # 0
     /\ \/ /\ asks
           /\ ScheduleVenue(IF first THEN MarkPending(c) ELSE c, effective, gates)
           /\ UNCHANGED <<recovering, recoveryWork>>
        \/ /\ effective = "yes"
           /\ EnsureMigrated(c, due)
           /\ UNCHANGED <<venueGen, venueJob, priority, venueWork>>
        \/ /\ effective = "unknown" \/ (effective = "no" /\ c.resolved)
           \* nothing to ask
           /\ v' = c
           /\ UNCHANGED <<recovering, recoveryWork, venueGen, venueJob, priority, venueWork>>
     /\ row' = v'
     /\ pc' = "watch"
  /\ UNCHANGED <<scenario, home, venueResults, poolJobs, poolWork, factoryResults, migrations,
                 wakes, deaths, monitorVars, gapVars>>

-----------------------------------------------------------------------------
(* evaluate(), then set_pool_descriptors and update_wss_status.            *)

(* _apply_flap_migration_event                                             *)
ApplyFlapMigration ==
  /\ IF v.flap
       THEN /\ migrations' = 1
            /\ \E due \in BOOLEAN : EnsureMigrated(Launched(v), due)
       ELSE UNCHANGED <<v, migrations, recovering, recoveryWork>>
  /\ UNCHANGED <<row, cursor, poolJobs, poolWork>>

DrainEvents ==
  /\ pc \in {"idle", "events"}
  /\ IF events = <<>>
       THEN /\ pc' = "gapEvents"
            /\ UNCHANGED <<v, row, events, cursor, poolJobs, poolWork, migrations, recovering,
                           recoveryWork>>
       ELSE /\ events' = Tail(events)
            /\ IF Head(events)[1] = "launched"
                 THEN ApplyFlapMigration
                 ELSE /\ ApplyFactoryPoolEvent(Head(events))
                      /\ UNCHANGED <<v, migrations, recovering, recoveryWork>>
            /\ pc' = "events"
  /\ UNCHANGED <<scenario, home, jobVars, factoryResults, boundVars, monitorVars, chainVars,
                 required, target, seenHealthy, gapJobs, gapWork, gapResults, gapEvents, failures>>

DrainGapEvents ==
  /\ pc = "gapEvents"
  /\ IF gapEvents = <<>>
       THEN pc' = "factory" /\ UNCHANGED <<row, gapEvents, cursor, poolJobs, poolWork>>
       ELSE /\ gapEvents' = Tail(gapEvents)
            /\ ApplyFactoryPoolEvent(Head(gapEvents))
            /\ UNCHANGED pc
  /\ UNCHANGED <<scenario, v, home, jobVars, recovering, recoveryWork, factoryResults, migrations,
                 boundVars, monitorVars, chainVars, required, target, seenHealthy, gapJobs,
                 gapWork, gapResults, events, failures>>

(* What one factory result says of the candidate: a pool is attached; a    *)
(* recovery that found none resets the markers, even of an attached pool.  *)
FactoryResultApplied(r) ==
  IF r.answer = "pool" THEN AttachPool(v)
  ELSE IF r.source = "recovery" THEN RecoveryFailed(v, r.answer = "no_pool")
  ELSE v

(* _drain_factory_pool_resolution_results                                  *)
DrainFactoryResults ==
  /\ pc = "factory"
  /\ IF factoryResults = <<>>
       THEN pc' = "gaps" /\ UNCHANGED <<v, poolJobs, recovering, factoryResults>>
       ELSE LET r == Head(factoryResults)
            IN /\ factoryResults' = Tail(factoryResults)
               /\ poolJobs' = poolJobs \ {r.at}
               /\ recovering' = (recovering /\ r.source # "recovery")
               /\ v' = FactoryResultApplied(r)
               /\ pc' \in {"factory", "gaps"}
  /\ OwnerOnly
  /\ UNCHANGED <<row, venueGen, venueJob, priority, venueWork, recoveryWork, migrations,
                 monitorVars, gapVars>>

(* _schedule_one_stale_pre_migration_resolution, then one gap result, ...   *)
(* waited stands for the ten seconds and for the gates.                    *)
ResubmitStaleVenue(waited) ==
  IF waited /\ v.mig # "yes" /\ v.state = "VENUE_RESOLVING" /\ venueJob = 0
    THEN ScheduleVenue(v, v.mig, TRUE)
    ELSE UNCHANGED <<v, venueGen, venueJob, priority, venueWork>>

DrainGapResults ==
  /\ pc = "gaps"
  /\ pc' = "chunk"
  /\ \E waited \in BOOLEAN : ResubmitStaleVenue(waited)
  /\ IF gapResults = <<>>
       THEN UNCHANGED <<row, cursor, required, gapJobs, gapResults, gapEvents>>
       ELSE DrainGapResult /\ row' = v'
  /\ OwnerOnly
  /\ UNCHANGED <<poolJobs, recovering, recoveryWork, factoryResults, migrations, monitorVars,
                 chainVars, target, seenHealthy, gapWork, events, failures>>

(* ... then one chunk more.                                                *)
ScheduleGapChunk ==
  /\ pc = "chunk"
  /\ pc' = "venue"
  /\ ScheduleFactoryGapFill(FactoryOrder)
  /\ OwnerOnly
  /\ UNCHANGED <<v, row, venueGen, venueJob, priority, venueWork, poolJobs, recovering,
                 recoveryWork, factoryResults, migrations, monitorVars, chainVars, cursor,
                 required, target, seenHealthy, gapResults, events, gapEvents, failures>>

(* _process_one_flap_migration and one result of                           *)
(* _drain_pre_migration_venue_results, then the commit of the cycle.  An   *)
(* answer is dropped when another job took its place or the token has      *)
(* migrated; either way the token's job is forgotten.                      *)
AfterMigrations == IF migrations > 0 THEN [v EXCEPT !.state = "MIGRATED_POOL_DISCOVERY"] ELSE v

Superseded(r) == venueJob # r.gen

Discarded(r) == venueJob # r.gen \/ v.mig = "yes"

VenueResultApplied(c, r) ==
  IF Discarded(r) THEN c ELSE IF r.flap THEN FlapVenue(c) ELSE UnknownVenue(c)

DrainVenueResults ==
  /\ pc = "venue"
  /\ pc' = "watch"
  /\ migrations' = 0
  /\ IF venueResults = <<>>
       THEN /\ v' = AfterMigrations
            /\ UNCHANGED <<venueJob, priority, venueResults>>
       ELSE /\ v' = VenueResultApplied(AfterMigrations, Head(venueResults))
            /\ venueResults' = Tail(venueResults)
            /\ venueJob' = 0
            /\ priority' = FALSE
  /\ row' = v'
  /\ UNCHANGED <<scenario, home, venueGen, venueWork, poolJobs, poolWork, recovering, recoveryWork,
                 factoryResults, boundVars, monitorVars, gapVars>>

(* subscription_details: an open position's descriptor is rebuilt from its *)
(* row and always watched; for others the state and the limits decide.     *)
Watch ==
  /\ pc = "watch"
  /\ pc' = "status"
  /\ v' = [v EXCEPT !.desc = @ \/ (scenario.open /\ v.addr)]
  /\ \E pools \in SUBSET {"pool", "portal"} :
       /\ "pool" \in pools => v'.desc
       /\ "portal" \in pools => v.flap
       /\ scenario.open => (v'.desc => "pool" \in pools) /\ (v.flap => "portal" \in pools)
       /\ SetPoolDescriptors(pools)
  /\ OwnerOnly
  /\ UNCHANGED <<row, venueGen, venueJob, priority, venueWork, poolJobs, recovering, recoveryWork,
                 factoryResults, migrations, gapVars>>

PollStatus == pc = "status" /\ UpdateWssStatus("idle")

-----------------------------------------------------------------------------
(* The workers.                                                            *)

(* _run_pre_migration_venue_job: a cached context may be older than the    *)
(* migration.                                                              *)
RunVenueJob(w) ==
  /\ w \in venueWork
  /\ venueWork' = venueWork \ {w}
  /\ \E flap \in BOOLEAN : venueResults' = Append(venueResults, [gen |-> w[1], flap |-> flap])
  /\ UNCHANGED <<scenario, pc, v, row, home, venueGen, venueJob, priority, poolVars, boundVars,
                 monitorVars, gapVars>>

(* _run_factory_pool_resolution: only the token's own pool concerns it.    *)
RunPoolResolution(c) ==
  /\ c \in poolWork
  /\ poolWork' = poolWork \ {c}
  /\ \E answer \in IF c[2] = home THEN {"pool", "failed"} ELSE {"failed"} :
       factoryResults' = Append(factoryResults, [source |-> "factory", at |-> c, answer |-> answer])
  /\ UNCHANGED <<scenario, pc, v, row, home, jobVars, poolJobs, recovering, recoveryWork,
                 migrations, boundVars, monitorVars, gapVars>>

(* _run_migrated_pool_recovery                                             *)
RunRecovery ==
  /\ recoveryWork
  /\ recoveryWork' = FALSE
  /\ \E answer \in IF home # 0 THEN {"pool", "no_pool", "failed"} ELSE {"no_pool", "failed"} :
       factoryResults' = Append(factoryResults, [source |-> "recovery", at |-> NoCreation,
                                                 answer |-> answer])
  /\ UNCHANGED <<scenario, pc, v, row, home, jobVars, poolJobs, poolWork, recovering, migrations,
                 boundVars, monitorVars, gapVars>>

RunGapJob(r) ==
  /\ RunFactoryGapFillJob(r, scenario.max.failures)
  /\ UNCHANGED <<scenario, pc, v, row, home, jobVars, poolVars, boundVars, monitorVars>>

-----------------------------------------------------------------------------
(* The socket and the chain.                                               *)

Connect ==
  /\ Dial \/ Acknowledged \/ Wake
  /\ UNCHANGED <<scenario, pc, v, row, home, jobVars, poolVars, boundVars, gapVars>>

Disconnect ==
  /\ Drop(scenario.max.drops)
  /\ UNCHANGED <<scenario, pc, v, row, home, jobVars, poolVars, boundVars, gapVars>>

Resubscribe ==
  /\ wakes < scenario.max.wakes
  /\ RequestResubscribe
  /\ wakes' = wakes + 1
  /\ UNCHANGED <<scenario, pc, v, row, home, jobVars, poolVars, records, deaths, gapVars>>

MineBlock(t) ==
  /\ head < scenario.max.blocks
  /\ Mine(t)
  /\ UNCHANGED <<scenario, pc, v, row, home, jobVars, poolVars, boundVars, monitorVars>>

(* The token moves to its pool: a creation by the V2 factory and a log of  *)
(* the Portal in one block.                                                *)
Migrate ==
  LET block == head + 1
      heard == (IF Delivers("factory") THEN <<<<"v2", block>>>> ELSE <<>>)
               \o (IF Delivers("portal") THEN <<<<"launched", block>>>> ELSE <<>>)
  IN /\ scenario.migrates /\ home = 0
     /\ block <= scenario.max.blocks
     /\ home' = block
     /\ head' = block
     /\ created' = created \union {<<"v2", block>>}
     /\ events' = events \o heard
     /\ UNCHANGED <<scenario, pc, v, row, jobVars, poolVars, boundVars, monitorVars, cursor,
                    required, target, seenHealthy, gapJobs, gapWork, gapResults, gapEvents,
                    failures>>

-----------------------------------------------------------------------------
Owner ==
  \/ Start \/ StartupStatus \/ StartupGapFill
  \/ DrainEvents \/ DrainGapEvents \/ DrainFactoryResults \/ DrainGapResults
  \/ ScheduleGapChunk \/ DrainVenueResults \/ Watch \/ PollStatus

Next ==
  \/ Owner
  \/ Die
  \/ \E status \in {"unknown", "no", "yes"}, lower, first, gates, due \in BOOLEAN :
       OnRecord(status, lower, first, gates, due)
  \/ \E w \in venueWork : RunVenueJob(w)
  \/ \E c \in poolWork : RunPoolResolution(c)
  \/ RunRecovery
  \/ \E r \in gapWork : RunGapJob(r)
  \/ Connect \/ Disconnect
  \/ Resubscribe
  \/ \E t \in scenario.types : MineBlock(t)
  \/ Migrate

Spec == Init /\ [][Next]_vars

(* The owner loop and the monitor's thread run for ever, and the worker's  *)
(* calls answer or time out.                                               *)
FairSpec ==
  /\ Spec
  /\ WF_vars(Owner)
  /\ WF_vars(Connect)
  /\ WF_vars(\E r \in gapWork : RunGapJob(r))

-----------------------------------------------------------------------------
(* Once the pool of a migrated token is attached, no answer to an earlier  *)
(* question takes it away: a venue job that was asked before the migration *)
(* and answers after it is discarded (SR 2322).  Only a restart drops the  *)
(* descriptor.                                                             *)
MigratedPoolKept ==
  [][v.mig = "yes" /\ v.desc /\ pc' # "down" => v'.desc]_vars

(* The answer to a range sets the cursor over no pool: whatever moved it   *)
(* while the range was read, live events, other ranges, a later target,    *)
(* the answer has found every pool created between the cursor and the end  *)
(* of the range (SR 3781-3814).  Live events do move it over pools that    *)
(* nobody read (SR 5423-5426).                                             *)
NoPoolSkipped ==
  \A i \in DOMAIN gapResults :
    LET r == gapResults[i] IN
      r.ok => \A c \in created :
                c[1] = r.job.type /\ cursor[c[1]] < c[2] /\ c[2] <= r.job.to => c \in r.found

\* The pool created in block b, if any: a block creates one at most.
PoolAt(b) == {c \in created : c[2] = b}

InGap(c) == required /\ cursor[c[1]] < c[2] /\ c[2] <= target

Handed(c) == \E i \in DOMAIN gapEvents : gapEvents[i] = c

\* The owner is at a live event that moves the cursor to the block of c or past it.
Overtaken(c) ==
  /\ pc \in {"idle", "events"} /\ events # <<>>
  /\ Head(events)[1] = c[1] /\ Head(events)[2] >= c[2]

(* A pool in the gap that the fill has set out to read reaches the owner,  *)
(* whatever fails on the way: calls that fail, sockets that break,         *)
(* restarts (SR 3753-3812).  Only a live event of its factory, itself or a *)
(* later one, may move the cursor past it first, and then nothing reads it *)
(* any more (SR 5423-5426).                                                *)
GapReached ==
  \A b \in Blocks \ {1} :
    (\E c \in PoolAt(b) : InGap(c)) ~> (\E c \in PoolAt(b) : Handed(c) \/ Overtaken(c))
=============================================================================
