--------------------------- MODULE VenueCandidate ---------------------------
(***************************************************************************)
(* What the survivor engine knows of the place where one candidate trades: *)
(* its migrate status, the venue and pool markers of source_status, and    *)
(* the pool descriptor, which lives in memory only.  Tokens on a Four.meme *)
(* curve take another path and are left out.                               *)
(***************************************************************************)

(* [mig     latest_migrate_status                                          *)
(*  state   source_status["venue_state"]                                   *)
(*  resolved  pre_migration_resolution_status is RESOLVED                  *)
(*  flap    _is_flap_candidate                                             *)
(*  pool    pool_status                                                    *)
(*  adapter strategy_support is SUPPORTED_ADAPTER                          *)
(*  sub     wss_subscription_status                                        *)
(*  addr    pair_address and pool_type name a V2/V3 pool                   *)
(*  desc    descriptor is attached]                                        *)
Venues ==
  [mig : {"unknown", "no", "yes"},
   state : {"", "VENUE_RESOLVING", "PRE_MIGRATION_VENUE_RESOLUTION", "PRE_MIGRATION",
            "MIGRATED_POOL_PENDING", "MIGRATED_POOL_DISCOVERY", "MIGRATED_POOL_DISCOVERY_RETRY",
            "MIGRATED_TO_PANCAKE"},
   resolved : BOOLEAN, flap : BOOLEAN,
   pool : {"", "PENDING", "VENUE_UNKNOWN", "VALID", "MIGRATED_POOL_PENDING", "RPC_READ_FAILED"},
   adapter : BOOLEAN,
   sub : {"NOT_REQUESTED", "READY", "SUBSCRIBED", "WSS_SUBSCRIBE_FAILED"},
   addr : BOOLEAN, desc : BOOLEAN]

NewVenue ==
  [mig |-> "unknown", state |-> "", resolved |-> FALSE, flap |-> FALSE, pool |-> "",
   adapter |-> FALSE, sub |-> "NOT_REQUESTED", addr |-> FALSE, desc |-> FALSE]

(* What a restart finds: everything but the descriptor.                    *)
Hydrated(v) == [v EXCEPT !.desc = FALSE]

(* on_records: a migrated token never goes back, and a record of a lower   *)
(* rank leaves the status alone.                                           *)
WithMigrateStatus(v, status, lowerRank) ==
  IF status = "unknown" \/ lowerRank \/ v.mig = "yes" THEN v ELSE [v EXCEPT !.mig = status]

(* The record's own word comes first, even when the candidate knows more.  *)
EffectiveStatus(v, status) == IF status = "unknown" THEN v.mig ELSE status

(* _mark_pre_migration_resolution_pending                                  *)
MarkPending(v) ==
  IF v.resolved THEN v
  ELSE [v EXCEPT !.state = "PRE_MIGRATION_VENUE_RESOLUTION", !.pool = "PENDING",
                 !.adapter = FALSE, !.sub = "NOT_REQUESTED"]

(* _apply_unknown_pre_migration_state                                      *)
UnknownVenue(v) ==
  [v EXCEPT !.state = "PRE_MIGRATION_VENUE_RESOLUTION", !.pool = "VENUE_UNKNOWN",
            !.resolved = FALSE, !.adapter = FALSE, !.sub = "NOT_REQUESTED",
            !.addr = FALSE, !.desc = FALSE]

(* The Flap branch of _drain_pre_migration_venue_results                   *)
FlapVenue(v) ==
  [v EXCEPT !.state = "PRE_MIGRATION", !.pool = "VALID", !.resolved = TRUE, !.flap = TRUE,
            !.adapter = FALSE, !.sub = "READY", !.addr = FALSE, !.desc = FALSE]

(* A valid pool in _drain_factory_pool_resolution_results                  *)
AttachPool(v) ==
  [v EXCEPT !.state = "MIGRATED_TO_PANCAKE", !.pool = "VALID", !.adapter = TRUE,
            !.sub = "READY", !.addr = TRUE, !.desc = TRUE]

(* A recovery that found no pool, or could not read the chain              *)
RecoveryFailed(v, noPool) ==
  [v EXCEPT !.state = IF noPool THEN "MIGRATED_POOL_PENDING" ELSE "MIGRATED_POOL_DISCOVERY_RETRY",
            !.pool = IF noPool THEN "MIGRATED_POOL_PENDING" ELSE "RPC_READ_FAILED",
            !.sub = "NOT_REQUESTED"]

(* _migrated_market_data_bound                                             *)
MarketDataBound(v) ==
  v.desc /\ v.pool = "VALID" /\ v.adapter /\ v.sub \in {"READY", "SUBSCRIBED"}

(* ensure_migrated_market_data and _schedule_migrated_pool_recovery        *)
RecoveryQueued(v) ==
  [v EXCEPT !.state = "MIGRATED_POOL_DISCOVERY", !.pool = "MIGRATED_POOL_PENDING",
            !.sub = "NOT_REQUESTED"]

(* _apply_flap_migration_event                                             *)
Launched(v) == [v EXCEPT !.mig = "yes", !.state = "MIGRATED_POOL_DISCOVERY"]

(* The address its trades are watched at                                   *)
WatchedAddress(v) == IF v.desc THEN "pool" ELSE "portal"

(* update_wss_status, for a watched candidate with a venue                 *)
Subscription(v, state, subscribed) ==
  [v EXCEPT !.sub =
     IF subscribed /\ state = "HEALTHY" THEN "SUBSCRIBED"
     ELSE IF state \in {"DEGRADED", "UNAVAILABLE", "STOPPED"} THEN "WSS_SUBSCRIBE_FAILED"
     ELSE "READY"]
=============================================================================
