----------------------------- MODULE FactoryGap -----------------------------
(***************************************************************************)
(* How the survivor engine keeps up with the pools the Pancake factories   *)
(* create: events from the socket move a durable cursor per factory, and   *)
(* after an outage the range between the cursor and the head is read in    *)
(* chunks from a Logs RPC, one chunk at a time, by a worker.               *)
(***************************************************************************)
EXTENDS PairMonitor

CONSTANTS
  PoolTypes,   \* the two factories
  Chunk,       \* blocks read by one call, 999 in the code
  MaxBlock     \* a bound on the chain

ASSUME GapAssumption == Chunk \in Nat \ {0} /\ MaxBlock \in Nat \ {0}

VARIABLES
  head,        \* the last block of the chain
  created,     \* the chain's pool creations, <<pool type, block>>
  cursor,      \* _factory_cursor and its rows, 0 before the first start
  required,    \* _factory_gap_required
  target,      \* _factory_gap_target, 0 for None
  seenHealthy, \* _factory_wss_seen_healthy
  gapJobs,     \* _factory_gap_jobs
  gapWork,     \* ranges the worker has in hand
  gapResults,  \* _factory_gap_results
  events,      \* _pending_events, factory events only
  gapEvents,   \* _pending_gap_events
  failures     \* calls of the Logs RPC that failed so far

chainVars == <<head, created>>
gapMemory == <<required, target, seenHealthy, gapJobs, gapWork, gapResults, events, gapEvents>>
gapVars == <<chainVars, cursor, gapMemory, failures>>

Blocks == 1 .. MaxBlock
Creations == PoolTypes \X Blocks
Ranges == [type : PoolTypes, from : Blocks, to : Blocks]

GapTypeOK ==
  /\ head \in Blocks /\ created \subseteq Creations
  /\ cursor \in [PoolTypes -> 0 .. MaxBlock]
  /\ target \in 0 .. MaxBlock
  /\ required \in BOOLEAN /\ seenHealthy \in BOOLEAN
  /\ gapJobs \subseteq PoolTypes /\ gapWork \subseteq Ranges
  /\ gapResults \in Seq([job : Ranges, found : SUBSET Creations, ok : BOOLEAN])
  /\ events \in Seq(Creations \union ({"launched"} \X Blocks)) /\ gapEvents \in Seq(Creations)
  /\ failures \in Nat

GapInit ==
  /\ head = 1 /\ created = {}
  /\ cursor = [t \in PoolTypes |-> 0]
  /\ required = FALSE /\ target = 0 /\ seenHealthy = FALSE
  /\ gapJobs = {} /\ gapWork = {} /\ gapResults = <<>>
  /\ events = <<>> /\ gapEvents = <<>>
  /\ failures = 0

ForgetGap ==
  /\ required' = FALSE /\ target' = 0 /\ seenHealthy' = FALSE
  /\ gapJobs' = {} /\ gapWork' = {} /\ gapResults' = <<>>
  /\ events' = <<>> /\ gapEvents' = <<>>

(* A block with a creation by the factory t, or without any.  The socket's *)
(* callback queues the event for the owner.                                *)
Mine(t) ==
  LET new == {<<t, head + 1>>} \intersect Creations
  IN /\ head < MaxBlock
     /\ head' = head + 1
     /\ created' = created \union new
     /\ events' = IF new # {} /\ Delivers("factory") THEN Append(events, <<t, head + 1>>) ELSE events
     /\ UNCHANGED <<cursor, required, target, seenHealthy, gapJobs, gapWork, gapResults, gapEvents,
                    failures>>

(* _ensure_factory_cursors: a first start begins at the head.              *)
EnsureFactoryCursors ==
  /\ cursor' = [t \in PoolTypes |-> IF cursor[t] = 0 THEN head ELSE cursor[t]]
  /\ required' = TRUE

(* update_wss_status for a polled state.  A healthy one asks for the head, *)
(* inline, and the call may fail.                                          *)
GapStatus(state, maxFailures) ==
  /\ required' = (required \/ (state \in Broken /\ seenHealthy))
  /\ seenHealthy' = (seenHealthy \/ state = "HEALTHY")
  /\ \/ /\ target' = IF state = "HEALTHY" /\ required THEN head ELSE target
        /\ UNCHANGED failures
     \/ /\ state = "HEALTHY" /\ required /\ failures < maxFailures
        /\ failures' = failures + 1
        /\ UNCHANGED target
  /\ UNCHANGED <<chainVars, cursor, gapJobs, gapWork, gapResults, events, gapEvents>>

Behind(t) == cursor[t] < target

NextRangeUnclamped(t) ==
  [type |-> t, from |-> cursor[t] + 1, to |-> cursor[t] + 1 + Chunk]

NextRange(t) ==
  [type |-> t, from |-> cursor[t] + 1,
   to |-> IF cursor[t] + Chunk < target THEN cursor[t] + Chunk ELSE target]

InRange(r) == {c \in created : c[1] = r.type /\ c[2] \in r.from .. r.to}

(* The events of a range in the order the RPC lists them.                  *)
InOrder(found) ==
  CHOOSE s \in [1 .. Cardinality(found) -> found] :
    \A i, j \in DOMAIN s : i < j => s[i][2] < s[j][2]

(* Saving the cursor sets it to the end of the range, wherever it is now.  *)
FinishRange(r, found) ==
  /\ gapEvents' = gapEvents \o InOrder(found)
  /\ cursor' = [cursor EXCEPT ![r.type] = r.to]
  /\ required' = (required /\ \E t \in PoolTypes : cursor'[t] < target)

(* _run_factory_gap_fill, the chunk read inline while the process starts.  *)
FillInline(t) ==
  /\ required /\ target # 0 /\ Behind(t)
  /\ FinishRange(NextRange(t), InRange(NextRange(t)))
  /\ UNCHANGED <<chainVars, target, seenHealthy, gapJobs, gapWork, gapResults, events, failures>>

(* There is nothing to read, or a read failed or the time was up.          *)
FillInlineStops ==
  /\ required' = (required /\ (target = 0 \/ \E t \in PoolTypes : Behind(t)))
  /\ UNCHANGED <<chainVars, cursor, target, seenHealthy, gapJobs, gapWork, gapResults, events,
                 gapEvents, failures>>

(* _schedule_factory_gap_fill: the first factory that is behind and has no *)
(* call out.                                                               *)
ScheduleFactoryGapFill(order) ==
  LET ready == {i \in DOMAIN order : Behind(order[i]) /\ order[i] \notin gapJobs}
      t == order[CHOOSE i \in ready : \A j \in ready : i <= j]
  IN IF required /\ target # 0 /\ ready # {}
       THEN /\ gapJobs' = gapJobs \union {t}
            /\ gapWork' = gapWork \union {NextRange(t)}
       ELSE UNCHANGED <<gapJobs, gapWork>>

(* _run_factory_gap_fill_job answers with the logs or with an error.       *)
RunFactoryGapFillJob(r, maxFailures) ==
  /\ r \in gapWork
  /\ gapWork' = gapWork \ {r}
  /\ \/ /\ gapResults' = Append(gapResults, [job |-> r, found |-> InRange(r), ok |-> TRUE])
        /\ UNCHANGED failures
     \/ /\ failures < maxFailures
        /\ gapResults' = Append(gapResults, [job |-> r, found |-> {}, ok |-> FALSE])
        /\ failures' = failures + 1
  /\ UNCHANGED <<chainVars, cursor, required, target, seenHealthy, gapJobs, events, gapEvents>>

\* Never this: a failed range keeps its job.
JobsLeftOnSuccess(r) == IF r.ok THEN gapJobs \ {r.job.type} ELSE gapJobs

(* _drain_factory_gap_results: a failed range is asked again, for its job  *)
(* is forgotten whatever came of it.                                       *)
JobsLeft(r) == gapJobs \ {r.job.type}

DrainGapResult ==
  LET r == Head(gapResults)
  IN /\ gapResults # <<>>
     /\ gapResults' = Tail(gapResults)
     /\ gapJobs' = JobsLeft(r)
     /\ IF r.ok THEN FinishRange(r.job, r.found) ELSE UNCHANGED <<cursor, required, gapEvents>>

(* _apply_factory_pool_event, the half that moves the cursor.              *)
CursorAfter(c) == [cursor EXCEPT ![c[1]] = IF c[2] > @ THEN c[2] ELSE @]
=============================================================================
