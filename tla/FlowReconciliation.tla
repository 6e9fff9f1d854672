------------------------- MODULE FlowReconciliation -------------------------
(***************************************************************************)
(* The evidence behind a no-trade exit.  Trades of an open position's      *)
(* token reach the owner over a WebSocket that may miss some.  A worker    *)
(* reads the same block ranges from a Logs RPC; what the WebSocket missed  *)
(* is queued as recovered, and only ranges without a miss let the source   *)
(* count as HEALTHY.  The owner sells for lack of trades on that verdict.  *)
(*                                                                         *)
(* One source with one position, opened at time 0.  A block is mined every *)
(* unit of time, the block mined at time t is number t, and it holds at    *)
(* most one trade, named by its block.                                     *)
(***************************************************************************)
EXTENDS Integers, Sequences, FiniteSets

CONSTANTS
    NoTrade,        \* config.no_trade_exit_sec
    Window,         \* the length _no_trade_reconciliation_window_key picks for it
    Interval,       \* FLOW_RECONCILIATION_INTERVAL_SEC
    Fresh,          \* three intervals: how old a reconciliation may be
    Confirmations,  \* FLOW_RECONCILIATION_SAFE_CONFIRMATIONS
    MaxLag,         \* FLOW_RECONCILIATION_MAX_LAG_BLOCKS
    MaxCall,        \* eth_blockNumber has answered or timed out after this long
    NodeLag,        \* blocks by which an RPC node may be behind the chain
    QueueMax,       \* maxlen of _pending_events and _pending_gap_events
    MaxTime,        \* the bounds of a behaviour: its length,
    TradeBlocks,    \* the blocks that may hold a trade of the token,
    MaxBreaks       \* the number of disconnects and process deaths

\* The last conjunct: a window that is longer than the no-trade rule leaves
\* room for a slow first eth_blockNumber (120 s and 180 s by default, with
\* time-outs of a few seconds).
ASSUME FlowAssumption ==
    /\ {NoTrade, Window, Interval, Fresh, Confirmations, MaxLag, NodeLag, MaxTime,
        MaxBreaks} \subseteq Nat
    /\ MaxCall \in Nat \ {0}
    /\ TradeBlocks \subseteq Nat
    /\ QueueMax \in Nat \ {0}
    /\ NoTrade + MaxCall <= Window + Confirmations + 1

VARIABLES
    kind,     \* "pool": its own address; "portal": the Flap Portal all tokens share
    now,
    trades,   \* the chain: blocks with a trade of this token
    air,      \* trades the WebSocket may still deliver
    wss,      \* _wss_provider_state
    sub,      \* source_status["wss_subscription_status"] = "SUBSCRIBED"
    pend,     \* _pending_events
    gap,      \* _pending_gap_events
    wssKeys,  \* _wss_flow_event_key_set
    recKeys,  \* _reconciled_flow_event_key_set
    applied,  \* _processed_flow_event_key_set
    marker,   \* _wss_trade_markers[pool address]
    last,     \* position.last_trade_at
    saved,    \* the same in the position's row, as committed
    flow,     \* _flow_reconciliation_state[source]
    row,      \* its row flow_reconciliation:<source>
    job,      \* the source's reconciliation, from submit to the drained result
    schedAt,  \* _flow_reconciliation_last_schedule_at
    phase,    \* how far the tick of the owner loop is; closed once the rule sold
    counted,  \* history: trades applied by then committed steps
    gone,     \* history: events a full deque dropped or a death took along
    breaks

chain  == <<kind, now, trades, air>>
keys   == <<wssKeys, recKeys, applied>>
mark   == <<last, saved>>
queues == <<pend, gap>>
ghosts == <<counted, gone>>
vars == <<chain, wss, sub, queues, keys, marker, mark, flow, row, job, schedAt,
          phase, ghosts, breaks>>

Never == -1   \* a time or a block number that is None

NoFlow == [last |-> Never, safe |-> Never, at |-> Never, cov |-> Never,
           window |-> FALSE, health |-> "PENDING"]
NoJob == [st |-> "none", from |-> Never, began |-> Never, safe |-> Never]

Smaller(a, b) == IF a < b THEN a ELSE b
Larger(a, b) == IF a < b THEN b ELSE a

Blocks(q) == {q[i].block : i \in DOMAIN q}

\* A deque with a maxlen drops its oldest entries.
Bounded(q) == IF Len(q) <= QueueMax THEN q ELSE SubSeq(q, Len(q) - QueueMax + 1, Len(q))
Dropped(q) == Blocks(q) \ Blocks(Bounded(q))

\* The sequences that list S in ascending order (there is one).
Ascending(S) == {s \in [1 .. Cardinality(S) -> S] :
                    /\ \A b \in S : \E i \in DOMAIN s : s[i] = b
                    /\ \A i, j \in DOMAIN s : i < j => s[i] < s[j]}

\* What observed_at says: the time in a Portal event's data, otherwise the time
\* of receipt or of the reconciliation.
ObservedAt(b, t) == IF kind = "portal" THEN b ELSE t

Init ==
    /\ kind \in {"pool", "portal"}
    /\ now = 0
    /\ trades = {} /\ air = {}
    /\ wss = "none" /\ sub = FALSE
    /\ pend = <<>> /\ gap = <<>>
    /\ wssKeys = {} /\ recKeys = {} /\ applied = {}
    /\ marker = Never
    /\ last = 0 /\ saved = 0
    /\ flow = NoFlow /\ row = NoFlow
    /\ job = NoJob
    /\ schedAt = Never
    /\ phase = "idle"
    /\ counted = {} /\ gone = {}
    /\ breaks = 0

-----------------------------------------------------------------------------
(* The chain, the WebSocket *)

\* Ticks of the owner loop are short; a head call in progress runs into its
\* time-out.  A trade mined while the socket is up may be delivered, at any later
\* time or never.
Mine ==
    /\ phase = "idle"
    /\ now < MaxTime
    /\ job.st = "begun" => now < job.began + MaxCall
    /\ now' = now + 1
    /\ \/ UNCHANGED <<trades, air>>
       \/ /\ now + 1 \in TradeBlocks
          /\ trades' = trades \cup {now + 1}
          /\ air' = IF wss = "up" THEN air \cup {now + 1} ELSE air
    /\ UNCHANGED <<kind, wss, sub, queues, keys, marker, mark, flow, row, job, schedAt,
                   phase, ghosts, breaks>>

\* on_wss_event, in the socket's thread: also in the middle of a tick.  The Portal's
\* address cannot mark one token's trade.
MarkerAfter == IF kind = "pool" THEN now ELSE marker

Deliver(b) ==
    LET q == Append(pend, [block |-> b, at |-> ObservedAt(b, now)]) IN
    /\ phase # "closed" /\ wss = "up"
    /\ b \in air
    /\ air' = air \ {b}
    /\ wssKeys' = wssKeys \cup {b}
    /\ marker' = MarkerAfter
    /\ pend' = Bounded(q)
    /\ gone' = gone \cup Dropped(q)
    /\ UNCHANGED <<kind, now, trades, wss, sub, gap, recKeys, applied, mark, flow, row, job,
                   schedAt, phase, counted, breaks>>

\* update_wss_status takes the engine's lock, so never in the middle of a tick.
WssUp ==
    /\ phase = "idle"
    /\ wss # "up"
    /\ wss' = "up"
    /\ sub' = TRUE
    /\ UNCHANGED <<chain, queues, keys, marker, mark, flow, row, job, schedAt, phase,
                   ghosts, breaks>>

\* CONNECTING is not among the states that degrade the source.
WssDown ==
    /\ phase = "idle"
    /\ wss = "up"
    /\ breaks < MaxBreaks
    /\ breaks' = breaks + 1
    /\ wss' = "down"
    /\ sub' = FALSE
    /\ air' = {}
    /\ flow' \in {flow, [flow EXCEPT !.health = "DEGRADED"]}
    /\ UNCHANGED <<kind, now, trades, queues, keys, marker, mark, row, job, schedAt,
                   phase, ghosts>>

-----------------------------------------------------------------------------
(* One tick of evaluate() *)

\* What the owner's connection has written is durable from here on.
Commit == saved' = last' /\ counted' = counted \cup applied'

\* _apply_flap_trade_event: a trade whose key was processed is dropped; otherwise its
\* time becomes the position's last trade and its token is marked as subscribed.
ApplyFlapTrade(e) ==
    IF e.block \in applied
    THEN UNCHANGED <<applied, last, sub>>
    ELSE applied' = applied \cup {e.block} /\ last' = e.at /\ sub' = TRUE

\* _apply_event: a Portal event is handed on, and its handler commits whether or not
\* the trade is new; a pool's event is dropped when its key was processed.
Apply(e) ==
    \/ /\ kind = "portal"
       /\ ApplyFlapTrade(e)
       /\ Commit
    \/ /\ kind = "pool"
       /\ IF e.block \in applied
          THEN UNCHANGED <<applied, last>>
          ELSE applied' = applied \cup {e.block} /\ last' = e.at
       /\ UNCHANGED <<sub, saved, counted>>

\* _drain_flow_event_queue: at least one event, then as many as the budget allows.
DrainPending ==
    /\ phase \in {"idle", "pending"}
    /\ pend # <<>>
    /\ Apply(Head(pend))
    /\ pend' = Tail(pend)
    /\ phase' = "pending"
    /\ UNCHANGED <<chain, wss, gap, wssKeys, recKeys, marker, flow, row, job, schedAt,
                   gone, breaks>>

EndPending ==
    /\ \/ phase = "idle" /\ pend = <<>>
       \/ phase = "pending"
    /\ phase' = "results"
    /\ UNCHANGED <<chain, wss, sub, queues, keys, marker, mark, flow, row, job, schedAt,
                   ghosts, breaks>>

\* Mutant: a failed scan leaves the completeness flags alone.
AfterFailureKeepingWindows(f) == [f EXCEPT !.safe = job.safe, !.health = "DEGRADED"]

\* The state of the source after a failed and after a complete scan.
AfterFailure(f) == [f EXCEPT !.safe = job.safe, !.health = "DEGRADED", !.window = FALSE]

AfterScan(f, missing) ==
    LET cov == IF f.cov = Never THEN job.began ELSE f.cov
        window == now - cov >= Window
    IN [last |-> job.safe, safe |-> job.safe, at |-> job.began, cov |-> cov, window |-> window,
        health |-> IF missing # {} THEN "DEGRADED" ELSE IF window THEN "HEALTHY" ELSE "PENDING"]

\* The range's events that neither the WebSocket delivered nor an earlier pass found.
Missing == {b \in trades : job.from <= b /\ b <= job.safe} \ (wssKeys \cup recKeys)

Recovered(s) == [i \in DOMAIN s |-> [block |-> s[i], at |-> ObservedAt(s[i], job.began)]]

\* _drain_flow_reconciliation_results.  A source has at most one result waiting: that
\* of a job whose call or scan failed, or of one that read its whole range.  Nobody
\* sees when a job ended before its result is drained.
ResultFailed ==
    /\ flow' = AfterFailure(flow)
    /\ UNCHANGED <<gap, recKeys, gone>>

ResultComplete ==
    /\ job.safe # Never
    /\ flow' = AfterScan(flow, Missing)
    /\ recKeys' = recKeys \cup Missing
    /\ \E s \in Ascending(Missing) :
         /\ gap' = Bounded(gap \o Recovered(s))
         /\ gone' = gone \cup Dropped(gap \o Recovered(s))

DrainResult ==
    /\ phase = "results"
    /\ phase' = "gap"
    /\ UNCHANGED <<chain, wss, sub, pend, wssKeys, applied, marker, last, schedAt,
                   breaks>>
    /\ \/ UNCHANGED <<gap, recKeys, gone, flow, row, job, saved, counted>>
       \/ /\ job.st = "headed"
          /\ \/ ResultComplete
             \/ (job.from <= job.safe \/ job.safe = Never) /\ ResultFailed
          /\ job' = NoJob
          /\ row' = flow'
          /\ Commit

DrainGap ==
    /\ phase \in {"gap", "gapping"}
    /\ gap # <<>>
    /\ Apply(Head(gap))
    /\ gap' = Tail(gap)
    /\ phase' = "gapping"
    /\ UNCHANGED <<chain, wss, pend, wssKeys, recKeys, marker, flow, row, job, schedAt,
                   gone, breaks>>

\* Mutant: the marker is not looked at.
LastTradeApplied == last

\* The position's last trade once the marker was looked at.
LastTrade == Larger(last, marker)

Monitored == sub /\ wss # "down"
Idle == now - LastTrade >= NoTrade
Verified == flow.health = "HEALTHY" /\ flow.window /\ now - flow.at <= Fresh

\* Mutant: the start of the coverage survives the skipped blocks.
RescheduledSameCoverage(f) == f

\* A source that lags too far behind resumes nearer to the head, and what it covers
\* starts anew.
TooFar == flow.last # Never /\ flow.safe # Never /\ flow.last + 1 <= flow.safe - MaxLag
FromBlock == IF flow.last = Never THEN Never
             ELSE IF TooFar THEN flow.safe - MaxLag + 1 ELSE flow.last + 1
Rescheduled(f) == IF TooFar THEN [f EXCEPT !.cov = now] ELSE f

\* _schedule_flow_reconciliation
Scheduled ==
    IF schedAt # Never /\ now - schedAt < Interval
    THEN UNCHANGED <<schedAt, job, flow>>
    ELSE /\ schedAt' = now
         /\ IF job.st # "none"
            THEN UNCHANGED <<job, flow>>
            ELSE /\ job' = [NoJob EXCEPT !.st = "queued", !.from = FromBlock]
                 /\ flow' = Rescheduled(flow)

\* The rest of the tick: _evaluate_positions, where profit and price decide whether
\* and how much a verdict sells, the schedule, and _publish, which commits.
FinishTick ==
    /\ \/ phase = "gap" /\ gap = <<>>
       \/ phase = "gapping"
    /\ last' = LastTrade
    /\ \/ phase' = "idle"
       \/ Monitored /\ Idle /\ Verified /\ phase' = "closed"
    /\ UNCHANGED <<chain, wss, sub, queues, keys, marker, row, gone, breaks>>
    /\ Commit
    /\ Scheduled

-----------------------------------------------------------------------------
(* _run_flow_reconciliation_job, in the worker thread.  Its steps commute with those *)
(* of a tick, during which time stands still: they are taken between ticks.          *)

\* The clock is read before the first call.
JobBegin ==
    /\ phase = "idle" /\ job.st = "queued"
    /\ job' = [job EXCEPT !.st = "begun", !.began = now]
    /\ UNCHANGED <<chain, wss, sub, queues, keys, marker, mark, flow, row, schedAt, phase,
                   ghosts, breaks>>

SafeHead(latest) == Larger(0, latest - Confirmations)
StartBlock(safe) == IF job.from < 0 THEN safe ELSE Smaller(job.from, safe + 1)

\* The head is known, or the call failed.  An empty range needs no further call; a
\* range of which a chunk cannot be read, even at the smallest size, fails as a whole.
JobHead ==
    /\ phase = "idle" /\ job.st = "begun"
    /\ \/ job' = [job EXCEPT !.st = "headed"]
       \/ \E latest \in Larger(0, now - NodeLag) .. now :
            job' = [job EXCEPT !.st = "headed", !.safe = SafeHead(latest),
                               !.from = StartBlock(SafeHead(latest))]
    /\ UNCHANGED <<chain, wss, sub, queues, keys, marker, mark, flow, row, schedAt, phase,
                   ghosts, breaks>>

-----------------------------------------------------------------------------
\* The process dies and starts again: the position and the source's row are all it
\* finds.  Whether the row of the candidate has the last subscription status depends
\* on the candidate being eligible when it changed.
Restart ==
    /\ phase # "closed" /\ breaks < MaxBreaks
    /\ breaks' = breaks + 1
    /\ gone' = gone \cup ((wssKeys \cup recKeys) \ counted)
    /\ wss' = "none" /\ sub' \in BOOLEAN
    /\ air' = {}
    /\ pend' = <<>> /\ gap' = <<>>
    /\ wssKeys' = {} /\ recKeys' = {} /\ applied' = {}
    /\ marker' = Never
    /\ flow' = row
    /\ job' = NoJob
    /\ schedAt' = Never
    /\ last' = saved
    /\ phase' = "idle"
    /\ UNCHANGED <<kind, now, trades, saved, row, counted>>

Next ==
    \/ Mine \/ WssUp \/ WssDown \/ \E b \in air : Deliver(b)
    \/ DrainPending \/ EndPending \/ DrainResult \/ DrainGap \/ FinishTick
    \/ JobBegin \/ JobHead
    \/ Restart

Spec == Init /\ [][Next]_vars

-----------------------------------------------------------------------------
(* Properties *)

Items == [block : Nat, at : Int]
Flows == [last : Int, safe : Int, at : Int, cov : Int, window : BOOLEAN,
          health : {"PENDING", "DEGRADED", "HEALTHY"}]
Jobs == [st : {"none", "queued", "begun", "headed"}, from : Int, began : Int, safe : Int]

TypeOK ==
    /\ kind \in {"pool", "portal"}
    /\ now \in Nat
    /\ trades \subseteq 1 .. now /\ air \subseteq trades
    /\ wss \in {"none", "up", "down"} /\ sub \in BOOLEAN
    /\ pend \in Seq(Items) /\ gap \in Seq(Items)
    /\ wssKeys \subseteq trades /\ recKeys \subseteq trades /\ applied \subseteq trades
    /\ marker \in Int /\ last \in Int /\ saved \in Int /\ schedAt \in Int
    /\ flow \in Flows /\ row \in Flows
    /\ job \in Jobs
    /\ phase \in {"idle", "pending", "results", "gap", "gapping", "closed"}
    /\ counted \subseteq trades /\ gone \subseteq trades
    /\ breaks \in Nat

\* Trades the process has in its hands, or had and lost by a full deque or a death.
Accounted == applied \cup counted \cup Blocks(pend) \cup Blocks(gap) \cup gone

\* Blocks at the head that a fresh verdict may not have read.
Unread == Fresh + Confirmations + NodeLag

Sells == phase # "closed" /\ phase' = "closed"

\* The no-trade rule never sells while there is, within its time and up to the
\* newest blocks, a trade that neither the WebSocket nor any reconciliation found:
\* each such trade was applied, waits in a queue, fell out of a full one or died with
\* a process.
VerdictCovered ==
    [][Sells => \A b \in trades : now - NoTrade < b /\ b <= now - Unread => b \in Accounted]_vars

\* A trade of a pool that this process received over the WebSocket less than the
\* no-trade time ago keeps the position, applied or still in the queue: the marker
\* covers the time between its arrival and its turn.
ReceivedTradeKeepsPool ==
    [][Sells /\ kind = "pool" => \A b \in wssKeys : b <= now - NoTrade]_vars

-----------------------------------------------------------------------------
(* The inductive invariant *)

\* What the keys of this process stand for: events that were queued.
KeysInv ==
    /\ applied \cup Blocks(pend) \cup Blocks(gap) \subseteq wssKeys \cup recKeys
    /\ wssKeys \cup recKeys \subseteq Accounted

\* A head that some call returned by now, Confirmations taken off.
SafeByNow(b) == b \in Int /\ b >= 0 /\ (b = 0 \/ b <= now - Confirmations)

\* No trade before block to, and late enough for what a state with this coverage
\* start claims, is unaccounted for.  The first scan of a source starts
\* Confirmations below a head read up to MaxCall after its coverage starts.
CoveredBefore(to, cov) ==
    \A b \in trades : cov + MaxCall - Confirmations <= b /\ b < to => b \in Accounted

FlowInv(f) ==
    /\ f.last = Never <=> f.cov = Never
    /\ f.cov >= Never
    /\ f.last # Never => SafeByNow(f.last)
    /\ f.safe # Never => SafeByNow(f.safe)
    /\ f.cov # Never => CoveredBefore(f.last + 1, f.cov)
    /\ f.window => /\ f.cov # Never /\ f.cov + Window <= now
                   /\ f.safe = f.last
                   /\ f.last >= f.at - NodeLag - Confirmations

\* A job resumes where the state ends, or where nothing before is claimed.
JobInv ==
    /\ job.st \in {"queued", "begun"} =>
         /\ job.safe = Never
         /\ job.from >= Never /\ job.from <= now + 1
         /\ job.from = Never <=> flow.cov = Never
         /\ job.from # Never => CoveredBefore(job.from, flow.cov)
    /\ job.st = "begun" => 0 <= job.began /\ job.began <= now /\ now <= job.began + MaxCall
    /\ job.st = "headed" /\ job.safe # Never =>
         /\ SafeByNow(job.safe) /\ job.began >= 0 /\ job.from <= now + 1
         /\ job.safe >= job.began - NodeLag - Confirmations
         /\ CoveredBefore(job.from, IF flow.cov = Never THEN job.began ELSE flow.cov)

MarkerInv == kind = "pool" => \A b \in wssKeys : b <= marker

FlowIInv == TypeOK /\ KeysInv /\ FlowInv(flow) /\ FlowInv(row) /\ JobInv /\ MarkerInv

=============================================================================
