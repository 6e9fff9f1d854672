---------------------------- MODULE PairMonitor ----------------------------
(***************************************************************************)
(* BscPairWssMonitor (adapters/bsc_wss.py): one thread keeps one socket    *)
(* with one subscription per kind of address; the owner loop of            *)
(* run_realtime.py hands it the addresses to watch and polls its status.   *)
(* The socket delivers nothing between its opening and the last            *)
(* acknowledgement: the thread discards what it reads while it waits.      *)
(***************************************************************************)
EXTENDS Naturals, Sequences, FiniteSets

VARIABLES
  desired,   \* _pool_descriptors and _factory_descriptors: addresses to watch
  changed,   \* _pool_changed
  asked,     \* the addresses the current socket subscribed to
  link,      \* the thread: none, off (no socket), dialing, open
  wss,       \* state, what safe_status reports
  drops      \* connections that failed so far

monitorVars == <<desired, changed, asked, link, wss, drops>>

Addresses == {"factory", "pool", "portal"}
Broken == {"DEGRADED", "UNAVAILABLE", "STOPPED", "DISCONNECTED"}

MonitorTypeOK ==
  /\ desired \subseteq Addresses /\ asked \subseteq Addresses
  /\ changed \in BOOLEAN
  /\ link \in {"none", "off", "dialing", "open"}
  /\ wss \in {"DISCONNECTED", "CONNECTING", "HEALTHY", "DEGRADED"}
  /\ drops \in Nat

NoMonitor ==
  /\ desired = {} /\ asked = {} /\ changed = FALSE
  /\ link = "none" /\ wss = "DISCONNECTED"

(* set_pool_descriptors; the factories stay whatever the pools are.        *)
SetPoolDescriptors(pools) ==
  LET d == pools \union {"factory"}
  IN /\ changed' = (changed \/ d # desired)
     /\ desired' = d
     /\ UNCHANGED <<asked, link, wss, drops>>

(* enable_factory_registry, set_pool_descriptors and start, at start-up.   *)
StartMonitor(pools) ==
  /\ desired' = pools \union {"factory"}
  /\ changed' = TRUE
  /\ link' = "off"
  /\ UNCHANGED <<asked, wss, drops>>

(* request_resubscribe, called after a miss of the flow reconciliation.    *)
RequestResubscribe ==
  /\ link # "none"
  /\ changed' = TRUE
  /\ UNCHANGED <<desired, asked, link, wss, drops>>

(* _run_once reads the descriptors, then connects and subscribes.          *)
Dial ==
  /\ link = "off"
  /\ link' = "dialing"
  /\ asked' = desired
  /\ wss' = "CONNECTING"
  /\ UNCHANGED <<desired, changed, drops>>

(* Every subscription is acknowledged.  The clear covers any change made   *)
(* since the descriptors were read.                                        *)
Acknowledged ==
  /\ link = "dialing"
  /\ link' = "open"
  /\ wss' = "HEALTHY"
  /\ changed' = FALSE
  /\ UNCHANGED <<desired, asked, drops>>

(* A change closes the socket and goes back to Dial, the status untouched. *)
Wake ==
  /\ link = "open" /\ changed
  /\ link' = "off"
  /\ UNCHANGED <<desired, changed, asked, wss, drops>>

(* A refused subscription, a time-out or a closed connection.              *)
Drop(maxDrops) ==
  /\ link \in {"dialing", "open"}
  /\ drops < maxDrops
  /\ link' = "off"
  /\ wss' = "DEGRADED"
  /\ drops' = drops + 1
  /\ UNCHANGED <<desired, changed, asked>>

(* _decode_event passes an event on when its address is watched now.       *)
Delivers(address) == link = "open" /\ address \in asked \intersect desired
=============================================================================
