------------------------------ MODULE MCVenue ------------------------------
(* What the chain, the socket and the feed may do, one scenario per theme. *)
EXTENDS VenueResolution

Limit(b, dr, f, r, w, d) ==
  [blocks |-> b, drops |-> dr, failures |-> f, records |-> r, wakes |-> w, deaths |-> d]

(* A token with an open position migrates while jobs about it are under    *)
(* way.                                                                    *)
Migration == [open |-> TRUE, migrates |-> TRUE, types |-> {}, max |-> Limit(2, 0, 0, 2, 0, 0)]

(* The same with a restart.                                                *)
Restarted == [open |-> TRUE, migrates |-> TRUE, types |-> {}, max |-> Limit(2, 0, 0, 1, 0, 1)]

(* A candidate that may leave the watched states.                          *)
Candidate == [open |-> FALSE, migrates |-> FALSE, types |-> {}, max |-> Limit(1, 0, 0, 2, 0, 0)]

(* An outage, a failing call and a restart while a factory creates pools.  *)
Outage == [open |-> TRUE, migrates |-> FALSE, types |-> {"v2"}, max |-> Limit(3, 1, 1, 0, 0, 1)]
Reborn == [open |-> TRUE, migrates |-> FALSE, types |-> {"v2"}, max |-> Limit(3, 0, 0, 0, 1, 1)]

MCScenarios == {Migration, Restarted, Candidate, Outage, Reborn}
MCOrder == <<"v2", "v3">>
=============================================================================
