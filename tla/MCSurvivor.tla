----------------------------- MODULE MCSurvivor -----------------------------
(* What the feed, the venue and the clock may do to one token, one         *)
(* scenario per behaviour.                                                 *)
EXTENDS SurvivorReversal

Limit(r, t, dy, dt) == [records |-> r, ticks |-> t, days |-> dy, deaths |-> dt]

Record(okx, rank, gates, price, audit, info) ==
  [okx |-> okx, rank |-> rank, gates |-> gates, price |-> price, audit |-> audit, info |-> info]

(* The token trades and the position goes up and down its ladder.          *)
Ladder == [profile |-> "BALANCED", records |-> {Record(FALSE, 1, "active", 10, "UNKNOWN", 0)},
           prices |-> {7, 9, 15, 20, 30}, observations |-> {"calm"}, controls |-> FALSE,
           max |-> Limit(1, 3, 0, 1)]

(* The clock, the flow and the operator end a position.                    *)
Exits == [profile |-> "BALANCED", records |-> {Record(FALSE, 1, "active", 10, "UNKNOWN", 0)},
          prices |-> {15}, observations |-> Observations, controls |-> TRUE,
          max |-> Limit(1, 1, 1, 1)]

(* Sparse, late and enriched records, and prices beyond the ceiling.       *)
Feed == [profile |-> "BALANCED",
         records |-> {Record(TRUE, 0, "absent", 0, "UNKNOWN", 0),
                      Record(FALSE, 2, "active", 0, "UNKNOWN", 9),
                      Record(FALSE, 1, "none", 15, "UNKNOWN", 0),
                      Record(FALSE, 2, "active", 7, "FAIL", 0)},
         prices |-> {10, 15}, observations |-> {"calm", "late"}, controls |-> FALSE,
         max |-> Limit(3, 1, 0, 1)]

(* High, fall, stable low, rebound, and again the next day.                *)
Reversal == [profile |-> "SURVIVOR",
             records |-> {Record(FALSE, 3, "universe", 15, "PASS", 0),
                          Record(FALSE, 3, "active", 0, "FAIL", 0)},
             prices |-> {7, 9, 10}, observations |-> {"calm", "late"}, controls |-> FALSE,
             max |-> Limit(2, 4, 1, 1)]

MCScenarios == {Ladder, Exits, Feed, Reversal}
=============================================================================
