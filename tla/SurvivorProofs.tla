--------------------------- MODULE SurvivorProofs ---------------------------
(***************************************************************************)
(* The Paper engine around one token, for any prices, records, number of   *)
(* positions, days and deaths: an entry obeys the rules although the prune *)
(* deletes rows, a committed exit is the next thing sold, an open position *)
(* never loses its candidate, the variables have their types, the take     *)
(* profits are booked once and in order, and the rows are a trade book.    *)
(***************************************************************************)
EXTENDS SurvivorReversal, FiniteSetTheorems, TLAPS

-----------------------------------------------------------------------------
(* The inductive invariant                                                 *)

CandidateFields == DOMAIN NewCandidate(TRUE)
PositionFields == DOMAIN NewPosition(0)

CandidateShape(c) == c = NoCandidate \/ (DOMAIN c = CandidateFields /\ c.ath \in Nat)
PositionShape(p) == DOMAIN p = PositionFields /\ p.sold \in Seq(Reasons)

RowShape(r) ==
  /\ r = [status |-> r.status, today |-> r.today, recent |-> r.recent, p |-> r.p]
  /\ r.status \in {"none", "OPEN", "CLOSED", "gone"}
  /\ r.status = "OPEN" => PositionShape(r.p)

RowsShape == DOMAIN rows = Ids /\ \A i \in Ids : RowShape(rows[i])

(* Memory and database agree on the one position there may be.             *)
OneOpen == \A i, j \in RowsWith("OPEN") : i = j

Owned ==
  /\ pc = "down" => pos = NoPosition
  /\ pc # "down" /\ RowsWith("OPEN") # {} => pos # NoPosition
  /\ pos # NoPosition => PositionShape(pos) /\ posId \in RowsWith("OPEN")
  /\ pc \in {"clearing", "closing"} => pos # NoPosition

(* The intent is the one of the open position; between the two commits of  *)
(* a partial sale it names what was just sold.                             *)
Binding(intent) == intent # NoIntent /\ intent.reason \notin StartsWithTP

LastSold(p, reason) == p.sold # << >> /\ p.sold[Len(p.sold)] = reason

IntentKept ==
  /\ intentRow # NoIntent => RowsWith("OPEN") # {} /\ intentRow.reason \in Reasons
  /\ pos # NoPosition => pos.intent = intentRow
  /\ pc = "closing" => intentRow = NoIntent
  /\ pc = "clearing" /\ Binding(intentRow) => LastSold(pos, intentRow.reason)

(* What the prune has deleted no rule asks for any more.                   *)
DaysKept ==
  \A i \in Ids :
    /\ rows[i].status \in {"none", "gone"} => ~rows[i].today /\ ~rows[i].recent
    /\ rows[i].status = "CLOSED" /\ rows[i].today => rows[i].recent

PositionPart == RowsShape /\ OneOpen /\ Owned /\ IntentKept /\ DaysKept

(* The row as written is never easier to prune than the candidate.         *)
CandidatePart ==
  /\ CandidateShape(cand) /\ CandidateShape(tx) /\ CandidateShape(candRow)
  /\ pc = "down" => tx = candRow /\ cand = NoCandidate
  /\ pos # NoPosition \/ wired => cand # NoCandidate
  /\ RowsWith("OPEN") # {} => candRow # NoCandidate /\ tx # NoCandidate
  /\ cand # NoCandidate => /\ tx # NoCandidate
                           /\ cand.active => tx.active
                           /\ cand.idle = "no" => tx.idle = "no"

SurvivorIInv == scenario \in Scenarios /\ pc \in Locations /\ PositionPart /\ CandidatePart

(* The two action properties, for one step.                                *)
EntryStep ==
  \A i \in Ids : rows[i].status = "none" /\ rows'[i].status = "OPEN" =>
    /\ pos = NoPosition
    /\ RowsWith("OPEN") = {}
    /\ ~\E j \in Ids : IF profile = "BALANCED" THEN rows[j].recent ELSE rows[j].today

ExitStep ==
  intentRow # NoIntent /\ intentRow.reason \notin StartsWithTP =>
    LET sells == pos' # NoPosition /\ pos'.sold # << >>
                 /\ pos'.sold[Len(pos'.sold)] = intentRow.reason
    IN /\ intentRow'.reason # intentRow.reason => sells
       /\ pos # NoPosition /\ pos' # NoPosition /\ Len(pos'.sold) > Len(pos.sold) => sells

-----------------------------------------------------------------------------
(* What the operators on candidates keep                                   *)

LEMMA Fields ==
  /\ CandidateFields = {"rank", "gates", "inAge", "idle", "audit", "known", "usd", "native", "priced",
                        "src", "switch", "ath", "dd", "low", "stable", "state", "eligible", "active"}
  /\ PositionFields = {"mark", "markSrc", "trig", "filled", "high1", "high2", "half", "intent",
                       "dirty", "sold"}
  /\ DOMAIN NoCandidate = {"rank"} /\ DOMAIN NoPosition = {"mark"}
BY DEF CandidateFields, PositionFields, NewCandidate, NewPosition, NoCandidate, NoPosition

\* Something is there and has the shape of a candidate.
Is(c) == DOMAIN c = CandidateFields /\ c.ath \in Nat

LEMMA IsCandidate == \A c : Is(c) => c # NoCandidate /\ CandidateShape(c)
BY Fields DEF Is, CandidateShape

LEMMA Shaped == \A c : CandidateShape(c) /\ c # NoCandidate => Is(c)
BY DEF Is, CandidateShape

LEMMA NewShaped == ASSUME NEW inAge PROVE Is(NewCandidate(inAge))
BY DEF Is, CandidateFields, NewCandidate

LEMMA DiscoveryKeeps ==
  ASSUME NEW prof, NEW c, Is(c)
  PROVE  Is(DiscoveryState(prof, c))
BY Fields DEF Is, DiscoveryState, RejectBalancedPriceCeiling

LEMMA PriceKeeps ==
  ASSUME NEW prof \in Profiles, NEW c, Is(c), NEW price \in Nat, NEW src
  PROVE  Is(UpdatePrice(prof, c, price, src))
<1>1. Is(Repriced(c, price, src)) BY Fields DEF Is, Repriced
<1> DEFINE now == Repriced(c, price, src)
           down == [now EXCEPT !.dd = DrawdownOf(price, now.ath)]
<1> HIDE DEF now
<1>2. Is(now) BY <1>1 DEF now
<1>3. Is(down) BY <1>2, Fields DEF Is
<1>4. Is([now EXCEPT !.ath = price, !.dd = "flat"]) BY <1>2, Fields DEF Is
<1>5. Is(NewHigh(now, price)) BY <1>2, Fields DEF Is, NewHigh
<1>6. Is(InPullback(down, price)) /\ Is([down EXCEPT !.state = "REJECTED"])
  <2> HIDE DEF down
  <2> QED BY <1>3, Fields DEF Is, InPullback
<1>7. Is(Tracked(prof, now, price))
  BY <1>2, <1>3, <1>5, <1>6 DEF Tracked, Is, Profiles
<1> QED BY <1>2, <1>4, <1>7 DEF UpdatePrice, now

LEMMA UnpricedKeeps == ASSUME NEW c, Is(c) PROVE Is(Unpriced(c))
BY Fields DEF Is, Unpriced

LEMMA RecordKeeps ==
  ASSUME NEW prof \in Profiles, NEW c, Is(c), NEW r, r.price \in Nat, r.info \in Nat
  PROVE  Is(OnRecord(prof, c, r))
<1> DEFINE merged == MergeRecord(c, r)
           priced == RecordPrice(prof, merged, r)
           state == DiscoveryState(prof, priced)
<1>1. Is(merged) BY Fields DEF Is, MergeRecord
<1>2. Is(priced)
  <2> HIDE DEF merged
  <2>1. Is([merged EXCEPT !.priced = @ /\ merged.usd # 0]) BY <1>1, Fields DEF Is
  <2> QED BY <1>1, <2>1, PriceKeeps DEF RecordPrice
<1>3. Is(state)
  <2> HIDE DEF priced
  <2> QED BY <1>2, DiscoveryKeeps
<1>4. Is(SupplementPendingPrice(prof, state, r))
  <2> HIDE DEF state
  <2> QED BY <1>3, PriceKeeps, DiscoveryKeeps DEF SupplementPendingPrice
<1> QED BY <1>4 DEF OnRecord

LEMMA EvaluateKeeps ==
  ASSUME NEW prof, NEW c, Is(c), NEW wire, NEW flow
  PROVE  Is(EvaluateCandidate(prof, c, wire, flow)) /\ EvaluateCandidate(prof, c, wire, flow).idle = c.idle
<1> DEFINE w == Woken(c)
<1>1. Is(w) /\ w.idle = c.idle BY Fields DEF Is, Woken
<1> HIDE DEF w
<1>2. Is(Reversed(w)) /\ Reversed(w).idle = c.idle BY <1>1, Fields DEF Is, Reversed
<1>3. Is(EvaluatePullback(w, wire, flow)) /\ EvaluatePullback(w, wire, flow).idle = c.idle
  <2>1. ASSUME NEW s PROVE Is([w EXCEPT !.state = s]) /\ [w EXCEPT !.state = s].idle = c.idle
    BY <1>1, Fields DEF Is
  <2>2. \/ w.eligible /\ ~wire
        \/ w.eligible /\ wire /\ ~HistoryAllowsPullback(w)
        \/ w.eligible => wire /\ HistoryAllowsPullback(w)
    OBVIOUS
  <2> QED BY <1>1, <1>2, <2>1, <2>2 DEF EvaluatePullback
<1>4. ASSUME NEW s PROVE Is([w EXCEPT !.state = s]) /\ [w EXCEPT !.state = s].idle = c.idle
  BY <1>1, Fields DEF Is
<1> QED BY <1>1, <1>3, <1>4 DEF EvaluateCandidate, w

LEMMA AgedKeeps ==
  ASSUME NEW c, Is(c)
  PROVE  /\ Is(Aged(c)) /\ Aged(c).idle = c.idle /\ Aged(c).active = c.active
         /\ \A s : LET d == [Aged(c) EXCEPT !.idle = s]
                   IN Is(d) /\ d.idle = s /\ d.active = c.active
BY Fields DEF Is, Aged

-----------------------------------------------------------------------------
(* What the operators on positions keep                                    *)

\* The same position with another mark, high or latch.
Same(p, q) == PositionShape(q) /\ q.intent = p.intent /\ q.sold = p.sold

LEMMA Present == \A p : PositionShape(p) => p # NoPosition
BY Fields DEF PositionShape

LEMMA MarkKeeps ==
  ASSUME NEW p, PositionShape(p), NEW c
  PROVE  Same(p, CandidatePositionMark(p, c))
<1>1. ASSUME NEW x, NEW y PROVE Same(p, SetPositionMark(p, x, y))
  BY Fields DEF Same, PositionShape, SetPositionMark
<1>2. Same(p, p) BY DEF Same
<1> QED BY <1>1, <1>2 DEF CandidatePositionMark

LEMMA HighKeeps == ASSUME NEW p, PositionShape(p) PROVE Same(p, HighSinceTp1(p)) /\ Same(p, HighAfterTp2(p))
BY Fields DEF Same, PositionShape, HighSinceTp1, HighAfterTp2

LEMMA LatchKeeps == ASSUME NEW p, PositionShape(p) PROVE Same(p, LatchTpTriggers(p))
BY Fields DEF Same, PositionShape, LatchTpTriggers

LEMMA RowedKeeps == ASSUME NEW p, PositionShape(p) PROVE PositionShape(Rowed(p)) /\ Rowed(p).sold = p.sold
BY Fields DEF PositionShape, Rowed

LEMMA CleanKeeps == ASSUME NEW p, PositionShape(p), NEW d PROVE Same(p, [p EXCEPT !.dirty = d])
BY Fields DEF Same, PositionShape

LEMMA SameSame == \A p, q, r : Same(p, q) /\ Same(q, r) => Same(p, r)
BY DEF Same

\* A sale is the last of what was sold.
LEMMA BookedKeeps ==
  ASSUME NEW p, PositionShape(p), NEW reason \in Reasons
  PROVE  /\ PositionShape(Booked(p, reason))
         /\ Booked(p, reason).intent = p.intent
         /\ LastSold(Booked(p, reason), reason)
<1> DEFINE b == [p EXCEPT !.sold = Append(@, reason), !.half = @ \/ reason = HalfSale]
<1>1. DOMAIN b = PositionFields /\ b.intent = p.intent /\ b.sold = Append(p.sold, reason)
  BY Fields DEF PositionShape
<1>2. p.sold \in Seq(Reasons) BY DEF PositionShape
<1>3. /\ Append(p.sold, reason) \in Seq(Reasons) /\ Len(Append(p.sold, reason)) = Len(p.sold) + 1
      /\ Append(p.sold, reason)[Len(p.sold) + 1] = reason /\ Len(p.sold) \in Nat
  BY <1>2
<1>4. Append(p.sold, reason) # << >> BY <1>3
<1> HIDE DEF b
<1>5. /\ DOMAIN MarkTpFilled(b, reason) = PositionFields
      /\ MarkTpFilled(b, reason).intent = b.intent /\ MarkTpFilled(b, reason).sold = b.sold
  BY <1>1, Fields DEF MarkTpFilled
<1>6. Booked(p, reason) = MarkTpFilled(b, reason) BY DEF Booked, b
<1> QED BY <1>1, <1>3, <1>4, <1>5, <1>6 DEF PositionShape, LastSold

-----------------------------------------------------------------------------
(* Frames                                                                  *)

SameTimes == \A i \in Ids : /\ rows'[i].status = rows[i].status /\ rows'[i].today = rows[i].today
                            /\ rows'[i].recent = rows[i].recent

\* No sale, no entry: at most marks, latches and the intent of the position
\* change, and a binding intent does not.
LEMMA PositionKept ==
  ASSUME PositionPart, RowsShape', SameTimes, posId' = posId,
         pc # "down", pc' # "down", pc' \in {"clearing", "closing"} => pc' = pc,
         pos = NoPosition => pos' = NoPosition /\ intentRow' = intentRow,
         pos # NoPosition => /\ PositionShape(pos') /\ pos'.sold = pos.sold /\ pos'.intent = intentRow',
         Binding(intentRow) => intentRow'.reason = intentRow.reason,
         pc' \in {"clearing", "closing"} => intentRow' = intentRow,
         intentRow' = intentRow \/ intentRow'.reason \in Reasons
  PROVE  PositionPart' /\ EntryStep /\ ExitStep
<1>1. \A s : RowsWith(s)' = RowsWith(s) BY DEF RowsWith, SameTimes
<1>2. pos # NoPosition => pos' # NoPosition BY Present
<1>3. OneOpen' BY <1>1 DEF PositionPart, OneOpen
<1>4. Owned' BY <1>1, <1>2 DEF PositionPart, Owned
<1>5. IntentKept'
  <2>1. intentRow' # NoIntent => RowsWith("OPEN")' # {} /\ intentRow'.reason \in Reasons
    BY <1>1, <1>4 DEF PositionPart, IntentKept, Owned
  <2>2. pos' # NoPosition => pos'.intent = intentRow' OBVIOUS
  <2>3. pc' = "clearing" /\ Binding(intentRow') => LastSold(pos', intentRow'.reason)
    BY DEF PositionPart, IntentKept, Owned, LastSold
  <2>4. pc' = "closing" => intentRow' = NoIntent BY DEF PositionPart, IntentKept
  <2> QED BY <2>1, <2>2, <2>3, <2>4 DEF IntentKept, Binding
<1>6. DaysKept' BY DEF PositionPart, DaysKept, SameTimes
<1>7. EntryStep BY DEF EntryStep, SameTimes
<1>8. ExitStep
  <2>1. pos # NoPosition => Len(pos.sold) \in Nat BY DEF PositionPart, Owned, PositionShape
  <2> QED BY <2>1 DEF ExitStep, Binding
<1> QED BY <1>3, <1>4, <1>5, <1>6, <1>7, <1>8 DEF PositionPart

\* The same, for the steps that leave the books alone.
LEMMA BooksKept ==
  ASSUME PositionPart, UNCHANGED <<rows, pos, posId, intentRow>>,
         pc # "down", pc' # "down", pc' \in {"clearing", "closing"} => pc' = pc
  PROVE  PositionPart' /\ EntryStep /\ ExitStep
<1>1. RowsShape' BY DEF PositionPart, RowsShape
<1>2. pos # NoPosition => PositionShape(pos') /\ pos'.sold = pos.sold /\ pos'.intent = intentRow'
  BY DEF PositionPart, Owned, IntentKept
<1>3. SameTimes BY DEF SameTimes
<1> QED BY <1>1, <1>2, <1>3, PositionKept DEF Binding

\* The row of the position is written.
LEMMA RowWritten ==
  ASSUME PositionPart, pos # NoPosition, NEW p, PositionShape(p), PersistPosition(p)
  PROVE  RowsShape' /\ SameTimes
<1>1. posId \in Ids /\ RowsShape BY DEF PositionPart, Owned, RowsWith
<1>2. PositionShape(Rowed(p)) BY RowedKeeps
<1>3. rows' = [rows EXCEPT ![posId].p = Rowed(p)] BY DEF PersistPosition
<1>4. \A i \in Ids \ {posId} : rows'[i] = rows[i] BY <1>1, <1>3 DEF RowsShape
<1>5. rows'[posId] = [rows[posId] EXCEPT !.p = Rowed(p)] /\ DOMAIN rows' = Ids
  BY <1>1, <1>3 DEF RowsShape
<1>6. RowShape(rows[posId]) BY <1>1 DEF RowsShape
<1>7. RowShape(rows'[posId]) /\ rows'[posId].status = rows[posId].status
      /\ rows'[posId].today = rows[posId].today /\ rows'[posId].recent = rows[posId].recent
  BY <1>2, <1>5, <1>6 DEF RowShape
<1> QED BY <1>1, <1>4, <1>5, <1>7 DEF RowsShape, SameTimes

\* The candidate half of a step of a process that is up and stays up.
LEMMA CandidateKept ==
  ASSUME SurvivorIInv, pc # "down", pc' # "down",
         cand' = cand \/ (Is(cand') /\ cand # NoCandidate) \/ (Is(cand') /\ cand' = tx'),
         CandidateShape(tx'), CandidateShape(candRow'),
         tx' = tx \/ Is(tx'), candRow' = candRow \/ candRow' = tx \/ candRow' = tx',
         cand' # NoCandidate => tx' # NoCandidate /\ (cand'.active => tx'.active)
                                /\ (cand'.idle = "no" => tx'.idle = "no"),
         pos' # NoPosition => pos # NoPosition \/ cand # NoCandidate,
         wired' => wired \/ cand # NoCandidate,
         RowsWith("OPEN")' # {} => RowsWith("OPEN") # {} \/ (cand # NoCandidate /\ candRow' = tx)
  PROVE  CandidatePart'
<1>1. CandidateShape(cand') BY IsCandidate DEF SurvivorIInv, CandidatePart
<1>2. pos' # NoPosition \/ wired' => cand' # NoCandidate BY IsCandidate DEF SurvivorIInv, CandidatePart
<1>3. RowsWith("OPEN")' # {} => candRow' # NoCandidate /\ tx' # NoCandidate
  BY IsCandidate DEF SurvivorIInv, CandidatePart
<1> QED BY <1>1, <1>2, <1>3 DEF CandidatePart

LEMMA CandidatesAlone ==
  ASSUME SurvivorIInv, pc # "down", pc' # "down", UNCHANGED <<cand, tx>>, wired' => wired \/ cand # NoCandidate,
         candRow' = candRow \/ candRow' = tx,
         pos' # NoPosition => pos # NoPosition,
         RowsWith("OPEN")' # {} => RowsWith("OPEN") # {}
  PROVE  CandidatePart'
BY CandidateKept DEF SurvivorIInv, CandidatePart

-----------------------------------------------------------------------------
(* The steps                                                               *)

\* The prices of a scenario are numbers.
LEMMA InScenario ==
  ASSUME scenario \in Scenarios
  PROVE  /\ profile \in Profiles /\ scenario.prices \subseteq Nat
         /\ \A r \in scenario.records : r.price \in Nat /\ r.info \in Nat
<1>1. /\ scenario.profile \in Profiles /\ scenario.prices \subseteq Prices
      /\ \A r \in scenario.records : {r.price, r.info} \subseteq Prices \cup {0}
  BY ScenarioAssumption DEF ScenarioAssumption, Records
<1>2. Prices \cup {0} \subseteq Nat BY PricesAssumption DEF PricesAssumption
<1> QED BY <1>1, <1>2 DEF profile

Good == SurvivorIInv' /\ EntryStep /\ ExitStep

LEMMA FeedOp ==
  ASSUME SurvivorIInv, NEW r \in scenario.records, NEW inAge \in BOOLEAN, OnRecords(r, inAge)
  PROVE  Good
<1> DEFINE c0 == IF cand = NoCandidate THEN NewCandidate(inAge) ELSE cand
           c == OnRecord(profile, c0, r)
<1>1. pc = "idle" /\ pc' = pc /\ scenario' = scenario BY DEF OnRecords
<1>2. Is(c)
  <2>1. profile \in Profiles /\ r.price \in Nat /\ r.info \in Nat
    BY InScenario DEF SurvivorIInv
  <2>2. Is(c0) BY NewShaped, Shaped DEF SurvivorIInv, CandidatePart
  <2> HIDE DEF c0
  <2> QED BY <2>1, <2>2, RecordKeeps
<1>3. cand' = c /\ tx' = c /\ candRow' = c /\ wired' = wired BY DEF OnRecords
<1>4. \/ pos' = pos
      \/ pos # NoPosition /\ pos' = CandidatePositionMark(pos, c)
  BY DEF OnRecords
<1> HIDE DEF c, c0
<1>5. PositionPart' /\ EntryStep /\ ExitStep
  <2>1. pos # NoPosition => Same(pos, pos')
    <3>1. pos # NoPosition => PositionShape(pos) BY DEF SurvivorIInv, PositionPart, Owned
    <3> QED BY <1>4, <3>1, MarkKeeps DEF Same
  <2>2. UNCHANGED <<rows, posId, intentRow>> BY DEF OnRecords
  <2>3. RowsShape' /\ SameTimes BY <2>2 DEF SurvivorIInv, PositionPart, RowsShape, SameTimes
  <2> QED BY <1>1, <1>4, <2>1, <2>2, <2>3, PositionKept DEF SurvivorIInv, PositionPart, IntentKept, Same, Binding
<1>6. CandidatePart'
  <2>1. RowsWith("OPEN")' = RowsWith("OPEN") BY DEF OnRecords, RowsWith
  <2> QED BY <1>1, <1>2, <1>3, <2>1, IsCandidate DEF CandidatePart
<1> QED BY <1>1, <1>5, <1>6 DEF Good, SurvivorIInv

LEMMA BeginOp ==
  ASSUME SurvivorIInv, BeginEvaluate
  PROVE  Good
<1>1. pc = "idle" /\ pc' = "positions" /\ scenario' = scenario
      /\ UNCHANGED <<candRow, rows, posId, intentRow, wired>>
  BY DEF BeginEvaluate
<1>2. RowsShape' /\ SameTimes /\ RowsWith("OPEN")' = RowsWith("OPEN")
  BY <1>1 DEF SurvivorIInv, PositionPart, RowsShape, SameTimes, RowsWith
<1>3. CASE UNCHANGED <<cand, tx, pos, ticks>>
  <2>1. PositionPart' /\ EntryStep /\ ExitStep BY <1>1, <1>3, BooksKept DEF SurvivorIInv
  <2>2. CandidatePart' BY <1>1, <1>2, <1>3, CandidatesAlone
  <2> QED BY <1>1, <2>1, <2>2 DEF Good, SurvivorIInv, Locations
<1>4. ASSUME NEW price \in MarketEvents, ApplyEvent(price) PROVE Good
  <2> DEFINE seen == [cand EXCEPT !.idle = IF @ = "data" THEN "records" ELSE @]
             c == IF price = 0 THEN Unpriced(seen) ELSE UpdatePrice(profile, seen, price, "BSC_WSS")
  <2>1. cand' = c /\ tx' = c /\ (pos' = pos \/ (pos # NoPosition /\ pos' = CandidatePositionMark(pos, c)))
    BY <1>4 DEF ApplyEvent
  <2>2. cand # NoCandidate => Is(c)
    <3>1. cand # NoCandidate => Is(seen)
      <4>1. cand # NoCandidate => Is(cand) BY Shaped DEF SurvivorIInv, CandidatePart
      <4> QED BY <4>1, Fields DEF Is
    <3>2. price \in Nat /\ profile \in Profiles
      BY InScenario DEF SurvivorIInv, MarketEvents
    <3> HIDE DEF seen
    <3> QED BY <3>1, <3>2, PriceKeeps, UnpricedKeeps
  <2>3. cand # NoCandidate BY <1>4 DEF SurvivorIInv, CandidatePart, ApplyEvent
  <2> HIDE DEF c, seen
  <2>4. pos # NoPosition => Same(pos, pos')
    <3>1. pos # NoPosition => PositionShape(pos) BY DEF SurvivorIInv, PositionPart, Owned
    <3> QED BY <2>1, <3>1, MarkKeeps DEF Same
  <2>5. PositionPart' /\ EntryStep /\ ExitStep
    BY <1>1, <1>2, <2>1, <2>4, PositionKept DEF SurvivorIInv, PositionPart, IntentKept, Same, Binding
  <2>6. CandidatePart' BY <1>1, <1>2, <2>1, <2>2, <2>3, IsCandidate DEF SurvivorIInv, CandidatePart
  <2> QED BY <1>1, <2>5, <2>6 DEF Good, SurvivorIInv, Locations
<1> QED BY <1>3, <1>4 DEF BeginEvaluate

\* A sale whose quote is in: part of the position in one commit and the
\* intent in the next, or the intent first and the closed row next.
LEMMA SaleBooked ==
  ASSUME SurvivorIInv, pc = "positions", pos # NoPosition, NEW p, Same(pos, p),
         NEW reason \in Reasons, NEW part, BookSale(p, reason, part),
         Binding(intentRow) => reason = intentRow.reason,
         UNCHANGED <<scenario, cand, tx, wired, posId>>
  PROVE  Good
<1> DEFINE b == [Booked(p, reason) EXCEPT !.dirty = FALSE]
<1>1. /\ PositionShape(b) /\ b.intent = intentRow /\ LastSold(b, reason)
      /\ Len(b.sold) \in Nat
  <2>1. PositionShape(p) /\ p.intent = intentRow BY DEF Same, SurvivorIInv, PositionPart, IntentKept
  <2> DEFINE k == Booked(p, reason)
  <2>2. PositionShape(k) /\ k.intent = p.intent /\ LastSold(k, reason) BY <2>1, BookedKeeps
  <2> HIDE DEF k
  <2>3. Same(k, [k EXCEPT !.dirty = FALSE]) BY <2>2, CleanKeeps
  <2>4. b = [k EXCEPT !.dirty = FALSE] BY DEF k
  <2> HIDE DEF b
  <2>5. PositionShape(b) /\ b.intent = k.intent /\ b.sold = k.sold BY <2>3, <2>4 DEF Same
  <2>6. Len(b.sold) \in Nat BY <2>5 DEF PositionShape
  <2> QED BY <2>1, <2>2, <2>5, <2>6 DEF LastSold
<1>2. /\ candRow' = tx
      /\ \/ pos' = [b EXCEPT !.intent = NoIntent] /\ intentRow' = NoIntent /\ pc' = "closing" /\ rows' = rows
         \/ pos' = b /\ PersistPosition(b) /\ pc' = "clearing" /\ intentRow' = intentRow
  BY DEF BookSale, Commit
<1> HIDE DEF b
<1>3. RowsShape' /\ SameTimes
  <2>1. RowsShape BY DEF SurvivorIInv, PositionPart
  <2>2. CASE rows' = rows BY <2>1, <2>2 DEF RowsShape, SameTimes
  <2> QED BY <1>1, <1>2, <2>2, RowWritten DEF SurvivorIInv
<1>4. \A s : RowsWith(s)' = RowsWith(s) BY <1>3 DEF RowsWith, SameTimes
<1>5. /\ PositionShape(pos') /\ pos'.intent = intentRow' /\ LastSold(pos', reason) /\ pos' # NoPosition
  <2>1. LET c == [b EXCEPT !.intent = NoIntent]
        IN PositionShape(c) /\ c.intent = NoIntent /\ c.sold = b.sold
    BY <1>1, Fields DEF PositionShape
  <2> QED BY <1>1, <1>2, <2>1, Present DEF LastSold
<1>6. PositionPart'
  <2>1. OneOpen' BY <1>4 DEF SurvivorIInv, PositionPart, OneOpen
  <2>2. Owned' BY <1>2, <1>4, <1>5 DEF SurvivorIInv, PositionPart, Owned
  <2>3. IntentKept' BY <1>2, <1>4, <1>5, <2>2 DEF SurvivorIInv, PositionPart, IntentKept, Owned, Binding
  <2>4. DaysKept' BY <1>3 DEF SurvivorIInv, PositionPart, DaysKept, SameTimes
  <2> QED BY <1>3, <2>1, <2>2, <2>3, <2>4 DEF PositionPart
<1>7. EntryStep BY <1>3 DEF EntryStep, SameTimes
<1>8. ExitStep BY <1>5 DEF ExitStep, Binding, LastSold
<1>9. CandidatePart' BY <1>2, <1>4, CandidatesAlone
<1> QED BY <1>2, <1>6, <1>7, <1>8, <1>9 DEF Good, SurvivorIInv, Locations

\* A sale whose quote is awaited: its reason is the intent from now on.
LEMMA SaleAwaited ==
  ASSUME SurvivorIInv, pc = "positions", pos # NoPosition, NEW p, Same(pos, p),
         NEW reason \in Reasons, NEW part, NEW persists, AwaitQuote(p, reason, part, persists),
         Binding(intentRow) => reason = intentRow.reason,
         UNCHANGED <<scenario, cand, tx, wired, posId>>
  PROVE  Good
<1> DEFINE w == [p EXCEPT !.intent = [reason |-> reason, part |-> part], !.dirty = @ /\ ~persists]
<1>1. PositionShape(w) /\ w.sold = pos.sold /\ w.intent = [reason |-> reason, part |-> part]
  BY Fields DEF Same, PositionShape
<1>2. /\ candRow' = tx /\ pos' = w /\ intentRow' = w.intent /\ pc' = "candidates"
      /\ rows' = rows \/ PersistPosition(w)
  BY DEF AwaitQuote, Commit
<1> HIDE DEF w
<1>3. RowsShape' /\ SameTimes
  <2>1. RowsShape BY DEF SurvivorIInv, PositionPart
  <2>2. CASE rows' = rows BY <2>1, <2>2 DEF RowsShape, SameTimes
  <2> QED BY <1>1, <1>2, <2>2, RowWritten DEF SurvivorIInv
<1>4. PositionPart' /\ EntryStep /\ ExitStep
  <2>1. Binding(intentRow) => intentRow'.reason = intentRow.reason BY <1>1, <1>2
  <2> QED BY <1>1, <1>2, <1>3, <2>1, PositionKept DEF SurvivorIInv
<1>5. CandidatePart'
  <2>1. RowsWith("OPEN")' = RowsWith("OPEN") BY <1>3 DEF RowsWith, SameTimes
  <2> QED BY <1>2, <2>1, CandidatesAlone
<1> QED BY <1>2, <1>4, <1>5 DEF Good, SurvivorIInv, Locations

LEMMA SellOp ==
  ASSUME SurvivorIInv, pc = "positions", pos # NoPosition, NEW p, Same(pos, p),
         NEW reason \in Reasons, NEW part, NEW persists, Sell(p, reason, part, persists),
         Binding(intentRow) => reason = intentRow.reason,
         UNCHANGED <<scenario, cand, tx, wired, posId>>
  PROVE  Good
BY SaleBooked, SaleAwaited DEF Sell

\* The owner's pass over the open position.
LEMMA PositionOp ==
  ASSUME SurvivorIInv, NEW obs \in scenario.observations, EvaluateOpenPosition(obs)
  PROVE  Good
<1>1. /\ pc = "positions" /\ pos # NoPosition /\ PositionShape(pos) /\ pos.intent = intentRow
      /\ UNCHANGED <<scenario, cand, tx, wired, posId>>
  BY DEF EvaluateOpenPosition, SurvivorIInv, PositionPart, Owned, IntentKept
<1>2. CASE RetryCommittedExit
  <2>1. Committed /\ Sell(pos, pos.intent.reason, CommittedPart, FALSE) BY <1>2 DEF RetryCommittedExit
  <2>2. pos.intent.reason \in Reasons
    BY <1>1, <2>1 DEF Committed, SurvivorIInv, PositionPart, IntentKept
  <2> QED BY <1>1, <2>1, <2>2, SellOp DEF Same
<1>3. ASSUME ~Committed, EvaluateMark(CandidatePositionMark(pos, cand), obs) PROVE Good
  <2> DEFINE p == CandidatePositionMark(pos, cand)
  <2>1. Same(pos, p) BY <1>1, MarkKeeps
  <2>2. ~Binding(intentRow) BY <1>1, <1>3 DEF Committed, Binding
  <2> HIDE DEF p
  <2>3. CASE /\ pos' = p /\ pc' = "candidates"
             /\ UNCHANGED <<rows, intentRow, candRow, sellQ>>
    <3>1. RowsShape' /\ SameTimes /\ RowsWith("OPEN")' = RowsWith("OPEN")
      BY <2>3 DEF SurvivorIInv, PositionPart, RowsShape, SameTimes, RowsWith
    <3>2. PositionPart' /\ EntryStep /\ ExitStep
      BY <1>1, <2>1, <2>2, <2>3, <3>1, PositionKept DEF SurvivorIInv, Same
    <3>3. CandidatePart' BY <1>1, <2>3, <3>1, CandidatesAlone
    <3> QED BY <1>1, <2>3, <3>2, <3>3 DEF Good, SurvivorIInv, Locations
  <2>4. ASSUME NEW reason \in Reasons, NEW part, NEW q, Same(pos, q), Sell(q, reason, part, FALSE)
        PROVE  Good
    BY <1>1, <2>2, <2>4, SellOp
  <2>5. ASSUME NEW q, Same(pos, q), TakeProfit(q) PROVE Good
    <3> DEFINE latched == IF q.dirty THEN LatchTpTriggers(q) ELSE q
               next == NextLatchedTp(latched)
               high == HighAfterTp2(latched)
    <3>1. Same(pos, latched) /\ Same(pos, high) BY <2>5, LatchKeeps, HighKeeps, SameSame DEF Same
    <3>2. next \in Reasons \cup {"none"}
      BY DEF NextLatchedTp, TakeProfitOrder, Reasons, TakeProfits
    <3>3. \/ next # "none" /\ \E part, persists : Sell(IF sellQ[PartOf(next)] = "ok" THEN latched ELSE high,
                                                       next, part, persists)
          \/ /\ pos' = [high EXCEPT !.dirty = FALSE] /\ pc' = "candidates"
             /\ UNCHANGED intentRow
             /\ (PersistPosition(high) /\ candRow' = tx) \/ UNCHANGED <<rows, candRow>>
      BY <2>5 DEF TakeProfit, Commit
    <3> HIDE DEF latched, next, high
    <3>4. CASE next # "none" /\ \E part, persists :
                 Sell(IF sellQ[PartOf(next)] = "ok" THEN latched ELSE high, next, part, persists)
      <4>1. PICK part, persists : Sell(IF sellQ[PartOf(next)] = "ok" THEN latched ELSE high, next, part, persists)
        BY <3>4
      <4> QED BY <1>1, <2>2, <3>1, <3>2, <3>4, <4>1, SellOp
    <3>5. CASE /\ pos' = [high EXCEPT !.dirty = FALSE] /\ pc' = "candidates"
               /\ UNCHANGED intentRow
               /\ (PersistPosition(high) /\ candRow' = tx) \/ UNCHANGED <<rows, candRow>>
      <4>1. Same(pos, pos') BY <3>1, <3>5, CleanKeeps, SameSame DEF Same
      <4>2. RowsShape' /\ SameTimes
        <5>1. CASE UNCHANGED rows BY <5>1 DEF SurvivorIInv, PositionPart, RowsShape, SameTimes
        <5> QED BY <1>1, <3>1, <3>5, <5>1, RowWritten DEF SurvivorIInv, Same
      <4>3. PositionPart' /\ EntryStep /\ ExitStep
        BY <1>1, <2>2, <3>5, <4>1, <4>2, PositionKept DEF SurvivorIInv, Same
      <4>4. CandidatePart'
        <5>1. RowsWith("OPEN")' = RowsWith("OPEN") BY <4>2 DEF RowsWith, SameTimes
        <5> QED BY <1>1, <3>5, <5>1, CandidatesAlone
      <4> QED BY <1>1, <3>5, <4>3, <4>4 DEF Good, SurvivorIInv, Locations
    <3> QED BY <3>3, <3>4, <3>5
  <2>6. Same(pos, HighSinceTp1(p)) BY <2>1, HighKeeps, SameSame DEF Same
  <2>7. NoTradeReason(p) \in Reasons \cup {"none"}
    BY DEF NoTradeReason, Reasons, Protections, HalfSale
  <2>8. ExitReason(profile, HighSinceTp1(p), obs) \in Reasons \cup {"none"}
    BY DEF ExitReason, ProtectionOrder, Reasons, Protections
  <2> QED
    <3>1. EvaluateMark(p, obs) BY <1>3 DEF p
    <3> QED BY <2>1, <2>3, <2>4, <2>5, <2>6, <2>7, <2>8, <3>1 DEF EvaluateMark
<1> QED BY <1>2, <1>3 DEF EvaluateOpenPosition

\* No exit: the intent stays and nothing is sold.
LEMMA NoExit ==
  ASSUME SurvivorIInv, pos' = pos, intentRow' = intentRow
  PROVE  ExitStep
<1>1. pos # NoPosition => Len(pos.sold) \in Nat BY DEF SurvivorIInv, PositionPart, Owned, PositionShape
<1> QED BY <1>1 DEF ExitStep

\* Nothing the invariant is about changes.
LEMMA Nothing ==
  ASSUME SurvivorIInv,
         UNCHANGED <<scenario, pc, cand, tx, candRow, wired, pos, posId, rows, intentRow>>
  PROVE  Good
<1>1. PositionPart'
  BY DEF SurvivorIInv, PositionPart, RowsShape, OneOpen, Owned, IntentKept, DaysKept, RowsWith
<1>2. CandidatePart' BY DEF SurvivorIInv, CandidatePart, RowsWith
<1>3. EntryStep BY DEF EntryStep
<1>4. ExitStep BY NoExit
<1> QED BY <1>1, <1>2, <1>3, <1>4 DEF Good, SurvivorIInv

LEMMA NoPositionOp ==
  ASSUME SurvivorIInv, EvaluateNoPosition
  PROVE  Good
<1>1. /\ pc = "positions" /\ pc' = "candidates"
      /\ UNCHANGED <<scenario, cand, tx, candRow, wired, pos, posId, rows, intentRow>>
  BY DEF EvaluateNoPosition, memoryVars, diskVars
<1>2. PositionPart' /\ EntryStep /\ ExitStep BY <1>1, BooksKept DEF SurvivorIInv
<1>3. CandidatePart' BY <1>1, CandidatesAlone DEF RowsWith
<1> QED BY <1>1, <1>2, <1>3 DEF Good, SurvivorIInv, Locations

\* The intent that is cleared names the last sale.
LEMMA ClearOp ==
  ASSUME SurvivorIInv, ClearExitIntent
  PROVE  Good
<1>1. /\ pc = "clearing" /\ pc' = "candidates" /\ pos' = [pos EXCEPT !.intent = NoIntent]
      /\ intentRow' = NoIntent /\ candRow' = tx
      /\ UNCHANGED <<scenario, cand, tx, wired, posId, rows>>
  BY DEF ClearExitIntent, Commit
<1>2. /\ pos # NoPosition /\ PositionShape(pos) /\ posId \in RowsWith("OPEN")
      /\ Binding(intentRow) => LastSold(pos, intentRow.reason)
  BY <1>1 DEF SurvivorIInv, PositionPart, Owned, IntentKept
<1>3. PositionShape(pos') /\ pos'.sold = pos.sold /\ pos'.intent = NoIntent /\ pos' # NoPosition
  BY <1>1, <1>2, Fields, Present DEF PositionShape
<1>4. \A s : RowsWith(s)' = RowsWith(s) BY <1>1 DEF RowsWith
<1>5. PositionPart'
  <2>1. RowsShape' /\ OneOpen' /\ DaysKept'
    BY <1>1, <1>4 DEF SurvivorIInv, PositionPart, RowsShape, OneOpen, DaysKept
  <2>2. Owned' BY <1>1, <1>2, <1>3, <1>4 DEF Owned
  <2>3. IntentKept' BY <1>1, <1>3 DEF IntentKept
  <2> QED BY <2>1, <2>2, <2>3 DEF PositionPart
<1>6. EntryStep BY <1>1 DEF EntryStep
<1>7. ExitStep BY <1>2, <1>3 DEF ExitStep, Binding, LastSold
<1>8. CandidatePart' BY <1>1, <1>2, <1>4, CandidatesAlone
<1> QED BY <1>1, <1>5, <1>6, <1>7, <1>8 DEF Good, SurvivorIInv, Locations

LEMMA ClosedOp ==
  ASSUME SurvivorIInv, PersistClosed
  PROVE  Good
<1>1. /\ pc = "closing" /\ pc' = "candidates" /\ pos' = NoPosition /\ candRow' = tx
      /\ UNCHANGED <<scenario, tx, wired, posId, intentRow>>
      /\ rows' = [rows EXCEPT ![posId].status = "CLOSED", ![posId].recent = TRUE, ![posId].p = Rowed(pos)]
      /\ cand' = IF cand = NoCandidate THEN cand ELSE [cand EXCEPT !.state = "POSITION_CLOSED"]
  BY DEF PersistClosed, Commit
<1>2. posId \in RowsWith("OPEN") /\ intentRow = NoIntent
  BY <1>1 DEF SurvivorIInv, PositionPart, Owned, IntentKept
<1>3. /\ DOMAIN rows' = Ids
      /\ \A i \in Ids \ {posId} : rows'[i] = rows[i]
      /\ RowShape(rows'[posId]) /\ rows'[posId].status = "CLOSED" /\ rows'[posId].recent = TRUE
  <2>1. DOMAIN rows = Ids /\ posId \in Ids /\ RowShape(rows[posId])
    BY <1>2 DEF SurvivorIInv, PositionPart, RowsShape, RowsWith
  <2>2. rows'[posId] = [rows[posId] EXCEPT !.status = "CLOSED", !.recent = TRUE, !.p = Rowed(pos)]
    BY <1>1, <2>1
  <2>3. RowShape(rows'[posId]) /\ rows'[posId].status = "CLOSED" /\ rows'[posId].recent = TRUE
    BY <2>1, <2>2 DEF RowShape
  <2> QED BY <1>1, <2>1, <2>3
<1>4. RowsWith("OPEN")' = {}
  BY <1>2, <1>3 DEF SurvivorIInv, PositionPart, OneOpen, RowsWith
<1>5. PositionPart'
  <2>1. RowsShape' BY <1>3 DEF SurvivorIInv, PositionPart, RowsShape
  <2>2. DaysKept' BY <1>3 DEF SurvivorIInv, PositionPart, DaysKept
  <2> QED BY <1>1, <1>2, <1>4, <2>1, <2>2 DEF PositionPart, OneOpen, Owned, IntentKept
<1>6. EntryStep BY <1>3, <1>4 DEF EntryStep, RowsWith
<1>7. ExitStep BY <1>2 DEF ExitStep
<1>8. CandidatePart'
  <2>1. cand # NoCandidate => /\ Is(cand') /\ cand'.active = cand.active /\ cand'.idle = cand.idle
    <3>1. cand # NoCandidate => Is(cand) BY Shaped DEF SurvivorIInv, CandidatePart
    <3> QED BY <1>1, <3>1, Fields DEF Is
  <2> QED BY <1>1, <1>4, <2>1, CandidateKept DEF SurvivorIInv, CandidatePart
<1> QED BY <1>1, <1>5, <1>6, <1>7, <1>8 DEF Good, SurvivorIInv, Locations

\* What the candidate pass leaves of the candidate and its row.
LEMMA Evaluated ==
  ASSUME SurvivorIInv, cand # NoCandidate, NEW flow, NEW s, NEW n
  PROVE  LET c == EvaluateCandidate(profile, cand, wired, flow)
             o == [c EXCEPT !.native = n, !.state = s]
         IN /\ Is(c) /\ c.idle = cand.idle
            /\ Is(o) /\ o.idle = cand.idle
<1> DEFINE c == EvaluateCandidate(profile, cand, wired, flow)
<1>1. Is(cand) BY Shaped DEF SurvivorIInv, CandidatePart
<1>2. Is(c) /\ c.idle = cand.idle BY <1>1, EvaluateKeeps
<1> HIDE DEF c
<1>3. LET o == [c EXCEPT !.native = n, !.state = s]
      IN Is(o) /\ o.idle = cand.idle
  BY <1>2, Fields DEF Is
<1> QED BY <1>2, <1>3 DEF c

\* The row follows an active candidate.
LEMMA RowFollows ==
  ASSUME SurvivorIInv, pc # "down", pc' # "down", cand # NoCandidate, wired' = wired,
         Is(cand'), cand'.idle = cand.idle,
         tx' = cand' \/ (tx' = tx /\ ~cand'.active), candRow' = candRow \/ candRow' = tx,
         RowsWith("OPEN")' # {} => RowsWith("OPEN") # {} \/ candRow' = tx
  PROVE  CandidatePart'
<1>1. CandidateShape(tx') /\ CandidateShape(candRow')
  BY IsCandidate DEF SurvivorIInv, CandidatePart
<1>2. /\ tx' # NoCandidate /\ (cand'.active => tx'.active)
      /\ (cand'.idle = "no" => tx'.idle = "no") /\ (tx' = tx \/ Is(tx'))
  BY IsCandidate DEF SurvivorIInv, CandidatePart
<1> QED BY <1>1, <1>2, CandidateKept

LEMMA EntryOp ==
  ASSUME SurvivorIInv, cand # NoCandidate, pc = "candidates", pc' = "commit",
         NEW c, MayBuy(c), OpenPosition(c), UNCHANGED <<scenario, wired>>
  PROVE  PositionPart' /\ EntryStep /\ ExitStep
<1> DEFINE id == CHOOSE i \in Unused : TRUE
           p == NewPosition(IF c.native = 0 THEN EntryPrice ELSE c.native)
<1>1. /\ Unused # {} /\ pos' = p /\ posId' = id /\ intentRow' = NoIntent
      /\ rows' = [rows EXCEPT ![id] = [status |-> "OPEN", today |-> TRUE, recent |-> FALSE, p |-> Rowed(p)]]
  BY DEF OpenPosition
<1>2. id \in Ids /\ rows[id].status = "none" BY <1>1 DEF Unused, RowsWith
<1>3. pos = NoPosition /\ RowsWith("OPEN") = {} BY DEF MayBuy, SameTokenOpen
<1>4. PositionShape(p) /\ p.intent = NoIntent /\ PositionShape(Rowed(p))
  <2>1. DOMAIN p = PositionFields /\ p.sold = << >> /\ p.intent = NoIntent
    BY DEF NewPosition, PositionFields
  <2> HIDE DEF p
  <2>2. << >> \in Seq(Reasons) OBVIOUS
  <2>3. PositionShape(p) BY <2>1, <2>2 DEF PositionShape
  <2> QED BY <2>1, <2>3, RowedKeeps
<1> HIDE DEF p, id
<1>5. /\ DOMAIN rows' = Ids
      /\ \A i \in Ids \ {id} : rows'[i] = rows[i]
      /\ rows'[id] = [status |-> "OPEN", today |-> TRUE, recent |-> FALSE, p |-> Rowed(p)]
  BY <1>1, <1>2 DEF SurvivorIInv, PositionPart, RowsShape
<1>6. RowsShape' BY <1>4, <1>5 DEF SurvivorIInv, PositionPart, RowsShape, RowShape
<1>7. RowsWith("OPEN")' = {id} BY <1>2, <1>3, <1>5 DEF RowsWith
<1>8. pos' # NoPosition BY <1>1, <1>4, Present
<1>9. PositionPart'
  <2>1. DaysKept' BY <1>5 DEF SurvivorIInv, PositionPart, DaysKept
  <2>2. OneOpen' BY <1>7 DEF OneOpen
  <2>3. Owned' BY <1>1, <1>4, <1>7, <1>8 DEF Owned
  <2>4. IntentKept' BY <1>1, <1>4 DEF IntentKept
  <2> QED BY <1>6, <2>1, <2>2, <2>3, <2>4 DEF PositionPart
<1>10. EntryStep
  <2>1. profile \in Profiles BY InScenario DEF SurvivorIInv
  <2>2. ASSUME NEW j \in Ids
        PROVE  ~(IF profile = "BALANCED" THEN rows[j].recent ELSE rows[j].today)
    <3>1. rows[j].status \in {"none", "OPEN", "CLOSED", "gone"}
      BY DEF SurvivorIInv, PositionPart, RowsShape, RowShape
    <3>2. rows[j].status # "OPEN" BY <1>3 DEF RowsWith
    <3>3. CASE rows[j].status \in {"none", "gone"}
      BY <3>3 DEF SurvivorIInv, PositionPart, DaysKept
    <3>4. CASE rows[j].status = "CLOSED"
      BY <2>1, <3>4 DEF MayBuy, CoolingDown, TradedToday, RowsWith, Profiles
    <3> QED BY <3>1, <3>2, <3>3, <3>4
  <2> QED BY <1>3, <2>2 DEF EntryStep
<1>11. ExitStep BY <1>3 DEF ExitStep, SurvivorIInv, PositionPart, IntentKept
<1> QED BY <1>9, <1>10, <1>11

\* The owner's pass over the candidate.
LEMMA CandidateOp ==
  ASSUME SurvivorIInv, NEW flow \in BOOLEAN, EvaluateCandidates(flow)
  PROVE  Good
<1> DEFINE c == EvaluateCandidate(profile, cand, wired, flow)
<1>1. pc = "candidates" /\ pc' = "commit" /\ UNCHANGED <<scenario, wired>> BY DEF EvaluateCandidates
<1>2. CASE cand = NoCandidate /\ UNCHANGED <<cand, tx, candRow, pos, posId, rows, intentRow>>
  <2>1. PositionPart' /\ EntryStep /\ ExitStep BY <1>1, <1>2, BooksKept DEF SurvivorIInv
  <2>2. CandidatePart' BY <1>1, <1>2, CandidatesAlone DEF RowsWith
  <2> QED BY <1>1, <2>1, <2>2 DEF Good, SurvivorIInv, Locations
<1>3. CASE cand # NoCandidate /\ MayBuy(c) /\ OpenPosition(c)
  <2> DEFINE o(n) == [c EXCEPT !.native = n, !.state = "POSITION_OPEN"]
  <2>1. PositionPart' /\ EntryStep /\ ExitStep BY <1>1, <1>3, EntryOp
  <2>2. PICK n : cand' = o(n) /\ tx' = (IF cand'.active THEN cand' ELSE tx) /\ candRow' = tx
    BY <1>3 DEF OpenPosition, Commit
  <2>3. Is(cand') /\ cand'.idle = cand.idle BY <1>3, <2>2, Evaluated
  <2>4. CandidatePart' BY <1>1, <1>3, <2>2, <2>3, RowFollows
  <2> QED BY <1>1, <2>1, <2>4 DEF Good, SurvivorIInv, Locations
<1>4. CASE /\ cand # NoCandidate /\ cand' = c /\ (tx' = c \/ (tx' = tx /\ ~c.active))
           /\ UNCHANGED <<candRow, pos, posId, rows, intentRow>>
  <2>1. PositionPart' /\ EntryStep /\ ExitStep BY <1>1, <1>4, BooksKept DEF SurvivorIInv
  <2>2. Is(c) /\ c.idle = cand.idle BY <1>4, Evaluated
  <2> HIDE DEF c
  <2>3. CandidatePart' BY <1>1, <1>4, <2>2, RowFollows DEF RowsWith
  <2> QED BY <1>1, <2>1, <2>3 DEF Good, SurvivorIInv, Locations
<1> HIDE DEF c
<1>5. \/ cand = NoCandidate /\ UNCHANGED <<cand, tx, candRow, pos, posId, rows, intentRow>>
      \/ cand # NoCandidate /\ MayBuy(c) /\ OpenPosition(c)
      \/ /\ cand # NoCandidate /\ cand' = c /\ (tx' = c \/ (tx' = tx /\ ~c.active))
         /\ UNCHANGED <<candRow, pos, posId, rows, intentRow>>
  BY DEF EvaluateCandidates, AskQuote, c
<1> QED BY <1>2, <1>3, <1>4, <1>5

\* The prune and the final commit.
LEMMA FinishOp ==
  ASSUME SurvivorIInv, NEW prunes \in BOOLEAN, Finish(prunes)
  PROVE  Good
<1>1. /\ pc = "commit" /\ pc' = "idle"
      /\ UNCHANGED <<scenario, pos, posId, intentRow>>
      /\ wired' = (wired /\ cand' # NoCandidate)
      /\ tx' = (IF prunes /\ Prunable(tx, RowsWith("OPEN") # {}) THEN NoCandidate ELSE tx)
      /\ candRow' = tx'
      /\ cand' = (IF prunes /\ Prunable(cand, pos # NoPosition) THEN NoCandidate ELSE cand)
      /\ rows' = [i \in Ids |-> IF prunes /\ rows[i].status = "CLOSED" /\ ~rows[i].recent
                                THEN [rows[i] EXCEPT !.status = "gone", !.p = NoPosition] ELSE rows[i]]
  BY DEF Finish
<1>2. ASSUME NEW i \in Ids
      PROVE  \/ rows'[i] = rows[i]
             \/ /\ rows[i].status = "CLOSED" /\ ~rows[i].recent /\ ~rows[i].today
                /\ RowShape(rows'[i]) /\ rows'[i].status = "gone"
                /\ ~rows'[i].recent /\ ~rows'[i].today
  <2>1. RowShape(rows[i]) /\ (rows[i].status = "CLOSED" /\ rows[i].today => rows[i].recent)
    BY DEF SurvivorIInv, PositionPart, RowsShape, DaysKept
  <2>2. \/ rows'[i] = rows[i]
        \/ rows[i].status = "CLOSED" /\ ~rows[i].recent
           /\ rows'[i] = [rows[i] EXCEPT !.status = "gone", !.p = NoPosition]
    BY <1>1
  <2> QED BY <2>1, <2>2 DEF RowShape
<1>3. /\ RowsWith("OPEN")' = RowsWith("OPEN")
      /\ \A i \in Ids : rows'[i].status = "OPEN" => rows[i].status = "OPEN"
  BY <1>2 DEF RowsWith
<1>4. PositionPart'
  <2>1. DOMAIN rows' = Ids BY <1>1
  <2>2. RowsShape' BY <1>2, <2>1 DEF SurvivorIInv, PositionPart, RowsShape
  <2>3. DaysKept' BY <1>2 DEF SurvivorIInv, PositionPart, DaysKept
  <2>4. OneOpen' /\ Owned' /\ IntentKept'
    BY <1>1, <1>3 DEF SurvivorIInv, PositionPart, OneOpen, Owned, IntentKept
  <2> QED BY <2>2, <2>3, <2>4 DEF PositionPart
<1>5. EntryStep BY <1>3 DEF EntryStep, RowsWith
<1>6. ExitStep BY <1>1, NoExit
<1>7. CandidatePart'
  <2>1. CandidateShape(cand') /\ CandidateShape(tx') /\ CandidateShape(candRow')
    BY <1>1 DEF SurvivorIInv, CandidatePart, CandidateShape
  <2>2. RowsWith("OPEN")' # {} => tx' # NoCandidate
    BY <1>1, <1>3 DEF SurvivorIInv, CandidatePart, Prunable
  <2>3. pos' # NoPosition \/ wired' => cand' # NoCandidate
    BY <1>1 DEF SurvivorIInv, CandidatePart, Prunable
  <2>4. cand' # NoCandidate => cand' = cand /\ tx' = tx
    <3>1. pos # NoPosition => RowsWith("OPEN") # {} BY DEF SurvivorIInv, PositionPart, Owned
    <3> QED BY <1>1, <3>1 DEF SurvivorIInv, PositionPart, Owned, CandidatePart, Prunable
  <2> QED BY <1>1, <2>1, <2>2, <2>3, <2>4 DEF SurvivorIInv, CandidatePart
<1> QED BY <1>1, <1>4, <1>5, <1>6, <1>7 DEF Good, SurvivorIInv, Locations

LEMMA WireOp ==
  ASSUME SurvivorIInv, WireVenue
  PROVE  Good
<1>1. /\ pc = "idle" /\ pc' = pc /\ cand # NoCandidate
      /\ UNCHANGED <<scenario, cand, tx, candRow, pos, posId, rows, intentRow>>
  BY DEF WireVenue, diskVars
<1>2. PositionPart' /\ EntryStep /\ ExitStep BY <1>1, BooksKept DEF SurvivorIInv
<1>3. CandidatePart' BY <1>1, CandidatesAlone DEF RowsWith
<1> QED BY <1>1, <1>2, <1>3 DEF Good, SurvivorIInv

LEMMA ClockOp ==
  ASSUME SurvivorIInv, Clock
  PROVE  Good
<1>1. /\ pc = "idle" /\ pc' = pc /\ cand # NoCandidate
      /\ UNCHANGED <<scenario, tx, candRow, wired, pos, posId, rows, intentRow>>
  BY DEF Clock, diskVars
<1>2. PositionPart' /\ EntryStep /\ ExitStep BY <1>1, BooksKept DEF SurvivorIInv
<1>3. Is(cand') /\ cand'.active = cand.active /\ (cand'.idle = "no" => cand.idle = "no")
  <2>1. Is(cand) BY <1>1, Shaped DEF SurvivorIInv, CandidatePart
  <2>2. LET d == [cand EXCEPT !.stable = "due"] IN Is(d) /\ d.active = cand.active /\ d.idle = cand.idle
    BY <2>1, Fields DEF Is
  <2>3. Is(Aged(cand)) /\ Aged(cand).idle = cand.idle /\ Aged(cand).active = cand.active
    BY <2>1, AgedKeeps
  <2>4. ASSUME NEW s \in {"records", "data"}
        PROVE  LET d == [Aged(cand) EXCEPT !.idle = s] IN Is(d) /\ d.active = cand.active /\ d.idle # "no"
    <3>1. s # "no" BY <2>4
    <3> QED BY <2>1, <3>1, AgedKeeps
  <2> QED BY <2>2, <2>3, <2>4 DEF Clock
<1>4. CandidatePart' BY <1>1, <1>3, IsCandidate DEF SurvivorIInv, CandidatePart, RowsWith
<1> QED BY <1>1, <1>2, <1>4 DEF Good, SurvivorIInv

LEMMA DayOp ==
  ASSUME SurvivorIInv, NextDay
  PROVE  Good
<1>1. /\ pc \in {"idle", "down"} /\ pc' = pc
      /\ UNCHANGED <<scenario, wired, pos, posId, intentRow>>
      /\ rows' = [i \in Ids |-> DayPassed(i)]
      /\ cand' = Silent(cand) /\ tx' = Silent(tx) /\ candRow' = Silent(candRow)
  BY DEF NextDay
<1>2. /\ DOMAIN rows' = Ids
      /\ \A i \in Ids : /\ RowShape(rows'[i]) /\ rows'[i].status = rows[i].status
                        /\ rows'[i].today = FALSE /\ rows'[i].recent = FALSE
  <2>1. ASSUME NEW i \in Ids
        PROVE  /\ RowShape(rows'[i]) /\ rows'[i].status = rows[i].status
               /\ rows'[i].today = FALSE /\ rows'[i].recent = FALSE
    <3>1. RowShape(rows[i]) BY DEF SurvivorIInv, PositionPart, RowsShape
    <3>2. rows'[i] = [rows[i] EXCEPT !.today = FALSE, !.recent = FALSE] BY <1>1 DEF DayPassed
    <3> QED BY <3>1, <3>2 DEF RowShape
  <2> QED BY <1>1, <2>1
<1>3. \A s : RowsWith(s)' = RowsWith(s) BY <1>2 DEF RowsWith
<1>4. PositionPart'
  <2>1. RowsShape' /\ DaysKept' BY <1>2 DEF RowsShape, DaysKept
  <2>2. OneOpen' /\ Owned' /\ IntentKept'
    BY <1>1, <1>3 DEF SurvivorIInv, PositionPart, OneOpen, Owned, IntentKept
  <2> QED BY <2>1, <2>2 DEF PositionPart
<1>5. EntryStep BY <1>2 DEF EntryStep
<1>6. ExitStep BY <1>1, NoExit
<1>7. CandidatePart'
  <2>1. ASSUME NEW c, CandidateShape(c)
        PROVE  /\ CandidateShape(Silent(c)) /\ (Silent(c) = NoCandidate) = (c = NoCandidate)
               /\ c # NoCandidate => Silent(c).active = c.active /\ Silent(c).idle = "data"
    <3>1. CASE c = NoCandidate BY <2>1, <3>1 DEF Silent
    <3>2. CASE c # NoCandidate
      <4>1. Silent(c) = [Aged(c) EXCEPT !.idle = "data"] BY <3>2 DEF Silent
      <4>2. Is(Silent(c)) /\ Silent(c).active = c.active /\ Silent(c).idle = "data"
        BY <2>1, <3>2, <4>1, Shaped, AgedKeeps
      <4> QED BY <3>2, <4>2, IsCandidate
    <3> QED BY <3>1, <3>2
  <2>2. CandidateShape(cand) /\ CandidateShape(tx) /\ CandidateShape(candRow)
    BY DEF SurvivorIInv, CandidatePart
  <2> QED BY <1>1, <1>3, <2>1, <2>2 DEF SurvivorIInv, CandidatePart
<1> QED BY <1>1, <1>4, <1>5, <1>6, <1>7 DEF Good, SurvivorIInv

LEMMA DeathOp ==
  ASSUME SurvivorIInv, Die
  PROVE  Good
<1>1. /\ pc' = "down" /\ cand' = NoCandidate /\ tx' = candRow /\ wired' = FALSE /\ pos' = NoPosition
      /\ UNCHANGED <<scenario, candRow, rows, intentRow>>
  BY DEF Die, diskVars
<1>2. PositionPart'
  BY <1>1 DEF SurvivorIInv, PositionPart, RowsShape, OneOpen, Owned, IntentKept, DaysKept, RowsWith
<1>3. CandidatePart' BY <1>1 DEF SurvivorIInv, CandidatePart, CandidateShape, RowsWith
<1> QED BY <1>1, <1>2, <1>3 DEF Good, SurvivorIInv, Locations, EntryStep, ExitStep

\* A restart finds the position with its intent and the candidate.
LEMMA RestartOp ==
  ASSUME SurvivorIInv, Restart
  PROVE  Good
<1>1. /\ pc = "down" /\ pc' = "idle"
      /\ UNCHANGED <<scenario, tx, candRow, wired, rows, intentRow>>
      /\ \/ candRow = NoCandidate /\ cand' = NoCandidate
         \/ candRow # NoCandidate /\ cand' \in {candRow, Aged(candRow)}
  BY DEF Restart, diskVars
<1>2. pos = NoPosition /\ tx = candRow BY <1>1 DEF SurvivorIInv, PositionPart, Owned, CandidatePart
<1>3. \/ RowsWith("OPEN") = {} /\ pos' = NoPosition
      \/ /\ RowsWith("OPEN") # {} /\ posId' \in RowsWith("OPEN")
         /\ PositionShape(pos') /\ pos'.intent = intentRow /\ pos' # NoPosition
  <2>1. CASE RowsWith("OPEN") = {} BY <1>2, <2>1 DEF Restart
  <2>2. CASE RowsWith("OPEN") # {}
    <3>1. posId' \in RowsWith("OPEN") /\ pos' = LoadPosition(rows[posId'].p, intentRow)
      BY <2>2 DEF Restart
    <3>2. PositionShape(rows[posId'].p)
      BY <3>1 DEF RowsWith, SurvivorIInv, PositionPart, RowsShape, RowShape
    <3>3. PositionShape(pos') /\ pos'.intent = intentRow
      BY <3>1, <3>2, Fields DEF LoadPosition, PositionShape
    <3> QED BY <2>2, <3>1, <3>3, Present
  <2> QED BY <2>1, <2>2
<1>4. \A s : RowsWith(s)' = RowsWith(s) BY <1>1 DEF RowsWith
<1>5. PositionPart'
  <2>1. RowsShape' /\ OneOpen' /\ DaysKept'
    BY <1>1, <1>4 DEF SurvivorIInv, PositionPart, RowsShape, OneOpen, DaysKept
  <2>2. Owned' BY <1>1, <1>3, <1>4 DEF Owned
  <2>3. IntentKept' BY <1>1, <1>3, <1>4 DEF SurvivorIInv, PositionPart, IntentKept
  <2> QED BY <2>1, <2>2, <2>3 DEF PositionPart
<1>6. CandidatePart'
  <2>1. candRow # NoCandidate =>
          Is(cand') /\ cand'.active = candRow.active /\ cand'.idle = candRow.idle
    BY <1>1, Shaped, AgedKeeps DEF SurvivorIInv, CandidatePart
  <2> QED BY <1>1, <1>2, <1>3, <1>4, <2>1, IsCandidate DEF SurvivorIInv, CandidatePart
<1>7. EntryStep /\ ExitStep BY <1>1, <1>2 DEF EntryStep, ExitStep
<1> QED BY <1>1, <1>5, <1>6, <1>7 DEF Good, SurvivorIInv, Locations

LEMMA InitOp == Init => SurvivorIInv
<1> SUFFICES ASSUME Init PROVE SurvivorIInv OBVIOUS
<1>1. \A i \in Ids : rows[i] = NoRow BY DEF Init
<1>2. RowShape(NoRow) /\ NoRow.status = "none" /\ NoRow.today = FALSE /\ NoRow.recent = FALSE
  BY DEF RowShape, NoRow
<1>3. RowsWith("OPEN") = {} BY <1>1, <1>2 DEF RowsWith
<1>4. PositionPart
  <2>1. DOMAIN rows = Ids BY DEF Init
  <2> QED BY <1>1, <1>2, <1>3, <2>1
       DEF Init, PositionPart, RowsShape, OneOpen, Owned, IntentKept, DaysKept
<1>5. CandidatePart BY <1>3 DEF Init, CandidatePart, CandidateShape
<1> QED BY <1>4, <1>5 DEF Init, SurvivorIInv, Locations

LEMMA NextOps == SurvivorIInv /\ [Next]_vars => Good
<1> SUFFICES ASSUME SurvivorIInv, [Next]_vars PROVE Good OBVIOUS
<1>1. CASE UNCHANGED vars BY <1>1, Nothing DEF vars, memoryVars, diskVars
<1>2. CASE QuoteWorker BY <1>2, Nothing DEF QuoteWorker, diskVars
<1>3. CASE SetPaused BY <1>3, Nothing DEF SetPaused, memoryVars, diskVars
<1>4. CASE \E r \in scenario.records, inAge \in BOOLEAN : OnRecords(r, inAge) BY <1>4, FeedOp
<1>5. CASE \E obs \in scenario.observations : EvaluateOpenPosition(obs) BY <1>5, PositionOp
<1>6. CASE \E flow \in BOOLEAN : EvaluateCandidates(flow) BY <1>6, CandidateOp
<1>7. CASE \E prunes \in BOOLEAN : Finish(prunes) BY <1>7, FinishOp
<1>8. CASE BeginEvaluate \/ EvaluateNoPosition \/ ClearExitIntent \/ PersistClosed
  BY <1>8, BeginOp, NoPositionOp, ClearOp, ClosedOp
<1>9. CASE WireVenue \/ Clock \/ NextDay \/ Die \/ Restart
  BY <1>9, WireOp, ClockOp, DayOp, DeathOp, RestartOp
<1> QED BY <1>1, <1>2, <1>3, <1>4, <1>5, <1>6, <1>7, <1>8, <1>9 DEF Next

-----------------------------------------------------------------------------
(* The theorems                                                            *)

\* The inductive invariant of the engine around one token: memory and
\* database agree on the one position there may be and on its exit intent,
\* and the candidate's row is never easier to prune than the candidate.
THEOREM Invariance == Spec => []SurvivorIInv
<1>1. SurvivorIInv /\ [Next]_vars => SurvivorIInv' BY NextOps DEF Good
<1> QED BY InitOp, <1>1, PTL DEF Spec

\* _try_buy: one position at a time, no entry within the cooldown (Balanced)
\* or on a day with a trade (Survivor), over prunes and restarts.
THEOREM Entries == Spec => EntryRules
<1>1. SurvivorIInv /\ [Next]_vars =>
        [\A i \in Ids : rows[i].status = "none" /\ rows'[i].status = "OPEN" =>
           /\ pos = NoPosition
           /\ RowsWith("OPEN") = {}
           /\ ~\E j \in Ids : IF profile = "BALANCED" THEN rows[j].recent ELSE rows[j].today]_vars
  BY NextOps DEF Good, EntryStep
<1> QED BY <1>1, Invariance, PTL DEF Spec, EntryRules

\* An exit other than a TP... that waits for its quote is the next one sold,
\* whatever the price does and through a restart.
THEOREM CommittedExits == Spec => CommittedExitSold
<1>1. SurvivorIInv /\ [Next]_vars =>
        [intentRow # NoIntent /\ intentRow.reason \notin StartsWithTP =>
           LET sells == pos' # NoPosition /\ pos'.sold # << >>
                        /\ pos'.sold[Len(pos'.sold)] = intentRow.reason
           IN /\ intentRow'.reason # intentRow.reason => sells
              /\ pos # NoPosition /\ pos' # NoPosition /\ Len(pos'.sold) > Len(pos.sold) => sells]_vars
  BY NextOps DEF Good, ExitStep
<1> QED BY <1>1, Invariance, PTL DEF Spec, CommittedExitSold

\* The prune never takes the candidate of an open position, in memory or in
\* the database.
THEOREM CandidateKeptWhileOpen == Spec => []OpenKeepsCandidate
<1>1. SurvivorIInv => OpenKeepsCandidate
  BY DEF SurvivorIInv, CandidatePart, OpenKeepsCandidate
<1> QED BY <1>1, Invariance, PTL

-----------------------------------------------------------------------------
(* Types: what the operators on candidates return                          *)

LEMMA NewTyped == ASSUME NEW inAge \in BOOLEAN PROVE NewCandidate(inAge) \in Candidates
BY DEF NewCandidate, Candidates, Sources, Drawdowns, States

LEMMA StateTyped ==
  ASSUME NEW c \in Candidates, NEW s \in States
  PROVE  [c EXCEPT !.state = s] \in Candidates
BY DEF Candidates

LEMMA DiscoveryTyped ==
  ASSUME NEW prof \in Profiles, NEW c \in Candidates
  PROVE  DiscoveryState(prof, c) \in Candidates
<1>1. RejectBalancedPriceCeiling(c) \in Candidates
  BY DEF RejectBalancedPriceCeiling, Candidates, States
<1>2. ASSUME NEW s \in States, NEW e \in BOOLEAN
      PROVE [c EXCEPT !.eligible = e, !.active = e, !.state = s] \in Candidates
  BY DEF Candidates
<1>3. c.state \in States BY DEF Candidates
<1>4. CandidateEligible(prof, c) \in BOOLEAN BY DEF CandidateEligible
<1> QED BY <1>1, <1>2, <1>3, <1>4 DEF DiscoveryState, States, StickyStates

LEMMA PricesNat == Prices \subseteq Nat /\ Prices \cup {0} \subseteq Nat /\ EntryPrice \in Nat
BY PricesAssumption, EntryAssumption DEF PricesAssumption, EntryAssumption

LEMMA Ordered == \A x \in Prices, y \in Prices \cup {0} : x > y \/ x <= y
BY PricesNat

LEMMA PriceTyped ==
  ASSUME NEW prof \in Profiles, NEW c \in Candidates, NEW price \in Prices, NEW src \in Sources
  PROVE  UpdatePrice(prof, c, price, src) \in Candidates
<1> DEFINE now == Repriced(c, price, src)
           down == [now EXCEPT !.dd = DrawdownOf(price, now.ath)]
           zoned == [down EXCEPT !.state = IF down.eligible /\ down.state \in {"ACTIVE_CANDIDATE", "LIGHT_TRACKING"}
                                           THEN "PULLBACK_ZONE" ELSE @]
<1>1. now \in Candidates
  <2>1. SourceSwitches(c, price, src) \in BOOLEAN BY DEF SourceSwitches
  <2> QED BY <2>1 DEF Repriced, Candidates
<1> HIDE DEF now
<1>2. down \in Candidates
  <2>1. DrawdownOf(price, now.ath) \in Drawdowns BY DEF DrawdownOf, Drawdowns
  <2> QED BY <1>1, <2>1 DEF Candidates
<1>3. [now EXCEPT !.ath = price, !.dd = "flat"] \in Candidates BY <1>1 DEF Candidates, Drawdowns
<1>4. NewHigh(now, price) \in Candidates
  <2>1. now.state \in States BY <1>1 DEF Candidates
  <2>2. "flat" \in Drawdowns /\ "ACTIVE_CANDIDATE" \in States BY DEF Drawdowns, States
  <2>3. ASSUME NEW s \in States, NEW d \in Drawdowns
        PROVE  [now EXCEPT !.ath = price, !.dd = d, !.low = 0, !.stable = "none", !.state = s] \in Candidates
    BY <1>1 DEF Candidates
  <2> QED BY <2>1, <2>2, <2>3 DEF NewHigh
<1> HIDE DEF down
<1>5. [down EXCEPT !.state = "REJECTED"] \in Candidates BY <1>2, StateTyped DEF States
<1>6. InPullback(down, price) \in Candidates
  <2>1. zoned \in Candidates
    BY <1>2 DEF Candidates, States, StickyStates, PullbackStates
  <2> HIDE DEF zoned
  <2>2. [zoned EXCEPT !.low = price, !.stable = "none"] \in Candidates BY <2>1 DEF Candidates
  <2>3. [zoned EXCEPT !.stable = IF @ = "none" THEN "since" ELSE @,
                      !.state = IF down.stable = "due" THEN "STOP_CONFIRMED" ELSE @] \in Candidates
    <3>1. zoned.state \in States /\ zoned.stable \in {"none", "since", "due"} BY <2>1 DEF Candidates
    <3>2. ASSUME NEW s \in States, NEW t \in {"none", "since", "due"}
          PROVE  [zoned EXCEPT !.stable = t, !.state = s] \in Candidates
      BY <2>1 DEF Candidates
    <3>3. "STOP_CONFIRMED" \in States BY DEF States, StickyStates, PullbackStates
    <3> QED BY <3>1, <3>2, <3>3
  <2> QED BY <2>2, <2>3 DEF InPullback, zoned
<1>7. Tracked(prof, now, price) \in Candidates
  <2>1. price > now.ath \/ price <= now.ath
    <3>1. now.ath \in Prices \cup {0} BY <1>1 DEF Candidates
    <3> QED BY <3>1, Ordered
  <2> QED BY <1>2, <1>4, <1>5, <1>6, <2>1 DEF Tracked, Profiles, down
<1> QED BY <1>1, <1>3, <1>7 DEF UpdatePrice, now

LEMMA UnpricedTyped == ASSUME NEW c \in Candidates PROVE Unpriced(c) \in Candidates
BY DEF Unpriced, Candidates, Sources

LEMMA RecordTyped ==
  ASSUME NEW prof \in Profiles, NEW c \in Candidates, NEW r \in Records
  PROVE  OnRecord(prof, c, r) \in Candidates
<1> DEFINE merged == MergeRecord(c, r)
           priced == RecordPrice(prof, merged, r)
           state == DiscoveryState(prof, priced)
<1>1. merged \in Candidates
  <2>1. [c EXCEPT !.idle = "no"] \in Candidates BY DEF Candidates
  <2>2. ASSUME NEW k \in 0 .. 3, NEW g \in {"none", "active", "universe"}, NEW a \in {"UNKNOWN", "PASS", "FAIL"}
        PROVE  [c EXCEPT !.idle = "no", !.rank = k, !.gates = g, !.audit = a, !.known = TRUE] \in Candidates
    BY DEF Candidates
  <2>3. c.rank \in 0 .. 3 /\ c.gates \in {"none", "active", "universe"} /\ c.audit \in {"UNKNOWN", "PASS", "FAIL"}
    BY DEF Candidates
  <2>4. r.rank \in 0 .. 3 /\ r.gates \in {"absent", "none", "active", "universe"}
        /\ r.audit \in {"UNKNOWN", "PASS", "FAIL"}
    BY DEF Records
  <2> QED BY <2>1, <2>2, <2>3, <2>4 DEF MergeRecord
<1>2. /\ r.price # 0 => r.price \in Prices
      /\ r.info # 0 => r.info \in Prices
      /\ "MEME_RUSH" \in Sources /\ "TOKEN_INFO" \in Sources
  BY DEF Records, Sources
<1>3. priced \in Candidates
  <2> HIDE DEF merged
  <2>1. ASSUME NEW b \in BOOLEAN PROVE [merged EXCEPT !.priced = b] \in Candidates
    BY <1>1 DEF Candidates
  <2>2. (merged.priced /\ merged.usd # 0) \in BOOLEAN OBVIOUS
  <2>3. [merged EXCEPT !.priced = @ /\ merged.usd # 0] \in Candidates BY <2>1, <2>2
  <2> QED BY <1>1, <1>2, <2>3, PriceTyped DEF RecordPrice
<1>4. state \in Candidates
  <2> HIDE DEF priced
  <2> QED BY <1>3, DiscoveryTyped
<1>5. SupplementPendingPrice(prof, state, r) \in Candidates
  <2> HIDE DEF state
  <2> QED BY <1>2, <1>4, PriceTyped, DiscoveryTyped DEF SupplementPendingPrice
<1> QED BY <1>5 DEF OnRecord

LEMMA EvaluateTyped ==
  ASSUME NEW prof, NEW c \in Candidates, NEW wire, NEW flow
  PROVE  EvaluateCandidate(prof, c, wire, flow) \in Candidates
<1> DEFINE w == Woken(c)
<1>1. w \in Candidates
  <2>1. [c EXCEPT !.state = "ACTIVE_CANDIDATE", !.active = TRUE] \in Candidates BY DEF Candidates, States
  <2> QED BY <2>1 DEF Woken
<1> HIDE DEF w
<1>2. ASSUME NEW s \in States PROVE [w EXCEPT !.state = s] \in Candidates
  BY <1>1, StateTyped
<1>3. w.state \in States BY <1>1 DEF Candidates
<1>4. Reversed(w) \in Candidates
  BY <1>1, <1>2, <1>3 DEF Reversed, States, StickyStates, PullbackStates
<1>5. EvaluatePullback(w, wire, flow) \in Candidates
  <2>1. \/ w.eligible /\ ~wire
        \/ w.eligible /\ wire /\ ~HistoryAllowsPullback(w)
        \/ w.eligible => wire /\ HistoryAllowsPullback(w)
    OBVIOUS
  <2>2. [w EXCEPT !.state = IF @ \in PullbackStates THEN "ACTIVE_CANDIDATE" ELSE @] \in Candidates
    BY <1>2, <1>3 DEF States
  <2>3. "REJECTED" \in States /\ "READY_TO_BUY" \in States BY DEF States, StickyStates, PullbackStates
  <2> QED BY <1>1, <1>2, <1>4, <2>1, <2>2, <2>3 DEF EvaluatePullback
<1>6. [w EXCEPT !.state = IF w.eligible THEN "READY_TO_BUY" ELSE @] \in Candidates
  BY <1>2, <1>3 DEF States, StickyStates, PullbackStates
<1>7. "EXPIRED" \in States BY DEF States
<1> QED BY <1>1, <1>2, <1>5, <1>6, <1>7 DEF EvaluateCandidate, w

LEMMA AgedTyped ==
  ASSUME NEW c \in Candidates
  PROVE  /\ Aged(c) \in Candidates
         /\ \A s \in {"records", "data"} : [Aged(c) EXCEPT !.idle = s] \in Candidates
         /\ [c EXCEPT !.stable = "due"] \in Candidates
<1>1. ASSUME NEW d \in Candidates PROVE \A s \in {"records", "data"} : [d EXCEPT !.idle = s] \in Candidates
  BY DEF Candidates
<1>2. ASSUME NEW b \in BOOLEAN PROVE [c EXCEPT !.inAge = b] \in Candidates BY DEF Candidates
<1>3. (profile = "SURVIVOR") \in BOOLEAN OBVIOUS
<1>4. Aged(c) \in Candidates BY <1>2, <1>3 DEF Aged
<1>5. [c EXCEPT !.stable = "due"] \in Candidates BY DEF Candidates
<1> QED BY <1>1, <1>4, <1>5

LEMMA SilentTyped ==
  ASSUME NEW c \in Candidates \cup {NoCandidate}
  PROVE  Silent(c) \in Candidates \cup {NoCandidate}
BY AgedTyped DEF Silent

-----------------------------------------------------------------------------
(* What the operators on positions return                                  *)
LEMMA NewPositionTyped ==
  ASSUME NEW mark \in Prices
  PROVE  NewPosition(mark) \in Positions
BY DEF NewPosition, Positions, Sources, Intents

LEMMA MarkTyped ==
  ASSUME NEW p \in Positions, NEW c \in Candidates \cup {NoCandidate}
  PROVE  CandidatePositionMark(p, c) \in Positions
<1>1. ASSUME NEW x \in Prices, NEW y \in Sources PROVE SetPositionMark(p, x, y) \in Positions
  BY DEF SetPositionMark, Positions
<1>2. c # NoCandidate /\ c.native # 0 => c.native \in Prices /\ c.src \in Sources
  BY DEF Candidates
<1> QED BY <1>1, <1>2 DEF CandidatePositionMark

LEMMA HighTyped ==
  ASSUME NEW p \in Positions
  PROVE  HighSinceTp1(p) \in Positions /\ HighAfterTp2(p) \in Positions
BY DEF HighSinceTp1, HighAfterTp2, Positions

LEMMA LatchTyped ==
  ASSUME NEW p \in Positions
  PROVE  LatchTpTriggers(p) \in Positions
BY DEF LatchTpTriggers, Positions

LEMMA RowedTyped ==
  ASSUME NEW p \in Positions
  PROVE  Rowed(p) \in Positions
BY DEF Rowed, Positions, Intents

LEMMA IntentTyped ==
  ASSUME NEW p \in Positions, NEW i \in Intents, NEW d \in BOOLEAN
  PROVE  /\ [p EXCEPT !.dirty = d] \in Positions
         /\ [p EXCEPT !.intent = i] \in Positions
         /\ [p EXCEPT !.intent = i, !.dirty = @ /\ d] \in Positions
BY DEF Positions

LEMMA BookedTyped ==
  ASSUME NEW p \in Positions, NEW reason \in Reasons
  PROVE  Booked(p, reason) \in Positions
<1> DEFINE b == [p EXCEPT !.sold = Append(@, reason), !.half = @ \/ reason = HalfSale]
<1>1. Append(p.sold, reason) \in Seq(Reasons) BY DEF Positions
<1>2. b \in Positions BY <1>1 DEF Positions
<1> HIDE DEF b
<1>3. MarkTpFilled(b, reason) \in Positions BY <1>2 DEF MarkTpFilled, Positions, TakeProfits
<1> QED BY <1>3 DEF Booked, b

-----------------------------------------------------------------------------
(* Types: the variables                                                    *)

\* TypeOK, less what SurvivorIInv says of scenario, pc and the rows.
Typed ==
  /\ cand \in Candidates \cup {NoCandidate}
  /\ tx \in Candidates \cup {NoCandidate}
  /\ candRow \in Candidates \cup {NoCandidate}
  /\ pos \in Positions \cup {NoPosition}
  /\ \A i \in Ids : rows[i].p \in Positions \cup {NoPosition}
  /\ intentRow \in Intents
  /\ buyQ \in Answers /\ sellQ \in [Parts -> Answers]
  /\ posId \in Ids \cup {0}

LEMMA ScenarioTyped ==
  ASSUME scenario \in Scenarios
  PROVE  /\ profile \in Profiles /\ scenario.prices \subseteq Prices
         /\ scenario.records \subseteq Records
BY ScenarioAssumption DEF ScenarioAssumption, profile

\* The row of the position is written.
LEMMA RowTyped ==
  ASSUME SurvivorIInv, Typed, pos # NoPosition, NEW p \in Positions, PersistPosition(p)
  PROVE  \A i \in Ids : rows'[i].p \in Positions \cup {NoPosition}
<1>1. posId \in Ids /\ DOMAIN rows = Ids /\ RowShape(rows[posId])
  BY DEF SurvivorIInv, PositionPart, Owned, RowsWith, RowsShape
<1>2. rows'[posId] = [rows[posId] EXCEPT !.p = Rowed(p)] /\ \A i \in Ids \ {posId} : rows'[i] = rows[i]
  BY <1>1 DEF PersistPosition
<1>3. rows'[posId].p = Rowed(p) BY <1>1, <1>2 DEF RowShape
<1> QED BY <1>2, <1>3, RowedTyped DEF Typed

LEMMA NoIntentTyped == NoIntent \in Intents /\ \A r \in Reasons, k \in Parts : [reason |-> r, part |-> k] \in Intents
BY DEF Intents

\* A sale is booked or waits for its quote.
LEMMA SellTyped ==
  ASSUME SurvivorIInv, Typed, pos # NoPosition, NEW p \in Positions, NEW reason \in Reasons,
         NEW part \in Parts, NEW persists \in BOOLEAN, Sell(p, reason, part, persists),
         UNCHANGED <<cand, tx, posId, buyQ>>
  PROVE  Typed'
<1> DEFINE sold == [Booked(p, reason) EXCEPT !.dirty = FALSE]
           waiting == [p EXCEPT !.intent = [reason |-> reason, part |-> part], !.dirty = @ /\ ~persists]
<1>1. sold \in Positions
  <2>1. ASSUME NEW b \in Positions PROVE [b EXCEPT !.dirty = FALSE] \in Positions BY DEF Positions
  <2> QED BY <2>1, BookedTyped
<1>2. [sold EXCEPT !.intent = NoIntent] \in Positions
  <2> HIDE DEF sold
  <2> QED BY <1>1, NoIntentTyped, IntentTyped
<1>3. waiting \in Positions BY NoIntentTyped, IntentTyped
<1>4. waiting.intent = [reason |-> reason, part |-> part] BY DEF Positions
<1>5. NoAnswers \in [Parts -> Answers] BY DEF NoAnswers, Answers
<1>6. CASE BookSale(p, reason, part)
  <2>1. /\ sellQ' = NoAnswers /\ candRow' = tx
        /\ \/ pos' = [sold EXCEPT !.intent = NoIntent] /\ intentRow' = NoIntent /\ rows' = rows
           \/ pos' = sold /\ PersistPosition(sold) /\ intentRow' = intentRow
    BY <1>6 DEF BookSale, Commit
  <2> HIDE DEF sold
  <2> QED BY <1>1, <1>2, <1>5, <2>1, RowTyped, NoIntentTyped DEF Typed
<1>7. CASE AwaitQuote(p, reason, part, persists)
  <2>1. /\ sellQ' = [sellQ EXCEPT ![part] = IF @ = "bad" THEN "none" ELSE "pending"] /\ candRow' = tx
        /\ pos' = waiting /\ intentRow' = waiting.intent
        /\ rows' = rows \/ PersistPosition(waiting)
    BY <1>7 DEF AwaitQuote, Commit
  <2>2. sellQ' \in [Parts -> Answers] BY <2>1 DEF Typed, Answers
  <2> HIDE DEF waiting
  <2> QED BY <1>3, <1>4, <2>1, <2>2, RowTyped, NoIntentTyped DEF Typed
<1> QED BY <1>6, <1>7 DEF Sell

LEMMA PartsTyped ==
  /\ \A r \in Reasons : PartOf(r) \in Parts
  /\ "HALF" \in Parts /\ "ALL" \in Parts
  /\ CommittedPart \in Parts
BY DEF PartOf, Parts, CommittedPart

\* The owner's pass over the open position.
LEMMA PositionTyped ==
  ASSUME SurvivorIInv, Typed, NEW obs, EvaluateOpenPosition(obs)
  PROVE  Typed'
<1>1. /\ pos \in Positions /\ pos # NoPosition /\ pos.intent = intentRow
      /\ UNCHANGED <<cand, tx, posId, buyQ>>
  BY DEF EvaluateOpenPosition, Typed, SurvivorIInv, PositionPart, IntentKept
<1>2. CASE RetryCommittedExit
  <2>1. Committed /\ Sell(pos, pos.intent.reason, CommittedPart, FALSE) BY <1>2 DEF RetryCommittedExit
  <2>2. pos.intent.reason \in Reasons
    BY <1>1, <2>1 DEF Committed, SurvivorIInv, PositionPart, IntentKept
  <2> QED BY <1>1, <2>1, <2>2, PartsTyped, SellTyped
<1>3. ASSUME EvaluateMark(CandidatePositionMark(pos, cand), obs) PROVE Typed'
  <2> DEFINE p == CandidatePositionMark(pos, cand)
  <2>1. p \in Positions BY <1>1, MarkTyped DEF Typed
  <2> HIDE DEF p
  <2>2. ASSUME NEW q \in Positions, NEW reason \in Reasons, NEW part \in Parts, Sell(q, reason, part, FALSE)
        PROVE  Typed'
    BY <1>1, <2>2, SellTyped
  <2>3. ASSUME NEW q \in Positions, TakeProfit(q) PROVE Typed'
    <3> DEFINE latched == IF q.dirty THEN LatchTpTriggers(q) ELSE q
               next == NextLatchedTp(latched)
               high == HighAfterTp2(latched)
    <3>1. latched \in Positions BY <2>3, LatchTyped
    <3>2. high \in Positions
      <4> HIDE DEF latched
      <4> QED BY <3>1, HighTyped
    <3>3. next \in Reasons \cup {"none"}
      BY DEF NextLatchedTp, TakeProfitOrder, Reasons, TakeProfits
    <3>4. (q.dirty /\ PartOf(next) = "TP") \in BOOLEAN BY <2>3 DEF Positions
    <3>5. \/ next # "none" /\ Sell(IF sellQ[PartOf(next)] = "ok" THEN latched ELSE high,
                                   next, PartOf(next), q.dirty /\ PartOf(next) = "TP")
          \/ /\ pos' = [high EXCEPT !.dirty = FALSE]
             /\ UNCHANGED <<intentRow, sellQ>>
             /\ (PersistPosition(high) /\ candRow' = tx) \/ UNCHANGED <<rows, candRow>>
      BY <2>3 DEF TakeProfit, Commit
    <3> HIDE DEF latched, next, high
    <3>6. CASE next # "none" /\ Sell(IF sellQ[PartOf(next)] = "ok" THEN latched ELSE high,
                                     next, PartOf(next), q.dirty /\ PartOf(next) = "TP")
      BY <1>1, <3>1, <3>2, <3>3, <3>4, <3>6, PartsTyped, SellTyped
    <3>7. CASE /\ pos' = [high EXCEPT !.dirty = FALSE]
               /\ UNCHANGED <<intentRow, sellQ>>
               /\ (PersistPosition(high) /\ candRow' = tx) \/ UNCHANGED <<rows, candRow>>
      <4>1. pos' \in Positions BY <3>2, <3>7, IntentTyped, NoIntentTyped
      <4> QED BY <1>1, <3>2, <3>7, <4>1, RowTyped DEF Typed
    <3> QED BY <3>5, <3>6, <3>7
  <2>4. NoTradeReason(p) \in Reasons \cup {"none"} BY DEF NoTradeReason, Reasons, Protections, HalfSale
  <2>5. ExitReason(profile, HighSinceTp1(p), obs) \in Reasons \cup {"none"}
    BY DEF ExitReason, ProtectionOrder, Reasons, Protections
  <2>6. HighSinceTp1(p) \in Positions BY <2>1, HighTyped
  <2>7. CASE pos' = p /\ UNCHANGED <<rows, intentRow, candRow, sellQ>>
    BY <1>1, <2>1, <2>7 DEF Typed
  <2> QED
    <3>1. EvaluateMark(p, obs) BY <1>3 DEF p
    <3> QED BY <2>1, <2>2, <2>3, <2>4, <2>5, <2>6, <2>7, <3>1, PartsTyped DEF EvaluateMark
<1> QED BY <1>2, <1>3 DEF EvaluateOpenPosition

LEMMA FeedTyped ==
  ASSUME SurvivorIInv, Typed, NEW r \in scenario.records, NEW inAge \in BOOLEAN, OnRecords(r, inAge)
  PROVE  Typed'
<1> DEFINE c0 == IF cand = NoCandidate THEN NewCandidate(inAge) ELSE cand
           c == OnRecord(profile, c0, r)
<1>1. c \in Candidates
  <2>1. profile \in Profiles /\ r \in Records BY ScenarioTyped DEF SurvivorIInv
  <2>2. c0 \in Candidates BY NewTyped DEF Typed
  <2> HIDE DEF c0
  <2> QED BY <2>1, <2>2, RecordTyped
<1>2. /\ cand' = c /\ tx' = c /\ candRow' = c
      /\ pos' = pos \/ (pos # NoPosition /\ pos' = CandidatePositionMark(pos, c))
      /\ UNCHANGED <<posId, rows, intentRow, buyQ, sellQ>>
  BY DEF OnRecords
<1> HIDE DEF c
<1> QED BY <1>1, <1>2, MarkTyped DEF Typed

LEMMA BeginTyped ==
  ASSUME SurvivorIInv, Typed, BeginEvaluate
  PROVE  Typed'
<1>1. UNCHANGED <<candRow, rows, posId, intentRow, buyQ, sellQ>> BY DEF BeginEvaluate
<1>2. CASE UNCHANGED <<cand, tx, pos, ticks>> BY <1>1, <1>2 DEF Typed
<1>3. ASSUME NEW price \in MarketEvents, ApplyEvent(price) PROVE Typed'
  <2> DEFINE seen == [cand EXCEPT !.idle = IF @ = "data" THEN "records" ELSE @]
             c == IF price = 0 THEN Unpriced(seen) ELSE UpdatePrice(profile, seen, price, "BSC_WSS")
  <2>1. /\ cand' = c /\ tx' = c
        /\ pos' = pos \/ (pos # NoPosition /\ pos' = CandidatePositionMark(pos, c))
    BY <1>3 DEF ApplyEvent
  <2>2. cand \in Candidates BY <1>3 DEF ApplyEvent, Typed, SurvivorIInv, CandidatePart
  <2>3. seen \in Candidates BY <2>2 DEF Candidates
  <2>4. /\ profile \in Profiles /\ "BSC_WSS" \in Sources
        /\ price # 0 => price \in Prices
    BY ScenarioTyped DEF SurvivorIInv, MarketEvents, Sources
  <2> HIDE DEF seen
  <2>5. c \in Candidates BY <2>3, <2>4, PriceTyped, UnpricedTyped
  <2> HIDE DEF c
  <2> QED BY <1>1, <2>1, <2>5, MarkTyped DEF Typed
<1> QED BY <1>2, <1>3 DEF BeginEvaluate

\* The owner's pass over the candidate, and the entry.
LEMMA CandidateTyped ==
  ASSUME SurvivorIInv, Typed, NEW flow \in BOOLEAN, EvaluateCandidates(flow)
  PROVE  Typed'
<1> DEFINE c == EvaluateCandidate(profile, cand, wired, flow)
<1>1. cand # NoCandidate => c \in Candidates BY EvaluateTyped DEF Typed
<1>2. \/ cand = NoCandidate /\ UNCHANGED <<cand, tx, candRow, pos, posId, rows, intentRow, buyQ>>
      \/ cand # NoCandidate /\ OpenPosition(c)
      \/ /\ cand # NoCandidate /\ cand' = c /\ tx' \in {c, tx}
         /\ buyQ' \in {buyQ, "none", "pending"}
         /\ UNCHANGED <<candRow, pos, posId, rows, intentRow>>
  BY DEF EvaluateCandidates, AskQuote
<1>3. sellQ' = sellQ BY DEF EvaluateCandidates
<1> HIDE DEF c
<1>4. CASE cand # NoCandidate /\ OpenPosition(c)
  <2> DEFINE native == IF c.native = 0 THEN EntryPrice ELSE c.native
             id == CHOOSE i \in Unused : TRUE
             opened == [c EXCEPT !.native = native, !.state = "POSITION_OPEN"]
             row == [status |-> "OPEN", today |-> TRUE, recent |-> FALSE, p |-> Rowed(NewPosition(native))]
  <2>1. native \in Prices BY <1>1, <1>4, EntryAssumption DEF Candidates, EntryAssumption
  <2>2. opened \in Candidates
    <3> HIDE DEF native
    <3> QED BY <1>1, <1>4, <2>1 DEF Candidates, States, StickyStates
  <2>3. /\ NewPosition(native) \in Positions /\ Rowed(NewPosition(native)) \in Positions
    <3> HIDE DEF native
    <3> QED BY <2>1, NewPositionTyped, RowedTyped
  <2>4. /\ id \in Ids
        /\ pos' = NewPosition(native) /\ posId' = id /\ rows' = [rows EXCEPT ![id] = row]
        /\ intentRow' = NoIntent /\ buyQ' = "none" /\ candRow' = tx
        /\ cand' = opened /\ tx' \in {opened, tx}
    BY <1>4 DEF OpenPosition, Commit, Unused, RowsWith
  <2>5. DOMAIN rows = Ids BY DEF SurvivorIInv, PositionPart, RowsShape
  <2>6. row.p = Rowed(NewPosition(native)) OBVIOUS
  <2> HIDE DEF native, id, opened, row
  <2>7. \A i \in Ids : rows'[i] = row \/ rows'[i] = rows[i] BY <2>4, <2>5
  <2> QED BY <1>3, <2>2, <2>3, <2>4, <2>6, <2>7, NoIntentTyped DEF Typed, Answers
<1>5. CASE /\ cand # NoCandidate /\ cand' = c /\ tx' \in {c, tx}
           /\ buyQ' \in {buyQ, "none", "pending"}
           /\ UNCHANGED <<candRow, pos, posId, rows, intentRow>>
  BY <1>1, <1>3, <1>5 DEF Typed, Answers
<1>6. CASE cand = NoCandidate /\ UNCHANGED <<cand, tx, candRow, pos, posId, rows, intentRow, buyQ>>
  BY <1>3, <1>6 DEF Typed
<1> QED BY <1>2, <1>4, <1>5, <1>6

\* The second commit of a sale.
LEMMA ClosingTyped ==
  ASSUME SurvivorIInv, Typed, ClearExitIntent \/ PersistClosed
  PROVE  Typed'
<1>1. pos \in Positions /\ posId \in Ids /\ DOMAIN rows = Ids /\ RowShape(rows[posId])
  BY DEF ClearExitIntent, PersistClosed, SurvivorIInv, PositionPart, Owned, Typed, RowsWith, RowsShape
<1>2. CASE ClearExitIntent
  BY <1>1, <1>2, IntentTyped, NoIntentTyped DEF ClearExitIntent, Commit, Typed
<1>3. CASE PersistClosed
  <2>1. /\ pos' = NoPosition /\ candRow' = tx /\ UNCHANGED <<tx, posId, intentRow, buyQ, sellQ>>
        /\ rows' = [rows EXCEPT ![posId].status = "CLOSED", ![posId].recent = TRUE, ![posId].p = Rowed(pos)]
        /\ cand' = IF cand = NoCandidate THEN cand ELSE [cand EXCEPT !.state = "POSITION_CLOSED"]
    BY <1>3 DEF PersistClosed, Commit
  <2>2. rows'[posId] = [rows[posId] EXCEPT !.status = "CLOSED", !.recent = TRUE, !.p = Rowed(pos)]
        /\ \A i \in Ids \ {posId} : rows'[i] = rows[i]
    BY <1>1, <2>1
  <2>3. rows'[posId].p = Rowed(pos) BY <1>1, <2>2 DEF RowShape
  <2>4. cand' \in Candidates \cup {NoCandidate} BY <2>1, StateTyped DEF Typed, States
  <2> QED BY <1>1, <2>1, <2>2, <2>3, <2>4, RowedTyped DEF Typed
<1> QED BY <1>2, <1>3

LEMMA FinishTyped ==
  ASSUME SurvivorIInv, Typed, NEW prunes \in BOOLEAN, Finish(prunes)
  PROVE  Typed'
<1>1. \A i \in Ids : rows'[i] = rows[i] \/ rows'[i] = [rows[i] EXCEPT !.status = "gone", !.p = NoPosition]
  BY DEF Finish
<1>2. \A i \in Ids : RowShape(rows[i]) BY DEF SurvivorIInv, PositionPart, RowsShape
<1>3. \A i \in Ids : rows'[i].p \in {rows[i].p, NoPosition} BY <1>1, <1>2 DEF RowShape
<1> QED BY <1>3 DEF Finish, Typed

\* The clock, the day, a death, a quote worker.
LEMMA RestTyped ==
  ASSUME SurvivorIInv, Typed, Clock \/ NextDay \/ Die \/ QuoteWorker
  PROVE  Typed'
<1>1. CASE Clock
  <2>1. cand \in Candidates /\ UNCHANGED <<tx, candRow, pos, posId, rows, intentRow, buyQ, sellQ>>
    BY <1>1 DEF Clock, Typed, diskVars
  <2>2. cand' \in Candidates BY <1>1, <2>1, AgedTyped DEF Clock
  <2> QED BY <2>1, <2>2 DEF Typed
<1>2. CASE NextDay
  <2>1. \A i \in Ids : RowShape(rows[i]) BY DEF SurvivorIInv, PositionPart, RowsShape
  <2>2. \A i \in Ids : rows'[i] = [rows[i] EXCEPT !.today = FALSE, !.recent = FALSE]
    BY <1>2 DEF NextDay, DayPassed
  <2>3. \A i \in Ids : rows'[i].p = rows[i].p BY <2>1, <2>2 DEF RowShape
  <2> QED BY <1>2, <2>3, SilentTyped DEF NextDay, Typed
<1>3. CASE Die
  <2>1. NoAnswers \in [Parts -> Answers] /\ "none" \in Answers BY DEF NoAnswers, Answers
  <2> QED BY <1>3, <2>1 DEF Die, Typed, diskVars
<1>4. CASE QuoteWorker
  <2>1. "ok" \in Answers /\ "bad" \in Answers BY DEF Answers
  <2> QED BY <1>4, <2>1 DEF QuoteWorker, Typed, diskVars
<1> QED BY <1>1, <1>2, <1>3, <1>4

LEMMA RestartTyped ==
  ASSUME SurvivorIInv, Typed, Restart
  PROVE  Typed'
<1>1. /\ UNCHANGED <<tx, buyQ, sellQ, candRow, rows, intentRow>>
      /\ \/ candRow = NoCandidate /\ cand' = NoCandidate
         \/ candRow # NoCandidate /\ cand' \in {candRow, Aged(candRow)}
  BY DEF Restart, diskVars
<1>2. cand' \in Candidates \cup {NoCandidate} BY <1>1, AgedTyped DEF Typed
<1>3. pos' \in Positions \cup {NoPosition} /\ posId' \in Ids \cup {0}
  <2>1. CASE RowsWith("OPEN") = {} BY <2>1 DEF Restart, Typed
  <2>2. CASE RowsWith("OPEN") # {}
    <3>1. posId' \in RowsWith("OPEN") /\ pos' = LoadPosition(rows[posId'].p, intentRow)
      BY <2>2 DEF Restart
    <3>2. posId' \in Ids /\ rows[posId'].p \in Positions
      BY <3>1, Present DEF RowsWith, SurvivorIInv, PositionPart, RowsShape, RowShape, Typed
    <3>3. pos' \in Positions BY <3>1, <3>2, IntentTyped DEF LoadPosition, Typed
    <3> QED BY <3>2, <3>3
  <2> QED BY <2>1, <2>2
<1> QED BY <1>1, <1>2, <1>3 DEF Typed

LEMMA TypedInit == Init => Typed
BY NoIntentTyped DEF Init, Typed, NoRow, NoAnswers, Answers

LEMMA TypedNext == SurvivorIInv /\ Typed /\ [Next]_vars => Typed'
<1> SUFFICES ASSUME SurvivorIInv, Typed, [Next]_vars PROVE Typed' OBVIOUS
<1>1. CASE UNCHANGED vars BY <1>1 DEF vars, memoryVars, diskVars, Typed
<1>2. CASE SetPaused \/ WireVenue \/ EvaluateNoPosition
  BY <1>2 DEF SetPaused, WireVenue, EvaluateNoPosition, memoryVars, diskVars, Typed
<1>3. CASE \E r \in scenario.records, inAge \in BOOLEAN : OnRecords(r, inAge) BY <1>3, FeedTyped
<1>4. CASE \E obs \in scenario.observations : EvaluateOpenPosition(obs) BY <1>4, PositionTyped
<1>5. CASE \E flow \in BOOLEAN : EvaluateCandidates(flow) BY <1>5, CandidateTyped
<1>6. CASE \E prunes \in BOOLEAN : Finish(prunes) BY <1>6, FinishTyped
<1>7. CASE BeginEvaluate \/ ClearExitIntent \/ PersistClosed BY <1>7, BeginTyped, ClosingTyped
<1>8. CASE Clock \/ NextDay \/ Die \/ QuoteWorker \/ Restart BY <1>8, RestTyped, RestartTyped
<1> QED BY <1>1, <1>2, <1>3, <1>4, <1>5, <1>6, <1>7, <1>8 DEF Next

\* Every variable of the engine holds what the code can put there, whatever
\* the feed, the venue and the operator send (SurvivorCandidate, SurvivorPosition,
\* runtime_state).
THEOREM Types == Spec => []TypeOK
<1>1. SurvivorIInv /\ Typed /\ [Next]_vars => Typed' BY TypedNext
<1>2. Spec => []Typed BY <1>1, TypedInit, Invariance, PTL DEF Spec
<1>3. SurvivorIInv /\ Typed => TypeOK
  BY DEF SurvivorIInv, Typed, TypeOK, PositionPart, RowsShape, RowShape
<1> QED BY <1>2, <1>3, Invariance, PTL

-----------------------------------------------------------------------------
(* The ladder of sales                                                     *)

\* A take profit is latched with those before it.
LatchOrder(trig) ==
  /\ "TP2_PLUS_100" \in trig => "TP1_PLUS_50" \in trig
  /\ "TP3_PLUS_200" \in trig => "TP2_PLUS_100" \in trig

\* What was sold of a position that is still open: no sale of the whole, no
\* take profit twice, the flags say what was sold, the second only after the
\* first, and the latches are in order.
OpenLadder(p) ==
  /\ \A k \in DOMAIN p.sold : PartOf(p.sold[k]) # "ALL"
  /\ \A k, l \in DOMAIN p.sold : p.sold[k] = p.sold[l] /\ p.sold[k] \in TakeProfits => k = l
  /\ \A tp \in TakeProfits : tp \in p.filled <=> \E k \in DOMAIN p.sold : p.sold[k] = tp
  /\ \A k, l \in DOMAIN p.sold : p.sold[k] = "TP1_PLUS_50" /\ p.sold[l] = "TP2_PLUS_100" => k < l
  /\ Tp2(p) => Tp1(p)
  /\ LatchOrder(p.trig)
  /\ p.half <=> \E k \in DOMAIN p.sold : p.sold[k] = HalfSale

\* What was sold of a closed one.
ClosedLadder(s) == s # << >> /\ LadderOf(s) /\ PartOf(s[Len(s)]) # "TP"

\* The row has the sales of the position in memory, or lacks the closing one
\* between its two commits; what an intent in the database asks for is due.
LadderPart ==
  /\ \A i \in RowsWith("OPEN") : OpenLadder(rows[i].p)
  /\ \A i \in RowsWith("CLOSED") : ClosedLadder(rows[i].p.sold)
  /\ pos # NoPosition /\ pc # "closing" =>
       /\ OpenLadder(pos)
       /\ pos.sold = rows[posId].p.sold /\ pos.filled = rows[posId].p.filled
       /\ pos.half = rows[posId].p.half
  /\ pc = "closing" =>
       /\ ClosedLadder(pos.sold)
       /\ \E r \in Reasons : /\ pos.sold = Append(rows[posId].p.sold, r)
                             /\ Book!MayClose(rows[posId].p.sold, r)
  /\ intentRow.part = "HALF" => intentRow.reason = HalfSale
  /\ intentRow.reason = HalfSale => intentRow.part = "HALF" \/ \A i \in RowsWith("OPEN") : rows[i].p.half
  /\ intentRow.reason = "TRAILING_25_PERCENT" => \A i \in RowsWith("OPEN") : Tp2(rows[i].p)

\* The rows keep what was sold of every trade, or one part more is sold of the
\* open one.
RowsKept ==
  \A i \in Ids : /\ rows'[i].status = rows[i].status
                 /\ Traded(i) => rows'[i].p.sold = rows[i].p.sold
RowTrimmed ==
  \E i \in Ids : \E reason \in Reasons :
    /\ rows[i].status = "OPEN" /\ rows'[i].status = "OPEN"
    /\ Book!MayTrim(rows[i].p.sold, reason)
    /\ rows'[i].p.sold = Append(rows[i].p.sold, reason)
    /\ \A j \in Ids \ {i} : rows'[j] = rows[j]

\* The same stage of the ladder.
Stage(p, q) ==
  /\ q.sold = p.sold /\ q.filled = p.filled /\ q.half = p.half
  /\ LatchOrder(p.trig) => LatchOrder(q.trig)

\* What the rules see to before they sell a part for a reason.
Due(p, reason, part) ==
  /\ part = "ALL" \/ part = PartOf(reason)
  /\ part = "ALL" => PartOf(reason) # "TP"
  /\ reason \in TakeProfits => reason \notin p.filled
  /\ reason = "TP2_PLUS_100" => Tp1(p)
  /\ reason \in {"TP3_PLUS_200", "TRAILING_25_PERCENT"} => Tp2(p)
  /\ reason \in {"TP1_HIGH_RETRACE_35_PERCENT", "TP1_BREAK_EVEN"} => Tp1(p)
  /\ reason = "TP1_HIGH_RETRACE_35_PERCENT" => ~Tp2(p)
  /\ reason = HalfSale => (part = "ALL" <=> p.half)

-----------------------------------------------------------------------------
(* Positions on the same stage                                             *)
LEMMA StageLadder == \A p, q : Stage(p, q) /\ OpenLadder(p) => OpenLadder(q)
BY DEF Stage, OpenLadder, Tp1, Tp2

LEMMA StageStage == \A p, q, r : Stage(p, q) /\ Stage(q, r) => Stage(p, r)
BY DEF Stage

LEMMA StageDue == \A p, q, reason, part : Stage(p, q) /\ Due(p, reason, part) => Due(q, reason, part)
BY DEF Stage, Due, Tp1, Tp2

LEMMA StageSelf == \A p : Stage(p, p)
BY DEF Stage

LEMMA MarkStage == ASSUME NEW p \in Positions, NEW c PROVE Stage(p, CandidatePositionMark(p, c))
<1>1. ASSUME NEW x, NEW y PROVE Stage(p, SetPositionMark(p, x, y))
  BY DEF Stage, SetPositionMark, Positions
<1> QED BY <1>1, StageSelf DEF CandidatePositionMark

LEMMA HighStage ==
  ASSUME NEW p \in Positions PROVE Stage(p, HighSinceTp1(p)) /\ Stage(p, HighAfterTp2(p))
BY DEF Stage, HighSinceTp1, HighAfterTp2, Positions

LEMMA LatchStage == ASSUME NEW p \in Positions PROVE Stage(p, LatchTpTriggers(p))
<1> DEFINE crossed == {tp \in TakeProfits :
     PnlAtLeast(p, CASE tp = "TP1_PLUS_50" -> 50
                     [] tp = "TP2_PLUS_100" -> 100
                     [] tp = "TP3_PLUS_200" -> 200)}
<1>1. p.mark \in Nat BY PricesNat DEF Positions
<1>2. (PnlAtLeast(p, 100) => PnlAtLeast(p, 50)) /\ (PnlAtLeast(p, 200) => PnlAtLeast(p, 100))
  BY <1>1, PricesNat DEF PnlAtLeast
<1>3. /\ "TP2_PLUS_100" \in crossed => "TP1_PLUS_50" \in crossed
      /\ "TP3_PLUS_200" \in crossed => "TP2_PLUS_100" \in crossed
  <2>1. /\ "TP2_PLUS_100" \in crossed => PnlAtLeast(p, 100)
        /\ "TP3_PLUS_200" \in crossed => PnlAtLeast(p, 200)
    OBVIOUS
  <2>2. /\ PnlAtLeast(p, 50) => "TP1_PLUS_50" \in crossed
        /\ PnlAtLeast(p, 100) => "TP2_PLUS_100" \in crossed
    BY DEF TakeProfits
  <2> HIDE DEF crossed
  <2> QED BY <1>2, <2>1, <2>2
<1>4. LatchTpTriggers(p) = [p EXCEPT !.trig = @ \cup crossed] BY DEF LatchTpTriggers
<1> HIDE DEF crossed
<1>5. LET q == [p EXCEPT !.trig = @ \cup crossed]
      IN q.sold = p.sold /\ q.filled = p.filled /\ q.half = p.half /\ q.trig = p.trig \cup crossed
  BY DEF Positions
<1> QED BY <1>3, <1>4, <1>5 DEF Stage, LatchOrder

LEMMA EditStage ==
  ASSUME NEW p \in Positions, NEW d, NEW i
  PROVE  /\ Stage(p, [p EXCEPT !.dirty = d]) /\ Stage(p, [p EXCEPT !.intent = i])
         /\ Stage(p, [p EXCEPT !.intent = i, !.dirty = @ /\ d])
         /\ Stage(p, Rowed(p))
BY DEF Stage, Rowed, Positions

-----------------------------------------------------------------------------
(* What a sale makes of a ladder                                           *)

\* An open ladder is a ladder.
LEMMA OpenLadderOf ==
  ASSUME NEW p \in Positions, OpenLadder(p)
  PROVE  LadderOf(p.sold)
<1>1. ASSUME NEW tp \in TakeProfits PROVE Cardinality(SalesOf(p.sold, tp)) <= 1
  <2>1. CASE SalesOf(p.sold, tp) = {} BY <2>1, FS_EmptySet
  <2>2. ASSUME NEW k \in SalesOf(p.sold, tp) PROVE Cardinality(SalesOf(p.sold, tp)) <= 1
    <3>1. SalesOf(p.sold, tp) = {k} BY <2>2, <1>1 DEF SalesOf, OpenLadder
    <3> QED BY <3>1, FS_Singleton
  <2> QED BY <2>1, <2>2
<1>2. ASSUME NEW k \in DOMAIN p.sold
      PROVE  p.sold[k] \notin {"TRAILING_25_PERCENT", "TP1_HIGH_RETRACE_35_PERCENT", "TP1_BREAK_EVEN"}
  BY DEF OpenLadder, PartOf, HalfSale
<1> QED BY <1>1, <1>2 DEF LadderOf, OpenLadder

\* The flags a booked sale sets.
LEMMA BookedSale ==
  ASSUME NEW p \in Positions, NEW reason \in Reasons
  PROVE  /\ Booked(p, reason).sold = Append(p.sold, reason)
         /\ Booked(p, reason).trig = p.trig
         /\ Booked(p, reason).filled =
              CASE reason \in {"TP1_PLUS_50", "TP1_HIGH_RETRACE_35_PERCENT", "TP1_BREAK_EVEN"} ->
                     p.filled \cup {"TP1_PLUS_50"}
                [] reason \in {"TP2_PLUS_100", "TP3_PLUS_200"} -> p.filled \cup {reason}
                [] OTHER -> p.filled
<1> DEFINE b == [p EXCEPT !.sold = Append(@, reason), !.half = @ \/ reason = HalfSale]
<1>1. DOMAIN b = DOMAIN p /\ b.sold = Append(p.sold, reason) /\ b.trig = p.trig /\ b.filled = p.filled
  BY DEF Positions
<1>2. DOMAIN p = PositionFields BY Fields DEF Positions
<1> HIDE DEF b
<1>3. /\ MarkTpFilled(b, reason).sold = b.sold /\ MarkTpFilled(b, reason).trig = b.trig
      /\ MarkTpFilled(b, reason).filled =
           CASE reason \in {"TP1_PLUS_50", "TP1_HIGH_RETRACE_35_PERCENT", "TP1_BREAK_EVEN"} ->
                  b.filled \cup {"TP1_PLUS_50"}
             [] reason \in {"TP2_PLUS_100", "TP3_PLUS_200"} -> b.filled \cup {reason}
             [] OTHER -> b.filled
  BY <1>1, <1>2, Fields DEF MarkTpFilled
<1>4. Booked(p, reason) = MarkTpFilled(b, reason) BY DEF Booked, b
<1> QED BY <1>1, <1>3, <1>4

LEMMA BookedHalf ==
  ASSUME NEW p \in Positions, NEW reason \in Reasons
  PROVE  Booked(p, reason).half = (p.half \/ reason = HalfSale)
<1> DEFINE b == [p EXCEPT !.sold = Append(@, reason), !.half = @ \/ reason = HalfSale]
<1>1. DOMAIN b = DOMAIN p /\ b.half = (p.half \/ reason = HalfSale) BY DEF Positions
<1>2. DOMAIN p = PositionFields BY Fields DEF Positions
<1> HIDE DEF b
<1>3. MarkTpFilled(b, reason).half = b.half BY <1>1, <1>2, Fields DEF MarkTpFilled
<1>4. Booked(p, reason) = MarkTpFilled(b, reason) BY DEF Booked, b
<1> QED BY <1>1, <1>3, <1>4

LEMMA AppendFacts ==
  ASSUME NEW s \in Seq(Reasons), NEW r \in Reasons
  PROVE  LET t == Append(s, r)
         IN /\ t \in Seq(Reasons) /\ t # << >> /\ Len(t) = Len(s) + 1 /\ Len(s) \in Nat
            /\ DOMAIN s = 1 .. Len(s) /\ DOMAIN t = 1 .. (Len(s) + 1) /\ t[Len(s) + 1] = r
            /\ \A k \in 1 .. Len(s) : t[k] = s[k]
OBVIOUS

\* A part is sold: the ladder stays open.
LEMMA PartSold ==
  ASSUME NEW p \in Positions, OpenLadder(p), NEW reason \in Reasons, NEW part, Due(p, reason, part),
         part # "ALL"
  PROVE  OpenLadder(Booked(p, reason))
<1> DEFINE q == Booked(p, reason)
           n == Len(p.sold) + 1
<1>1. p.sold \in Seq(Reasons) BY DEF Positions
<1>2. /\ q.sold = Append(p.sold, reason) /\ q.trig = p.trig
      /\ DOMAIN p.sold = 1 .. Len(p.sold) /\ DOMAIN q.sold = 1 .. n /\ Len(p.sold) \in Nat
      /\ q.sold[n] = reason /\ \A k \in 1 .. Len(p.sold) : q.sold[k] = p.sold[k]
  <2>1. q.sold = Append(p.sold, reason) /\ q.trig = p.trig BY BookedSale
  <2> HIDE DEF q
  <2> QED BY <1>1, <2>1, AppendFacts
<1>3. PartOf(reason) # "ALL" BY DEF Due
<1>4. reason \in {"TP1_PLUS_50", "TP2_PLUS_100", HalfSale}
  BY <1>3 DEF PartOf
<1>5. q.filled = IF reason = HalfSale THEN p.filled ELSE p.filled \cup {reason}
  BY <1>4, BookedSale DEF HalfSale
<1>6. \A k \in 1 .. n : k \in 1 .. Len(p.sold) \/ k = n BY <1>2
<1> HIDE DEF q, n
<1>7. \A k \in DOMAIN q.sold : PartOf(q.sold[k]) # "ALL"
  BY <1>2, <1>3, <1>6 DEF OpenLadder
<1>8. reason \in TakeProfits => \A k \in 1 .. Len(p.sold) : p.sold[k] # reason
  BY <1>2 DEF OpenLadder, Due
<1>9. \A k, l \in DOMAIN q.sold : q.sold[k] = q.sold[l] /\ q.sold[k] \in TakeProfits => k = l
  BY <1>2, <1>6, <1>8 DEF OpenLadder
<1>10. ASSUME NEW tp \in TakeProfits PROVE tp \in q.filled <=> \E k \in DOMAIN q.sold : q.sold[k] = tp
  <2>1. n \in 1 .. n /\ 1 .. Len(p.sold) \subseteq 1 .. n BY <1>2 DEF n
  <2>2. tp \in q.filled <=> tp \in p.filled \/ tp = reason
    BY <1>4, <1>5, <1>10 DEF TakeProfits, HalfSale
  <2>3. tp \in p.filled <=> \E k \in 1 .. Len(p.sold) : p.sold[k] = tp BY <1>2, <1>10 DEF OpenLadder
  <2> QED BY <1>2, <1>6, <2>1, <2>2, <2>3
<1>11. \A k, l \in DOMAIN q.sold : q.sold[k] = "TP1_PLUS_50" /\ q.sold[l] = "TP2_PLUS_100" => k < l
  <2> SUFFICES ASSUME NEW k \in DOMAIN q.sold, NEW l \in DOMAIN q.sold,
                      q.sold[k] = "TP1_PLUS_50", q.sold[l] = "TP2_PLUS_100"
               PROVE  k < l
    OBVIOUS
  <2>1. CASE k \in 1 .. Len(p.sold) /\ l \in 1 .. Len(p.sold) BY <1>2, <2>1 DEF OpenLadder
  <2>2. CASE k \in 1 .. Len(p.sold) /\ l = n BY <2>2 DEF n
  <2>3. CASE k = n
    <3>1. reason = "TP1_PLUS_50" BY <1>2, <2>3
    <3>2. ~Tp2(p) BY <3>1 DEF Due, OpenLadder, Tp1, Tp2, TakeProfits
    <3>3. l # n /\ l \in 1 .. Len(p.sold) BY <1>2, <1>6, <3>1
    <3> QED BY <1>2, <3>2, <3>3 DEF OpenLadder, Tp2, TakeProfits
  <2> QED BY <1>2, <1>6, <2>1, <2>2, <2>3
<1>12. Tp2(q) => Tp1(q)
  BY <1>4, <1>5 DEF OpenLadder, Due, Tp1, Tp2, HalfSale
<1>13. LatchOrder(q.trig) BY <1>2 DEF OpenLadder
<1>14. q.half <=> \E k \in DOMAIN q.sold : q.sold[k] = HalfSale
  <2>1. q.half <=> p.half \/ reason = HalfSale BY BookedHalf DEF q
  <2>2. n \in 1 .. n /\ 1 .. Len(p.sold) \subseteq 1 .. n BY <1>2 DEF n
  <2>3. p.half <=> \E k \in 1 .. Len(p.sold) : p.sold[k] = HalfSale BY <1>2 DEF OpenLadder
  <2> QED BY <1>2, <1>6, <2>1, <2>2, <2>3
<1> QED BY <1>7, <1>9, <1>10, <1>11, <1>12, <1>13, <1>14 DEF OpenLadder, q

\* The whole is sold: the ladder is closed.
LEMMA WholeSold ==
  ASSUME NEW p \in Positions, OpenLadder(p), NEW reason \in Reasons, Due(p, reason, "ALL")
  PROVE  ClosedLadder(Append(p.sold, reason))
<1> DEFINE t == Append(p.sold, reason)
           n == Len(p.sold) + 1
<1>1. p.sold \in Seq(Reasons) BY DEF Positions
<1>2. /\ DOMAIN p.sold = 1 .. Len(p.sold) /\ DOMAIN t = 1 .. n /\ Len(p.sold) \in Nat
      /\ t # << >> /\ Len(t) = n
      /\ t[n] = reason /\ \A k \in 1 .. Len(p.sold) : t[k] = p.sold[k]
  BY <1>1, AppendFacts
<1>3. PartOf(reason) # "TP" /\ reason \notin {"TP1_PLUS_50", "TP2_PLUS_100"}
  <2>1. PartOf(reason) # "TP" BY DEF Due
  <2> QED BY <2>1 DEF PartOf, HalfSale
<1>4. \A k \in 1 .. n : k \in 1 .. Len(p.sold) \/ k = n BY <1>2
<1>5. n \in 1 .. n /\ 1 .. Len(p.sold) \subseteq 1 .. n BY <1>2
<1> HIDE DEF t, n
<1>6. ASSUME NEW tp \in TakeProfits PROVE Cardinality(SalesOf(t, tp)) <= 1
  <2>1. \A k, l \in DOMAIN t : t[k] = tp /\ t[l] = tp => k = l
    <3>1. reason = tp => \A k \in 1 .. Len(p.sold) : p.sold[k] # tp
      BY <1>2, <1>6 DEF OpenLadder, Due
    <3> QED BY <1>2, <1>4, <1>6, <3>1 DEF OpenLadder
  <2>2. CASE SalesOf(t, tp) = {} BY <2>2, FS_EmptySet
  <2>3. ASSUME NEW k \in SalesOf(t, tp) PROVE Cardinality(SalesOf(t, tp)) <= 1
    <3>1. SalesOf(t, tp) = {k} BY <2>1, <2>3 DEF SalesOf
    <3>2. Cardinality({k}) = 1 BY FS_Singleton
    <3> QED BY <3>1, <3>2
  <2> QED BY <2>2, <2>3
<1>7. \A k, l \in DOMAIN t : t[k] = "TP1_PLUS_50" /\ t[l] = "TP2_PLUS_100" => k < l
  BY <1>2, <1>3, <1>4 DEF OpenLadder
<1>8. \A k \in DOMAIN t : PartOf(t[k]) = "ALL" => k = Len(t)
  BY <1>2, <1>4 DEF OpenLadder
<1>9. ASSUME NEW k \in DOMAIN t
      PROVE  /\ t[k] = "TRAILING_25_PERCENT" => SalesOf(t, "TP2_PLUS_100") # {}
             /\ t[k] \in {"TP1_HIGH_RETRACE_35_PERCENT", "TP1_BREAK_EVEN"} => SalesOf(t, "TP1_PLUS_50") # {}
  <2>1. ASSUME NEW tp \in TakeProfits, tp \in p.filled PROVE SalesOf(t, tp) # {}
    <3>1. PICK j \in 1 .. Len(p.sold) : p.sold[j] = tp BY <1>2, <2>1 DEF OpenLadder
    <3>2. j \in DOMAIN t /\ t[j] = tp BY <1>2, <1>5, <3>1
    <3> QED BY <3>2 DEF SalesOf
  <2>2. CASE k = n BY <1>2, <2>1, <2>2 DEF Due, Tp1, Tp2, TakeProfits
  <2>3. CASE k \in 1 .. Len(p.sold)
    <3>1. PartOf(t[k]) # "ALL" BY <1>2, <2>3 DEF OpenLadder
    <3> QED BY <3>1 DEF PartOf, HalfSale
  <2> QED BY <1>2, <1>4, <2>2, <2>3
<1>10. LadderOf(t) BY <1>6, <1>7, <1>8, <1>9 DEF LadderOf
<1> QED BY <1>2, <1>3, <1>10 DEF ClosedLadder, t

-----------------------------------------------------------------------------
(* What the exit rules choose is due                                       *)

LEMMA First3 == ASSUME NEW H \in SUBSET (1 .. 3), H # {} PROVE \E i \in H : \A j \in H : i <= j
<1>1. CASE 1 \in H BY <1>1
<1>2. CASE 1 \notin H /\ 2 \in H BY <1>2
<1>3. CASE 1 \notin H /\ 2 \notin H /\ 3 \in H BY <1>3
<1>4. PICK i \in H : i \in 1 .. 3 OBVIOUS
<1>5. i = 1 \/ i = 2 \/ i = 3 BY <1>4
<1> QED BY <1>1, <1>2, <1>3, <1>5

\* The first latched take profit that is not filled is the next of the ladder.
LEMMA TakeProfitDue ==
  ASSUME NEW p \in Positions, OpenLadder(p), NextLatchedTp(p) # "none"
  PROVE  Due(p, NextLatchedTp(p), PartOf(NextLatchedTp(p)))
<1> DEFINE open == {i \in DOMAIN TakeProfitOrder : TakeProfitOrder[i] \in p.trig \ p.filled}
           i == CHOOSE i \in open : \A j \in open : i <= j
<1>1. /\ DOMAIN TakeProfitOrder = 1 .. 3 /\ TakeProfitOrder[1] = "TP1_PLUS_50"
      /\ TakeProfitOrder[2] = "TP2_PLUS_100" /\ TakeProfitOrder[3] = "TP3_PLUS_200"
  BY DEF TakeProfitOrder
<1>2. open \in SUBSET (1 .. 3) BY <1>1
<1>3. open # {} /\ NextLatchedTp(p) = TakeProfitOrder[i] BY DEF NextLatchedTp
<1>4. \A j \in open : TakeProfitOrder[j] \in p.trig \ p.filled OBVIOUS
<1>5. 1 \notin open => "TP1_PLUS_50" \notin p.trig \/ "TP1_PLUS_50" \in p.filled BY <1>1
<1>6. i \in open /\ \A j \in open : i <= j
  <2> HIDE DEF open
  <2>1. \E k \in open : \A j \in open : k <= j BY <1>2, <1>3, First3
  <2> QED BY <2>1
<1> HIDE DEF open, i
<1>7. i \in {1, 2, 3} BY <1>2, <1>6
<1>8. i # 1 => 1 \notin open BY <1>6, <1>7
<1>9. i = 2 => Tp1(p) BY <1>1, <1>4, <1>5, <1>6, <1>8 DEF OpenLadder, LatchOrder, Tp1
<1>10. NextLatchedTp(p) \notin p.filled BY <1>3, <1>4, <1>6
<1>13. 2 \notin open => "TP2_PLUS_100" \notin p.trig \/ "TP2_PLUS_100" \in p.filled
  <2>1. "TP2_PLUS_100" \in p.trig \ p.filled => 2 \in open BY <1>1 DEF open
  <2> QED BY <2>1
<1>14. i = 3 => Tp2(p) BY <1>1, <1>4, <1>6, <1>7, <1>13 DEF OpenLadder, LatchOrder, Tp2
<1>15. NextLatchedTp(p) = "TP3_PLUS_200" => i = 3 BY <1>1, <1>3, <1>7
<1>11. NextLatchedTp(p) = "TP2_PLUS_100" => i = 2 BY <1>1, <1>3, <1>7
<1>12. NextLatchedTp(p) \in {"TP1_PLUS_50", "TP2_PLUS_100", "TP3_PLUS_200"} BY <1>1, <1>3, <1>7
<1> QED BY <1>9, <1>10, <1>11, <1>12, <1>14, <1>15 DEF Due, PartOf, HalfSale

\* A trailing or break-even exit follows the take profit it protects.
LEMMA ProtectionDue ==
  ASSUME NEW prof, NEW p, NEW obs, ExitReason(prof, p, obs) # "none"
  PROVE  Due(p, ExitReason(prof, p, obs), "ALL") /\ ExitReason(prof, p, obs) \in Protections
<1> DEFINE holding == {i \in DOMAIN ProtectionOrder : ProtectionHolds(prof, p, obs, ProtectionOrder[i])}
           i == CHOOSE i \in holding : \A j \in holding : i <= j
           reason == ProtectionOrder[i]
<1>1. holding # {} /\ ExitReason(prof, p, obs) = reason BY DEF ExitReason
<1>2. DOMAIN ProtectionOrder = 1 .. 7 /\ \A k \in 1 .. 7 : ProtectionOrder[k] \in Protections
  BY DEF ProtectionOrder, Protections
<1>3. i \in holding
  <2>1. \E k \in holding : \A j \in holding : k <= j
    <3>1. holding \subseteq 1 .. 7 BY <1>2
    <3> HIDE DEF holding
    <3>2. CASE 1 \in holding BY <3>1, <3>2
    <3>3. CASE 1 \notin holding /\ 2 \in holding BY <3>1, <3>3
    <3>4. CASE 1 \notin holding /\ 2 \notin holding /\ 3 \in holding BY <3>1, <3>4
    <3>5. CASE holding \subseteq 4 .. 7 /\ 4 \in holding BY <3>5
    <3>6. CASE holding \subseteq 5 .. 7 /\ 5 \in holding BY <3>6
    <3>7. CASE holding \subseteq 6 .. 7 /\ 6 \in holding BY <3>7
    <3>8. CASE holding = {7} BY <3>8
    <3>9. holding \subseteq {7} => holding = {7} BY <1>1
    <3> QED BY <3>1, <3>9, <3>2, <3>3, <3>4, <3>5, <3>6, <3>7, <3>8
  <2> HIDE DEF holding
  <2> QED BY <2>1
<1>4. i \in 1 .. 7 /\ ProtectionHolds(prof, p, obs, reason)
  <2>1. \A k \in holding : k \in 1 .. 7 /\ ProtectionHolds(prof, p, obs, ProtectionOrder[k]) BY <1>2
  <2> HIDE DEF holding
  <2> QED BY <1>3, <2>1
<1>5. reason \in Protections BY <1>2, <1>4
<1> HIDE DEF reason, i, holding
<1>6. /\ reason = "TRAILING_25_PERCENT" => Tp2(p)
      /\ reason \in {"TP1_HIGH_RETRACE_35_PERCENT", "TP1_BREAK_EVEN"} => Tp1(p)
      /\ reason = "TP1_HIGH_RETRACE_35_PERCENT" => ~Tp2(p)
  BY <1>4 DEF ProtectionHolds
<1>7. /\ reason \notin TakeProfits /\ reason \notin {"TP2_PLUS_100", "TP3_PLUS_200", HalfSale}
      /\ PartOf(reason) = "ALL"
  BY <1>5 DEF TakeProfits, Protections, PartOf, HalfSale
<1> QED BY <1>1, <1>5, <1>6, <1>7 DEF Due

LEMMA QuietDue ==
  ASSUME NEW p, NoTradeReason(p) # "none"
  PROVE  Due(p, NoTradeReason(p), PartOf(NoTradeReason(p)))
<1>1. NoTradeReason(p) = "NO_TRADE_PNL_LT_10" \/ (NoTradeReason(p) = HalfSale /\ ~p.half) BY DEF NoTradeReason
<1> QED BY <1>1 DEF Due, PartOf, HalfSale, TakeProfits

-----------------------------------------------------------------------------
(* The ladder, step by step                                                *)
LEMMA RowStage ==
  ASSUME SurvivorIInv, pos # NoPosition, NEW p \in Positions, PersistPosition(p)
  PROVE  /\ posId \in Ids /\ rows'[posId].p = Rowed(p) /\ rows'[posId].status = "OPEN"
         /\ \A i \in Ids \ {posId} : rows'[i] = rows[i] /\ rows[i].status # "OPEN"
<1>1. posId \in RowsWith("OPEN") /\ posId \in Ids /\ DOMAIN rows = Ids /\ RowShape(rows[posId])
      /\ \A i \in RowsWith("OPEN") : i = posId
  BY DEF SurvivorIInv, PositionPart, Owned, RowsWith, RowsShape, OneOpen
<1>2. rows'[posId] = [rows[posId] EXCEPT !.p = Rowed(p)] /\ \A i \in Ids \ {posId} : rows'[i] = rows[i]
  BY <1>1 DEF PersistPosition
<1>3. rows'[posId].p = Rowed(p) /\ rows'[posId].status = rows[posId].status BY <1>1, <1>2 DEF RowShape
<1> QED BY <1>1, <1>2, <1>3 DEF RowsWith

\* The row is written with a position that follows from it.
LEMMA RowLadder ==
  ASSUME SurvivorIInv, Typed, LadderPart, pos # NoPosition, NEW p \in Positions, OpenLadder(p),
         \/ rows' = rows /\ p.sold = pos.sold /\ p.filled = pos.filled /\ p.half = pos.half
         \/ PersistPosition(p),
         posId' = posId, pos'.sold = p.sold, pos'.filled = p.filled, pos'.half = p.half, OpenLadder(pos'),
         pc' # "closing", Tp2(pos) => Tp2(p), pos.half => p.half, pc # "closing",
         intentRow'.part = "HALF" => intentRow'.reason = HalfSale,
         intentRow'.reason = "TRAILING_25_PERCENT" =>
            intentRow'.reason = intentRow.reason \/ Tp2(p),
         intentRow'.reason = HalfSale =>
            intentRow' = intentRow \/ intentRow'.part = "HALF" \/ p.half
  PROVE  LadderPart'
<1>1. /\ posId \in RowsWith("OPEN") /\ \A i \in RowsWith("OPEN") : i = posId
      /\ pos.sold = rows[posId].p.sold /\ pos.filled = rows[posId].p.filled
      /\ pos.half = rows[posId].p.half
      /\ intentRow.reason = HalfSale => intentRow.part = "HALF" \/ pos.half
      /\ intentRow.reason = "TRAILING_25_PERCENT" => Tp2(pos)
  BY DEF SurvivorIInv, PositionPart, Owned, OneOpen, LadderPart, Tp2
<1>2. CASE rows' = rows /\ p.sold = pos.sold /\ p.filled = pos.filled /\ p.half = pos.half
  BY <1>1, <1>2 DEF LadderPart, RowsWith, Tp2
<1>3. CASE PersistPosition(p)
  <2>1. /\ posId \in Ids /\ rows'[posId].p = Rowed(p) /\ rows'[posId].status = "OPEN"
        /\ \A i \in Ids \ {posId} : rows'[i] = rows[i] /\ rows[i].status # "OPEN"
    BY <1>3, RowStage
  <2>2. Stage(p, Rowed(p)) /\ OpenLadder(Rowed(p)) BY EditStage, StageLadder
  <2>3. /\ Rowed(p).sold = p.sold /\ Rowed(p).filled = p.filled /\ Rowed(p).half = p.half
        /\ Tp2(p) => Tp2(Rowed(p))
    BY <2>2 DEF Stage, Tp2
  <2>4. \A i \in RowsWith("OPEN")' : i = posId BY <2>1 DEF RowsWith
  <2>5. \A i \in RowsWith("CLOSED")' : rows'[i] = rows[i] /\ i \in RowsWith("CLOSED") BY <2>1 DEF RowsWith
  <2> QED BY <1>1, <2>1, <2>2, <2>3, <2>4, <2>5 DEF LadderPart
<1> QED BY <1>2, <1>3

\* The row is written and nothing was sold.
LEMMA RowKept ==
  ASSUME SurvivorIInv, pos # NoPosition, NEW p \in Positions, PersistPosition(p) \/ rows' = rows,
         p.sold = rows[posId].p.sold
  PROVE  RowsKept
<1>1. CASE rows' = rows BY <1>1 DEF RowsKept
<1>2. CASE PersistPosition(p)
  <2>1. /\ posId \in Ids /\ rows'[posId].p = Rowed(p) /\ rows'[posId].status = "OPEN"
        /\ \A i \in Ids \ {posId} : rows'[i] = rows[i]
    BY <1>2, RowStage
  <2>2. rows[posId].status = "OPEN" BY DEF SurvivorIInv, PositionPart, Owned, RowsWith
  <2>3. Rowed(p).sold = p.sold BY EditStage DEF Stage
  <2> QED BY <2>1, <2>2, <2>3 DEF RowsKept
<1> QED BY <1>1, <1>2

\* What the book admits of what is due.
LEMMA DueTrim ==
  ASSUME NEW p, OpenLadder(p), NEW reason \in Reasons, NEW part, Due(p, reason, part), part # "ALL"
  PROVE  Book!MayTrim(p.sold, reason)
<1>1. reason \in {"TP1_PLUS_50", "TP2_PLUS_100", HalfSale}
  <2>1. PartOf(reason) # "ALL" BY DEF Due
  <2> QED BY <2>1 DEF PartOf
<1>2. \A tp \in TakeProfits : tp \in p.filled <=> Book!Has(p.sold, tp) BY DEF OpenLadder, Book!Has
<1>3. p.half <=> Book!Has(p.sold, HalfSale) BY DEF OpenLadder, Book!Has
<1>4. ~Book!Has(p.sold, reason) BY <1>1, <1>2, <1>3 DEF Due, TakeProfits
<1>5. reason = "TP2_PLUS_100" => Book!Has(p.sold, "TP1_PLUS_50") BY <1>2 DEF Due, Tp1, TakeProfits
<1> QED BY <1>1, <1>4, <1>5 DEF Book!MayTrim, Book!Trims, Book!TP1, Book!TP2, Book!HALF, HalfSale

LEMMA DueClose ==
  ASSUME NEW p, OpenLadder(p), NEW reason \in Reasons, Due(p, reason, "ALL")
  PROVE  Book!MayClose(p.sold, reason)
<1>1. \A tp \in TakeProfits : tp \in p.filled <=> Book!Has(p.sold, tp) BY DEF OpenLadder, Book!Has
<1>2. p.half <=> Book!Has(p.sold, HalfSale) BY DEF OpenLadder, Book!Has
<1>3. (Tp1(p) <=> Book!Has(p.sold, "TP1_PLUS_50")) /\ (Tp2(p) <=> Book!Has(p.sold, "TP2_PLUS_100"))
  BY <1>1 DEF Tp1, Tp2, TakeProfits
<1>4. reason \in Book!Closings
  <2>1. PartOf(reason) # "TP" BY DEF Due
  <2>2. reason \in (TakeProfits \ {"TP1_PLUS_50", "TP2_PLUS_100"}) \cup Protections \cup {HalfSale}
    BY <2>1 DEF PartOf, Reasons
  <2> QED BY <2>2 DEF TakeProfits, Protections, HalfSale, Book!Closings, Book!TP3, Book!HALF
<1>5. /\ reason \in {"TP3_PLUS_200", "TRAILING_25_PERCENT"} => Book!Has(p.sold, "TP2_PLUS_100")
      /\ reason \in {"TP1_HIGH_RETRACE_35_PERCENT", "TP1_BREAK_EVEN"} => Book!Has(p.sold, "TP1_PLUS_50")
      /\ reason = "TP1_HIGH_RETRACE_35_PERCENT" => ~Book!Has(p.sold, "TP2_PLUS_100")
      /\ reason = HalfSale => Book!Has(p.sold, HalfSale)
  BY <1>2, <1>3 DEF Due
<1> QED BY <1>4, <1>5 DEF Book!MayClose, Book!TP1, Book!TP2, Book!TP3, Book!HALF, HalfSale

\* A due sale is booked or awaited.
LEMMA SellLadder ==
  ASSUME SurvivorIInv, Typed, LadderPart, pc = "positions", pos # NoPosition, posId' = posId,
         NEW p \in Positions, Stage(pos, p), NEW reason \in Reasons, NEW part \in Parts,
         NEW persists \in BOOLEAN, Due(p, reason, part), Sell(p, reason, part, persists)
  PROVE  LadderPart' /\ (RowsKept \/ RowTrimmed)
<1>1. /\ OpenLadder(p) /\ p.sold = rows[posId].p.sold /\ p.filled = rows[posId].p.filled
      /\ p.half = rows[posId].p.half
  BY StageLadder DEF LadderPart, Stage
<1>2. p.sold = pos.sold /\ p.filled = pos.filled /\ p.half = pos.half /\ (Tp2(pos) => Tp2(p)) BY DEF Stage, Tp2
<1> DEFINE b == Booked(p, reason)
           sold == [b EXCEPT !.dirty = FALSE]
           waiting == [p EXCEPT !.intent = [reason |-> reason, part |-> part], !.dirty = @ /\ ~persists]
<1>3. b \in Positions BY BookedTyped
<1>4. b.sold = Append(p.sold, reason) /\ (Tp2(p) => Tp2(b)) /\ (p.half => b.half)
  <2> HIDE DEF b
  <2>1. Tp2(p) => Tp2(Booked(p, reason)) BY BookedSale DEF Tp2
  <2>2. Booked(p, reason).sold = Append(p.sold, reason) BY BookedSale
  <2>3. p.half => Booked(p, reason).half BY BookedHalf
  <2> QED BY <2>1, <2>2, <2>3 DEF b
<1>5. part # "ALL" => OpenLadder(b) BY <1>1, PartSold
<1>6. part = "ALL" => ClosedLadder(b.sold) BY <1>1, <1>4, WholeSold
<1>7. CASE BookSale(p, reason, part)
  <2>1. \/ /\ part = "ALL" /\ pos' = [sold EXCEPT !.intent = NoIntent] /\ intentRow' = NoIntent
           /\ pc' = "closing" /\ rows' = rows
        \/ /\ part # "ALL" /\ pos' = sold /\ PersistPosition(sold) /\ pc' = "clearing"
           /\ intentRow' = intentRow
    BY <1>7 DEF BookSale
  <2> HIDE DEF b
  <2>2. sold \in Positions /\ Stage(b, sold)
    <3>1. ASSUME NEW x \in Positions PROVE [x EXCEPT !.dirty = FALSE] \in Positions BY DEF Positions
    <3> QED BY <1>3, <3>1, EditStage
  <2> HIDE DEF sold
  <2>3. Stage(sold, [sold EXCEPT !.intent = NoIntent]) BY <2>2, EditStage
  <2>4. CASE part = "ALL" /\ pos' = [sold EXCEPT !.intent = NoIntent] /\ intentRow' = NoIntent
             /\ pc' = "closing" /\ rows' = rows
    <3>1. pos'.sold = Append(rows[posId].p.sold, reason) /\ ClosedLadder(pos'.sold)
      BY <1>1, <1>4, <1>6, <2>2, <2>3, <2>4 DEF Stage
    <3>2. NoIntent.part # "HALF" /\ NoIntent.reason \notin {"TRAILING_25_PERCENT", HalfSale}
      BY DEF NoIntent, HalfSale
    <3>3. Book!MayClose(rows[posId].p.sold, reason) BY <1>1, <2>4, DueClose
    <3> QED BY <2>4, <3>1, <3>2, <3>3 DEF LadderPart, RowsWith, RowsKept
  <2>5. CASE part # "ALL" /\ pos' = sold /\ PersistPosition(sold) /\ pc' = "clearing"
             /\ intentRow' = intentRow
    <3>1. OpenLadder(sold) /\ (Tp2(b) => Tp2(sold)) /\ sold.half = b.half /\ sold.sold = b.sold
      BY <1>5, <2>2, <2>5, StageLadder DEF Stage, Tp2
    <3>2. intentRow'.part = "HALF" => intentRow'.reason = HalfSale BY <2>5 DEF LadderPart
    <3>3. LadderPart' BY <1>2, <1>4, <2>2, <2>5, <3>1, <3>2, RowLadder
    <3>4. Book!MayTrim(rows[posId].p.sold, reason) BY <1>1, <2>5, DueTrim
    <3>5. /\ posId \in Ids /\ rows'[posId].p = Rowed(sold) /\ rows'[posId].status = "OPEN"
          /\ \A i \in Ids \ {posId} : rows'[i] = rows[i]
      BY <2>2, <2>5, RowStage
    <3>6. rows[posId].status = "OPEN" BY DEF SurvivorIInv, PositionPart, Owned, RowsWith
    <3>7. Rowed(sold).sold = sold.sold BY <2>2, EditStage DEF Stage
    <3> QED BY <1>1, <1>4, <3>1, <3>3, <3>4, <3>5, <3>6, <3>7 DEF RowTrimmed
  <2> QED BY <2>1, <2>4, <2>5
<1>8. CASE AwaitQuote(p, reason, part, persists)
  <2>1. /\ pos' = waiting /\ intentRow' = waiting.intent /\ pc' = "candidates"
        /\ rows' = rows \/ PersistPosition(waiting)
    BY <1>8 DEF AwaitQuote
  <2>2. waiting \in Positions /\ Stage(p, waiting) /\ waiting.intent = [reason |-> reason, part |-> part]
    <3>1. waiting.intent = [reason |-> reason, part |-> part] BY DEF Positions
    <3> QED BY <3>1, NoIntentTyped, IntentTyped, EditStage
  <2> HIDE DEF waiting, b
  <2>3. /\ OpenLadder(waiting) /\ waiting.sold = p.sold /\ waiting.filled = p.filled
        /\ waiting.half = p.half /\ (Tp2(p) => Tp2(waiting))
    BY <1>1, <2>2, StageLadder DEF Stage, Tp2
  <2>4. intentRow'.part = part /\ intentRow'.reason = reason BY <2>1, <2>2
  <2>5. part = "HALF" => reason = HalfSale
    <3>1. part = "HALF" => PartOf(reason) = "HALF" BY DEF Due
    <3> QED BY <3>1 DEF PartOf
  <2>6. reason = "TRAILING_25_PERCENT" => Tp2(p) BY DEF Due
  <2>7. reason = HalfSale => part = "HALF" \/ p.half BY DEF Due, PartOf, HalfSale
  <2>8. LadderPart' BY <1>2, <2>1, <2>2, <2>3, <2>4, <2>5, <2>6, <2>7, RowLadder
  <2>9. RowsKept BY <1>1, <2>1, <2>2, <2>3, RowKept
  <2> QED BY <2>8, <2>9
<1> QED BY <1>7, <1>8 DEF Sell

\* Nothing is sold and no row changes its ladder.
LEMMA LadderKept ==
  ASSUME SurvivorIInv, LadderPart, pc # "closing", pc' # "closing",
         UNCHANGED <<rows, posId>>, intentRow' \in {intentRow, NoIntent},
         pos' = pos \/ pos' = NoPosition \/ (pos # NoPosition /\ Stage(pos, pos'))
  PROVE  LadderPart'
<1>1. NoIntent.part # "HALF" /\ NoIntent.reason \notin {"TRAILING_25_PERCENT", HalfSale}
  BY DEF NoIntent, HalfSale
<1>2. pos' # NoPosition => pos # NoPosition /\ Stage(pos, pos') BY StageSelf
<1>3. pos' # NoPosition => /\ OpenLadder(pos')
                           /\ pos'.sold = rows[posId].p.sold /\ pos'.filled = rows[posId].p.filled
                           /\ pos'.half = rows[posId].p.half
  BY <1>2, StageLadder DEF LadderPart, Stage
<1>4. RowsWith("OPEN")' = RowsWith("OPEN") /\ RowsWith("CLOSED")' = RowsWith("CLOSED") BY DEF RowsWith
<1> QED BY <1>1, <1>3, <1>4 DEF LadderPart

\* The owner's pass over the open position.
LEMMA PositionLadder ==
  ASSUME SurvivorIInv, Typed, LadderPart, NEW obs, EvaluateOpenPosition(obs)
  PROVE  LadderPart' /\ (RowsKept \/ RowTrimmed)
<1>1. /\ pc = "positions" /\ pos \in Positions /\ pos # NoPosition /\ pos.intent = intentRow /\ posId' = posId
      /\ OpenLadder(pos) /\ posId \in RowsWith("OPEN")
  BY DEF EvaluateOpenPosition, Typed, SurvivorIInv, PositionPart, Owned, IntentKept, LadderPart
<1>2. CASE RetryCommittedExit
  <2>1. Committed /\ Sell(pos, pos.intent.reason, CommittedPart, FALSE) BY <1>2 DEF RetryCommittedExit
  <2> DEFINE reason == intentRow.reason
  <2>2. reason \in Reasons /\ reason \notin StartsWithTP
    BY <1>1, <2>1 DEF Committed, SurvivorIInv, PositionPart, IntentKept
  <2>3. Due(pos, reason, CommittedPart)
    <3>1. CommittedPart = "ALL" \/ (CommittedPart = "HALF" /\ reason = HalfSale)
      BY <1>1 DEF CommittedPart, LadderPart
    <3>6. pos.half = rows[posId].p.half /\ (pos.half <=> \E k \in DOMAIN pos.sold : pos.sold[k] = HalfSale)
      BY <1>1 DEF LadderPart, OpenLadder
    <3>7. reason = HalfSale => (CommittedPart = "ALL" <=> pos.half)
      BY <1>1, <3>6 DEF CommittedPart, LadderPart
    <3>2. reason \notin TakeProfits /\ reason \notin {"TP1_HIGH_RETRACE_35_PERCENT", "TP1_BREAK_EVEN"}
      BY <2>2 DEF StartsWithTP
    <3>3. reason \in {"TP3_PLUS_200", "TRAILING_25_PERCENT"} => Tp2(pos)
      BY <1>1, <3>2 DEF LadderPart, Tp2, TakeProfits
    <3>4. PartOf(reason) # "TP" /\ reason # "TP2_PLUS_100" BY <3>2 DEF PartOf, TakeProfits
    <3>5. PartOf(HalfSale) = "HALF" BY DEF PartOf, HalfSale
    <3> HIDE DEF reason
    <3> QED BY <3>1, <3>2, <3>3, <3>4, <3>5, <3>7 DEF Due
  <2> QED BY <1>1, <2>1, <2>2, <2>3, PartsTyped, StageSelf, SellLadder
<1>3. ASSUME EvaluateMark(CandidatePositionMark(pos, cand), obs) PROVE LadderPart' /\ (RowsKept \/ RowTrimmed)
  <2> DEFINE p == CandidatePositionMark(pos, cand)
  <2>1. p \in Positions /\ Stage(pos, p) BY <1>1, MarkTyped, MarkStage DEF Typed
  <2> HIDE DEF p
  <2>2. ASSUME NEW q \in Positions, Stage(pos, q), NEW reason \in Reasons, NEW part \in Parts,
               Due(q, reason, part), Sell(q, reason, part, FALSE)
        PROVE  LadderPart' /\ (RowsKept \/ RowTrimmed)
    BY <1>1, <2>2, SellLadder
  <2>3. ASSUME NEW q \in Positions, Stage(pos, q), TakeProfit(q) PROVE LadderPart' /\ (RowsKept \/ RowTrimmed)
    <3> DEFINE latched == IF q.dirty THEN LatchTpTriggers(q) ELSE q
               next == NextLatchedTp(latched)
               high == HighAfterTp2(latched)
    <3>1. latched \in Positions /\ Stage(pos, latched)
      BY <2>3, LatchTyped, LatchStage, StageStage
    <3>2. high \in Positions /\ Stage(latched, high)
      <4> HIDE DEF latched
      <4> QED BY <3>1, HighTyped, HighStage
    <3>3. Stage(pos, high) BY <3>1, <3>2, StageStage
    <3>4. next \in Reasons \cup {"none"}
      BY DEF NextLatchedTp, TakeProfitOrder, Reasons, TakeProfits
    <3>5. next # "none" => Due(latched, next, PartOf(next)) /\ Due(high, next, PartOf(next))
      <4>1. OpenLadder(latched) BY <1>1, <3>1, StageLadder
      <4> HIDE DEF latched
      <4>2. next # "none" => Due(latched, next, PartOf(next)) BY <3>1, <4>1, TakeProfitDue
      <4> HIDE DEF next
      <4> QED BY <3>2, <4>2, StageDue
    <3>6. (q.dirty /\ PartOf(next) = "TP") \in BOOLEAN BY <2>3 DEF Positions
    <3>7. \/ next # "none" /\ Sell(IF sellQ[PartOf(next)] = "ok" THEN latched ELSE high,
                                   next, PartOf(next), q.dirty /\ PartOf(next) = "TP")
          \/ /\ pos' = [high EXCEPT !.dirty = FALSE] /\ pc' = "candidates"
             /\ UNCHANGED <<intentRow, sellQ>>
             /\ PersistPosition(high) \/ UNCHANGED rows
      BY <2>3 DEF TakeProfit
    <3> HIDE DEF latched, next, high
    <3>8. CASE next # "none" /\ Sell(IF sellQ[PartOf(next)] = "ok" THEN latched ELSE high,
                                     next, PartOf(next), q.dirty /\ PartOf(next) = "TP")
      BY <1>1, <3>1, <3>2, <3>3, <3>4, <3>5, <3>6, <3>8, PartsTyped, SellLadder
    <3>9. CASE /\ pos' = [high EXCEPT !.dirty = FALSE] /\ pc' = "candidates"
               /\ UNCHANGED <<intentRow, sellQ>>
               /\ PersistPosition(high) \/ UNCHANGED rows
      <4>1. /\ OpenLadder(high) /\ high.sold = pos.sold /\ high.filled = pos.filled
            /\ high.half = pos.half /\ (Tp2(pos) => Tp2(high))
        BY <1>1, <3>3, StageLadder DEF Stage, Tp2
      <4>2. Stage(high, pos') BY <3>2, <3>9, EditStage
      <4>3. OpenLadder(pos') /\ pos'.sold = high.sold /\ pos'.filled = high.filled /\ pos'.half = high.half
        BY <4>1, <4>2, StageLadder DEF Stage
      <4>4. intentRow'.part = "HALF" => intentRow'.reason = HalfSale BY <3>9 DEF LadderPart
      <4>5. LadderPart' BY <1>1, <3>2, <3>9, <4>1, <4>3, <4>4, RowLadder
      <4>6. high.sold = rows[posId].p.sold BY <1>1, <4>1 DEF LadderPart
      <4>7. RowsKept BY <1>1, <3>2, <3>9, <4>6, RowKept
      <4> QED BY <4>5, <4>7
    <3> QED BY <3>7, <3>8, <3>9
  <2>4. HighSinceTp1(p) \in Positions /\ Stage(pos, HighSinceTp1(p))
    BY <2>1, HighTyped, HighStage, StageStage
  <2>5. CASE pos' = p /\ pc' = "candidates" /\ UNCHANGED <<rows, intentRow>>
    BY <1>1, <2>1, <2>5, LadderKept DEF RowsKept
  <2>6. NoTradeReason(p) \in Reasons \cup {"none"} BY DEF NoTradeReason, Reasons, Protections, HalfSale
  <2>7. Protections \subseteq Reasons BY DEF Reasons
  <2>8. EvaluateMark(p, obs) BY <1>3 DEF p
  <2>9. CASE NoTradeReason(p) # "none" /\ Sell(p, NoTradeReason(p), PartOf(NoTradeReason(p)), FALSE)
    BY <2>1, <2>2, <2>6, <2>9, PartsTyped, QuietDue
  <2>10. CASE LET high == HighSinceTp1(p)
                  reason == ExitReason(profile, high, obs)
              IN reason # "none" /\ Sell(high, reason, "ALL", FALSE)
    BY <2>2, <2>4, <2>7, <2>10, PartsTyped, ProtectionDue
  <2>11. CASE TakeProfit(HighSinceTp1(p)) BY <2>3, <2>4, <2>11
  <2> QED BY <2>5, <2>8, <2>9, <2>10, <2>11 DEF EvaluateMark
<1> QED BY <1>2, <1>3 DEF EvaluateOpenPosition

LEMMA FeedLadder ==
  ASSUME SurvivorIInv, Typed, LadderPart, NEW r, NEW inAge, OnRecords(r, inAge)
  PROVE  LadderPart'
<1>1. /\ pc = "idle" /\ pc' = pc /\ UNCHANGED <<rows, posId, intentRow>>
      /\ \/ pos' = pos
         \/ \E c : pos # NoPosition /\ pos' = CandidatePositionMark(pos, c)
  BY DEF OnRecords
<1>2. pos # NoPosition => pos \in Positions BY DEF Typed
<1> QED BY <1>1, <1>2, MarkStage, LadderKept

LEMMA BeginLadder ==
  ASSUME SurvivorIInv, Typed, LadderPart, BeginEvaluate
  PROVE  LadderPart'
<1>1. /\ pc = "idle" /\ pc' = "positions" /\ UNCHANGED <<rows, posId, intentRow>>
      /\ \/ pos' = pos
         \/ \E c : pos # NoPosition /\ pos' = CandidatePositionMark(pos, c)
  BY DEF BeginEvaluate, ApplyEvent
<1>2. pos # NoPosition => pos \in Positions BY DEF Typed
<1> QED BY <1>1, <1>2, MarkStage, LadderKept

\* The closed row takes the sale that closed it.
LEMMA ClosedRowLadder ==
  ASSUME SurvivorIInv, Typed, LadderPart, PersistClosed
  PROVE  LadderPart'
<1>1. /\ pc = "closing" /\ pc' = "candidates" /\ pos' = NoPosition /\ intentRow' = intentRow
      /\ rows' = [rows EXCEPT ![posId].status = "CLOSED", ![posId].recent = TRUE, ![posId].p = Rowed(pos)]
  BY DEF PersistClosed
<1>2. /\ posId \in RowsWith("OPEN") /\ posId \in Ids /\ DOMAIN rows = Ids /\ RowShape(rows[posId])
      /\ pos \in Positions /\ ClosedLadder(pos.sold) /\ intentRow = NoIntent
  BY <1>1 DEF SurvivorIInv, PositionPart, Owned, IntentKept, RowsWith, RowsShape, Typed, LadderPart
<1>3. rows'[posId] = [rows[posId] EXCEPT !.status = "CLOSED", !.recent = TRUE, !.p = Rowed(pos)]
      /\ \A i \in Ids \ {posId} : rows'[i] = rows[i]
  BY <1>1, <1>2
<1>4. rows'[posId].status = "CLOSED" /\ rows'[posId].p = Rowed(pos) BY <1>2, <1>3 DEF RowShape
<1>5. Rowed(pos).sold = pos.sold BY <1>2, EditStage DEF Stage
<1>6. NoIntent.part # "HALF" /\ NoIntent.reason \notin {"TRAILING_25_PERCENT", HalfSale}
  BY DEF NoIntent, HalfSale
<1>7. /\ \A i \in RowsWith("OPEN")' : i \in RowsWith("OPEN") /\ rows'[i] = rows[i]
      /\ \A i \in RowsWith("CLOSED")' : ClosedLadder(rows'[i].p.sold)
  BY <1>2, <1>3, <1>4, <1>5 DEF RowsWith, LadderPart
<1> QED BY <1>1, <1>2, <1>6, <1>7 DEF LadderPart

\* A new position has sold nothing.
LEMMA EntryLadder ==
  ASSUME SurvivorIInv, Typed, LadderPart, NEW c, OpenPosition(c), pc' = "commit"
  PROVE  LadderPart'
<1> DEFINE native == IF c.native = 0 THEN EntryPrice ELSE c.native
           id == CHOOSE i \in Unused : TRUE
           row == [status |-> "OPEN", today |-> TRUE, recent |-> FALSE, p |-> Rowed(NewPosition(native))]
<1>1. /\ id \in Ids /\ DOMAIN rows = Ids
      /\ pos' = NewPosition(native) /\ posId' = id /\ rows' = [rows EXCEPT ![id] = row]
      /\ intentRow' = NoIntent
  BY DEF OpenPosition, Unused, RowsWith, SurvivorIInv, PositionPart, RowsShape
<1>2. ASSUME NEW m PROVE /\ NewPosition(m).half = FALSE /\ Rowed(NewPosition(m)).half = FALSE
                         /\ NewPosition(m).sold = << >> /\ NewPosition(m).filled = {}
                         /\ Rowed(NewPosition(m)).sold = << >> /\ Rowed(NewPosition(m)).filled = {}
                         /\ NewPosition(m).trig = {} /\ Rowed(NewPosition(m)).trig = {}
  BY DEF NewPosition, Rowed
<1>3. ASSUME NEW p, p.sold = << >>, p.filled = {}, p.trig = {}, ~p.half PROVE OpenLadder(p)
  BY <1>3 DEF OpenLadder, LatchOrder, Tp1, Tp2
<1>4. row.p = Rowed(NewPosition(native)) /\ row.status = "OPEN" OBVIOUS
<1> HIDE DEF native, id, row
<1>5. /\ rows'[id] = row /\ \A i \in Ids \ {id} : rows'[i] = rows[i]
      /\ \A i \in RowsWith("CLOSED")' : i \in RowsWith("CLOSED") /\ rows'[i] = rows[i]
      /\ \A i \in RowsWith("OPEN")' : i = id \/ (i \in RowsWith("OPEN") /\ rows'[i] = rows[i])
  BY <1>1, <1>4 DEF RowsWith
<1>6. NoIntent.part # "HALF" /\ NoIntent.reason \notin {"TRAILING_25_PERCENT", HalfSale}
  BY DEF NoIntent, HalfSale
<1>7. OpenLadder(NewPosition(native)) /\ OpenLadder(row.p) BY <1>2, <1>3, <1>4
<1>8. /\ pos'.sold = rows'[posId'].p.sold /\ pos'.filled = rows'[posId'].p.filled
      /\ pos'.half = rows'[posId'].p.half
  <2>1. rows'[posId'].p = Rowed(NewPosition(native)) BY <1>1, <1>4, <1>5
  <2> QED BY <1>1, <1>2, <2>1
<1>9. \A i \in RowsWith("OPEN")' : OpenLadder(rows'[i].p)
  BY <1>5, <1>7 DEF LadderPart
<1>10. \A i \in RowsWith("CLOSED")' : ClosedLadder(rows'[i].p.sold)
  BY <1>5 DEF LadderPart
<1>11. OpenLadder(pos') BY <1>1, <1>7
<1> QED BY <1>1, <1>6, <1>8, <1>9, <1>10, <1>11 DEF LadderPart

LEMMA CandidateLadder ==
  ASSUME SurvivorIInv, Typed, LadderPart, NEW flow, EvaluateCandidates(flow)
  PROVE  LadderPart'
<1>1. /\ pc = "candidates" /\ pc' = "commit"
      /\ \/ UNCHANGED <<pos, posId, rows, intentRow>>
         \/ \E c : OpenPosition(c)
  BY DEF EvaluateCandidates, AskQuote
<1> QED BY <1>1, LadderKept, EntryLadder

\* The rows keep their ladders, or go.
LEMMA RowsLadder ==
  ASSUME SurvivorIInv, LadderPart, Finish(TRUE) \/ Finish(FALSE) \/ NextDay
  PROVE  LadderPart'
<1>1. UNCHANGED <<pos, posId, intentRow>> /\ pc # "closing" /\ pc' # "closing" BY DEF Finish, NextDay
<1>2. ASSUME NEW i \in Ids
      PROVE  \/ rows'[i].status = rows[i].status /\ rows'[i].p = rows[i].p
             \/ rows'[i].status = "gone" /\ rows[i].status = "CLOSED"
  <2>1. RowShape(rows[i]) BY DEF SurvivorIInv, PositionPart, RowsShape
  <2>2. \/ rows'[i] = rows[i]
        \/ rows'[i] = [rows[i] EXCEPT !.today = FALSE, !.recent = FALSE]
        \/ rows'[i] = [rows[i] EXCEPT !.status = "gone", !.p = NoPosition] /\ rows[i].status = "CLOSED"
    BY DEF Finish, NextDay, DayPassed
  <2> QED BY <2>1, <2>2 DEF RowShape
<1>3. /\ RowsWith("OPEN")' = RowsWith("OPEN")
      /\ \A i \in RowsWith("CLOSED")' : i \in RowsWith("CLOSED") /\ rows'[i].p = rows[i].p
      /\ \A i \in RowsWith("OPEN")' : rows'[i].p = rows[i].p
  BY <1>2 DEF RowsWith
<1>4. pos # NoPosition => posId \in RowsWith("OPEN") BY DEF SurvivorIInv, PositionPart, Owned
<1> QED BY <1>1, <1>3, <1>4 DEF LadderPart

\* A restart takes the ladder from the row.
LEMMA RestartLadder ==
  ASSUME SurvivorIInv, Typed, LadderPart, Restart
  PROVE  LadderPart'
<1>1. pc = "down" /\ pc' = "idle" /\ UNCHANGED <<rows, intentRow>> BY DEF Restart, diskVars
<1>2. pos = NoPosition BY <1>1 DEF SurvivorIInv, PositionPart, Owned
<1>3. CASE RowsWith("OPEN") = {} BY <1>1, <1>2, <1>3 DEF Restart, LadderPart, RowsWith
<1>4. CASE RowsWith("OPEN") # {}
  <2>1. posId' \in RowsWith("OPEN") /\ pos' = LoadPosition(rows[posId'].p, intentRow)
    BY <1>4 DEF Restart
  <2>2. rows[posId'].p \in Positions /\ OpenLadder(rows[posId'].p)
    BY <2>1, Present DEF RowsWith, SurvivorIInv, PositionPart, RowsShape, RowShape, Typed, LadderPart
  <2>3. Stage(rows[posId'].p, pos') BY <2>1, <2>2, EditStage DEF LoadPosition
  <2>4. /\ OpenLadder(pos') /\ pos'.sold = rows[posId'].p.sold /\ pos'.filled = rows[posId'].p.filled
        /\ pos'.half = rows[posId'].p.half
    BY <2>2, <2>3, StageLadder DEF Stage
  <2>5. RowsWith("OPEN")' = RowsWith("OPEN") /\ RowsWith("CLOSED")' = RowsWith("CLOSED") BY <1>1 DEF RowsWith
  <2> QED BY <1>1, <2>4, <2>5 DEF LadderPart
<1> QED BY <1>3, <1>4

LEMMA InitLadder == Init => LadderPart
<1> SUFFICES ASSUME Init PROVE LadderPart OBVIOUS
<1>1. \A i \in Ids : rows[i].status = "none" BY DEF Init, NoRow
<1>2. RowsWith("OPEN") = {} /\ RowsWith("CLOSED") = {} BY <1>1 DEF RowsWith
<1>3. NoIntent.part # "HALF" /\ NoIntent.reason \notin {"TRAILING_25_PERCENT", HalfSale}
  BY DEF NoIntent, HalfSale
<1> QED BY <1>2, <1>3 DEF Init, LadderPart

LEMMA NextLadder == SurvivorIInv /\ Typed /\ LadderPart /\ [Next]_vars => LadderPart'
<1> SUFFICES ASSUME SurvivorIInv, Typed, LadderPart, [Next]_vars PROVE LadderPart' OBVIOUS
<1>1. CASE UNCHANGED vars BY <1>1 DEF vars, memoryVars, diskVars, LadderPart, RowsWith
<1>2. CASE QuoteWorker \/ WireVenue \/ Clock \/ EvaluateNoPosition
  BY <1>2, LadderKept DEF QuoteWorker, WireVenue, Clock, EvaluateNoPosition, memoryVars, diskVars
<1>3. CASE SetPaused BY <1>3, LadderKept DEF SetPaused, memoryVars, diskVars
<1>4. CASE ClearExitIntent
  <2>1. pc = "clearing" /\ pos # NoPosition /\ pos \in Positions
    BY <1>4 DEF ClearExitIntent, SurvivorIInv, PositionPart, Owned, Typed
  <2> QED BY <1>4, <2>1, EditStage, LadderKept DEF ClearExitIntent
<1>5. CASE Die
  <2>1. /\ pos' = NoPosition /\ pc' = "down" /\ UNCHANGED <<rows, intentRow>>
    BY <1>5 DEF Die, diskVars
  <2> QED BY <2>1 DEF LadderPart, RowsWith
<1>6. CASE \E r \in scenario.records, inAge \in BOOLEAN : OnRecords(r, inAge) BY <1>6, FeedLadder
<1>7. CASE \E obs \in scenario.observations : EvaluateOpenPosition(obs) BY <1>7, PositionLadder
<1>8. CASE \E flow \in BOOLEAN : EvaluateCandidates(flow) BY <1>8, CandidateLadder
<1>9. CASE (\E prunes \in BOOLEAN : Finish(prunes)) \/ NextDay BY <1>9, RowsLadder
<1>10. CASE BeginEvaluate \/ PersistClosed \/ Restart
  BY <1>10, BeginLadder, ClosedRowLadder, RestartLadder
<1> QED BY <1>1, <1>2, <1>3, <1>4, <1>5, <1>6, <1>7, <1>8, <1>9, <1>10 DEF Next

LEMMA LadderStages ==
  ASSUME SurvivorIInv, Typed, LadderPart
  PROVE  StagesBookedOnce
<1>1. ASSUME NEW i \in RowsWith("OPEN") PROVE LadderOf(rows[i].p.sold)
  <2>1. rows[i].p \in Positions /\ OpenLadder(rows[i].p)
    BY Present DEF RowsWith, SurvivorIInv, PositionPart, RowsShape, RowShape, Typed, LadderPart
  <2> QED BY <2>1, OpenLadderOf
<1>2. ASSUME pos # NoPosition
      PROVE  /\ LadderOf(pos.sold)
             /\ rows[posId].status = "OPEN"
             /\ \E n \in 0 .. Len(pos.sold) : rows[posId].p.sold = SubSeq(pos.sold, 1, n)
  <2>1. /\ pos \in Positions /\ posId \in RowsWith("OPEN") /\ rows[posId].status = "OPEN"
        /\ pos.sold \in Seq(Reasons)
    BY <1>2 DEF Typed, SurvivorIInv, PositionPart, Owned, RowsWith, PositionShape
  <2>2. CASE pc # "closing"
    <3>1. LadderOf(pos.sold) /\ pos.sold = rows[posId].p.sold
      BY <1>2, <2>1, <2>2, OpenLadderOf DEF LadderPart
    <3>2. Len(pos.sold) \in 0 .. Len(pos.sold) /\ pos.sold = SubSeq(pos.sold, 1, Len(pos.sold)) BY <2>1
    <3> QED BY <2>1, <3>1, <3>2
  <2>3. CASE pc = "closing"
    <3> DEFINE s == rows[posId].p.sold
    <3>1. PICK r \in Reasons : pos.sold = Append(s, r) BY <2>3 DEF LadderPart
    <3>2. s \in Seq(Reasons)
      BY <2>1 DEF RowsWith, SurvivorIInv, PositionPart, RowsShape, RowShape, PositionShape
    <3>3. LadderOf(pos.sold) BY <2>3 DEF LadderPart, ClosedLadder
    <3> HIDE DEF s
    <3>4. Len(s) \in 0 .. Len(Append(s, r)) /\ s = SubSeq(Append(s, r), 1, Len(s)) BY <3>2
    <3> QED BY <2>1, <3>1, <3>3, <3>4 DEF s
  <2> QED BY <2>2, <2>3
<1>3. ASSUME NEW i \in RowsWith("CLOSED") PROVE ClosedLadder(rows[i].p.sold) BY DEF LadderPart
<1> QED BY <1>1, <1>2, <1>3 DEF StagesBookedOnce, ClosedLadder

\* The inductive invariant of the ladder, over deaths between the two commits
\* of a sale.
THEOREM LadderInvariance == Spec => [](Typed /\ LadderPart)
<1>1. Typed /\ SurvivorIInv /\ LadderPart /\ [Next]_vars => LadderPart' BY NextLadder
<1>2. SurvivorIInv /\ Typed /\ [Next]_vars => Typed' BY TypedNext
<1> QED BY <1>1, <1>2, TypedInit, InitLadder, Invariance, PTL DEF Spec

\* Each take profit is sold once and in order, a protection only after the
\* take profit it protects, nothing after a sale of the whole; the row is
\* what memory has or lags behind it (_evaluate_positions, _execute_latched_tp,
\* _mark_tp_filled, _load_positions).
THEOREM Stages == Spec => []StagesBookedOnce
<1>1. SurvivorIInv /\ Typed /\ LadderPart => StagesBookedOnce BY LadderStages
<1> QED BY <1>1, LadderInvariance, Invariance, PTL
-----------------------------------------------------------------------------
(* The rows are a trade book                                               *)

\* A sale of trade i that the ladder admits is a sale of the book.
LEMMA TradeSold ==
  ASSUME SurvivorIInv, NEW i \in Ids, rows[i].status = "OPEN", NEW reason,
         \/ rows'[i].status = "OPEN" /\ Book!MayTrim(rows[i].p.sold, reason)
         \/ rows'[i].status = "CLOSED" /\ Book!MayClose(rows[i].p.sold, reason),
         rows'[i].p.sold = Append(rows[i].p.sold, reason),
         \A j \in Ids \ {i} : rows'[j] = rows[j]
  PROVE  Book!Next
<1> DEFINE sold == rows[i].p.sold
           now == [status |-> rows'[i].status, sold |-> Append(sold, reason)]
<1>1. Trades[i] = [status |-> "OPEN", sold |-> sold] BY DEF Trades, Traded
<1>2. Trades'[i] = now BY DEF Trades, Traded
<1>3. Trades' = [Trades EXCEPT ![i] = now]
  <2>1. ASSUME NEW j \in Ids \ {i} PROVE Trades'[j] = Trades[j] BY <2>1 DEF Trades, Traded
  <2> HIDE DEF now
  <2> QED BY <1>2, <2>1 DEF Trades
<1>4. sold \in Seq(Reasons) BY DEF SurvivorIInv, PositionPart, RowsShape, RowShape, PositionShape
<1>5. Len(Append(sold, reason)) = Len(sold) + 1 /\ Append(sold, reason)[Len(sold) + 1] = reason
  BY <1>4
<1>6. i \in Book!With("OPEN") BY <1>1 DEF Book!With
<1> HIDE DEF sold
<1>7. /\ now.sold = Append(sold, reason) /\ now.sold[Len(now.sold)] = reason
      /\ Len(now.sold) = Len(sold) + 1
      /\ now.status = rows'[i].status
  BY <1>5
<1>8. now = [status |-> now.status, sold |-> now.sold] OBVIOUS
<1> HIDE DEF now
<1>9. Book!Sell(i)
  <2>1. Trades[i].sold = sold BY <1>1
  <2>2. \/ now.status = "OPEN" /\ Book!MayTrim(sold, reason)
        \/ now.status = "CLOSED" /\ Book!MayClose(sold, reason)
    BY <1>7 DEF sold
  <2> QED BY <1>2, <1>3, <1>7, <1>8, <2>1, <2>2 DEF Book!Sell
<1> QED BY <1>6, <1>9 DEF Book!Next

\* Rows that keep their sales keep the book.
LEMMA KeptBooked == RowsKept => Trades' = Trades
<1> SUFFICES ASSUME RowsKept PROVE Trades' = Trades OBVIOUS
<1>1. ASSUME NEW i \in Ids PROVE Trades'[i] = Trades[i]
  <2>1. Traded(i)' <=> Traded(i) BY DEF RowsKept, Traded
  <2>2. rows'[i].status = rows[i].status BY DEF RowsKept
  <2>3. CASE Traded(i)
    <3>1. rows'[i].p.sold = rows[i].p.sold BY <2>3 DEF RowsKept
    <3> QED BY <2>1, <2>2, <2>3, <3>1 DEF Trades
  <2>4. CASE ~Traded(i) BY <2>1, <2>2, <2>4 DEF Trades
  <2> QED BY <2>3, <2>4
<1> QED BY <1>1 DEF Trades

LEMMA TrimBooked == SurvivorIInv /\ RowTrimmed => Book!Next
BY TradeSold DEF RowTrimmed

\* The second commit of a closing sale.
LEMMA CloseBooked == SurvivorIInv /\ Typed /\ LadderPart /\ PersistClosed => Book!Next
<1> SUFFICES ASSUME SurvivorIInv, Typed, LadderPart, PersistClosed PROVE Book!Next OBVIOUS
<1>1. /\ pc = "closing" /\ pos # NoPosition /\ pos \in Positions /\ posId \in Ids /\ DOMAIN rows = Ids
      /\ rows[posId].status = "OPEN" /\ RowShape(rows[posId])
      /\ rows' = [rows EXCEPT ![posId].status = "CLOSED", ![posId].recent = TRUE, ![posId].p = Rowed(pos)]
  BY DEF PersistClosed, SurvivorIInv, PositionPart, Owned, RowsWith, RowsShape, Typed
<1>2. rows'[posId] = [rows[posId] EXCEPT !.status = "CLOSED", !.recent = TRUE, !.p = Rowed(pos)]
      /\ \A i \in Ids \ {posId} : rows'[i] = rows[i]
  BY <1>1
<1>3. rows'[posId].status = "CLOSED" /\ rows'[posId].p = Rowed(pos) BY <1>1, <1>2 DEF RowShape
<1>4. Rowed(pos).sold = pos.sold BY <1>1, EditStage DEF Stage
<1>5. PICK reason \in Reasons : pos.sold = Append(rows[posId].p.sold, reason)
                               /\ Book!MayClose(rows[posId].p.sold, reason)
  BY <1>1 DEF LadderPart
<1>6. rows'[posId].p.sold = Append(rows[posId].p.sold, reason) BY <1>3, <1>4, <1>5
<1>7. \A j \in Ids \ {posId} : rows'[j] = rows[j] BY <1>2
<1>8. posId \in Ids /\ rows[posId].status = "OPEN" /\ rows'[posId].status = "CLOSED" BY <1>1, <1>3
<1>9. Book!MayClose(rows[posId].p.sold, reason) BY <1>5
<1> QED BY <1>6, <1>7, <1>8, <1>9, TradeSold

\* An entry opens a trade that was never opened.
LEMMA EntryBooked == ASSUME SurvivorIInv, NEW c, OpenPosition(c), MayBuy(c) PROVE Book!Next
<1> DEFINE native == IF c.native = 0 THEN EntryPrice ELSE c.native
           id == CHOOSE i \in Unused : TRUE
           row == [status |-> "OPEN", today |-> TRUE, recent |-> FALSE, p |-> Rowed(NewPosition(native))]
<1>1. id \in Ids /\ rows[id].status = "none" /\ DOMAIN rows = Ids /\ rows' = [rows EXCEPT ![id] = row]
  BY DEF OpenPosition, Unused, RowsWith, SurvivorIInv, PositionPart, RowsShape
<1>2. row.status = "OPEN" /\ row.p.sold = << >> BY DEF NewPosition, Rowed
<1>3. RowsWith("OPEN") = {} BY DEF MayBuy, SameTokenOpen
<1> HIDE DEF id, row
<1>4. rows'[id] = row /\ \A i \in Ids \ {id} : rows'[i] = rows[i] BY <1>1
<1>5. Book!With("OPEN") = {} BY <1>3 DEF Book!With, RowsWith, Trades
<1>6. id \in Book!With("none") BY <1>1 DEF Book!With, Trades
<1>7. Trades' = [Trades EXCEPT ![id] = [status |-> "OPEN", sold |-> << >>]]
  <2>1. Trades'[id] = [status |-> "OPEN", sold |-> << >>] BY <1>1, <1>2, <1>4 DEF Trades, Traded
  <2>2. ASSUME NEW i \in Ids \ {id} PROVE Trades'[i] = Trades[i] BY <1>4, <2>2 DEF Trades, Traded
  <2> QED BY <1>1, <2>1, <2>2 DEF Trades
<1> QED BY <1>5, <1>6, <1>7 DEF Book!Next, Book!Open

\* The prune forgets closed trades only.
LEMMA PruneBooked == ASSUME SurvivorIInv, NEW prunes, Finish(prunes) PROVE Book!Next \/ Trades' = Trades
<1> DEFINE some == {i \in Ids : prunes /\ rows[i].status = "CLOSED" /\ ~rows[i].recent}
           gone == [status |-> "gone", sold |-> << >>]
<1>1. /\ rows' = [i \in Ids |-> IF prunes /\ rows[i].status = "CLOSED" /\ ~rows[i].recent
                               THEN [rows[i] EXCEPT !.status = "gone", !.p = NoPosition] ELSE rows[i]]
      /\ \A i \in Ids : RowShape(rows[i])
  BY DEF Finish, SurvivorIInv, PositionPart, RowsShape
<1>2. ASSUME NEW i \in Ids PROVE Trades'[i] = IF i \in some THEN gone ELSE Trades[i]
  <2>1. CASE i \in some
    <3>1. rows'[i] = [rows[i] EXCEPT !.status = "gone", !.p = NoPosition] BY <1>1, <2>1
    <3>2. rows'[i].status = "gone" BY <1>1, <3>1 DEF RowShape
    <3> QED BY <2>1, <3>2 DEF Trades, Traded
  <2>2. CASE i \notin some
    <3>1. rows'[i] = rows[i] BY <1>1, <2>2
    <3> QED BY <2>2, <3>1 DEF Trades, Traded
  <2> QED BY <2>1, <2>2
<1>3. some \subseteq Book!With("CLOSED") BY DEF Book!With, Trades
<1> HIDE DEF some
<1>4. Trades' = [i \in Ids |-> IF i \in some THEN gone ELSE Trades[i]] BY <1>2 DEF Trades
<1>5. CASE some = {}
  <2>1. \A i \in Ids : Trades'[i] = Trades[i] BY <1>2, <1>5
  <2> QED BY <2>1 DEF Trades
<1>6. CASE some # {} BY <1>3, <1>4, <1>6 DEF Book!Next, Book!Forget
<1> QED BY <1>5, <1>6

LEMMA CandidateBooked ==
  ASSUME SurvivorIInv, NEW flow, EvaluateCandidates(flow) PROVE Book!Next \/ Trades' = Trades
<1>1. \/ rows' = rows
      \/ \E c : MayBuy(c) /\ OpenPosition(c)
  BY DEF EvaluateCandidates, AskQuote
<1> QED BY <1>1, EntryBooked DEF Trades, Traded

LEMMA NextBooked == SurvivorIInv /\ Typed /\ LadderPart /\ [Next]_vars => [Book!Next]_Trades
<1> SUFFICES ASSUME SurvivorIInv, Typed, LadderPart, [Next]_vars PROVE Book!Next \/ Trades' = Trades OBVIOUS
<1>1. rows' = rows => Trades' = Trades BY DEF Trades, Traded
<1>2. CASE UNCHANGED vars BY <1>1, <1>2 DEF vars, diskVars
<1>3. CASE QuoteWorker \/ WireVenue \/ Clock \/ EvaluateNoPosition \/ SetPaused \/ ClearExitIntent
  BY <1>1, <1>3 DEF QuoteWorker, WireVenue, Clock, EvaluateNoPosition, SetPaused, ClearExitIntent, diskVars
<1>4. CASE BeginEvaluate \/ Die \/ Restart \/ \E r \in scenario.records, inAge \in BOOLEAN : OnRecords(r, inAge)
  BY <1>1, <1>4 DEF BeginEvaluate, Die, Restart, OnRecords, diskVars
<1>5. CASE NextDay
  <2>1. ASSUME NEW i \in Ids PROVE rows'[i].status = rows[i].status /\ rows'[i].p = rows[i].p
    <3>1. RowShape(rows[i]) BY DEF SurvivorIInv, PositionPart, RowsShape
    <3>2. rows'[i] = [rows[i] EXCEPT !.today = FALSE, !.recent = FALSE] BY <1>5 DEF NextDay, DayPassed
    <3> QED BY <3>1, <3>2 DEF RowShape
  <2> QED BY <2>1, KeptBooked DEF RowsKept
<1>6. CASE \E obs \in scenario.observations : EvaluateOpenPosition(obs)
  BY <1>6, PositionLadder, KeptBooked, TrimBooked
<1>7. CASE \E flow \in BOOLEAN : EvaluateCandidates(flow) BY <1>7, CandidateBooked
<1>8. CASE \E prunes \in BOOLEAN : Finish(prunes) BY <1>8, PruneBooked
<1>9. CASE PersistClosed BY <1>9, CloseBooked
<1> QED BY <1>1, <1>2, <1>3, <1>4, <1>5, <1>6, <1>7, <1>8, <1>9 DEF Next

LEMMA InitBooked == Init => Book!Init
<1> SUFFICES ASSUME Init PROVE Book!Init OBVIOUS
<1>1. ASSUME NEW i \in Ids PROVE rows[i].status = "none" BY <1>1 DEF Init, NoRow
<1>2. \A i \in Ids : Trades[i] = [status |-> "none", sold |-> << >>] BY <1>1 DEF Trades, Traded
<1> QED BY <1>2 DEF Book!Init, Trades

\* The rows of survivor_positions implement the trade book: one trade at a
\* time, sold down the ladder by sales that each happen once, closed by a last
\* one and then only forgotten, over deaths between any two commits.
THEOREM Refinement == Spec => ImplementsTradeBook
<1>1. Init => Book!Init BY InitBooked
<1>2. SurvivorIInv /\ Typed /\ LadderPart /\ [Next]_vars => [Book!Next]_Trades BY NextBooked
<1> QED BY <1>1, <1>2, LadderInvariance, Invariance, PTL DEF Spec, ImplementsTradeBook, Book!Spec
=============================================================================
