---------------------- MODULE FlowReconciliationProofs ----------------------
(***************************************************************************)
(* Proofs about FlowReconciliation: FlowIInv is an inductive invariant,    *)
(* and no step from one of its states sells against VerdictCovered or      *)
(* ReceivedTradeKeepsPool.                                                 *)
(***************************************************************************)
EXTENDS FlowReconciliation, FiniteSetTheorems, TLAPS

\* The types of the constants.
LEMMA ConstantTypes ==
    /\ NoTrade \in Nat /\ Window \in Nat /\ Interval \in Nat /\ Fresh \in Nat
    /\ Confirmations \in Nat /\ MaxLag \in Nat /\ MaxCall \in Nat /\ MaxCall >= 1
    /\ NodeLag \in Nat /\ QueueMax \in Nat /\ QueueMax >= 1
    /\ MaxTime \in Nat /\ MaxBreaks \in Nat
    /\ NoTrade + MaxCall <= Window + Confirmations + 1
  BY FlowAssumption DEF FlowAssumption

-----------------------------------------------------------------------------
(* The queues *)

\* Appending an event adds its block.
LEMMA AppendBlocks ==
    ASSUME NEW q \in Seq(Items), NEW e \in Items
    PROVE  /\ Append(q, e) \in Seq(Items)
           /\ Blocks(Append(q, e)) = Blocks(q) \cup {e.block}
<1>1. Append(q, e) \in Seq(Items) OBVIOUS
<1>2. ASSUME NEW b PROVE b \in Blocks(Append(q, e)) <=> b \in Blocks(q) \cup {e.block}
  <2>1. ASSUME b \in Blocks(Append(q, e)) PROVE b \in Blocks(q) \cup {e.block}
    <3>1. PICK i \in 1 .. Len(q) + 1 : b = Append(q, e)[i].block
      BY <2>1 DEF Blocks
    <3>2. CASE i = Len(q) + 1 BY <3>1, <3>2
    <3>3. CASE i \in 1 .. Len(q) BY <3>1, <3>3 DEF Blocks
    <3> QED BY <3>2, <3>3
  <2>2. ASSUME b \in Blocks(q) PROVE b \in Blocks(Append(q, e))
    <3>1. PICK i \in 1 .. Len(q) : b = q[i].block BY <2>2 DEF Blocks
    <3>2. i \in DOMAIN Append(q, e) /\ Append(q, e)[i] = q[i] BY <3>1
    <3> QED BY <3>1, <3>2 DEF Blocks
  <2>3. e.block \in Blocks(Append(q, e))
    <3>1. Len(q) + 1 \in DOMAIN Append(q, e) /\ Append(q, e)[Len(q) + 1] = e OBVIOUS
    <3> QED BY <3>1 DEF Blocks
  <2> QED BY <2>1, <2>2, <2>3
<1> QED BY <1>1, <1>2

\* Taking the head removes only its block.
LEMMA TailBlocks ==
    ASSUME NEW q \in Seq(Items), q # <<>>
    PROVE  /\ Tail(q) \in Seq(Items) /\ Head(q) \in Items
           /\ Blocks(q) = Blocks(Tail(q)) \cup {Head(q).block}
<1>1. Tail(q) \in Seq(Items) /\ Head(q) \in Items OBVIOUS
<1>2. ASSUME NEW b PROVE b \in Blocks(q) <=> b \in Blocks(Tail(q)) \cup {Head(q).block}
  <2>1. ASSUME b \in Blocks(q) PROVE b \in Blocks(Tail(q)) \cup {Head(q).block}
    <3>1. PICK i \in 1 .. Len(q) : b = q[i].block BY <2>1 DEF Blocks
    <3>2. CASE i = 1 BY <3>1, <3>2
    <3>3. CASE i # 1
      <4>1. i - 1 \in DOMAIN Tail(q) /\ Tail(q)[i - 1] = q[i] BY <3>1, <3>3
      <4> QED BY <4>1, <3>1 DEF Blocks
    <3> QED BY <3>2, <3>3
  <2>2. ASSUME b \in Blocks(Tail(q)) PROVE b \in Blocks(q)
    <3>1. PICK i \in 1 .. Len(q) - 1 : b = Tail(q)[i].block BY <2>2 DEF Blocks
    <3>2. i + 1 \in DOMAIN q /\ Tail(q)[i] = q[i + 1] BY <3>1
    <3> QED BY <3>1, <3>2 DEF Blocks
  <2>3. Head(q).block \in Blocks(q)
    <3>1. 1 \in DOMAIN q /\ Head(q) = q[1] OBVIOUS
    <3> QED BY <3>1 DEF Blocks
  <2> QED BY <2>1, <2>2, <2>3
<1> QED BY <1>1, <1>2

\* A concatenation holds the blocks of both.
LEMMA ConcatBlocks ==
    ASSUME NEW q \in Seq(Items), NEW r \in Seq(Items)
    PROVE  /\ q \o r \in Seq(Items)
           /\ Blocks(q \o r) = Blocks(q) \cup Blocks(r)
<1>1. q \o r \in Seq(Items) /\ Len(q \o r) = Len(q) + Len(r) OBVIOUS
<1>2. ASSUME NEW b PROVE b \in Blocks(q \o r) <=> b \in Blocks(q) \cup Blocks(r)
  <2>1. ASSUME b \in Blocks(q \o r) PROVE b \in Blocks(q) \cup Blocks(r)
    <3>1. PICK i \in 1 .. Len(q) + Len(r) : b = (q \o r)[i].block
      BY <2>1, <1>1 DEF Blocks
    <3>2. CASE i \in 1 .. Len(q) BY <3>1, <3>2 DEF Blocks
    <3>3. CASE i \notin 1 .. Len(q)
      <4>1. i - Len(q) \in DOMAIN r /\ (q \o r)[i] = r[i - Len(q)] BY <3>1, <3>3
      <4> QED BY <4>1, <3>1 DEF Blocks
    <3> QED BY <3>2, <3>3
  <2>2. ASSUME b \in Blocks(q) PROVE b \in Blocks(q \o r)
    <3>1. PICK i \in 1 .. Len(q) : b = q[i].block BY <2>2 DEF Blocks
    <3>2. i \in DOMAIN (q \o r) /\ (q \o r)[i] = q[i] BY <3>1
    <3> QED BY <3>1, <3>2 DEF Blocks
  <2>3. ASSUME b \in Blocks(r) PROVE b \in Blocks(q \o r)
    <3>1. PICK i \in 1 .. Len(r) : b = r[i].block BY <2>3 DEF Blocks
    <3>2. i + Len(q) \in DOMAIN (q \o r) /\ (q \o r)[i + Len(q)] = r[i] BY <3>1
    <3> QED BY <3>1, <3>2 DEF Blocks
  <2> QED BY <2>1, <2>2, <2>3
<1> QED BY <1>1, <1>2

\* A full deque keeps some of the blocks; the others are the dropped ones.
LEMMA BoundedBlocks ==
    ASSUME NEW q \in Seq(Items)
    PROVE  /\ Bounded(q) \in Seq(Items)
           /\ Blocks(Bounded(q)) \cup Dropped(q) = Blocks(q)
<1>1. CASE Len(q) <= QueueMax BY <1>1 DEF Bounded, Dropped
<1>2. CASE ~(Len(q) <= QueueMax)
  <2> DEFINE m == Len(q) - QueueMax + 1
  <2>1. m \in Nat /\ m >= 1 /\ m <= Len(q) /\ Bounded(q) = SubSeq(q, m, Len(q))
    BY <1>2, ConstantTypes DEF Bounded
  <2>2. SubSeq(q, m, Len(q)) \in Seq(Items) BY <2>1
  <2>3. ASSUME NEW b \in Blocks(Bounded(q)) PROVE b \in Blocks(q)
    <3>1. PICK i \in DOMAIN SubSeq(q, m, Len(q)) : b = SubSeq(q, m, Len(q))[i].block
      BY <2>1, <2>3 DEF Blocks
    <3>2. m + i - 1 \in DOMAIN q /\ SubSeq(q, m, Len(q))[i] = q[m + i - 1] BY <2>1, <3>1
    <3> QED BY <3>1, <3>2 DEF Blocks
  <2> QED BY <2>1, <2>2, <2>3 DEF Dropped
<1> QED BY <1>1, <1>2

\* The recovered events are those of the missing blocks.
LEMMA RecoveredBlocks ==
    ASSUME TypeOK, NEW M \in SUBSET trades, NEW s \in Ascending(M)
    PROVE  /\ Recovered(s) \in Seq(Items)
           /\ Blocks(Recovered(s)) = M
<1>1. IsFiniteSet(M)
  <2>1. IsFiniteSet(1 .. now) BY FS_Interval DEF TypeOK
  <2> QED BY <2>1, FS_Subset DEF TypeOK
<1>2. Cardinality(M) \in Nat BY <1>1, FS_CardinalityType
<1>3. s \in [1 .. Cardinality(M) -> M] /\ \A b \in M : \E i \in DOMAIN s : s[i] = b
  BY DEF Ascending
<1>4. M \subseteq Nat BY DEF TypeOK
<1>5. \A b \in M : ObservedAt(b, job.began) \in Int BY <1>4 DEF ObservedAt, TypeOK, Jobs
<1>6. \A i \in 1 .. Cardinality(M) : [block |-> s[i], at |-> ObservedAt(s[i], job.began)] \in Items
  BY <1>3, <1>4, <1>5 DEF Items
<1>7. Recovered(s) \in [1 .. Cardinality(M) -> Items] BY <1>3, <1>6 DEF Recovered
<1>8. Recovered(s) \in Seq(Items) BY <1>2, <1>7
<1>9. \A i \in DOMAIN s : Recovered(s)[i].block = s[i] BY <1>3 DEF Recovered
<1>10. DOMAIN Recovered(s) = DOMAIN s BY DEF Recovered
<1>11. Blocks(Recovered(s)) = {s[i] : i \in DOMAIN s} BY <1>9, <1>10 DEF Blocks
<1> QED BY <1>3, <1>8, <1>11

-----------------------------------------------------------------------------
(* What every step leaves true *)

\* Nothing is forgotten, and at most the next block is mined.
Grown ==
    /\ Accounted \subseteq Accounted'
    /\ trades' \subseteq trades \cup {now + 1}
    /\ now' = now \/ now' = now + 1

\* What was covered before a block of the past, or the next one, stays covered.
LEMMA CoveredGrows ==
    ASSUME Grown, now \in Nat
    PROVE  \A to, cov \in Int :
             to <= now + 1 /\ CoveredBefore(to, cov) => CoveredBefore(to, cov)'
<1>1. SUFFICES ASSUME NEW to \in Int, NEW cov \in Int, to <= now + 1, CoveredBefore(to, cov),
                      NEW b \in trades', cov + MaxCall - Confirmations <= b, b < to
               PROVE  b \in Accounted'
  BY DEF CoveredBefore
<1>2. b \in trades BY <1>1 DEF Grown
<1> QED BY <1>1, <1>2 DEF CoveredBefore, Grown

\* A block read by now is read by any later time.
LEMMA SafeGrows ==
    ASSUME Grown, now \in Nat
    PROVE  \A b \in Int : SafeByNow(b) => SafeByNow(b)' /\ b \in Nat /\ b <= now
<1>1. SUFFICES ASSUME NEW b \in Int, SafeByNow(b)
               PROVE  SafeByNow(b)' /\ b \in Nat /\ b <= now
  OBVIOUS
<1>2. b \in Nat /\ b <= now
  BY <1>1, ConstantTypes DEF SafeByNow
<1>3. CASE now' = now BY <1>1, <1>2, <1>3 DEF SafeByNow
<1>4. CASE now' = now + 1 BY <1>1, <1>2, <1>4, ConstantTypes DEF SafeByNow
<1> QED BY <1>3, <1>4 DEF Grown

\* What a state of the source claims stays true.
LEMMA FlowInvGrows ==
    ASSUME Grown, now \in Nat
    PROVE  \A f \in Flows : FlowInv(f) => FlowInv(f)'
<1>1. SUFFICES ASSUME NEW f \in Flows, FlowInv(f) PROVE FlowInv(f)'
  OBVIOUS
<1>2. f.last \in Int /\ f.cov \in Int /\ f.safe \in Int /\ f.at \in Int BY <1>1 DEF Flows
<1>3. f.last # Never => SafeByNow(f.last)' /\ f.last <= now
  BY <1>1, <1>2, SafeGrows DEF FlowInv
<1>4. f.safe # Never => SafeByNow(f.safe)' BY <1>1, <1>2, SafeGrows DEF FlowInv
<1>5. f.last + 1 \in Int /\ f.last + 1 <= now + 1 BY <1>2, <1>3 DEF Grown, Never
<1>6. f.cov # Never => CoveredBefore(f.last + 1, f.cov)'
  BY <1>1, <1>2, <1>5, CoveredGrows DEF FlowInv
<1>7. f.window => f.cov + Window <= now'
  BY <1>1, <1>2, ConstantTypes DEF FlowInv, Grown
<1> QED BY <1>1, <1>3, <1>4, <1>6, <1>7 DEF FlowInv

\* So does what a job that did not change claims.
LEMMA JobInvGrows ==
    ASSUME FlowIInv, Grown, job' = job, flow'.cov = flow.cov,
           job.st = "begun" => now' <= job.began + MaxCall
    PROVE  JobInv'
<1> USE DEF FlowIInv
<1>1. /\ now \in Nat /\ job \in Jobs /\ flow \in Flows
      /\ job.from \in Int /\ job.began \in Int /\ job.safe \in Int /\ flow.cov \in Int
  BY DEF TypeOK, Jobs, Flows
<1>2. job.st \in {"queued", "begun"} =>
        /\ job.safe = Never
        /\ job.from >= Never /\ job.from <= now + 1 /\ job.from <= now' + 1
        /\ job.from = Never <=> flow.cov = Never
  BY <1>1 DEF JobInv, Grown
<1>3. job.st \in {"queued", "begun"} /\ job.from # Never => CoveredBefore(job.from, flow.cov)'
  <2>1. SUFFICES ASSUME job.st \in {"queued", "begun"}, job.from # Never
                 PROVE  CoveredBefore(job.from, flow.cov)'
    OBVIOUS
  <2>2. CoveredBefore(job.from, flow.cov) BY <2>1 DEF JobInv
  <2> QED BY <1>1, <1>2, <2>1, <2>2, CoveredGrows DEF CoveredBefore
<1>4. job.st = "begun" => 0 <= job.began /\ job.began <= now' /\ now' <= job.began + MaxCall
  BY <1>1 DEF JobInv, Grown
<1>5. ASSUME job.st = "headed", job.safe # Never
      PROVE  /\ SafeByNow(job.safe)'
             /\ job.began >= 0
             /\ job.from <= now' + 1
             /\ job.safe >= job.began - NodeLag - Confirmations
             /\ CoveredBefore(job.from, IF flow.cov = Never THEN job.began ELSE flow.cov)'
  <2> DEFINE cov == IF flow.cov = Never THEN job.began ELSE flow.cov
  <2>1. /\ SafeByNow(job.safe) /\ job.began >= 0 /\ job.from <= now + 1
        /\ job.safe >= job.began - NodeLag - Confirmations
        /\ CoveredBefore(job.from, cov)
    BY <1>5 DEF JobInv
  <2>2. cov \in Int BY <1>1
  <2>3. SafeByNow(job.safe)' BY <1>1, <2>1, SafeGrows DEF SafeByNow
  <2>4. job.from <= now' + 1 BY <1>1, <2>1 DEF Grown
  <2>5. cov' = cov OBVIOUS
  <2> HIDE DEF cov
  <2>6. CoveredBefore(job.from, cov)'
    BY <1>1, <2>1, <2>2, <2>5, CoveredGrows DEF CoveredBefore
  <2> QED BY <2>1, <2>3, <2>4, <2>6 DEF cov
<1> QED BY <1>2, <1>3, <1>4, <1>5 DEF JobInv

-----------------------------------------------------------------------------
(* One lemma per action: it preserves the invariant *)

\* A new block is later than everything the state speaks of.
LEMMA MineKeeps ==
    ASSUME FlowIInv, Mine
    PROVE  FlowIInv'
<1> USE DEF FlowIInv
<1>1. now' = now + 1 /\ now \in Nat /\ trades' \subseteq trades \cup {now + 1}
      /\ trades \subseteq trades' /\ air' \subseteq trades'
  BY DEF Mine, TypeOK
<1>2. TypeOK'
  <2>1. trades' \subseteq 1 .. now' BY <1>1 DEF TypeOK
  <2> QED BY <1>1, <2>1 DEF Mine, TypeOK, queues, keys, mark, ghosts
<1>3. Accounted' = Accounted /\ KeysInv'
  BY DEF Mine, KeysInv, Accounted, queues, keys, ghosts
<1>4. Grown BY <1>1, <1>3 DEF Grown
<1>5. FlowInv(flow)' /\ FlowInv(row)'
  BY <1>1, <1>4, FlowInvGrows DEF Mine, TypeOK
<1>6. JobInv'
  <2>1. job.st = "begun" => now' <= job.began + MaxCall
    BY <1>1, ConstantTypes DEF Mine, TypeOK, Jobs
  <2> QED BY <1>4, <2>1, JobInvGrows DEF Mine
<1>7. MarkerInv' BY DEF Mine, MarkerInv, keys
<1> QED BY <1>2, <1>3, <1>5, <1>6, <1>7

\* A received trade is queued, or pushes another one out.
LEMMA DeliverKeeps ==
    ASSUME FlowIInv, NEW b \in air, Deliver(b)
    PROVE  FlowIInv'
<1> USE DEF FlowIInv
<1> DEFINE e == [block |-> b, at |-> ObservedAt(b, now)]
           q == Append(pend, e)
<1>1. b \in trades /\ b \in Nat /\ b <= now /\ now \in Nat /\ pend \in Seq(Items)
  BY DEF TypeOK
<1>2. e \in Items /\ e.block = b BY <1>1 DEF ObservedAt, Items
<1>3. q \in Seq(Items) /\ Blocks(q) = Blocks(pend) \cup {b}
  BY <1>1, <1>2, AppendBlocks
<1>4. Bounded(q) \in Seq(Items) /\ Blocks(Bounded(q)) \cup Dropped(q) = Blocks(q)
  BY <1>3, BoundedBlocks
<1>5. pend' = Bounded(q) /\ gone' = gone \cup Dropped(q) /\ wssKeys' = wssKeys \cup {b}
  BY DEF Deliver
<1> HIDE DEF e, q
<1>6. KeysInv' /\ Accounted \subseteq Accounted'
  BY <1>3, <1>4, <1>5 DEF Deliver, KeysInv, Accounted
<1>7. Dropped(q) \subseteq trades'
  BY <1>1, <1>3, <1>4 DEF Deliver, KeysInv, TypeOK
<1>8. TypeOK'
  <2>1. pend' \in Seq(Items) /\ marker' \in Int
    BY <1>1, <1>4, <1>5 DEF Deliver, TypeOK, MarkerAfter
  <2>2. wssKeys' \subseteq trades' /\ gone' \subseteq trades' /\ air' \subseteq trades'
    BY <1>1, <1>5, <1>7 DEF Deliver, TypeOK
  <2> QED BY <2>1, <2>2 DEF Deliver, TypeOK, mark
<1>9. Grown BY <1>6 DEF Deliver, Grown
<1>10. FlowInv(flow)' /\ FlowInv(row)'
  BY <1>1, <1>9, FlowInvGrows DEF Deliver, TypeOK
<1>11. JobInv'
  <2>1. job.st = "begun" => now' <= job.began + MaxCall
    BY <1>1, ConstantTypes DEF Deliver, JobInv
  <2> QED BY <1>9, <2>1, JobInvGrows DEF Deliver
<1>12. MarkerInv'
  <2>1. kind' = "pool" => marker' = now BY DEF Deliver, MarkerAfter
  <2>2. \A k \in wssKeys' : k <= now BY <1>1, <1>5 DEF TypeOK
  <2> QED BY <2>1, <2>2 DEF MarkerInv
<1> QED BY <1>6, <1>8, <1>10, <1>11, <1>12

\* A socket that connects or is lost changes no evidence.
LEMMA WssKeeps ==
    ASSUME FlowIInv, WssUp \/ WssDown
    PROVE  FlowIInv'
<1> USE DEF FlowIInv
<1>1. /\ now' = now /\ trades' = trades /\ kind' = kind /\ now \in Nat
      /\ UNCHANGED <<pend, gap, wssKeys, recKeys, applied, marker, last, saved, row, job,
                     schedAt, phase, counted, gone>>
  BY DEF WssUp, WssDown, TypeOK, chain, queues, keys, mark, ghosts
<1>2. /\ flow' \in Flows
      /\ flow'.last = flow.last /\ flow'.safe = flow.safe /\ flow'.at = flow.at
      /\ flow'.cov = flow.cov /\ flow'.window = flow.window
  BY DEF WssUp, WssDown, TypeOK, Flows
<1>3. TypeOK'
  <2>1. wss' \in {"none", "up", "down"} /\ air' \subseteq trades
    BY DEF WssUp, WssDown, TypeOK, chain
  <2>2. sub' \in BOOLEAN BY Zenon DEF WssUp, WssDown
  <2>3. breaks' \in Nat BY DEF WssUp, WssDown, TypeOK
  <2> QED BY <1>1, <1>2, <2>1, <2>2, <2>3 DEF TypeOK
<1>4. Accounted' = Accounted /\ KeysInv' /\ MarkerInv'
  BY <1>1 DEF KeysInv, Accounted, MarkerInv
<1>5. Grown BY <1>1, <1>4 DEF Grown
<1>6. FlowInv(row)' BY <1>1, <1>5, FlowInvGrows DEF TypeOK
<1>7. FlowInv(flow)'
  <2>1. FlowInv(flow') = FlowInv(flow) BY <1>2 DEF FlowInv
  <2> QED BY <1>1, <1>2, <1>5, FlowInvGrows DEF TypeOK, FlowInv
<1>8. JobInv'
  <2>1. job.st = "begun" => now' <= job.began + MaxCall BY <1>1 DEF JobInv
  <2> QED BY <1>1, <1>2, <1>5, <2>1, JobInvGrows
<1> QED BY <1>3, <1>4, <1>6, <1>7, <1>8

\* Applying an event that was queued only adds to what was applied.
LEMMA ApplyAdds ==
    ASSUME TypeOK, NEW e \in Items, Apply(e)
    PROVE  /\ applied' = applied \cup {e.block}
           /\ counted \subseteq counted' /\ counted' \subseteq counted \cup applied'
           /\ last' \in Int /\ saved' \in Int /\ sub' \in BOOLEAN
<1>1. applied' = applied \cup {e.block} /\ last' \in Int
  BY DEF Apply, ApplyFlapTrade, TypeOK, Items
<1>2. counted \subseteq counted' /\ counted' \subseteq counted \cup applied'
  BY DEF Apply, ApplyFlapTrade, Commit
<1>3. saved' \in Int BY <1>1 DEF Apply, Commit, TypeOK
<1>4. sub' \in BOOLEAN BY Zenon DEF Apply, ApplyFlapTrade, TypeOK
<1> QED BY <1>1, <1>2, <1>3, <1>4

\* The head of a queue is applied before it is let go.
LEMMA DrainKeeps ==
    ASSUME FlowIInv, DrainPending \/ DrainGap
    PROVE  FlowIInv'
<1> USE DEF FlowIInv
<1>1. /\ UNCHANGED <<kind, now, trades, air, wss, wssKeys, recKeys, marker, flow, row, job,
                     schedAt, gone, breaks>>
      /\ phase' \in {"pending", "gapping"}
      /\ now \in Nat /\ pend \in Seq(Items) /\ gap \in Seq(Items)
  BY DEF DrainPending, DrainGap, TypeOK, chain
<1>2. PICK e \in Items :
        /\ Apply(e)
        /\ pend' \in Seq(Items) /\ gap' \in Seq(Items)
        /\ Blocks(pend) \cup Blocks(gap) = Blocks(pend') \cup Blocks(gap') \cup {e.block}
  <2>1. CASE DrainPending
    <3>1. /\ pend # <<>> /\ Apply(Head(pend)) /\ pend' = Tail(pend) /\ gap' = gap
      BY <2>1 DEF DrainPending
    <3> QED BY <1>1, <3>1, TailBlocks
  <2>2. CASE DrainGap
    <3>1. /\ gap # <<>> /\ Apply(Head(gap)) /\ gap' = Tail(gap) /\ pend' = pend
      BY <2>2 DEF DrainGap
    <3> QED BY <1>1, <3>1, TailBlocks
  <2> QED BY <2>1, <2>2
<1>3. /\ applied' = applied \cup {e.block}
      /\ counted \subseteq counted' /\ counted' \subseteq counted \cup applied'
      /\ last' \in Int /\ saved' \in Int /\ sub' \in BOOLEAN
  BY <1>2, ApplyAdds
<1>4. Blocks(pend)' = Blocks(pend') /\ Blocks(gap)' = Blocks(gap')
  BY DEF Blocks
<1>5. e.block \in wssKeys \cup recKeys /\ wssKeys \cup recKeys \subseteq trades
  BY <1>2 DEF KeysInv, TypeOK
<1>6. KeysInv' /\ Accounted \subseteq Accounted'
  BY <1>1, <1>2, <1>3, <1>4, <1>5 DEF KeysInv, Accounted
<1>7. TypeOK'
  <2>1. applied' \subseteq trades /\ counted' \subseteq trades
    BY <1>3, <1>5 DEF TypeOK
  <2> QED BY <1>1, <1>2, <1>3, <2>1 DEF TypeOK
<1>8. Grown BY <1>1, <1>6 DEF Grown
<1>9. FlowInv(flow)' /\ FlowInv(row)'
  BY <1>1, <1>8, FlowInvGrows DEF TypeOK
<1>10. JobInv'
  <2>1. job.st = "begun" => now' <= job.began + MaxCall BY <1>1 DEF JobInv
  <2> QED BY <1>1, <1>8, <2>1, JobInvGrows
<1>11. MarkerInv' BY <1>1 DEF MarkerInv
<1> QED BY <1>6, <1>7, <1>9, <1>10, <1>11

\* The end of the first drain changes nothing else.
LEMMA EndPendingKeeps ==
    ASSUME FlowIInv, EndPending
    PROVE  FlowIInv'
<1> USE DEF FlowIInv
<1>1. /\ UNCHANGED <<kind, now, trades, air, wss, sub, pend, gap, wssKeys, recKeys, applied,
                     marker, last, saved, flow, row, job, schedAt, counted, gone, breaks>>
      /\ phase' = "results" /\ now \in Nat
  BY DEF EndPending, TypeOK, chain, queues, keys, mark, ghosts
<1>2. TypeOK' BY <1>1 DEF TypeOK
<1>3. Accounted' = Accounted /\ KeysInv' /\ MarkerInv'
  BY <1>1 DEF KeysInv, Accounted, MarkerInv
<1>4. Grown BY <1>1, <1>3 DEF Grown
<1>5. FlowInv(flow)' /\ FlowInv(row)' BY <1>1, <1>4, FlowInvGrows DEF TypeOK
<1>6. JobInv'
  <2>1. job.st = "begun" => now' <= job.began + MaxCall BY <1>1 DEF JobInv
  <2> QED BY <1>1, <1>4, <2>1, JobInvGrows
<1> QED BY <1>2, <1>3, <1>5, <1>6

\* The head of the chain, Confirmations taken off, is a block read by now.
LEMMA SafeHeadType ==
    ASSUME now \in Nat, NEW latest \in Nat, latest <= now
    PROVE  /\ SafeByNow(SafeHead(latest))
           /\ SafeHead(latest) \in Nat
           /\ SafeHead(latest) >= latest - Confirmations
  BY ConstantTypes DEF SafeByNow, SafeHead, Larger

\* A job learns the clock.
LEMMA JobBeginKeeps ==
    ASSUME FlowIInv, JobBegin
    PROVE  FlowIInv'
<1> USE DEF FlowIInv
<1>1. /\ UNCHANGED <<kind, now, trades, air, wss, sub, pend, gap, wssKeys, recKeys, applied,
                     marker, last, saved, flow, row, schedAt, phase, counted, gone, breaks>>
      /\ now \in Nat /\ job \in Jobs /\ job.st = "queued"
      /\ job' = [job EXCEPT !.st = "begun", !.began = now]
  BY DEF JobBegin, TypeOK, chain, queues, keys, mark, ghosts
<1>2. /\ job' \in Jobs /\ job'.st = "begun" /\ job'.from = job.from /\ job'.began = now
      /\ job'.safe = job.safe
  <2> DEFINE began == [job EXCEPT !.st = "begun"]
  <2>1. /\ began \in Jobs /\ began.st = "begun" /\ began.from = job.from
        /\ began.safe = job.safe
    BY <1>1 DEF Jobs
  <2>2. job' = [began EXCEPT !.began = now] BY <1>1
  <2> HIDE DEF began
  <2> QED BY <1>1, <2>1, <2>2 DEF Jobs
<1>3. TypeOK' BY <1>1, <1>2 DEF TypeOK
<1>4. Accounted' = Accounted /\ KeysInv' /\ MarkerInv'
  BY <1>1 DEF KeysInv, Accounted, MarkerInv
<1>5. Grown BY <1>1, <1>4 DEF Grown
<1>6. FlowInv(flow)' /\ FlowInv(row)' BY <1>1, <1>5, FlowInvGrows DEF TypeOK
<1>7. JobInv'
  <2>1. /\ job.safe = Never
        /\ job.from >= Never /\ job.from <= now + 1
        /\ job.from = Never <=> flow.cov = Never
        /\ job.from # Never => CoveredBefore(job.from, flow.cov)
    BY <1>1 DEF JobInv
  <2>2. job.from \in Int /\ flow.cov \in Int BY <1>1 DEF TypeOK, Jobs, Flows
  <2>3. job.from # Never => CoveredBefore(job.from, flow.cov)'
    BY <1>1, <1>2, <1>5, <2>1, <2>2, CoveredGrows DEF CoveredBefore
  <2>4. now <= now + MaxCall BY <1>1, ConstantTypes
  <2> QED BY <1>1, <1>2, <2>1, <2>3, <2>4 DEF JobInv, CoveredBefore
<1> QED BY <1>3, <1>4, <1>6, <1>7

\* No trade is so late that a coverage that starts now, or at a call not yet timed
\* out, would claim it, and so early that it is before a head read by now.
LEMMA HeadCovered ==
    ASSUME TypeOK
    PROVE  \A h, to, cov \in Int :
             /\ SafeByNow(h)
             /\ \/ to <= h + 1 /\ now <= cov
                \/ to <= h /\ now <= cov + MaxCall
             => CoveredBefore(to, cov)
<1>1. SUFFICES ASSUME NEW h \in Int, NEW to \in Int, NEW cov \in Int, SafeByNow(h),
                      \/ to <= h + 1 /\ now <= cov
                      \/ to <= h /\ now <= cov + MaxCall,
                      NEW b \in trades, cov + MaxCall - Confirmations <= b, b < to
               PROVE  FALSE
  BY DEF CoveredBefore
<1>2. now \in Nat /\ b \in Nat /\ b >= 1 BY <1>1 DEF TypeOK
<1>3. h = 0 \/ h <= now - Confirmations BY <1>1 DEF SafeByNow
<1>4. CASE h = 0 /\ to <= h BY <1>1, <1>2, <1>4
<1>5. CASE h = 0 /\ to <= h + 1 BY <1>1, <1>2, <1>5
<1>6. CASE h <= now - Confirmations BY <1>1, <1>2, <1>6, ConstantTypes
<1> QED BY <1>1, <1>2, <1>3, <1>4, <1>5, <1>6

\* A job learns the head, and where its range starts.
LEMMA JobHeadKeeps ==
    ASSUME FlowIInv, JobHead
    PROVE  FlowIInv'
<1> USE DEF FlowIInv
<1>1. /\ UNCHANGED <<kind, now, trades, air, wss, sub, pend, gap, wssKeys, recKeys, applied,
                     marker, last, saved, flow, row, schedAt, phase, counted, gone, breaks>>
      /\ now \in Nat /\ job \in Jobs /\ flow \in Flows /\ job.st = "begun"
  BY DEF JobHead, TypeOK, chain, queues, keys, mark, ghosts
<1>2. /\ job.safe = Never /\ job.from >= Never
      /\ job.from = Never <=> flow.cov = Never
      /\ job.from # Never => CoveredBefore(job.from, flow.cov)
      /\ 0 <= job.began /\ job.began <= now /\ now <= job.began + MaxCall
      /\ job.from \in Int /\ job.began \in Int /\ flow.cov \in Int
  BY <1>1 DEF JobInv, Jobs, Flows
<1>3. Accounted' = Accounted /\ KeysInv' /\ MarkerInv'
  BY <1>1 DEF KeysInv, Accounted, MarkerInv
<1>4. Grown BY <1>1, <1>3 DEF Grown
<1>5. FlowInv(flow)' /\ FlowInv(row)' BY <1>1, <1>4, FlowInvGrows DEF TypeOK
<1>6. job' \in Jobs /\ JobInv'
  <2>1. CASE job' = [job EXCEPT !.st = "headed"]
    <3>1. job' \in Jobs /\ job'.st = "headed" /\ job'.safe = Never
      BY <1>1, <1>2, <2>1 DEF Jobs
    <3> QED BY <3>1 DEF JobInv
  <2>2. ASSUME NEW latest \in Larger(0, now - NodeLag) .. now,
               job' = [job EXCEPT !.st = "headed", !.safe = SafeHead(latest),
                                  !.from = StartBlock(SafeHead(latest))]
        PROVE  job' \in Jobs /\ JobInv'
    <3> DEFINE safe == SafeHead(latest)
               from == StartBlock(safe)
               cov == IF flow.cov = Never THEN job.began ELSE flow.cov
    <3>1. latest \in Nat /\ latest <= now /\ latest >= now - NodeLag
      BY <1>1, ConstantTypes DEF Larger
    <3>2. SafeByNow(safe) /\ safe \in Nat /\ safe >= latest - Confirmations
      BY <1>1, <3>1, SafeHeadType
    <3>3. from \in Int /\ cov \in Int BY <1>2, <3>2 DEF StartBlock, Smaller
    <3>4. /\ job' \in Jobs /\ job'.st = "headed" /\ job'.safe = safe /\ job'.from = from
          /\ job'.began = job.began
      <4> DEFINE headed == [job EXCEPT !.st = "headed"]
                 read == [headed EXCEPT !.safe = safe]
      <4>1. headed \in Jobs /\ headed.st = "headed" /\ headed.began = job.began
        BY <1>1 DEF Jobs
      <4> HIDE DEF headed
      <4>2. read \in Jobs /\ read.st = "headed" /\ read.safe = safe /\ read.began = job.began
        BY <3>2, <4>1 DEF Jobs
      <4>3. job' = [read EXCEPT !.from = from] BY <2>2 DEF headed
      <4> HIDE DEF read, safe, from
      <4> QED BY <3>3, <4>2, <4>3 DEF Jobs
    <3>5. safe >= job.began - NodeLag - Confirmations
      BY <1>1, <1>2, <3>1, <3>2, ConstantTypes
    <3>6. from <= safe + 1 /\ safe <= now
      BY <1>1, <1>2, <3>2, SafeGrows, <1>4 DEF StartBlock, Smaller
    <3>7. CoveredBefore(from, cov)
      <4>1. CASE job.from = Never
        <5>1. from = safe /\ cov = job.began BY <1>2, <4>1 DEF StartBlock, Never
        <5> HIDE DEF safe, from, cov
        <5> QED BY <1>2, <3>2, <3>3, <5>1, HeadCovered
      <4>2. CASE job.from # Never
        <5>1. from <= job.from /\ cov = flow.cov
          BY <1>2, <3>2, <4>2 DEF StartBlock, Smaller, Never
        <5> HIDE DEF safe, from, cov
        <5>2. trades \subseteq Int BY DEF TypeOK
        <5> QED BY <1>2, <3>3, <4>2, <5>1, <5>2 DEF CoveredBefore
      <4> QED BY <4>1, <4>2
    <3>8. SafeByNow(job.safe)'
      BY <1>1, <3>2, <3>4 DEF SafeByNow
    <3>9. (IF flow.cov = Never THEN job.began ELSE flow.cov)' = cov BY <1>1, <3>4
    <3>10. from <= now + 1 BY <1>1, <3>2, <3>3, <3>6
    <3> HIDE DEF safe, from, cov
    <3>11. CoveredBefore(job.from, IF flow.cov = Never THEN job.began ELSE flow.cov)'
      BY <1>1, <1>4, <3>3, <3>4, <3>7, <3>9, <3>10, CoveredGrows DEF CoveredBefore
    <3> QED BY <1>1, <1>2, <3>4, <3>5, <3>8, <3>10, <3>11 DEF JobInv
  <2> QED BY <2>1, <2>2 DEF JobHead
<1>7. TypeOK' BY <1>1, <1>6 DEF TypeOK
<1> QED BY <1>3, <1>5, <1>6, <1>7

\* A failed scan withdraws the claim of completeness.
LEMMA AfterFailureClaims ==
    ASSUME FlowIInv, job.st = "headed"
    PROVE  AfterFailure(flow) \in Flows /\ FlowInv(AfterFailure(flow))
<1> DEFINE f1 == [flow EXCEPT !.safe = job.safe]
           f2 == [f1 EXCEPT !.health = "DEGRADED"]
           f == AfterFailure(flow)
<1>1. job.safe \in Int /\ (job.safe # Never => SafeByNow(job.safe))
  BY DEF FlowIInv, TypeOK, Jobs, JobInv
<1>2. f1 \in Flows /\ f1.safe = job.safe /\ f1.last = flow.last /\ f1.cov = flow.cov
  BY <1>1 DEF FlowIInv, TypeOK, Flows
<1> HIDE DEF f1
<1>3. f2 \in Flows /\ f2.safe = job.safe /\ f2.last = flow.last /\ f2.cov = flow.cov
  BY <1>2 DEF Flows
<1>4. f = [f2 EXCEPT !.window = FALSE] BY DEF f1, AfterFailure
<1> HIDE DEF f2
<1>5. /\ f \in Flows /\ f.safe = job.safe /\ f.last = flow.last /\ f.cov = flow.cov
      /\ f.window = FALSE
  BY <1>3, <1>4 DEF Flows
<1> HIDE DEF f
<1>6. FlowInv(f) BY <1>1, <1>5 DEF FlowIInv, FlowInv
<1> QED BY <1>5, <1>6 DEF f

\* What a result stands for, whether its scan failed or not: the state it leaves is
\* typed, and nothing is forgotten.
LEMMA ResultKeeps ==
    ASSUME FlowIInv, DrainResult, job.st = "headed", job' = NoJob, row' = flow', Commit,
           ResultComplete \/ ResultFailed
    PROVE  FlowIInv'
<1> USE DEF FlowIInv
<1>1. /\ UNCHANGED <<kind, now, trades, air, wss, sub, pend, wssKeys, applied, marker, last,
                     schedAt, breaks>>
      /\ phase' = "gap" /\ now \in Nat /\ gap \in Seq(Items) /\ flow \in Flows /\ job \in Jobs
      /\ counted' = counted \cup applied /\ saved' = last
  BY DEF DrainResult, TypeOK, chain, Commit
<1>2. job.safe \in Int /\ job.began \in Int /\ job.from \in Int /\ flow.cov \in Int
  BY <1>1 DEF Jobs, Flows
<1>3. NoJob \in Jobs /\ NoJob.st = "none" BY DEF NoJob, Jobs, Never
<1>4. CASE ResultFailed
  <2>1. flow' = AfterFailure(flow) /\ UNCHANGED <<gap, recKeys, gone>>
    BY <1>4 DEF ResultFailed
  <2>2. KeysInv' /\ Accounted \subseteq Accounted' /\ MarkerInv'
    BY <1>1, <2>1 DEF KeysInv, Accounted, MarkerInv
  <2>3. Grown BY <1>1, <2>2 DEF Grown
  <2>4. flow' \in Flows /\ FlowInv(flow)' /\ FlowInv(row)'
    <3> DEFINE f == AfterFailure(flow)
    <3>1. f \in Flows /\ FlowInv(f) BY AfterFailureClaims
    <3>2. flow' = f /\ row' = f BY <2>1
    <3> HIDE DEF f
    <3> QED BY <1>1, <2>3, <3>1, <3>2, FlowInvGrows DEF FlowInv, SafeByNow, CoveredBefore
  <2>5. TypeOK' BY <1>1, <1>3, <2>1, <2>4 DEF TypeOK
  <2>6. JobInv' BY <1>3 DEF JobInv
  <2> QED BY <2>2, <2>4, <2>5, <2>6
<1>5. CASE ResultComplete
  <2>1. PICK s \in Ascending(Missing) :
          /\ job.safe # Never
          /\ flow' = AfterScan(flow, Missing)
          /\ recKeys' = recKeys \cup Missing
          /\ gap' = Bounded(gap \o Recovered(s))
          /\ gone' = gone \cup Dropped(gap \o Recovered(s))
    BY <1>5 DEF ResultComplete
  <2> DEFINE q == gap \o Recovered(s)
             f == AfterScan(flow, Missing)
             cov == IF flow.cov = Never THEN job.began ELSE flow.cov
  <2>2. Missing \subseteq trades BY DEF Missing
  <2>3. Recovered(s) \in Seq(Items) /\ Blocks(Recovered(s)) = Missing
    BY <2>2, RecoveredBlocks
  <2>4. q \in Seq(Items) /\ Blocks(q) = Blocks(gap) \cup Missing
    BY <1>1, <2>3, ConcatBlocks
  <2>5. Bounded(q) \in Seq(Items) /\ Blocks(Bounded(q)) \cup Dropped(q) = Blocks(q)
    BY <2>4, BoundedBlocks
  <2>6. gap' = Bounded(q) /\ gone' = gone \cup Dropped(q) /\ Blocks(gap)' = Blocks(Bounded(q))
    BY <2>1 DEF Blocks
  <2> HIDE DEF q
  <2>7. /\ KeysInv' /\ MarkerInv'
        /\ Accounted \cup Missing \subseteq Accounted'
    BY <1>1, <2>1, <2>4, <2>5, <2>6 DEF KeysInv, Accounted, MarkerInv
  <2>8. Grown BY <1>1, <2>7 DEF Grown
  <2>9. /\ SafeByNow(job.safe) /\ job.began >= 0
        /\ job.safe >= job.began - NodeLag - Confirmations
        /\ CoveredBefore(job.from, cov)
    BY <2>1 DEF JobInv
  <2>10. cov \in Int /\ cov # Never /\ cov >= Never
    BY <1>2, <2>9 DEF FlowInv, Never
  <2>11. /\ f.last = job.safe /\ f.safe = job.safe /\ f.at = job.began /\ f.cov = cov
         /\ f.window => cov + Window <= now
         /\ f \in Flows
    <3>1. /\ f.last = job.safe /\ f.safe = job.safe /\ f.at = job.began /\ f.cov = cov
          /\ f.window = (now - cov >= Window)
          /\ f \in Flows
      BY <1>1, <1>2, <2>10, ConstantTypes DEF AfterScan, Flows
    <3>2. now - cov >= Window => cov + Window <= now BY <1>1, <2>10, ConstantTypes
    <3> QED BY <3>1, <3>2
  <2>12. \A b \in trades : cov + MaxCall - Confirmations <= b /\ b < job.safe + 1
                             => b \in Accounted'
    <3>1. SUFFICES ASSUME NEW b \in trades, cov + MaxCall - Confirmations <= b, b < job.safe + 1
                   PROVE  b \in Accounted'
      OBVIOUS
    <3>2. b \in Int BY DEF TypeOK
    <3>3. CASE b < job.from BY <2>7, <2>9, <3>1, <3>3 DEF CoveredBefore
    <3>4. CASE ~(b < job.from)
      <4>1. b \in Missing \/ b \in wssKeys \cup recKeys
        BY <1>2, <3>1, <3>2, <3>4 DEF Missing
      <4> QED BY <2>7, <4>1 DEF KeysInv
    <3> QED BY <3>3, <3>4
  <2> HIDE DEF f, cov
  <2>13. flow' = f /\ row' = f BY <2>1 DEF f
  <2>14. job.safe # Never BY <2>1
  <2>15. FlowInv(flow)'
    <3>1. flow'.last # Never /\ flow'.cov # Never /\ flow'.cov >= Never
      BY <2>10, <2>11, <2>13, <2>14
    <3>2. (flow.last # Never => SafeByNow(flow.last))' /\ (flow.safe # Never => SafeByNow(flow.safe))'
      BY <1>1, <1>2, <2>9, <2>11, <2>13 DEF SafeByNow
    <3>3. CoveredBefore(flow.last + 1, flow.cov)'
      BY <1>1, <2>11, <2>12, <2>13 DEF CoveredBefore
    <3>4. (flow.window => flow.cov # Never /\ flow.cov + Window <= now)'
      BY <1>1, <2>10, <2>11, <2>13, ConstantTypes
    <3>5. (flow.safe = flow.last /\ flow.last >= flow.at - NodeLag - Confirmations)'
      BY <2>9, <2>11, <2>13
    <3> QED BY <3>1, <3>2, <3>3, <3>4, <3>5 DEF FlowInv
  <2>16. FlowInv(row)' BY <2>13, <2>15 DEF FlowInv
  <2>17. TypeOK'
    <3>1. Dropped(q) \subseteq trades /\ recKeys' \subseteq trades
      BY <2>1, <2>2, <2>4, <2>5 DEF KeysInv, TypeOK
    <3> QED BY <1>1, <1>3, <2>5, <2>6, <2>11, <2>13, <3>1 DEF TypeOK
  <2>18. JobInv' BY <1>3 DEF JobInv
  <2> QED BY <2>7, <2>15, <2>16, <2>17, <2>18
<1> QED BY <1>4, <1>5

\* A tick without a result to drain changes no evidence.
LEMMA DrainResultKeeps ==
    ASSUME FlowIInv, DrainResult
    PROVE  FlowIInv'
<1> USE DEF FlowIInv
<1>1. CASE UNCHANGED <<gap, recKeys, gone, flow, row, job, saved, counted>>
  <2>1. /\ UNCHANGED <<kind, now, trades, air, wss, sub, pend, gap, wssKeys, recKeys, applied,
                       marker, last, saved, flow, row, job, schedAt, counted, gone, breaks>>
        /\ phase' = "gap" /\ now \in Nat
    BY <1>1 DEF DrainResult, TypeOK, chain
  <2>2. TypeOK' BY <2>1 DEF TypeOK
  <2>3. Accounted' = Accounted /\ KeysInv' /\ MarkerInv'
    BY <2>1 DEF KeysInv, Accounted, MarkerInv
  <2>4. Grown BY <2>1, <2>3 DEF Grown
  <2>5. FlowInv(flow)' /\ FlowInv(row)' BY <2>1, <2>4, FlowInvGrows DEF TypeOK
  <2>6. JobInv'
    <3>1. job.st = "begun" => now' <= job.began + MaxCall BY <2>1 DEF JobInv
    <3> QED BY <2>1, <2>4, <3>1, JobInvGrows
  <2> QED BY <2>2, <2>3, <2>5, <2>6
<1>2. CASE /\ job.st = "headed" /\ job' = NoJob /\ row' = flow' /\ Commit
           /\ ResultComplete \/ ResultFailed
  BY <1>2, ResultKeeps
<1> QED BY <1>1, <1>2 DEF DrainResult

\* A source that resumes nearer to the head claims nothing of the skipped blocks, and
\* it is never one whose last scan was complete.
LEMMA RescheduledClaims ==
    ASSUME FlowIInv
    PROVE  /\ Rescheduled(flow) \in Flows /\ FlowInv(Rescheduled(flow))
           /\ FromBlock \in Int /\ FromBlock >= Never /\ FromBlock <= now + 1
           /\ FromBlock = Never <=> Rescheduled(flow).cov = Never
           /\ FromBlock # Never => CoveredBefore(FromBlock, Rescheduled(flow).cov)
<1> USE DEF FlowIInv
<1>1. /\ now \in Nat /\ flow \in Flows /\ flow.last \in Int /\ flow.safe \in Int
      /\ flow.cov \in Int
  BY DEF TypeOK, Flows
<1>2. /\ flow.last # Never => SafeByNow(flow.last) /\ flow.last \in Nat /\ flow.last <= now
      /\ flow.safe # Never => SafeByNow(flow.safe) /\ flow.safe \in Nat /\ flow.safe <= now
      /\ flow.last = Never <=> flow.cov = Never
      /\ flow.cov # Never => CoveredBefore(flow.last + 1, flow.cov)
  BY <1>1, ConstantTypes DEF FlowInv, SafeByNow
<1>3. CASE ~TooFar
  <2>1. Rescheduled(flow) = flow BY <1>3 DEF Rescheduled
  <2>2. FromBlock = IF flow.last = Never THEN Never ELSE flow.last + 1
    BY <1>3 DEF FromBlock
  <2>3. FromBlock \in Int /\ FromBlock >= Never /\ FromBlock <= now + 1
    BY <1>1, <1>2, <2>2 DEF Never
  <2>4. FromBlock = Never <=> flow.cov = Never BY <1>1, <1>2, <2>2 DEF Never
  <2>5. FromBlock # Never => CoveredBefore(FromBlock, flow.cov)
    BY <1>2, <2>2
  <2> QED BY <1>1, <2>1, <2>3, <2>4, <2>5
<1>4. CASE TooFar
  <2> DEFINE f == [flow EXCEPT !.cov = now]
  <2>1. /\ flow.last # Never /\ flow.safe # Never /\ flow.last + 1 <= flow.safe - MaxLag
        /\ FromBlock = flow.safe - MaxLag + 1 /\ Rescheduled(flow) = f
    BY <1>4 DEF TooFar, FromBlock, Rescheduled
  <2>2. /\ f \in Flows /\ f.cov = now /\ f.last = flow.last /\ f.safe = flow.safe
        /\ f.window = flow.window
    BY <1>1 DEF Flows
  <2>3. flow.last # flow.safe BY <1>1, <1>2, <2>1, ConstantTypes
  <2>4. ~f.window
    BY <2>2, <2>3 DEF FlowInv
  <2>5. /\ FromBlock \in Int /\ FromBlock >= 0 /\ FromBlock <= flow.safe + 1
        /\ FromBlock <= now + 1 /\ FromBlock # Never
    BY <1>1, <1>2, <2>1, ConstantTypes DEF Never
  <2>6. CoveredBefore(FromBlock, now)
    BY <1>1, <1>2, <2>1, <2>5, HeadCovered
  <2>7. CoveredBefore(flow.last + 1, now)
    BY <1>1, <1>2, <2>1, HeadCovered
  <2>8. now # Never /\ now >= Never BY <1>1 DEF Never
  <2> HIDE DEF f
  <2>9. FlowInv(f) BY <1>2, <2>1, <2>2, <2>4, <2>7, <2>8 DEF FlowInv
  <2>10. FromBlock >= Never BY <2>5 DEF Never
  <2> QED BY <2>1, <2>2, <2>5, <2>6, <2>8, <2>9, <2>10
<1> QED BY <1>3, <1>4

\* The end of a tick commits, and may queue a job.
LEMMA FinishTickKeeps ==
    ASSUME FlowIInv, FinishTick
    PROVE  FlowIInv'
<1> USE DEF FlowIInv
<1>1. /\ UNCHANGED <<kind, now, trades, air, wss, sub, pend, gap, wssKeys, recKeys, applied,
                     marker, row, gone, breaks>>
      /\ phase' \in {"idle", "closed"} /\ now \in Nat
      /\ counted' = counted \cup applied /\ saved' = last' /\ last' = LastTrade
  BY DEF FinishTick, TypeOK, Commit, chain, queues, keys
<1>2. last' \in Int BY <1>1 DEF LastTrade, Larger, TypeOK
<1>3. KeysInv' /\ Accounted \subseteq Accounted' /\ MarkerInv'
  BY <1>1 DEF KeysInv, Accounted, MarkerInv
<1>4. Grown BY <1>1, <1>3 DEF Grown
<1>5. FlowInv(row)' BY <1>1, <1>4, FlowInvGrows DEF TypeOK
<1>6. schedAt' \in Int /\ job' \in Jobs /\ flow' \in Flows /\ FlowInv(flow)' /\ JobInv'
  <2>1. CASE UNCHANGED <<job, flow>>
    <3>1. schedAt' \in Int BY <1>1, <2>1 DEF FinishTick, Scheduled, TypeOK
    <3>2. FlowInv(flow)' BY <1>1, <1>4, <2>1, FlowInvGrows DEF TypeOK
    <3>3. JobInv'
      <4>1. job.st = "begun" => now' <= job.began + MaxCall BY <1>1 DEF JobInv
      <4> QED BY <1>4, <2>1, <4>1, JobInvGrows
    <3> QED BY <2>1, <3>1, <3>2, <3>3 DEF TypeOK
  <2>2. CASE /\ schedAt' = now
             /\ job' = [NoJob EXCEPT !.st = "queued", !.from = FromBlock]
             /\ flow' = Rescheduled(flow)
    <3> DEFINE f == Rescheduled(flow)
               from == FromBlock
    <3>1. /\ f \in Flows /\ FlowInv(f)
          /\ from \in Int /\ from >= Never /\ from <= now + 1
          /\ from = Never <=> f.cov = Never
          /\ from # Never => CoveredBefore(from, f.cov)
      BY RescheduledClaims
    <3>2. flow' = f BY <2>2
    <3>3. job' = [st |-> "queued", from |-> from, began |-> Never, safe |-> Never]
      BY <2>2 DEF NoJob
    <3> HIDE DEF f, from
    <3>4. job' \in Jobs /\ job'.st = "queued" /\ job'.safe = Never /\ job'.from = from
      BY <3>1, <3>3 DEF Jobs, Never
    <3>5. FlowInv(flow)'
      BY <1>1, <1>4, <3>1, <3>2, FlowInvGrows DEF FlowInv, SafeByNow, CoveredBefore
    <3>6. CoveredBefore(from, f.cov) => CoveredBefore(job.from, flow.cov)'
      <4>1. f.cov \in Int BY <3>1 DEF Flows
      <4> QED BY <1>1, <1>4, <3>1, <3>2, <3>4, <4>1, CoveredGrows DEF CoveredBefore
    <3>7. JobInv' BY <1>1, <3>1, <3>2, <3>4, <3>6 DEF JobInv
    <3> QED BY <1>1, <2>2, <3>1, <3>2, <3>4, <3>5, <3>7
  <2> QED BY <2>1, <2>2 DEF FinishTick, Scheduled
<1>7. TypeOK' BY <1>1, <1>2, <1>6 DEF TypeOK
<1> QED BY <1>3, <1>5, <1>6, <1>7

\* A new process starts from the row; what only the old one knew is gone.
LEMMA RestartKeeps ==
    ASSUME FlowIInv, Restart
    PROVE  FlowIInv'
<1> USE DEF FlowIInv
<1>1. /\ UNCHANGED <<kind, now, trades, saved, row, counted>>
      /\ now \in Nat /\ breaks' = breaks + 1 /\ wss' = "none" /\ air' = {}
      /\ pend' = <<>> /\ gap' = <<>> /\ wssKeys' = {} /\ recKeys' = {} /\ applied' = {}
      /\ marker' = Never /\ flow' = row /\ job' = NoJob /\ schedAt' = Never
      /\ last' = saved /\ phase' = "idle"
      /\ gone' = gone \cup ((wssKeys \cup recKeys) \ counted)
  BY DEF Restart, TypeOK
<1>2. sub' \in BOOLEAN BY DEF Restart
<1>3. Blocks(pend)' = {} /\ Blocks(gap)' = {} BY <1>1 DEF Blocks
<1>4. KeysInv' /\ Accounted \subseteq Accounted' /\ MarkerInv'
  BY <1>1, <1>3 DEF KeysInv, Accounted, MarkerInv
<1>5. Grown BY <1>1, <1>4 DEF Grown
<1>6. FlowInv(row)' BY <1>1, <1>5, FlowInvGrows DEF TypeOK
<1>7. FlowInv(flow)' BY <1>1, <1>6 DEF FlowInv
<1>8. NoJob \in Jobs /\ NoJob.st = "none" BY DEF NoJob, Jobs, Never
<1>9. JobInv' BY <1>1, <1>8 DEF JobInv
<1>10. TypeOK'
  <2>1. <<>> \in Seq(Items) /\ Never \in Int /\ breaks' \in Nat BY <1>1 DEF Never, TypeOK
  <2> QED BY <1>1, <1>2, <1>8, <2>1 DEF TypeOK
<1> QED BY <1>4, <1>6, <1>7, <1>9, <1>10

-----------------------------------------------------------------------------
(* The theorems *)

\* Before the first scan nothing is claimed.
LEMMA InitClaims == Init => FlowIInv
<1> SUFFICES ASSUME Init PROVE FlowIInv
  OBVIOUS
<1>1. NoFlow \in Flows /\ NoJob \in Jobs /\ <<>> \in Seq(Items) /\ Never \in Int
  BY DEF NoFlow, NoJob, Flows, Jobs, Never
<1>2. TypeOK
  <2>1. sub \in BOOLEAN BY DEF Init
  <2>2. pend \in Seq(Items) /\ gap \in Seq(Items) BY <1>1 DEF Init
  <2> QED BY <1>1, <2>1, <2>2 DEF Init, TypeOK
<1>3. KeysInv /\ MarkerInv BY DEF Init, KeysInv, Accounted, Blocks, MarkerInv
<1>4. FlowInv(NoFlow) BY DEF FlowInv, NoFlow, Never
<1>5. JobInv BY DEF Init, JobInv, NoJob
<1> QED BY <1>2, <1>3, <1>4, <1>5 DEF Init, FlowIInv

\* Every step, and every stutter, preserves the invariant.
LEMMA NextClaims == FlowIInv /\ [Next]_vars => FlowIInv'
<1> SUFFICES ASSUME FlowIInv, [Next]_vars PROVE FlowIInv'
  OBVIOUS
<1>1. CASE Mine BY <1>1, MineKeeps
<1>2. CASE WssUp \/ WssDown BY <1>2, WssKeeps
<1>3. CASE \E b \in air : Deliver(b) BY <1>3, DeliverKeeps
<1>4. CASE DrainPending \/ DrainGap BY <1>4, DrainKeeps
<1>5. CASE EndPending BY <1>5, EndPendingKeeps
<1>6. CASE DrainResult BY <1>6, DrainResultKeeps
<1>7. CASE FinishTick BY <1>7, FinishTickKeeps
<1>8. CASE JobBegin BY <1>8, JobBeginKeeps
<1>9. CASE JobHead BY <1>9, JobHeadKeeps
<1>10. CASE Restart BY <1>10, RestartKeeps
<1>11. CASE UNCHANGED vars
  <2>1. UNCHANGED <<kind, now, trades, air, wss, sub, pend, gap, wssKeys, recKeys, applied,
                    marker, last, saved, flow, row, job, schedAt, phase, counted, gone, breaks>>
    BY <1>11 DEF vars, chain, queues, keys, mark, ghosts
  <2>2. TypeOK' /\ KeysInv' /\ MarkerInv'
    BY <2>1 DEF FlowIInv, TypeOK, KeysInv, MarkerInv, Accounted
  <2>3. FlowInv(flow)' /\ FlowInv(row)' /\ JobInv'
    BY <2>1 DEF FlowIInv, FlowInv, JobInv, SafeByNow, CoveredBefore, Accounted
  <2> QED BY <2>2, <2>3 DEF FlowIInv
<1> QED BY <1>1, <1>2, <1>3, <1>4, <1>5, <1>6, <1>7, <1>8, <1>9, <1>10, <1>11 DEF Next

\* A window is flagged complete only if every trade it has to cover is accounted for,
\* whatever is scanned, missed, skipped, lost or restarted.
THEOREM ClaimsHold == Spec => []FlowIInv
  BY InitClaims, NextClaims, PTL DEF Spec

\* The types of the state.
THEOREM Types == Spec => []TypeOK
<1>1. FlowIInv => TypeOK BY DEF FlowIInv
<1> QED BY <1>1, ClaimsHold, PTL

\* The one step that sells is the end of a tick on which the rule's conditions hold.
LEMMA SaleConditions ==
    ASSUME FlowIInv, [Next]_vars, Sells
    PROVE  FinishTick /\ Idle /\ Verified
<1>1. phase # "closed" /\ phase' = "closed" BY DEF Sells
<1>2. FinishTick
  BY <1>1 DEF Next, vars, Mine, WssUp, WssDown, Deliver, DrainPending, EndPending,
              DrainResult, DrainGap, JobBegin, JobHead, Restart
<1> QED BY <1>1, <1>2 DEF FinishTick

\* The verdict of a complete window covers the time of the no-trade rule.
THEOREM SaleIsCovered == Spec => VerdictCovered
<1>1. FlowIInv /\ [Next]_vars =>
        [Sells => \A b \in trades : now - NoTrade < b /\ b <= now - Unread => b \in Accounted]_vars
  <2> SUFFICES ASSUME FlowIInv, [Next]_vars, Sells,
                      NEW b \in trades, now - NoTrade < b, b <= now - Unread
               PROVE  b \in Accounted
    OBVIOUS
  <2>1. Verified BY SaleConditions
  <2>2. /\ now \in Nat /\ b \in Int
        /\ flow.last \in Int /\ flow.at \in Int /\ flow.cov \in Int
    BY DEF FlowIInv, TypeOK, Flows
  <2>3. /\ flow.window /\ now - flow.at <= Fresh
    BY <2>1 DEF Verified
  <2>4. /\ flow.cov + Window <= now /\ flow.last >= flow.at - NodeLag - Confirmations
        /\ CoveredBefore(flow.last + 1, flow.cov)
    BY <2>3 DEF FlowIInv, FlowInv
  <2>5. b < flow.last + 1 BY <2>2, <2>3, <2>4, ConstantTypes DEF Unread
  <2>6. flow.cov + MaxCall - Confirmations <= b BY <2>2, <2>4, ConstantTypes
  <2> QED BY <2>4, <2>5, <2>6 DEF CoveredBefore
<1> QED BY <1>1, ClaimsHold, PTL DEF Spec, VerdictCovered

\* What arrived on the socket is not forgotten by the rule while it waits.
THEOREM SaleRespectsMarker == Spec => ReceivedTradeKeepsPool
<1>1. FlowIInv /\ [Next]_vars =>
        [Sells /\ kind = "pool" => \A b \in wssKeys : b <= now - NoTrade]_vars
  <2> SUFFICES ASSUME FlowIInv, [Next]_vars, Sells, kind = "pool", NEW b \in wssKeys
               PROVE  b <= now - NoTrade
    OBVIOUS
  <2>1. now - LastTrade >= NoTrade BY SaleConditions DEF Idle
  <2>2. b <= marker BY DEF FlowIInv, MarkerInv
  <2>3. b \in Int /\ marker \in Int /\ last \in Int /\ now \in Nat
    BY DEF FlowIInv, TypeOK
  <2> QED BY <2>1, <2>2, <2>3, ConstantTypes DEF LastTrade, Larger
<1> QED BY <1>1, ClaimsHold, PTL DEF Spec, ReceivedTradeKeepsPool

=============================================================================
