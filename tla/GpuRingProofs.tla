--------------------------- MODULE GpuRingProofs ---------------------------
(***************************************************************************)
(* Whatever a node of the GPU ring does is allowed and in order.  The      *)
(* order of arrival, the state of each zone of a pass and what the free    *)
(* lists hold leave no node a reason to throw.  Each device slot is in one *)
(* place at a time, and whoever uses it next waits for the event recorded  *)
(* after its last use: no two operations on a slot or a pinned buffer race.*)
(***************************************************************************)
EXTENDS GpuConveyorProofs

-----------------------------------------------------------------------------
(* The shape of a pass.  c positions are computed; that fixes the state of   *)
(* the machine of each zone that arrived.                                    *)

ComputedCount(k) == IF pc[k] \in {"io", "compute"} THEN loc[k].pos ELSE N

FsmIs(s, type, mask) == s.fsm.type = type /\ s.fsm.contrib_mask = mask

SlotShape(s, j, c, ended) ==
  /\ s.computed <=> j < c
  /\ s.drifted <=> (j < c \/ (j = c /\ c > 0))
  /\ (j < c /\ j \notin ended) => FsmIs(s, "c", IF c = N THEN {"closure"} ELSE {})
  /\ j = c => IF c = 0 THEN FsmIs(s, "d", {}) ELSE FsmIs(s, "w", {"prev"})
  /\ j > c => FsmIs(s, "d", {})

Shaped(p, c) ==
  /\ \A j \in Zones : j < p.arrived => SlotShape(p.slot[j], j, c, p.ended)
  /\ \A q \in 1 .. Len(p.outq) : p.slot[p.outq[q]].fsm.type = "p"

LEMMA StartedIs ==
  ASSUME NEW s \in PassSlots, NEW j \in Zones
  PROVE  /\ Started(s, j) \in PassSlots
         /\ Started(s, j).computed = TRUE /\ Started(s, j).drifted = TRUE
         /\ Started(s, j).fsm.type = "c"
         /\ Started(s, j).fsm.contrib_mask = s.fsm.contrib_mask
<1>1. s.fsm \in ZoneRecords
  BY SlotFields
<1> DEFINE seeded == IF j = 0 THEN SeedFirstZone(s.fsm) ELSE s.fsm
<1>2. seeded \in ZoneRecords /\ seeded.contrib_mask = s.fsm.contrib_mask
  BY <1>1, ApplyType DEF SeedFirstZone, ZoneEvents, Apply
<1>3. Started(s, j) = [s EXCEPT !.drifted = TRUE, !.computed = TRUE,
                                !.fsm = Apply(seeded, "START")]
  BY DEF Started, PassSlots
<1> HIDE DEF seeded
<1>4. Apply(seeded, "START") \in ZoneRecords
  BY <1>2, ApplyType DEF ZoneEvents
<1>5. Apply(seeded, "START").type = "c"
      /\ Apply(seeded, "START").contrib_mask = seeded.contrib_mask
  BY DEF Apply, Target
<1>6. QED
  BY <1>2, <1>3, <1>4, <1>5 DEF PassSlots

LEMMA MetIs ==
  ASSUME NEW s \in PassSlots, NEW j \in Zones
  PROVE  /\ Met(s, j) \in PassSlots /\ Met(s, j).computed = s.computed
         /\ j = 0 => /\ Met(s, j).drifted = s.drifted
                     /\ Met(s, j).fsm.type = s.fsm.type
                     /\ Met(s, j).fsm.contrib_mask = s.fsm.contrib_mask \cup {"closure"}
         /\ j # 0 => /\ Met(s, j).drifted = TRUE /\ Met(s, j).fsm.type = "w"
                     /\ Met(s, j).fsm.contrib_mask = s.fsm.contrib_mask \cup {"prev"}
<1>1. s.fsm \in ZoneRecords
  BY SlotFields
<1>2. CASE j = 0
  <2> DEFINE f == Contribute(s.fsm, "closure")
  <2>1. Met(s, j) = [s EXCEPT !.fsm = f]
    BY <1>2 DEF Met, PassSlots
  <2>2. /\ f \in ZoneRecords /\ f.type = s.fsm.type
        /\ f.contrib_mask = s.fsm.contrib_mask \cup {"closure"}
    BY <1>1 DEF Contribute, ZoneRecords, Contributors
  <2> HIDE DEF f
  <2>3. QED
    BY <1>2, <2>1, <2>2 DEF PassSlots
<1>3. CASE j # 0
  <2> DEFINE a == Apply(s.fsm, "SPHERE")
             f == Contribute(a, "prev")
  <2>1. Met(s, j) = [s EXCEPT !.drifted = TRUE, !.fsm = f]
    BY <1>3 DEF Met, PassSlots
  <2>2. a \in ZoneRecords /\ a.type = "w" /\ a.contrib_mask = s.fsm.contrib_mask
    BY <1>1, ApplyType DEF ZoneEvents, Apply, Target
  <2> HIDE DEF a
  <2>3. /\ f \in ZoneRecords /\ f.type = "w"
        /\ f.contrib_mask = s.fsm.contrib_mask \cup {"prev"}
    BY <2>2 DEF Contribute, ZoneRecords, Contributors
  <2> HIDE DEF f
  <2>4. QED
    BY <1>3, <2>1, <2>3 DEF PassSlots
<1>4. QED
  BY <1>2, <1>3

LEMMA ComputedShape ==
  ASSUME NEW slot \in [Zones -> PassSlots], NEW j \in Zones, NEW a \in Nat,
         LastNeeded(j) < a, NEW ended \in SUBSET Zones, j \notin ended,
         \A i \in Zones : (i < j /\ i \notin ended) => DeferHead /\ i = 0,
         \A i \in Zones : i < a => SlotShape(slot[i], i, j, ended)
  PROVE  /\ ComputeLegal(slot, j)
         /\ ~HeldBack(j) => EndLegal(ComputedSlots(slot, j)[j].fsm, j)
         /\ \A i \in Zones : i < a =>
              SlotShape(EndedSlots(slot, j)[i], i, j + 1,
                        IF HeldBack(j) THEN ended ELSE ended \cup {j})
<1> DEFINE new == ComputedSlots(slot, j)
<1>1. /\ N \in Nat \ {0} /\ j \in 0 .. N - 1 /\ 0 \in Zones /\ Zones = 0 .. N - 1
      /\ j < a /\ (j + 1 < N => j + 1 < a /\ j + 1 \in Zones)
      /\ DeferHead => N > 1
  BY RingFacts DEF Zones, LastNeeded, DeferHead
<1>2. \A i \in Zones : slot[i] \in PassSlots
  OBVIOUS
<1>3. SlotShape(slot[j], j, j, ended) /\ slot[j].fsm \in ZoneRecords
  BY <1>1, <1>2, SlotFields
<1>4. j + 1 < N => SlotShape(slot[j + 1], j + 1, j, ended)
  BY <1>1
<1>5. /\ new[j] = Started(slot[j], j)
      /\ j + 1 < N => new[j + 1] = Met(slot[j + 1], j + 1)
      /\ \A i \in Zones : (i > j /\ ~(i = j + 1 /\ j + 1 < N)) => new[i] = slot[i]
      /\ \A i \in Zones : i < j => new[i] = IF DeferHead /\ j + 1 = N /\ i = 0
                                             THEN Met(slot[i], i) ELSE slot[i]
  BY <1>1 DEF ComputedSlots, MetBy
<1>6. /\ new[j].computed = TRUE /\ new[j].drifted = TRUE
      /\ FsmIs(new[j], "c", IF j = 0 THEN {} ELSE {"prev"})
  <2>1. /\ Started(slot[j], j).computed = TRUE /\ Started(slot[j], j).drifted = TRUE
        /\ Started(slot[j], j).fsm.type = "c"
        /\ Started(slot[j], j).fsm.contrib_mask = slot[j].fsm.contrib_mask
    BY <1>2, StartedIs
  <2>2. slot[j].fsm.contrib_mask = IF j = 0 THEN {} ELSE {"prev"}
    BY <1>3 DEF SlotShape, FsmIs
  <2> HIDE DEF new
  <2>3. QED
    BY <1>5, <2>1, <2>2 DEF FsmIs
<1>7. j + 1 < N => /\ new[j + 1].computed = FALSE /\ new[j + 1].drifted = TRUE
                   /\ FsmIs(new[j + 1], "w", {"prev"})
  <2> SUFFICES ASSUME j + 1 < N
               PROVE  /\ new[j + 1].computed = FALSE /\ new[j + 1].drifted = TRUE
                      /\ FsmIs(new[j + 1], "w", {"prev"})
    OBVIOUS
  <2>1. j + 1 # 0 /\ j + 1 > j /\ ~(j + 1 < j)
    BY <1>1
  <2>2. slot[j + 1] \in PassSlots /\ slot[j + 1].computed \in BOOLEAN
    BY <1>1, <1>2 DEF PassSlots
  <2>3. ~slot[j + 1].computed /\ FsmIs(slot[j + 1], "d", {})
    BY <1>4, <2>1 DEF SlotShape
  <2> DEFINE i == j + 1
  <2>4. i \in Zones /\ i # 0
    BY <1>1, <2>1
  <2> HIDE DEF i
  <2>5. /\ Met(slot[i], i).computed = slot[i].computed /\ Met(slot[i], i).drifted = TRUE
        /\ Met(slot[i], i).fsm.type = "w"
        /\ Met(slot[i], i).fsm.contrib_mask = slot[i].fsm.contrib_mask \cup {"prev"}
    BY <1>2, <2>4, MetIs, Zenon
  <2> HIDE DEF new
  <2>6. QED
    BY <1>5, <2>2, <2>3, <2>5 DEF i, FsmIs
<1>8. ComputeLegal(slot, j)
  <2>1. j > 0 => slot[j - 1].computed
    <3> SUFFICES ASSUME j > 0 PROVE slot[j - 1].computed
      OBVIOUS
    <3> DEFINE i == j - 1
    <3>1. i \in Zones /\ i < j /\ i < a
      BY <1>1
    <3> HIDE DEF i
    <3>2. slot[i].computed
      BY <3>1 DEF SlotShape
    <3>3. QED
      BY <3>2 DEF i
  <2>2. Allowed(slot[j].fsm.type, IF j = 0 THEN "SPHERE" ELSE "START")
    BY <1>1, <1>3 DEF SlotShape, FsmIs, Allowed
  <2>3. j + 1 < N => Allowed(slot[j + 1].fsm.type, "SPHERE")
    <3>1. j + 1 > j
      BY <1>1
    <3>2. QED
      BY <1>4, <3>1 DEF SlotShape, FsmIs, Allowed
  <2>4. QED
    BY <2>1, <2>2, <2>3 DEF ComputeLegal
<1>9. ~HeldBack(j) => EndLegal(new[j].fsm, j)
  BY <1>6 DEF HeldBack, EndLegal, FsmIs, WantMask, Allowed
<1>10. ASSUME NEW i \in Zones, i < a
       PROVE  SlotShape(EndedSlots(slot, j)[i], i, j + 1,
                        IF HeldBack(j) THEN ended ELSE ended \cup {j})
  <2> DEFINE E == IF HeldBack(j) THEN ended ELSE ended \cup {j}
             t == EndedSlots(slot, j)[i]
  <2>0. i \in 0 .. N - 1 /\ SlotShape(slot[i], i, j, ended) /\ slot[i] \in PassSlots
    BY <1>1, <1>2, <1>10
  <2>1. CASE i = j
    <3>1. /\ t.computed = TRUE /\ t.drifted = TRUE
          /\ HeldBack(j) => FsmIs(t, "c", {}) /\ j + 1 # N
      <4>1. CASE HeldBack(j)
        <5>1. t = new[j] /\ j = 0 /\ DeferHead
          BY <2>1, <4>1 DEF EndedSlots, HeldBack
        <5>2. j + 1 # N
          BY <1>1, <5>1
        <5> HIDE DEF new, t
        <5>3. QED
          BY <1>6, <5>1, <5>2
      <4>2. CASE ~HeldBack(j)
        <5>1. t = [new[j] EXCEPT !.fsm = Apply(@, "END")]
          BY <2>1, <4>2 DEF EndedSlots
        <5>2. new[j] \in PassSlots
          BY ComputedSlotsType
        <5> HIDE DEF new, t
        <5>3. t.computed = new[j].computed /\ t.drifted = new[j].drifted
          BY <5>1, <5>2 DEF PassSlots
        <5>4. QED
          BY <1>6, <4>2, <5>3
      <4>3. QED
        BY <4>1, <4>2
    <3>2. i < j + 1 /\ i # j + 1 /\ ~(i > j + 1)
      BY <2>0, <2>1
    <3>3. i \notin E => HeldBack(j)
      BY <2>1
    <3> HIDE DEF t, E
    <3>4. SlotShape(t, i, j + 1, E)
      BY <3>1, <3>2, <3>3 DEF SlotShape
    <3>5. QED
      BY <3>4 DEF t, E
  <2>2. CASE i # j
    <3>1. t = new[i]
      BY <2>2 DEF EndedSlots
    <3>2. i \in E <=> i \in ended
      BY <2>2
    <3>3. CASE i = j + 1
      <4>1. j + 1 < N /\ i > 0 /\ ~(i < j + 1)
        BY <1>1, <2>0, <3>3
      <4>2. ~t.computed /\ t.drifted /\ FsmIs(t, "w", {"prev"})
        BY <1>7, <3>1, <3>3, <4>1
      <4> HIDE DEF t, E
      <4>3. SlotShape(t, i, j + 1, E)
        BY <2>0, <3>3, <4>1, <4>2 DEF SlotShape
      <4>4. QED
        BY <4>3 DEF t, E
    <3>4. CASE i > j + 1
      <4>1. t = slot[i] /\ i > j /\ i # j /\ ~(i < j) /\ ~(i < j + 1) /\ i # j + 1
        BY <1>1, <1>5, <2>0, <3>1, <3>4
      <4> HIDE DEF t, E
      <4>2. SlotShape(t, i, j + 1, E)
        BY <2>0, <3>4, <4>1 DEF SlotShape
      <4>3. QED
        BY <4>2 DEF t, E
    <3>5. CASE i < j
      <4>0. i < j + 1 /\ i # j + 1 /\ ~(i > j + 1) /\ j # N
        BY <1>1, <2>0, <3>5
      <4>1. /\ slot[i].computed /\ slot[i].drifted
            /\ i \notin ended => FsmIs(slot[i], "c", {}) /\ DeferHead /\ i = 0
        BY <2>0, <3>5, <4>0 DEF SlotShape
      <4>2. /\ t.computed /\ t.drifted
            /\ i \notin ended => FsmIs(t, "c", IF j + 1 = N THEN {"closure"} ELSE {})
        <5>1. CASE DeferHead /\ j + 1 = N /\ i = 0
          <6>1. t = Met(slot[i], i)
            BY <1>5, <3>1, <3>5, <5>1
          <6> HIDE DEF t
          <6>2. /\ t.computed = slot[i].computed /\ t.drifted = slot[i].drifted
                /\ t.fsm.type = slot[i].fsm.type
                /\ t.fsm.contrib_mask = slot[i].fsm.contrib_mask \cup {"closure"}
            BY <2>0, <5>1, <6>1, MetIs, ZenonT(40)
          <6>3. QED
            BY <4>1, <5>1, <6>2 DEF FsmIs
        <5>2. CASE ~(DeferHead /\ j + 1 = N /\ i = 0)
          <6>1. t = slot[i]
            BY <1>5, <3>1, <3>5, <5>2
          <6> HIDE DEF t
          <6>2. QED
            BY <4>1, <5>2, <6>1
        <5>3. QED
          BY <5>1, <5>2
      <4> HIDE DEF t, E
      <4>3. SlotShape(t, i, j + 1, E)
        BY <3>2, <4>0, <4>2 DEF SlotShape
      <4>4. QED
        BY <4>3 DEF t, E
    <3>6. QED
      BY <1>1, <2>0, <2>2, <3>3, <3>4, <3>5
  <2>3. QED
    BY <2>1, <2>2
<1>11. QED
  BY <1>8, <1>9, <1>10


-----------------------------------------------------------------------------
(* Zones arrive in order.                                                    *)

\* What a working node finds at the head of its lane is the next zone of its
\* pass: an older pass has arrived whole, a later one is sent only after all of
\* this pass, and of this pass what was sent before has been taken.
LEMMA HeadIsNext ==
  ASSUME BaseInv, RingInv, NEW k \in Nodes, AwaitsArrival(k), pass[k] # 1,
         NEW S, Lane(InEdge(k)) \in Seq(S), Lane(InEdge(k)) # <<>>,
         ~IsPoison(Head(Lane(InEdge(k))))
  PROVE  Key(Head(Lane(InEdge(k)))) = <<pass[k] - 1, loc[k].arrived>>
<1> DEFINE e == InEdge(k)
           key == Key(Head(Lane(e)))
<1>0. /\ TypeInv /\ FlowInv /\ DataInv /\ e \in Nodes /\ Consumer(e) = k
      /\ N \in Nat \ {0} /\ Zones = 0 .. N - 1
  BY EdgesAreNodes, ConsumerOfIn, RingFacts DEF BaseInv, Zones
<1>p. PICK p, a : p = pass[k] /\ a = loc[k].arrived
  OBVIOUS
<1>1. a \in Zones /\ pc[k] = "io" /\ pc[k] \in AtWork /\ pc[k] \notin Stopped
  BY <1>0, <1>p, AwaitedIsZone DEF AtWork, Stopped
<1>2. /\ p \in Nat \ {0} /\ p <= Steps /\ Owner(p) = k /\ loc[k].agg.pass = p
      /\ p # 1 /\ Steps \in Nat \ {0}
  BY <1>0, <1>1, <1>p, NodeFlow, RingFacts DEF PassOfNode
<1>3. PICK g : g = p - 1
  OBVIOUS
<1>4. /\ g \in Nat \ {0} /\ g \in Sends /\ g + 1 = p
  BY <1>2, <1>3 DEF Sends, Passes
<1>5. Owner(g) = e
  <2>1. Owner(g) \in Nodes /\ Consumer(Owner(g)) = k
    BY <1>2, <1>4, OwnerFacts, OwnerNext
  <2>2. QED
    BY <2>1, ConsumerOfIn
<1>6. /\ key \in OnWay(e)
      /\ \A x \in OnWay(e) : x = key \/ Precedes(key, x)
  <2>1. Live(e) = TRUE
    BY <1>0, <1>1 DEF Live
  <2>2. LaneOK(Lane(e), OnWay(e), Cut(e), TRUE)
    BY <1>0, <2>1 DEF RingInv, LaneInv
  <2> HIDE DEF e
  <2>3. QED
    BY <2>2, LaneFirst DEF e
<1>7. PICK h \in Sends, q \in Zones :
        /\ key = <<h, q>> /\ Owner(h) = e
        /\ ArrivedOf(h + 1) <= q /\ q < SentOf(h)
  <2>1. /\ key \in Sends \X Zones /\ Owner(key[1]) = e
        /\ ArrivedOf(key[1] + 1) <= key[2] /\ key[2] < SentOf(key[1])
    BY <1>6 DEF OnWay
  <2> HIDE DEF key
  <2>2. PICK h \in Sends, q \in Zones : key = <<h, q>>
    BY <2>1
  <2>3. QED
    BY <2>1, <2>2
<1> HIDE DEF key
<1>8. h \in Nat \ {0} /\ h + 1 \in Nat \ {0} /\ q \in Nat /\ q < N /\ a \in Nat /\ a < N
  BY <1>0, <1>1, SendsFacts
<1>9. Owner(h + 1) = k
  BY <1>0, <1>7, <1>8, OwnerNext
<1>10. ~(p > h + 1)
  <2> DEFINE f == h + 1
  <2>1. f \in Nat \ {0} /\ Owner(f) = k
    BY <1>8, <1>9
  <2> HIDE DEF f
  <2>2. p > f => ArrivedOf(f) = N
    BY <1>p, <2>1 DEF ArrivedOf
  <2>3. QED
    BY <1>0, <1>7, <1>8, <2>2 DEF f
<1>11. ArrivedOf(p) = a
  BY <1>2, <1>p DEF ArrivedOf
<1>12. <<g, a>> \in OnWay(e) => <<g, a>> = key \/ g > h \/ (g = h /\ a > q)
  <2>1. <<g, a>> \in OnWay(e) => <<g, a>> = key \/ Precedes(key, <<g, a>>)
    BY <1>6
  <2>2. Precedes(<<h, q>>, <<g, a>>) <=> h < g \/ (h = g /\ q < a)
    BY DEF Precedes
  <2>3. QED
    BY <1>4, <1>7, <1>8, <2>1, <2>2
<1>13. a < SentOf(g) => <<g, a>> \in OnWay(e)
  <2>1. <<g, a>> \in Sends \X Zones
    BY <1>1, <1>4
  <2>2. ArrivedOf(g + 1) <= a
    BY <1>4, <1>8, <1>11
  <2>3. QED
    BY <1>5, <2>1, <2>2 DEF OnWay
<1>14. CASE h = g
  <2>1. a <= q /\ SentOf(g) \in 0 .. N
    BY <1>0, <1>4, <1>7, <1>11, <1>14, SentOfType
  <2>2. a < SentOf(g)
    BY <1>0, <1>7, <1>8, <1>14, <2>1
  <2>3. <<g, a>> = key
    BY <1>4, <1>8, <1>12, <1>13, <1>14, <2>1, <2>2
  <2>4. QED
    BY <1>3, <1>p, <2>3 DEF key, e
<1>15. CASE h # g
  <2>1. h > g
    BY <1>2, <1>3, <1>8, <1>10, <1>15
  <2>2. SentOf(h) \in 0 .. N
    BY <1>0, <1>8, SentOfType
  <2>3. SentOf(h) # 0
    BY <1>0, <1>7, <1>8, <2>2
  <2>4. pass[e] >= h
    <3>1. pass[e] \in Nat
      BY <1>0, NodeFields
    <3>2. pass[e] > h \/ pass[e] = h
      BY <1>7, <2>3 DEF SentOf
    <3>3. QED
      BY <1>8, <3>1, <3>2
  <2>5. pass[e] > g
    <3>1. pass[e] \in Nat
      BY <1>0, NodeFields
    <3>2. QED
      BY <1>4, <1>8, <2>1, <2>4, <3>1
  <2>6. SentOf(g) = N
    BY <1>5, <2>5 DEF SentOf
  <2>7. <<g, a>> = key \/ g > h \/ (g = h /\ a > q)
    BY <1>8, <1>12, <1>13, <2>6
  <2>8. <<g, a>> = key
    BY <1>4, <1>8, <2>1, <2>7
  <2>9. QED
    BY <1>7, <1>15, <2>8
<1>16. QED
  BY <1>14, <1>15

LEMMA ArrivesInOrder ==
  ASSUME BaseInv, RingInv, NEW k \in Nodes, AwaitsArrival(k), pass[k] # 1,
         NEW S, Lane(InEdge(k)) \in Seq(S), Lane(InEdge(k)) # <<>>,
         ~IsPoison(Head(Lane(InEdge(k)))), Carries(Head(Lane(InEdge(k))))
  PROVE  InOrder(k, Head(Lane(InEdge(k))))
<1>1. PICK m : m = Head(Lane(InEdge(k)))
  OBVIOUS
<1>2. Key(m) = <<pass[k] - 1, loc[k].arrived>>
  BY <1>1, HeadIsNext
<1>3. m.step = pass[k] - 1 /\ m.pos = loc[k].arrived
  BY <1>2 DEF Key
<1>4. pass[k] \in Nat
  BY NodeFields DEF BaseInv
<1>5. m.step + 1 = pass[k]
  BY <1>3, <1>4
<1>6. m.zone = ZoneAt(pass[k], loc[k].arrived)
  BY <1>1, <1>3, <1>5 DEF Carries
<1>7. QED
  BY <1>1, <1>3, <1>6 DEF InOrder


\* The shape of a pass after an arrival.
LEMMA ArrivedShape ==
  ASSUME NEW p \in PassStates, NEW u \in PassStates, NEW c \in Nat, Shaped(p, c),
         p.arrived \in Zones, c > 0 => p.arrived > c,
         \A q \in 1 .. Len(p.outq) : p.outq[q] < p.arrived,
         u.arrived = p.arrived + 1, u.outq = p.outq, u.ended = p.ended,
         \A j \in Zones : j # p.arrived => u.slot[j] = p.slot[j],
         FsmIs(u.slot[p.arrived], "d", {}),
         u.slot[p.arrived].computed = FALSE, u.slot[p.arrived].drifted = FALSE
  PROVE  Shaped(u, c)
<1> DEFINE a == p.arrived
           s == u.slot[a]
<1>1. a \in Nat /\ N \in Nat /\ Zones = 0 .. N - 1 /\ p.outq \in Seq(Zones)
  BY PassFields, RingFacts DEF Zones
<1>2. SlotShape(s, a, c, u.ended)
  <2>1. ~(a < c) /\ (a = c => c = 0)
    BY <1>1
  <2> HIDE DEF s
  <2>2. FsmIs(s, "d", {}) /\ s.computed = FALSE /\ s.drifted = FALSE
    BY DEF s
  <2>3. QED
    BY <2>1, <2>2 DEF SlotShape
<1>3. ASSUME NEW j \in Zones, j < u.arrived
      PROVE  SlotShape(u.slot[j], j, c, u.ended)
  <2>1. CASE j = a
    BY <1>2, <2>1
  <2>2. CASE j # a
    <3>1. j < p.arrived
      BY <1>1, <1>3, <2>2
    <3>2. SlotShape(p.slot[j], j, c, p.ended)
      BY <3>1 DEF Shaped
    <3>3. QED
      BY <2>2, <3>2
  <2>3. QED
    BY <2>1, <2>2
<1>4. ASSUME NEW q \in 1 .. Len(u.outq)
      PROVE  u.slot[u.outq[q]].fsm.type = "p"
  <2>1. p.outq[q] \in Zones /\ p.outq[q] < a /\ p.slot[p.outq[q]].fsm.type = "p"
    BY <1>1, <1>4 DEF Shaped
  <2>2. p.outq[q] # a
    BY <1>1, <2>1
  <2>3. QED
    BY <2>1, <2>2
<1>5. QED
  BY <1>3, <1>4 DEF Shaped

\* And after a zone left: it was in the queue, so it had ended.
LEMMA SentShape ==
  ASSUME NEW p \in PassStates, NEW u \in PassStates, NEW c \in Nat, Shaped(p, c),
         p.outq # <<>>, u.outq = Tail(p.outq), u.arrived = p.arrived, u.ended = p.ended,
         \A j \in Zones : j # Head(p.outq) => u.slot[j] = p.slot[j],
         \A j \in Zones : /\ u.slot[j].computed = p.slot[j].computed
                          /\ u.slot[j].drifted = p.slot[j].drifted,
         \A i \in 1 .. Len(p.outq) : i # 1 => p.outq[i] # p.outq[1]
  PROVE  Shaped(u, c) /\ p.slot[Head(p.outq)].fsm.type = "p"
<1> DEFINE w == p.outq
           x == Head(p.outq)
<1>1. /\ w \in Seq(Zones) /\ Len(w) \in Nat \ {0} /\ Len(Tail(w)) = Len(w) - 1
      /\ x = w[1] /\ \A i \in 1 .. Len(Tail(w)) : Tail(w)[i] = w[i + 1]
  BY PassFields, HeadTailProperties, EmptySeq
<1>2. x \in Zones /\ p.slot[x].fsm.type = "p"
  BY <1>1 DEF Shaped
<1>3. ASSUME NEW j \in Zones, j < u.arrived
      PROVE  SlotShape(u.slot[j], j, c, u.ended)
  <2>1. SlotShape(p.slot[j], j, c, p.ended)
    BY <1>3 DEF Shaped
  <2>2. CASE j # x
    BY <2>1, <2>2
  <2>3. CASE j = x
    <3>1. p.slot[j].fsm.type = "p"
      BY <1>2, <2>3
    <3> DEFINE s == p.slot[j]
               t == u.slot[j]
    <3>2. /\ SlotShape(s, j, c, p.ended) /\ s.fsm.type = "p"
          /\ t.computed = s.computed /\ t.drifted = s.drifted
      BY <2>1, <3>1
    <3>3. j \in Nat /\ c \in Nat
      BY RingFacts DEF Zones
    <3> HIDE DEF s, t
    <3>4. j < c /\ j \in p.ended
      BY <3>2, <3>3 DEF SlotShape, FsmIs
    <3>5. SlotShape(t, j, c, p.ended)
      BY <3>2, <3>3, <3>4 DEF SlotShape
    <3>6. QED
      BY <3>5 DEF t
  <2>4. QED
    BY <2>2, <2>3
<1>4. ASSUME NEW q \in 1 .. Len(u.outq)
      PROVE  u.slot[u.outq[q]].fsm.type = "p"
  <2>1. q + 1 \in 1 .. Len(w) /\ q + 1 # 1 /\ u.outq[q] = w[q + 1]
    BY <1>1, <1>4
  <2>2. w[q + 1] \in Zones /\ w[q + 1] # x /\ p.slot[w[q + 1]].fsm.type = "p"
    BY <1>1, <2>1 DEF Shaped
  <2>3. QED
    BY <2>1, <2>2
<1>5. QED
  BY <1>2, <1>3, <1>4 DEF Shaped

\* After the computation of position j, with nothing waiting to leave.
LEMMA NextShape ==
  ASSUME NEW p \in PassStates, NEW u \in PassStates, NEW j \in Zones, Shaped(p, j),
         LastNeeded(j) < p.arrived, p.outq = <<>>, j \notin p.ended,
         \A i \in Zones : (i < j /\ i \notin p.ended) => DeferHead /\ i = 0,
         u.slot = EndedSlots(p.slot, j), u.arrived = p.arrived,
         u.ended = (IF HeldBack(j) THEN p.ended ELSE p.ended \cup {j}),
         u.outq = (IF HeldBack(j) THEN p.outq ELSE Append(p.outq, j))
  PROVE  Shaped(u, j + 1)
<1>1. /\ p.slot \in [Zones -> PassSlots] /\ p.arrived \in Nat
      /\ p.ended \in SUBSET Zones /\ Zones = 0 .. N - 1 /\ N \in Nat
  BY PassFields, RingFacts DEF Zones
<1>2. \A i \in Zones : i < p.arrived => SlotShape(p.slot[i], i, j, p.ended)
  BY DEF Shaped
<1>3. \A i \in Zones : i < p.arrived => SlotShape(u.slot[i], i, j + 1, u.ended)
  <2> DEFINE slot == p.slot
             a == p.arrived
             ended == p.ended
  <2>1. /\ slot \in [Zones -> PassSlots] /\ a \in Nat /\ ended \in SUBSET Zones
        /\ LastNeeded(j) < a /\ j \notin ended
        /\ \A i \in Zones : (i < j /\ i \notin ended) => DeferHead /\ i = 0
        /\ \A i \in Zones : i < a => SlotShape(slot[i], i, j, ended)
    BY <1>1, <1>2
  <2> HIDE DEF slot, a, ended
  <2>2. \A i \in Zones : i < a =>
           SlotShape(EndedSlots(slot, j)[i], i, j + 1,
                     IF HeldBack(j) THEN ended ELSE ended \cup {j})
    BY <2>1, ComputedShape
  <2>3. QED
    BY <2>2 DEF slot, a, ended
<1>4. ASSUME NEW q \in 1 .. Len(u.outq)
      PROVE  u.slot[u.outq[q]].fsm.type = "p"
  <2>1. ~HeldBack(j)
    BY <1>4
  <2>2. u.outq = <<j>>
    BY <2>1
  <2>3. u.outq[q] = j
    BY <1>4, <2>2
  <2>4. ComputedSlots(p.slot, j) \in [Zones -> PassSlots]
    BY <1>1, ComputedSlotsType
  <2> DEFINE s == ComputedSlots(p.slot, j)[j]
  <2>5. u.slot[j] = [s EXCEPT !.fsm = Apply(@, "END")]
    BY <2>1 DEF EndedSlots
  <2>6. s \in PassSlots
    BY <2>4
  <2> HIDE DEF s
  <2>7. u.slot[j].fsm = Apply(s.fsm, "END")
    BY <2>5, <2>6 DEF PassSlots
  <2>8. u.slot[j].fsm.type = "p"
    BY <2>7 DEF Apply, Target
  <2>9. QED
    BY <2>3, <2>8
<1>5. QED
  BY <1>3, <1>4 DEF Shaped

\* The head held back for the closure has met it once the tail is computed.
LEMMA HeadLegal ==
  ASSUME NEW p \in PassStates, Shaped(p, N), p.arrived = N, 0 \notin p.ended, DeferHead
  PROVE  /\ EndLegal(p.slot[0].fsm, 0)
         /\ p.slot[0].computed = TRUE /\ p.slot[0].drifted = TRUE
<1>1. /\ p.slot \in [Zones -> PassSlots] /\ p.outq \in Seq(Zones) /\ 0 \in Zones
      /\ N \in Nat \ {0} /\ Zones = 0 .. N - 1
  BY PassFields, RingFacts DEF Zones
<1>2. SlotShape(p.slot[0], 0, N, p.ended)
  <2>1. 0 < p.arrived
    BY <1>1
  <2>2. QED
    BY <1>1, <2>1 DEF Shaped
<1>3. FsmIs(p.slot[0], "c", {"closure"}) /\ p.slot[0].computed = TRUE /\ p.slot[0].drifted = TRUE
  <2>1. 0 < N /\ p.slot[0] \in PassSlots
    BY <1>1
  <2> DEFINE s == p.slot[0]
  <2>2. SlotShape(s, 0, N, p.ended) /\ s \in PassSlots
    BY <1>2, <2>1
  <2> HIDE DEF s
  <2>3. FsmIs(s, "c", {"closure"}) /\ s.computed = TRUE /\ s.drifted = TRUE
    <3>1. s.computed \in BOOLEAN /\ s.drifted \in BOOLEAN
      BY <2>2 DEF PassSlots
    <3>2. QED
      BY <2>1, <2>2, <3>1 DEF SlotShape
  <2>4. QED
    BY <2>3 DEF s
<1>4. EndLegal(p.slot[0].fsm, 0)
  BY <1>3 DEF EndLegal, FsmIs, WantMask, Allowed
<1>5. QED
  BY <1>3, <1>4

\* After the end of the head, held back until the tail was computed.
LEMMA HeadShape ==
  ASSUME NEW p \in PassStates, NEW u \in PassStates, Shaped(p, N),
         p.arrived = N, 0 \notin p.ended, DeferHead,
         u.slot = [p.slot EXCEPT ![0].fsm = Apply(@, "END")], u.arrived = p.arrived,
         u.ended = p.ended \cup {0}, u.outq = Append(p.outq, 0)
  PROVE  Shaped(u, N)
<1>1. /\ p.slot \in [Zones -> PassSlots] /\ p.outq \in Seq(Zones) /\ 0 \in Zones
      /\ N \in Nat \ {0} /\ Zones = 0 .. N - 1
  BY PassFields, RingFacts DEF Zones
<1>2. p.slot[0].computed = TRUE /\ p.slot[0].drifted = TRUE
  BY HeadLegal
<1>5. /\ \A j \in Zones : j # 0 => u.slot[j] = p.slot[j]
      /\ u.slot[0].computed = TRUE /\ u.slot[0].drifted = TRUE
      /\ u.slot[0].fsm.type = "p"
  <2>1. /\ \A j \in Zones : j # 0 => u.slot[j] = p.slot[j]
        /\ u.slot[0] = [p.slot[0] EXCEPT !.fsm = Apply(@, "END")]
    BY <1>1
  <2> DEFINE s == p.slot[0]
             t == u.slot[0]
  <2>2. t = [s EXCEPT !.fsm = Apply(@, "END")] /\ s \in PassSlots
    BY <1>1, <2>1
  <2>3. s.computed = TRUE /\ s.drifted = TRUE
    BY <1>2
  <2> HIDE DEF s, t
  <2>4. t.computed = TRUE /\ t.drifted = TRUE /\ t.fsm = Apply(s.fsm, "END")
    BY <2>2, <2>3 DEF PassSlots
  <2>5. t.fsm.type = "p"
    BY <2>4 DEF Apply, Target
  <2>6. QED
    BY <2>1, <2>4, <2>5 DEF t
<1>6. ASSUME NEW j \in Zones, j < u.arrived
      PROVE  SlotShape(u.slot[j], j, N, u.ended)
  <2>1. CASE j # 0
    <3>1. SlotShape(p.slot[j], j, N, p.ended)
      BY <1>6 DEF Shaped
    <3>2. QED
      BY <1>5, <2>1, <3>1 DEF SlotShape
  <2>2. CASE j = 0
    <3> DEFINE t == u.slot[0]
    <3>1. t.computed = TRUE /\ t.drifted = TRUE
      BY <1>5
    <3> HIDE DEF t
    <3>2. SlotShape(t, 0, N, u.ended)
      BY <1>1, <3>1 DEF SlotShape
    <3>3. QED
      BY <2>2, <3>2 DEF t
  <2>3. QED
    BY <2>1, <2>2
<1>7. ASSUME NEW q \in 1 .. Len(u.outq)
      PROVE  u.slot[u.outq[q]].fsm.type = "p"
  <2>1. q \in 1 .. Len(p.outq) + 1 /\ Len(p.outq) \in Nat
    BY <1>1, <1>7
  <2>2. CASE q = Len(p.outq) + 1
    <3>1. u.outq[q] = 0
      BY <1>1, <2>2
    <3>2. QED
      BY <1>5, <3>1
  <2>3. CASE q # Len(p.outq) + 1
    <3>1. q \in 1 .. Len(p.outq)
      BY <2>1, <2>3
    <3>2. u.outq[q] = p.outq[q] /\ p.outq[q] \in Zones
      BY <1>1, <3>1
    <3>3. p.slot[p.outq[q]].fsm.type = "p"
      BY <3>1 DEF Shaped
    <3>4. QED
      BY <1>5, <3>2, <3>3
  <2>4. QED
    BY <2>2, <2>3
<1>8. QED
  BY <1>6, <1>7 DEF Shaped

-----------------------------------------------------------------------------
(* No protocol exception: what a node that has not stopped keeps true of its *)
(* own pass, its queue and its slots, so that whatever it does is allowed.   *)

Shapes(k) == pc[k] \in AtWork => Shaped(loc[k], ComputedCount(k))

\* At most one zone waits while the next one is received, none when a zone is
\* computed, and a slot is picked only for a zone that waits.
Queue(k) ==
  pc[k] \in AtWork =>
    /\ Len(loc[k].outq) <= EndedCount(k)
    /\ pc[k] = "io" => Len(loc[k].outq) <= 1
    /\ pc[k] = "compute" \/ (pc[k] = "io" /\ loc[k].op = 2 /\ CurrentOp(k) = "RECV")
         => loc[k].outq = <<>>
    /\ loc[k].dst # NoSlot => Sending(k) /\ ~BoundaryOut(k)

\* The slots of the pass in hand: those of the zones that arrived and whose
\* slots have not been given back.
OnHand(k) ==
  IF pc[k] \in AtWork
    THEN (loc[k].arrived - EndedCount(k)) + Len(loc[k].outq)
         - (IF loc[k].dst = NoSlot THEN 0 ELSE 1)
  ELSE 0

\* What a free list and the reserve hold, with what is in hand.
Pools(k) ==
  /\ BoundaryIn(k) =>
       IF pass[k] = 1
         THEN Len(bfree[k]) >= IF pc[k] = "record" THEN SlotCount ELSE Circulating(k)
       ELSE Len(bfree[k]) + OnHand(k) >= SlotCount
  /\ (pass[k] = 1 /\ pc[k] # "record" /\ ~SelfLoop) =>
       Len(reserve) + OnHand(k) >= ReserveCount
  /\ SelfLoop =>
       Len(reserve) >= 2 + (IF pass[k] # 1 THEN 0
                            ELSE IF pc[k] = "loop" THEN N ELSE N - loc[k].arrived)

Fit(k) == Shapes(k) /\ Queue(k) /\ Pools(k)
FitInv == \A k \in Nodes : pc[k] \notin Stopped => Fit(k)

\* No rank halts with a protocol exception that had not done so before.
NoNewLogic == \A r \in Heads : haltKind'[r] = "Logic" => haltKind[r] = "Logic"

LEMMA FirstPassIsHeads ==
  ASSUME FlowInv, NEW k \in Nodes, pass[k] = 1
  PROVE  k = 0
<1>1. Owner(pass[k]) = k
  BY NodeFlow DEF PassOfNode
<1>2. 0 \in Nodes /\ 0 + 1 = 1
  BY RingFacts DEF Nodes
<1>3. Owner(1) = 0
  BY <1>2, OwnerFacts
<1>4. QED
  BY <1>1, <1>3

LEMMA SelfLoopNodes == SelfLoop => Nodes = {0}
BY DEF SelfLoop, Nodes

\* A step of node k leaves the others fit.
LEMMA FitMoves ==
  ASSUME BaseInv, FitInv, NEW k \in Nodes,
         \A n \in Nodes \ {k} : /\ pc'[n] = pc[n] /\ pass'[n] = pass[n]
                                /\ loc'[n] = loc[n] /\ bfree'[n] = bfree[n],
         UNCHANGED reserve \/ pass[k] = 1 \/ SelfLoop,
         Fit(k)'
  PROVE  FitInv'
<1>1. ASSUME NEW n \in Nodes, n # k, pc'[n] \notin Stopped
      PROVE  Fit(n)'
  <2>1. pc'[n] = pc[n] /\ pass'[n] = pass[n] /\ loc'[n] = loc[n] /\ bfree'[n] = bfree[n]
    BY <1>1
  <2>2. Fit(n)
    BY <1>1, <2>1 DEF FitInv
  <2>3. EndedCount(n)' = EndedCount(n) /\ ComputedCount(n)' = ComputedCount(n)
    BY <2>1, SMTT(30) DEF EndedCount, ComputedCount
  <2>4. Shapes(n)'
    BY <2>1, <2>2, <2>3 DEF Fit, Shapes, Shaped, SlotShape, FsmIs
  <2>5. Queue(n)'
    BY <2>1, <2>2, <2>3 DEF Fit, Queue, CurrentOp, Sending, Flushing
  <2>6. OnHand(n)' = OnHand(n)
    BY <2>1, <2>3 DEF OnHand
  <2>7. ~SelfLoop
    BY <1>1, SelfLoopNodes
  <2>8. pass[n] = 1 => UNCHANGED reserve
    BY <1>1, <2>7, FirstPassIsHeads DEF BaseInv
  <2>9. Pools(n)'
    BY <2>1, <2>2, <2>6, <2>7, <2>8 DEF Fit, Pools
  <2>10. QED
    BY <2>4, <2>5, <2>9 DEF Fit
<1>2. QED
  BY <1>1 DEF FitInv

\* Nodes stop, nothing else moves.
LEMMA FitStops ==
  ASSUME FitInv, UNCHANGED <<pass, loc, bfree, reserve>>,
         \A n \in Nodes : pc'[n] = pc[n] \/ pc'[n] \in Stopped
  PROVE  FitInv'
<1>1. ASSUME NEW n \in Nodes, pc'[n] \notin Stopped
      PROVE  Fit(n)'
  <2>1. pc'[n] = pc[n] /\ Fit(n)
    BY <1>1 DEF FitInv
  <2>2. EndedCount(n)' = EndedCount(n) /\ ComputedCount(n)' = ComputedCount(n)
    BY <2>1 DEF EndedCount, ComputedCount
  <2>3. Shapes(n)'
    BY <2>1, <2>2 DEF Fit, Shapes, Shaped, SlotShape, FsmIs
  <2>4. Queue(n)'
    BY <2>1, <2>2 DEF Fit, Queue, CurrentOp, Sending, Flushing
  <2>5. OnHand(n)' = OnHand(n)
    BY <2>1, <2>2 DEF OnHand
  <2>6. Pools(n)'
    BY <2>1, <2>5 DEF Fit, Pools
  <2>7. QED
    BY <2>3, <2>4, <2>6 DEF Fit
<1>2. QED
  BY <1>1 DEF FitInv

LEMMA FitHalts ==
  ASSUME TypeInv, FitInv, NEW k \in Nodes, NEW kind, kind # "Logic", SetHalt(k, kind),
         UNCHANGED <<pass, loc, bfree, reserve>>
  PROVE  FitInv' /\ NoNewLogic
<1>1. FitInv'
  BY HaltMoves, FitStops
<1>2. NoNewLogic
  BY DEF NoNewLogic, SetHalt, haltVars, TypeInv, HaltTypes
<1>3. QED
  BY <1>1, <1>2

LEMMA WorkTypes ==
  ASSUME TypeInv, NEW k \in Nodes
  PROVE  /\ loc[k] \in PassStates /\ loc[k].outq \in Seq(Zones) /\ Len(loc[k].outq) \in Nat
         /\ loc[k].arrived \in 0 .. N /\ loc[k].pos \in 0 .. N - 1 /\ loc[k].sent \in Nat
         /\ EndedCount(k) \in 0 .. N /\ ComputedCount(k) \in 0 .. N
         /\ pass[k] \in Nat /\ N \in Nat \ {0} /\ Zones = 0 .. N - 1
         /\ bfree[k] \in Seq(SlotIds) /\ reserve \in Seq(SlotIds)
         /\ Len(bfree[k]) \in Nat /\ Len(reserve) \in Nat
<1>1. /\ loc[k] \in PassStates /\ pass[k] \in Nat /\ N \in Nat \ {0} /\ Zones = 0 .. N - 1
      /\ bfree[k] \in Seq(SlotIds) /\ reserve \in Seq(SlotIds)
  BY NodeFields, RingFacts DEF Zones, TypeInv, PoolTypes
<1>2. /\ loc[k].outq \in Seq(Zones) /\ loc[k].arrived \in 0 .. N
      /\ loc[k].pos \in 0 .. N - 1 /\ loc[k].sent \in Nat
  BY <1>1, PassFields
<1>3. EndedCount(k) \in 0 .. N /\ ComputedCount(k) \in 0 .. N
  BY <1>1, <1>2 DEF EndedCount, ComputedCount
<1>4. Len(loc[k].outq) \in Nat /\ Len(bfree[k]) \in Nat /\ Len(reserve) \in Nat
  BY <1>1, <1>2, LenProperties
<1>5. QED
  BY <1>1, <1>2, <1>3, <1>4

\* A node at work that takes and gives back no slot.
LEMMA PoolsKept ==
  ASSUME NEW k \in Nodes, Pools(k), UNCHANGED reserve, bfree'[k] = bfree[k],
         pass'[k] = pass[k], pc[k] \in AtWork \ {"record"}, pc'[k] \in AtWork \ {"record"},
         loc'[k].arrived = loc[k].arrived, OnHand(k)' = OnHand(k)
  PROVE  Pools(k)'
<1>1. pc[k] # "loop" /\ pc'[k] # "loop" /\ pc[k] # "record" /\ pc'[k] # "record"
  BY DEF AtWork
<1>2. QED
  BY <1>1 DEF Pools

LEMMA FitOf ==
  ASSUME FitInv, NEW k \in Nodes, pc[k] \in AtWork
  PROVE  /\ Shaped(loc[k], ComputedCount(k)) /\ Pools(k)
         /\ Len(loc[k].outq) <= EndedCount(k)
         /\ pc[k] = "io" => Len(loc[k].outq) <= 1
         /\ pc[k] = "compute" \/ (pc[k] = "io" /\ loc[k].op = 2 /\ CurrentOp(k) = "RECV")
              => loc[k].outq = <<>>
         /\ loc[k].dst # NoSlot => Sending(k) /\ ~BoundaryOut(k)
<1>1. pc[k] \notin Stopped
  BY DEF AtWork, Stopped
<1>2. QED
  BY <1>1 DEF FitInv, Fit, Shapes, Queue

\* A transfer around a position is over.
LEMMA OpDoneFit ==
  ASSUME BaseInv, FitInv, NEW k \in Nodes, pc[k] = "io", Goto(k, NextOp(k)),
         CurrentOp(k) = "SEND" => loc[k].outq = <<>>,
         loc' = [loc EXCEPT ![k].op = 2], UNCHANGED <<pass, poolVars, haltVars>>
  PROVE  FitInv' /\ NoNewLogic
<1>0. TypeInv /\ loc[k] \in PassStates /\ loc[k].op \in {1, 2} /\ pc[k] \in AtWork
  BY NodeFields, PassFields DEF BaseInv, AtWork
<1>1. /\ loc'[k] = [loc[k] EXCEPT !.op = 2] /\ pc'[k] = NextOp(k)
      /\ \A n \in Nodes \ {k} : pc'[n] = pc[n] /\ loc'[n] = loc[n]
  BY <1>0 DEF TypeInv, NodeTypes, Goto
<1>2. /\ loc'[k].pos = loc[k].pos /\ loc'[k].outq = loc[k].outq
      /\ loc'[k].slot = loc[k].slot /\ loc'[k].ended = loc[k].ended
      /\ loc'[k].arrived = loc[k].arrived /\ loc'[k].dst = loc[k].dst /\ loc'[k].op = 2
  BY <1>0, <1>1 DEF PassStates
<1>3. pc'[k] \in {"io", "compute"} /\ pc'[k] \in AtWork
  BY <1>1, NextOpAtWork
<1>4. EndedCount(k)' = EndedCount(k) /\ ComputedCount(k)' = ComputedCount(k)
  BY <1>2, <1>3 DEF EndedCount, ComputedCount
<1>5. /\ Shaped(loc[k], ComputedCount(k)) /\ Pools(k)
      /\ Len(loc[k].outq) <= EndedCount(k) /\ Len(loc[k].outq) <= 1
      /\ (loc[k].op = 2 /\ CurrentOp(k) = "RECV") => loc[k].outq = <<>>
      /\ loc[k].dst # NoSlot => Sending(k)
  BY <1>0, FitOf
<1>6. loc[k].dst = NoSlot
  BY <1>5 DEF Sending, Flushing
<1>7. Shapes(k)'
  BY <1>2, <1>4, <1>5 DEF Shapes, Shaped, SlotShape, FsmIs
<1>8. Queue(k)'
  <2>1. CASE loc[k].outq = <<>>
    <3>1. 0 <= EndedCount(k)
      BY <1>0, WorkTypes
    <3>2. QED
      BY <1>2, <1>4, <1>6, <2>1, <3>1 DEF Queue
  <2>2. CASE loc[k].outq # <<>>
    <3>1. CurrentOp(k) = "RECV"
      BY <1>0, <2>2, IoOrderFacts
    <3>2. loc[k].op = 1
      BY <1>0, <1>5, <2>2, <3>1
    <3>3. pc'[k] = "io" /\ CurrentOp(k)' = "SEND"
      BY <1>1, <1>2, <3>1, <3>2 DEF NextOp, CurrentOp, NodeIoOrder
    <3>4. QED
      BY <1>2, <1>4, <1>5, <1>6, <3>3 DEF Queue
  <2>3. QED
    BY <2>1, <2>2
<1>9. Pools(k)'
  <2>1. OnHand(k)' = OnHand(k)
    BY <1>0, <1>2, <1>3, <1>4 DEF OnHand
  <2>2. QED
    BY <1>0, <1>2, <1>3, <1>5, <2>1, PoolsKept DEF poolVars
<1>10. FitInv' /\ NoNewLogic
  BY <1>1, <1>7, <1>8, <1>9, FitMoves DEF Fit, NoNewLogic, poolVars, haltVars
<1>11. QED
  BY <1>10

LEMMA FlushDoneFit ==
  ASSUME BaseInv, FitInv, NEW k \in Nodes, FlushDone(k)
  PROVE  FitInv' /\ NoNewLogic
<1>1. /\ Flushing(k) /\ loc[k].outq = <<>> /\ UNCHANGED <<pass, poolVars, haltVars>>
  BY DEF FlushDone
<1>2. CASE pc[k] # "flush"
  BY <1>1, <1>2, OpDoneFit DEF FlushDone, Flushing
<1>3. CASE pc[k] = "flush"
  <2>1. /\ loc' = loc /\ pc'[k] = "finish" /\ \A n \in Nodes \ {k} : pc'[n] = pc[n]
    BY <1>3 DEF FlushDone, Goto, BaseInv, TypeInv, NodeTypes
  <2>2. pc[k] \in AtWork /\ pc'[k] \in AtWork /\ pc'[k] # "record" /\ pc[k] # "record"
    BY <1>3, <2>1 DEF AtWork
  <2>3. EndedCount(k)' = EndedCount(k) /\ ComputedCount(k)' = ComputedCount(k)
    BY <1>3, <2>1 DEF EndedCount, ComputedCount
  <2>4. /\ Shaped(loc[k], ComputedCount(k)) /\ Pools(k) /\ loc[k].dst = NoSlot
        /\ Len(loc[k].outq) <= EndedCount(k)
    BY <1>1, <2>2, FitOf DEF Sending
  <2>5. Shapes(k)'
    BY <2>1, <2>3, <2>4 DEF Shapes, Shaped, SlotShape, FsmIs
  <2>6. Queue(k)'
    BY <2>1, <2>3, <2>4 DEF Queue
  <2>7. OnHand(k)' = OnHand(k)
    BY <2>1, <2>2, <2>3 DEF OnHand
  <2>8. Pools(k)'
    BY <1>1, <2>1, <2>2, <2>4, <2>7, PoolsKept DEF poolVars
  <2>9. QED
    BY <1>1, <2>1, <2>5, <2>6, <2>8, FitMoves DEF Fit, NoNewLogic, poolVars, haltVars
<1>4. QED
  BY <1>2, <1>3

LEMMA RecvDoneFit ==
  ASSUME BaseInv, FitInv, NEW k \in Nodes, RecvDone(k)
  PROVE  FitInv' /\ NoNewLogic
BY OpDoneFit DEF RecvDone

\* A node that stops, in a rank where no exception is new.
LEMMA GoneFit ==
  ASSUME TypeInv, FitInv, NEW k \in Nodes, NEW point \in Stopped, Goto(k, point),
         UNCHANGED <<pass, loc, bfree, reserve, haltKind>>
  PROVE  FitInv' /\ NoNewLogic
<1>1. pc'[k] \in Stopped /\ \A n \in Nodes \ {k} : pc'[n] = pc[n]
  BY GoneMoves
<1>2. FitInv'
  BY <1>1, FitStops
<1>3. QED
  BY <1>2 DEF NoNewLogic

LEMMA LeaveFit ==
  ASSUME TypeInv, FitInv, NEW k \in Nodes,
         NodeReturns(k) \/ RecvShutDown(k) \/ CreditShutDown(k) \/ FlushSeesHalt(k) \/ HaltCheck(k)
  PROVE  FitInv' /\ NoNewLogic
<1>1. Goto(k, "done") /\ UNCHANGED <<pass, loc, poolVars, haltVars>>
  BY DEF NodeReturns, RecvShutDown, CreditShutDown, FlushSeesHalt, HaltCheck
<1>2. UNCHANGED <<pass, loc, bfree, reserve, haltKind>> /\ "done" \in Stopped
  BY <1>1 DEF poolVars, haltVars, Stopped
<1>3. QED
  BY <1>1, <1>2, GoneFit

LEMMA CloseFit ==
  ASSUME TypeInv, FitInv, NEW k \in Nodes, CloseEdge(k) \/ PoisonRing(k)
  PROVE  FitInv' /\ NoNewLogic
<1>1. UNCHANGED <<pass, loc, bfree, reserve, haltKind>>
  BY DEF CloseEdge, PoisonRing, poolVars, haltVars
<1>2. CASE CloseEdge(k)
  <2>1. PICK point \in Stopped : Goto(k, point)
    BY <1>2 DEF CloseEdge, Stopped
  <2>2. QED
    BY <1>1, <2>1, GoneFit
<1>3. CASE PoisonRing(k)
  <2>1. Goto(k, "done") /\ "done" \in Stopped
    BY <1>3 DEF PoisonRing, Stopped
  <2>2. QED
    BY <1>1, <2>1, GoneFit
<1>4. QED
  BY <1>2, <1>3

LEMMA RecvPoisonFit ==
  ASSUME TypeInv, FitInv, NEW k \in Nodes, RecvPoison(k)
  PROVE  FitInv' /\ NoNewLogic
<1>1. SetHalt(k, "Ring") /\ UNCHANGED <<pass, loc, bfree, reserve>>
  BY DEF RecvPoison, poolVars
<1>2. QED
  BY <1>1, FitHalts

LEMMA FaultFit ==
  ASSUME TypeInv, FitInv, NEW k \in Nodes, NodeFault(k)
  PROVE  FitInv' /\ NoNewLogic
<1>1. PICK kind \in FaultsAt(k) : Fail(k, kind)
  BY DEF NodeFault
<1>2. UNCHANGED <<pass, loc, bfree, reserve>>
  BY DEF NodeFault, poolVars
<1>3. kind \in FaultKinds /\ kind # "Logic"
  <2>1. kind \in Faults
    BY <1>1 DEF FaultsAt
  <2>2. Faults \subseteq FaultKinds
    BY GpuAssumption DEF GpuAssumption
  <2>3. QED
    BY <2>1, <2>2 DEF FaultKinds, SyncKinds, RecordKinds
<1>4. CASE kind # "Spawn"
  BY <1>1, <1>2, <1>3, <1>4, FitHalts DEF Fail
<1>5. CASE kind = "Spawn"
  <2>1. SpawnFails(k)
    BY <1>1, <1>5 DEF Fail
  <2>2. \A n \in Nodes : pc'[n] = pc[n] \/ pc'[n] \in Stopped
    BY <2>1 DEF SpawnFails, Stopped
  <2>3. FitInv'
    BY <1>2, <2>2, FitStops
  <2>4. NoNewLogic
    BY <2>1 DEF NoNewLogic, SpawnFails, TypeInv, HaltTypes
  <2>5. QED
    BY <2>3, <2>4
<1>6. QED
  BY <1>4, <1>5

LEMMA StandFit ==
  ASSUME FitInv, (\E r \in Heads : Join(r)) \/ UNCHANGED vars
  PROVE  FitInv' /\ NoNewLogic
<1>1. UNCHANGED <<pc, pass, loc, bfree, reserve, haltKind>>
  BY DEF Join, vars, nodeVars, poolVars, haltVars
<1>2. FitInv'
  BY <1>1, FitStops
<1>3. QED
  BY <1>1, <1>2 DEF NoNewLogic

\* The first thing a pass finds: nothing has arrived.
LEMMA StartFit ==
  ASSUME BaseInv, FitInv, NEW k \in Nodes, StartPass(k)
  PROVE  FitInv' /\ NoNewLogic
<1>0. TypeInv /\ N \in Nat \ {0}
  BY RingFacts DEF BaseInv
<1>1. /\ pc[k] = "loop" /\ pc'[k] = "io" /\ loc'[k] = FreshPass(pass[k])
      /\ \A n \in Nodes \ {k} : pc'[n] = pc[n] /\ loc'[n] = loc[n]
      /\ UNCHANGED <<pass, poolVars, haltVars>>
  BY <1>0 DEF StartPass, Goto, TypeInv, NodeTypes
<1>2. /\ loc'[k].arrived = 0 /\ loc'[k].outq = <<>> /\ loc'[k].dst = NoSlot
      /\ loc'[k].pos = 0
  BY <1>1 DEF FreshPass
<1>3. EndedCount(k)' = 0
  BY <1>1, <1>2 DEF EndedCount
<1>4. Shapes(k)'
  <2>1. \A j \in Zones : ~(j < 0)
    BY <1>0 DEF Zones
  <2>2. QED
    BY <1>2, <2>1 DEF Shapes, Shaped
<1>5. Queue(k)'
  BY <1>1, <1>2, <1>3 DEF Queue
<1>6. OnHand(k)' = 0 /\ OnHand(k) = 0
  BY <1>1, <1>2, <1>3 DEF OnHand, AtWork
<1>7. Pools(k)'
  <2>1. Pools(k)
    BY <1>1 DEF FitInv, Fit, Stopped
  <2>2. QED
    BY <1>0, <1>1, <1>2, <1>6, <2>1 DEF Pools, poolVars
<1>8. Fit(k)'
  BY <1>4, <1>5, <1>7 DEF Fit
<1>9. FitInv'
  BY <1>1, <1>8, FitMoves DEF poolVars
<1>10. QED
  BY <1>1, <1>9 DEF NoNewLogic, haltVars

-----------------------------------------------------------------------------
(* Arrivals.                                                                 *)

LEMMA PoolSizes ==
  /\ SlotCount \in Nat /\ ReserveCount \in Nat
  /\ SelfLoop => SlotCount = N + 2 /\ ReserveCount = N + 2
  /\ ~SelfLoop => /\ SlotCount >= (IF N + 2 < 8 THEN N + 2 ELSE 8)
                  /\ ReserveCount = (IF N < 6 THEN N ELSE 6)
<1> DEFINE q == (N + Z - 1) \div Z
<1>1. q \in Int /\ N \in Nat \ {0}
  BY RingFacts
<1>2. Max({8, q + 4}) = (IF 8 >= q + 4 THEN 8 ELSE q + 4)
  BY <1>1, MaxOfTwo
<1>3. Min({N + 2, Max({8, q + 4})})
        = (IF N + 2 <= Max({8, q + 4}) THEN N + 2 ELSE Max({8, q + 4}))
  <2>1. Max({8, q + 4}) \in Int /\ N + 2 \in Int
    BY <1>1, <1>2
  <2> HIDE DEF q
  <2>2. QED
    BY <2>1, MinOfTwo
<1>4. Min({N, 6}) = (IF N <= 6 THEN N ELSE 6)
  BY <1>1, MinOfTwo
<1>5. SlotCount = IF SelfLoop THEN N + 2
                  ELSE IF N + 2 <= Max({8, q + 4}) THEN N + 2 ELSE Max({8, q + 4})
  BY <1>3 DEF SlotCount
<1>6. ReserveCount = IF SelfLoop THEN SlotCount ELSE IF N <= 6 THEN N ELSE 6
  BY <1>4 DEF ReserveCount
<1> HIDE DEF q
<1>7. QED
  BY <1>1, <1>2, <1>5, <1>6, PoolFacts

LEMMA SelfLoopAlone ==
  ASSUME SelfLoop
  PROVE  \A k \in Nodes : ~BoundaryIn(k) /\ ~BoundaryOut(k)
<1>1. Nodes = {0} /\ Heads = {0}
  BY SelfLoopNodes, HeadsAreNodes
<1>2. Ranks = 1
  BY <1>1, FS_Singleton DEF Ranks
<1>3. QED
  BY <1>2 DEF BoundaryIn, BoundaryOut, Mpi

\* While a zone is awaited at most three zones are in hand, and not all.
LEMMA FewOnHand ==
  ASSUME TypeInv, FitInv, NEW k \in Nodes, AwaitsArrival(k)
  PROVE  /\ OnHand(k) = (loc[k].arrived - EndedCount(k)) + Len(loc[k].outq)
         /\ OnHand(k) \in Int /\ OnHand(k) <= 3 /\ OnHand(k) <= N - 1
         /\ loc[k].dst = NoSlot /\ loc[k].arrived <= N - 1
<1> DEFINE a == loc[k].arrived
           w == Len(loc[k].outq)
           n == EndedCount(k)
           i == loc[k].pos
<1>1. /\ a \in Nat /\ w \in Nat /\ n \in Nat /\ i \in 0 .. N - 1 /\ N \in Nat \ {0}
  BY WorkTypes
<1>2. pc[k] = "io" /\ CurrentOp(k) = "RECV" /\ pc[k] \in AtWork /\ a <= LastNeeded(i)
  BY DEF AwaitsArrival, AtWork
<1>3. w <= n /\ w <= 1
  BY <1>2, FitOf
<1>4. loc[k].dst = NoSlot
  BY <1>2, FitOf DEF Sending, Flushing
<1>5. n = IF DeferHead /\ i > 0 THEN i - 1 ELSE i
  BY <1>2 DEF EndedCount
<1>6. OnHand(k) = (a - n) + w
  BY <1>1, <1>2, <1>4 DEF OnHand
<1> HIDE DEF a, w, n, i
<1>7. LastNeeded(i) <= N - 1 /\ LastNeeded(i) <= i + 1 /\ LastNeeded(i) \in Nat
  BY <1>1 DEF LastNeeded
<1>8. a <= N - 1 /\ a <= i + 1
  BY <1>1, <1>2, <1>7
<1>9. n >= i - 1 /\ n <= i
  BY <1>1, <1>5
<1>10. (a - n) + w <= 3 /\ (a - n) + w <= N - 1
  BY <1>1, <1>3, <1>8, <1>9
<1>11. QED
  BY <1>1, <1>4, <1>6, <1>8, <1>10 DEF a, w, n

\* A slot is taken for the zone that arrives.
LEMMA ArriveFit ==
  ASSUME BaseInv, FitInv, NEW k \in Nodes, AwaitsArrival(k), NEW s \in SlotIds,
         NEW fsm \in ZoneRecords, NEW lam \in Lambdas, NEW dt \in TimeSteps,
         Arrive(k, s, fsm, lam, dt), UNCHANGED <<pc, pass, haltVars>>,
         fsm.type = "d", fsm.contrib_mask = {},
         \A n \in Nodes \ {k} : bfree'[n] = bfree[n],
         UNCHANGED reserve \/ pass[k] = 1,
         Pools(k) /\ OnHand(k)' = OnHand(k) + 1
           /\ loc'[k].arrived = loc[k].arrived + 1 => Pools(k)'
  PROVE  FitInv' /\ NoNewLogic
<1>0. TypeInv /\ FlowInv /\ DataInv
  BY DEF BaseInv
<1>1. /\ \A n \in Nodes \ {k} : loc'[n] = loc[n]
      /\ loc'[k].arrived = loc[k].arrived + 1
      /\ loc'[k].pos = loc[k].pos /\ loc'[k].op = loc[k].op
      /\ loc'[k].outq = loc[k].outq /\ loc'[k].ended = loc[k].ended
      /\ \A j \in Zones : j # loc[k].arrived => loc'[k].slot[j] = loc[k].slot[j]
      /\ loc'[k].slot[loc[k].arrived].fsm = fsm
      /\ loc'[k].slot[loc[k].arrived].computed = FALSE
      /\ loc'[k].slot[loc[k].arrived].drifted = FALSE
      /\ loc'[k].dst = loc[k].dst /\ loc'[k] \in PassStates
  BY <1>0, ArriveEffect, ZenonT(40)
<1>2. pc[k] = "io" /\ CurrentOp(k) = "RECV" /\ pc[k] \in AtWork /\ pc'[k] = "io"
  BY DEF AwaitsArrival, AtWork
<1>3. EndedCount(k)' = EndedCount(k) /\ ComputedCount(k) = loc[k].pos
      /\ ComputedCount(k)' = loc[k].pos
  BY <1>1, <1>2 DEF EndedCount, ComputedCount
<1>4. /\ Shaped(loc[k], loc[k].pos) /\ Pools(k)
      /\ Len(loc[k].outq) <= EndedCount(k) /\ Len(loc[k].outq) <= 1
      /\ loc[k].op = 2 => loc[k].outq = <<>>
  BY <1>2, <1>3, FitOf
<1>5. loc[k].dst = NoSlot /\ loc[k].arrived \in Zones
  BY <1>0, FewOnHand, AwaitedIsZone
<1>6. loc[k] \in PassStates /\ loc[k].pos \in Nat
  BY <1>0, WorkTypes, RingFacts
<1>7. Shaped(loc'[k], loc[k].pos)
  <2>1. loc[k].pos > 0 => loc[k].arrived > loc[k].pos
    BY <1>0, <1>2, AtWorkData
  <2>2. \A q \in 1 .. Len(loc[k].outq) : loc[k].outq[q] < loc[k].arrived
    BY <1>0, NodeFields DEF SlotsHeld
  <2>3. FsmIs(loc'[k].slot[loc[k].arrived], "d", {})
    BY <1>1 DEF FsmIs
  <2> DEFINE p == loc[k]
             u == loc'[k]
             c == p.pos
  <2>4. /\ p \in PassStates /\ u \in PassStates /\ c \in Nat /\ Shaped(p, c)
        /\ p.arrived \in Zones /\ (c > 0 => p.arrived > c)
        /\ \A q \in 1 .. Len(p.outq) : p.outq[q] < p.arrived
        /\ u.arrived = p.arrived + 1 /\ u.outq = p.outq /\ u.ended = p.ended
        /\ \A j \in Zones : j # p.arrived => u.slot[j] = p.slot[j]
        /\ FsmIs(u.slot[p.arrived], "d", {})
        /\ u.slot[p.arrived].computed = FALSE /\ u.slot[p.arrived].drifted = FALSE
    BY <1>1, <1>4, <1>5, <1>6, <2>1, <2>2, <2>3
  <2> HIDE DEF p, u, c
  <2>5. Shaped(u, c)
    BY <2>4, ArrivedShape
  <2>6. QED
    BY <2>5 DEF p, u, c
<1>8. Shapes(k)'
  BY <1>3, <1>7 DEF Shapes, Shaped, SlotShape, FsmIs
<1>9. CurrentOp(k)' = "RECV" /\ (loc'[k].op = 2 => loc'[k].outq = <<>>)
  BY <1>1, <1>2, <1>4 DEF CurrentOp
<1>10. Queue(k)'
  BY <1>1, <1>2, <1>3, <1>4, <1>5, <1>9 DEF Queue
<1>11. OnHand(k)' = OnHand(k) + 1
  <2>1. OnHand(k)' = (loc[k].arrived + 1 - EndedCount(k)) + Len(loc[k].outq) - 0
    <3>1. pc'[k] \in AtWork
      BY <1>2
    <3>2. OnHand(k)' = (loc'[k].arrived - EndedCount(k)') + Len(loc'[k].outq)
                       - (IF loc'[k].dst = NoSlot THEN 0 ELSE 1)
      BY <3>1 DEF OnHand
    <3>3. /\ loc'[k].arrived = loc[k].arrived + 1 /\ loc'[k].outq = loc[k].outq
          /\ loc'[k].dst = NoSlot /\ EndedCount(k)' = EndedCount(k)
      BY <1>1, <1>3, <1>5
    <3>4. loc[k].arrived \in Nat /\ EndedCount(k) \in Nat /\ Len(loc[k].outq) \in Nat
      BY <1>0, WorkTypes
    <3>5. QED
      BY <3>2, <3>3, <3>4, SMTT(30)
  <2>2. OnHand(k) = (loc[k].arrived - EndedCount(k)) + Len(loc[k].outq)
    BY <1>0, FewOnHand
  <2>3. loc[k].arrived \in Nat /\ EndedCount(k) \in Nat /\ Len(loc[k].outq) \in Nat
    BY <1>0, WorkTypes
  <2>4. QED
    BY <2>1, <2>2, <2>3, SMTT(30)
<1>12. Pools(k)'
  BY <1>1, <1>4, <1>11
<1>13. FitInv'
  BY <1>1, <1>8, <1>10, <1>12, FitMoves DEF Fit
<1>14. QED
  BY <1>13 DEF NoNewLogic, haltVars

\* A zone is created or received with nothing met.
LEMMA NewZoneIs ==
  /\ Apply(FreeZone, "RECV").type = "d" /\ Apply(FreeZone, "RECV").contrib_mask = {}
  /\ [FreeZone EXCEPT !.type = InitialZoneType(1)].type = "d"
  /\ [FreeZone EXCEPT !.type = InitialZoneType(1)].contrib_mask = {}
<1>1. FreeZone \in ZoneRecords /\ FreeZone.contrib_mask = {}
  BY FreeZoneType DEF FreeZone
<1>2. Apply(FreeZone, "RECV").type = "d" /\ Apply(FreeZone, "RECV").contrib_mask = {}
  BY DEF Apply, Target, FreeZone
<1>3. QED
  BY <1>1, <1>2 DEF InitialZoneType, FreeZone

LEMMA TakePreloadFit ==
  ASSUME BaseInv, FitInv, NEW k \in Nodes, TakePreload(k)
  PROVE  FitInv' /\ NoNewLogic
<1> DEFINE fsm == [FreeZone EXCEPT !.type = InitialZoneType(1)]
<1>0. TypeInv
  BY DEF BaseInv
<1>1. /\ AwaitsArrival(k) /\ pass[k] = 1 /\ pass'[k] = 1 /\ UNCHANGED <<pass, bfree>>
  BY DEF TakePreload, Preloads
<1>2. pc[k] = "io" /\ pc[k] \in AtWork
  BY <1>1 DEF AwaitsArrival, AtWork
<1>3. /\ OnHand(k) \in Int /\ OnHand(k) <= 3 /\ OnHand(k) <= N - 1
      /\ loc[k].arrived <= N - 1
  BY <1>0, <1>1, FewOnHand
<1>4. /\ Pools(k) /\ reserve \in Seq(SlotIds) /\ Len(reserve) \in Nat
      /\ loc[k].arrived \in Nat /\ N \in Nat \ {0}
  BY <1>0, <1>2, FitOf, WorkTypes
<1>5. /\ ~SelfLoop => Len(reserve) + OnHand(k) >= ReserveCount
      /\ SelfLoop => Len(reserve) >= 2 + (N - loc[k].arrived)
  BY <1>1, <1>2, <1>4 DEF Pools
<1>6. reserve # <<>>
  <2>1. Len(reserve) # 0
    BY <1>3, <1>4, <1>5, PoolSizes
  <2>2. QED
    BY <2>1
<1>7. Head(reserve) \in SlotIds /\ Len(Tail(reserve)) = Len(reserve) - 1
  BY <1>4, <1>6, HeadTailProperties
<1>8. /\ Arrive(k, Head(reserve), fsm, FullLambda(0), DtInitial)
      /\ reserve' = Tail(reserve) /\ UNCHANGED <<pc, haltVars>>
  BY <1>6 DEF TakePreload
<1>9. fsm \in ZoneRecords /\ fsm.type = "d" /\ fsm.contrib_mask = {}
  BY FreeZoneType, NewZoneIs DEF InitialZoneType, ZoneRecords, ZoneTypes
<1>10. FullLambda(0) \in Lambdas /\ DtInitial \in TimeSteps
  BY LambdaTypes
<1>11. ASSUME OnHand(k)' = OnHand(k) + 1, loc'[k].arrived = loc[k].arrived + 1
       PROVE  Pools(k)'
  <2>1. pc'[k] = "io" /\ bfree' = bfree /\ Len(reserve') = Len(reserve) - 1
    BY <1>1, <1>2, <1>7, <1>8
  <2>2. BoundaryIn(k) => Len(bfree[k]) >= Circulating(k)
    BY <1>1, <1>2, <1>4 DEF Pools
  <2>3. ~SelfLoop => Len(reserve') + OnHand(k)' >= ReserveCount
    BY <1>3, <1>4, <1>5, <1>11, <2>1, PoolSizes
  <2>4. SelfLoop => Len(reserve') >= 2 + (N - loc'[k].arrived)
    BY <1>4, <1>5, <1>11, <2>1
  <2>5. QED
    BY <1>1, <2>1, <2>2, <2>3, <2>4 DEF Pools
<1> HIDE DEF fsm
<1>12. QED
  BY <1>1, <1>7, <1>8, <1>9, <1>10, <1>11, ArriveFit

\* The header a node takes is the one it expects.
LEMMA HeaderInOrder ==
  ASSUME BaseInv, RingInv, NEW k \in Nodes, RecvZone(k)
  PROVE  LET m == Head(chan[InEdge(k)])
         IN  /\ m \in Headers /\ m.slot \in SlotIds /\ m.lam \in Lambdas /\ m.dt \in TimeSteps
             /\ InOrder(k, m)
<1> DEFINE e == InEdge(k)
           m == Head(chan[e])
<1>0. e \in Nodes /\ Consumer(e) = k /\ TypeInv
  BY EdgesAreNodes, ConsumerOfIn DEF BaseInv
<1>1. AwaitsArrival(k) /\ pass[k] # 1 /\ ~BoundaryIn(k) /\ chan[e] # <<>>
  BY DEF RecvZone, Preloads
<1>2. Lane(InEdge(k)) = chan[e] /\ chan[e] \in Seq(Headers)
  BY <1>0, <1>1 DEF Lane, BoundaryOut, TypeInv, LaneTypes
<1>3. m \in Headers /\ m.slot \in SlotIds /\ m.lam \in Lambdas /\ m.dt \in TimeSteps
  BY <1>0, <1>1, HeadersArrive
<1>4. ~IsPoison(m)
  BY <1>3 DEF IsPoison, Headers
<1>5. Carries(m)
  <2>1. 1 \in 1 .. Len(chan[e]) /\ m = chan[e][1]
    BY <1>1, <1>2, HeadElement
  <2>2. Carries(chan[e][1])
    BY <1>0, <2>1 DEF BaseInv, DataInv, Carried
  <2> HIDE DEF m
  <2>3. QED
    BY <2>1, <2>2, Zenon
<1>6. InOrder(k, m)
  <2>1. m = Head(Lane(InEdge(k)))
    BY <1>2
  <2> HIDE DEF m, e
  <2>2. /\ Lane(InEdge(k)) \in Seq(Headers) /\ Lane(InEdge(k)) # <<>>
        /\ ~IsPoison(Head(Lane(InEdge(k)))) /\ Carries(Head(Lane(InEdge(k))))
    BY <1>1, <1>2, <1>4, <1>5, <2>1
  <2>3. InOrder(k, Head(Lane(InEdge(k))))
    BY <1>1, <2>2, ArrivesInOrder
  <2>4. QED
    BY <2>1, <2>3, Zenon
<1>7. QED
  BY <1>3, <1>6

LEMMA RecvZoneFit ==
  ASSUME BaseInv, RingInv, FitInv, NEW k \in Nodes, RecvZone(k)
  PROVE  FitInv' /\ NoNewLogic
<1> DEFINE m == Head(chan[InEdge(k)])
           fsm == Apply(FreeZone, "RECV")
<1>1. AwaitsArrival(k) /\ pass[k] # 1 /\ ~BoundaryIn(k) /\ UNCHANGED <<pass, bfree, reserve>>
  BY DEF RecvZone, Preloads, poolVars
<1>3. /\ m.slot \in SlotIds /\ m.lam \in Lambdas /\ m.dt \in TimeSteps /\ InOrder(k, m)
  BY HeaderInOrder
<1>7. Arrive(k, m.slot, fsm, m.lam, m.dt) /\ UNCHANGED <<pc, haltVars>>
  BY <1>3 DEF RecvZone
<1>8. fsm \in ZoneRecords /\ fsm.type = "d" /\ fsm.contrib_mask = {}
  BY FreeZoneType, ApplyType, NewZoneIs DEF ZoneEvents
<1>9. ASSUME Pools(k) PROVE Pools(k)'
  BY <1>1, <1>9 DEF Pools
<1> HIDE DEF fsm, m
<1> DEFINE s == m.slot
           lam == m.lam
           dt == m.dt
<1>10. s \in SlotIds /\ lam \in Lambdas /\ dt \in TimeSteps /\ Arrive(k, s, fsm, lam, dt)
  BY <1>3, <1>7
<1> HIDE DEF s, lam, dt
<1>11. QED
  BY <1>1, <1>7, <1>8, <1>9, <1>10, ArriveFit

LEMMA MessageInOrder ==
  ASSUME BaseInv, RingInv, NEW k \in Nodes, RecvBoundary(k)
  PROVE  LET m == Head(link[k])
         IN  /\ m \in WireMessages /\ m.lam \in Lambdas /\ m.dt \in TimeSteps
             /\ InOrder(k, m) /\ BoundaryIn(k) /\ RankOf(k) = k /\ k \in Heads /\ ~SelfLoop
             /\ ~IsPoison(m) /\ link[k] \in Seq(WireMessages) /\ link[k] # <<>>
<1> DEFINE e == InEdge(k)
           m == Head(link[k])
<1>0. e \in Nodes /\ Consumer(e) = k /\ TypeInv
  BY EdgesAreNodes, ConsumerOfIn DEF BaseInv
<1>1. BoundaryIn(k) /\ RankOf(k) = k /\ k \in Heads /\ ~SelfLoop
  <2>1. BoundaryIn(k) /\ k \in Heads
    BY DEF RecvBoundary, BoundaryIn
  <2>2. QED
    BY <2>1, RankOfHead, SelfLoopAlone
<1>2. AwaitsArrival(k) /\ HasZone(k) /\ pass[k] # 1
  BY <1>1 DEF RecvBoundary, EdgeRecv, Preloads
<1>3. /\ Lane(InEdge(k)) = link[k] /\ link[k] \in Seq(WireMessages) /\ link[k] # <<>>
      /\ ~IsPoison(m)
  BY <1>0, <1>1, <1>2 DEF Lane, BoundaryOut, TypeInv, LinkTypes, HasZone
<1>4. m \in WireMessages /\ m.lam \in Lambdas /\ m.dt \in TimeSteps
  <2>1. m \in WireMessages
    BY <1>0, <1>1, <1>2, LinkHead
  <2>2. QED
    BY <2>1 DEF WireMessages
<1>5. Carries(m)
  <2>1. 1 \in 1 .. Len(link[k]) /\ m = link[k][1]
    BY <1>3, HeadElement
  <2>2. ~IsPoison(link[k][1])
    BY <1>3, <2>1 DEF IsPoison
  <2>3. Carries(link[k][1])
    BY <1>1, <2>1, <2>2 DEF BaseInv, DataInv, Carried
  <2> HIDE DEF m
  <2>4. QED
    BY <2>1, <2>3, Zenon
<1>6. InOrder(k, m)
  <2>1. m = Head(Lane(InEdge(k)))
    BY <1>3
  <2> HIDE DEF m, e
  <2>2. /\ Lane(InEdge(k)) \in Seq(WireMessages) /\ Lane(InEdge(k)) # <<>>
        /\ ~IsPoison(Head(Lane(InEdge(k)))) /\ Carries(Head(Lane(InEdge(k))))
    BY <1>3, <1>5, <2>1
  <2>3. InOrder(k, Head(Lane(InEdge(k))))
    BY <1>2, <2>2, ArrivesInOrder
  <2>4. QED
    BY <2>1, <2>3, Zenon
<1>7. QED
  BY <1>1, <1>3, <1>4, <1>6

LEMMA RecvBoundaryFit ==
  ASSUME BaseInv, RingInv, FitInv, NEW k \in Nodes, RecvBoundary(k)
  PROVE  FitInv' /\ NoNewLogic
<1> DEFINE m == Head(link[k])
           fsm == Apply(FreeZone, "RECV")
<1>0. TypeInv
  BY DEF BaseInv
<1>1. BoundaryIn(k) /\ RankOf(k) = k /\ k \in Heads /\ ~SelfLoop
  BY MessageInOrder
<1>2. /\ AwaitsArrival(k) /\ pass[k] # 1
      /\ UNCHANGED <<pass, reserve>>
  BY DEF RecvBoundary, Preloads
<1>4. /\ m \in WireMessages /\ m.lam \in Lambdas /\ m.dt \in TimeSteps /\ InOrder(k, m)
  BY MessageInOrder
<1>7. /\ pc[k] = "io" /\ pc[k] \in AtWork /\ OnHand(k) \in Int
      /\ OnHand(k) <= 3 /\ OnHand(k) <= N - 1
  BY <1>0, <1>2, FewOnHand DEF AwaitsArrival, AtWork
<1>8. /\ Pools(k) /\ bfree[k] \in Seq(SlotIds) /\ Len(bfree[k]) \in Nat /\ N \in Nat \ {0}
      /\ bfree \in [Nodes -> Seq(SlotIds)]
  BY <1>0, <1>7, FitOf, WorkTypes DEF TypeInv, PoolTypes
<1>9. Len(bfree[k]) + OnHand(k) >= SlotCount
  BY <1>1, <1>2, <1>8 DEF Pools
<1>10. bfree[k] # <<>>
  <2>1. Len(bfree[k]) # 0
    BY <1>1, <1>7, <1>8, <1>9, PoolSizes
  <2>2. QED
    BY <2>1
<1>11. Head(bfree[k]) \in SlotIds /\ Len(Tail(bfree[k])) = Len(bfree[k]) - 1
  BY <1>8, <1>10, HeadTailProperties
<1>12. /\ Arrive(k, Head(bfree[k]), fsm, m.lam, m.dt) /\ UNCHANGED <<pc, haltVars>>
       /\ bfree' = [bfree EXCEPT ![k] = Tail(@)]
  BY <1>1, <1>4, <1>10 DEF RecvBoundary
<1>13. fsm \in ZoneRecords /\ fsm.type = "d" /\ fsm.contrib_mask = {}
  BY FreeZoneType, ApplyType, NewZoneIs DEF ZoneEvents
<1>14. bfree'[k] = Tail(bfree[k]) /\ \A n \in Nodes \ {k} : bfree'[n] = bfree[n]
  BY <1>8, <1>12
<1>15. ASSUME OnHand(k)' = OnHand(k) + 1 PROVE Pools(k)'
  <2>1. Len(bfree'[k]) + OnHand(k)' >= SlotCount
    BY <1>7, <1>8, <1>9, <1>11, <1>14, <1>15, PoolSizes
  <2>2. QED
    BY <1>1, <1>2, <2>1 DEF Pools
<1> HIDE DEF fsm, m
<1> DEFINE s == Head(bfree[k])
           lam == m.lam
           dt == m.dt
<1>16. s \in SlotIds /\ lam \in Lambdas /\ dt \in TimeSteps /\ Arrive(k, s, fsm, lam, dt)
  BY <1>4, <1>11, <1>12
<1> HIDE DEF s, lam, dt
<1>17. QED
  BY <1>2, <1>12, <1>13, <1>14, <1>15, <1>16, ArriveFit

-----------------------------------------------------------------------------
(* Departures.                                                               *)

LEMMA FlushingFacts ==
  ASSUME FitInv, NEW k \in Nodes, Flushing(k)
  PROVE  /\ pc[k] \in AtWork \ {"record"} /\ pc[k] \notin {"loop", "record", "compute"}
         /\ ~(pc[k] = "io" /\ CurrentOp(k) = "RECV")
BY DEF Flushing, AtWork

\* The slot of a zone that leaves goes back to where it is counted.
LEMMA FreedPools ==
  ASSUME BaseInv, FitInv, NEW k \in Nodes, Flushing(k), NEW d, NEW lane,
         FreeSource(k, d, lane), UNCHANGED <<pc, pass>>,
         loc'[k].arrived = loc[k].arrived, OnHand(k)' = OnHand(k) - 1
  PROVE  /\ Pools(k)' /\ \A n \in Nodes \ {k} : bfree'[n] = bfree[n]
         /\ UNCHANGED reserve \/ pass[k] = 1 \/ SelfLoop
<1> DEFINE s == Outgoing(k).dev
<1>0. TypeInv
  BY DEF BaseInv
<1>1. /\ pc[k] \in AtWork \ {"record"} /\ pc[k] \notin {"loop", "record", "compute"}
      /\ pc'[k] = pc[k] /\ pass'[k] = pass[k]
  BY FlushingFacts
<1>2. /\ Pools(k) /\ reserve \in Seq(SlotIds) /\ Len(reserve) \in Nat
      /\ bfree[k] \in Seq(SlotIds) /\ Len(bfree[k]) \in Nat
      /\ bfree \in [Nodes -> Seq(SlotIds)]
      /\ loc[k].arrived \in Nat /\ N \in Nat /\ EndedCount(k) \in Nat
      /\ Len(loc[k].outq) \in Nat
  BY <1>0, <1>1, FitOf, WorkTypes DEF TypeInv, PoolTypes
<1>3. OnHand(k) \in Int
  <2>1. pc[k] \in AtWork
    BY <1>1
  <2>2. OnHand(k) = (loc[k].arrived - EndedCount(k)) + Len(loc[k].outq)
                    - (IF loc[k].dst = NoSlot THEN 0 ELSE 1)
    BY <2>1 DEF OnHand
  <2>3. CASE loc[k].dst = NoSlot
    BY <1>2, <2>2, <2>3
  <2>4. CASE loc[k].dst # NoSlot
    BY <1>2, <2>2, <2>4
  <2>5. QED
    BY <2>3, <2>4
<1>4. CASE pass[k] = 1 \/ SelfLoop
  <2>1. reserve' = Append(reserve, s) /\ UNCHANGED bfree
    BY <1>4 DEF FreeSource
  <2> HIDE DEF s
  <2>2. Len(reserve') = Len(reserve) + 1
    BY <1>2, <2>1
  <2>3. BoundaryIn(k) => pass[k] = 1 /\ Len(bfree[k]) >= Circulating(k)
    BY <1>1, <1>2, <1>4, SelfLoopAlone DEF Pools
  <2>4. Pools(k)'
    BY <1>1, <1>2, <1>3, <2>1, <2>2, <2>3, PoolSizes, SMTT(30) DEF Pools
  <2>5. QED
    BY <1>4, <2>1, <2>4
<1>5. CASE ~(pass[k] = 1 \/ SelfLoop) /\ BoundaryIn(k)
  <2>1. bfree' = [bfree EXCEPT ![k] = Append(@, s)] /\ UNCHANGED reserve
    BY <1>5 DEF FreeSource
  <2> HIDE DEF s
  <2>2. bfree'[k] = Append(bfree[k], s) /\ \A n \in Nodes \ {k} : bfree'[n] = bfree[n]
    BY <1>2, <2>1
  <2>3. Len(bfree'[k]) = Len(bfree[k]) + 1
    BY <1>2, <2>2
  <2>4. Len(bfree[k]) + OnHand(k) >= SlotCount
    BY <1>2, <1>5 DEF Pools
  <2>5. Len(bfree'[k]) + OnHand(k)' >= SlotCount
    BY <1>2, <1>3, <2>3, <2>4, PoolSizes
  <2>6. Pools(k)'
    BY <1>1, <1>5, <2>5 DEF Pools
  <2>7. QED
    BY <2>1, <2>2, <2>6
<1>6. CASE ~(pass[k] = 1 \/ SelfLoop) /\ ~BoundaryIn(k)
  <2>1. UNCHANGED <<bfree, reserve>>
    BY <1>6 DEF FreeSource, poolVars
  <2>2. Pools(k)'
    BY <1>1, <1>6 DEF Pools
  <2>3. QED
    BY <2>1, <2>2
<1>7. QED
  BY <1>4, <1>5, <1>6

\* A zone that waits is in the state it may be sent from, and waits once.
LEMMA WaitingFacts ==
  ASSUME BaseInv, FitInv, NEW k \in Nodes, Sending(k)
  PROVE  /\ loc[k].outq # <<>> /\ Outgoing(k).fsm.type = "p"
         /\ \A i \in 1 .. Len(loc[k].outq) : i # 1 => loc[k].outq[i] # loc[k].outq[1]
<1>0. TypeInv /\ FlowInv /\ DataInv
  BY DEF BaseInv
<1>1. Flushing(k) /\ loc[k].outq # <<>> /\ pass[k] # Steps
  BY DEF Sending
<1>2. pc[k] \in AtWork
  BY <1>1, FlushingFacts
<1>3. /\ loc[k].outq \in Seq(Zones) /\ Len(loc[k].outq) \in Nat \ {0} /\ loc[k].sent \in Nat
      /\ EndedCount(k) \in 0 .. N /\ N \in Nat \ {0} /\ Head(loc[k].outq) = loc[k].outq[1]
  BY <1>0, <1>1, OutgoingFacts, WorkTypes
<1>4. loc[k].sent + Len(loc[k].outq) = EndedCount(k)
  BY <1>0, <1>1, <1>2, NodeFlow DEF Counts
<1>5. \A q \in 1 .. Len(loc[k].outq) : loc[k].outq[q] = Order(loc[k].sent + (q - 1))
  BY <1>0, <1>1, <1>2, AtWorkData
<1>6. ASSUME NEW i \in 1 .. Len(loc[k].outq), i # 1
      PROVE  loc[k].outq[i] # loc[k].outq[1]
  <2> DEFINE x == loc[k].sent
             y == loc[k].sent + (i - 1)
  <2>1. x \in 0 .. N - 1 /\ y \in 0 .. N - 1 /\ x # y /\ x + (1 - 1) = x
    BY <1>3, <1>4, <1>6
  <2>2. loc[k].outq[1] = Order(x) /\ loc[k].outq[i] = Order(y)
    BY <1>3, <1>5, <1>6, <2>1
  <2> HIDE DEF x, y
  <2>3. Order(x) # Order(y)
    BY <2>1, OrderFacts DEF Zones
  <2>4. QED
    BY <2>2, <2>3
<1>7. Outgoing(k).fsm.type = "p"
  <2>1. loc[k].slot[loc[k].outq[1]].fsm.type = "p"
    BY <1>2, <1>3, FitOf DEF Shaped
  <2>2. QED
    BY <1>3, <2>1 DEF Outgoing
<1>8. QED
  BY <1>1, <1>6, <1>7

\* It leaves.
LEMMA LeavesFit ==
  ASSUME BaseInv, FitInv, NEW k \in Nodes, Sending(k), UNCHANGED <<pc, pass>>,
         loc' = [loc EXCEPT ![k] = SentPass(ReadyToSend(loc[k]))]
  PROVE  /\ Shapes(k)' /\ Queue(k)'
         /\ \A n \in Nodes \ {k} : loc'[n] = loc[n]
         /\ loc'[k].arrived = loc[k].arrived
         /\ OnHand(k)' = IF loc[k].dst = NoSlot THEN OnHand(k) - 1 ELSE OnHand(k)
<1>0. TypeInv /\ FlowInv /\ DataInv
  BY DEF BaseInv
<1>1. Flushing(k) /\ loc[k].outq # <<>>
  BY DEF Sending
<1>2. /\ pc[k] \in AtWork /\ pc'[k] = pc[k] /\ pass'[k] = pass[k]
      /\ pc[k] # "compute" /\ ~(pc[k] = "io" /\ CurrentOp(k) = "RECV")
  BY <1>1, FlushingFacts
<1>3. /\ \A n \in Nodes \ {k} : loc'[n] = loc[n]
      /\ loc'[k].outq = Tail(loc[k].outq) /\ loc'[k].pos = loc[k].pos
      /\ loc'[k].arrived = loc[k].arrived /\ loc'[k].ended = loc[k].ended
      /\ loc'[k].op = loc[k].op /\ loc'[k].dst = NoSlot /\ loc'[k] \in PassStates
      /\ \A j \in Zones : j # Head(loc[k].outq) => loc'[k].slot[j] = loc[k].slot[j]
      /\ \A j \in Zones : /\ loc'[k].slot[j].computed = loc[k].slot[j].computed
                          /\ loc'[k].slot[j].drifted = loc[k].slot[j].drifted
  BY <1>0, <1>1, SentStep
<1>4. /\ loc[k] \in PassStates /\ ComputedCount(k) \in 0 .. N /\ N \in Nat
      /\ loc[k].arrived \in Nat /\ EndedCount(k) \in Nat
      /\ Len(loc[k].outq) \in Nat \ {0} /\ Len(Tail(loc[k].outq)) = Len(loc[k].outq) - 1
  BY <1>0, <1>1, OutgoingFacts, WorkTypes
<1>5. EndedCount(k)' = EndedCount(k) /\ ComputedCount(k)' = ComputedCount(k)
  BY <1>2, <1>3 DEF EndedCount, ComputedCount
<1>6. /\ Shaped(loc[k], ComputedCount(k)) /\ Len(loc[k].outq) <= EndedCount(k)
      /\ pc[k] = "io" => Len(loc[k].outq) <= 1
  BY <1>2, FitOf
<1>7. PICK c \in Nat : c = ComputedCount(k)
  BY <1>4
<1>8. Shaped(loc'[k], c)
  <2> DEFINE p == loc[k]
             u == loc'[k]
  <2>1. /\ p \in PassStates /\ u \in PassStates /\ Shaped(p, c) /\ p.outq # <<>>
        /\ u.outq = Tail(p.outq) /\ u.arrived = p.arrived /\ u.ended = p.ended
        /\ \A j \in Zones : j # Head(p.outq) => u.slot[j] = p.slot[j]
        /\ \A j \in Zones : /\ u.slot[j].computed = p.slot[j].computed
                            /\ u.slot[j].drifted = p.slot[j].drifted
        /\ \A i \in 1 .. Len(p.outq) : i # 1 => p.outq[i] # p.outq[1]
    BY <1>1, <1>3, <1>4, <1>6, <1>7, WaitingFacts
  <2> HIDE DEF p, u
  <2>2. Shaped(u, c)
    BY <2>1, SentShape
  <2>3. QED
    BY <2>2 DEF u
<1>9. Shapes(k)'
  BY <1>5, <1>7, <1>8 DEF Shapes, Shaped, SlotShape, FsmIs
<1>10. Queue(k)'
  <2>1. CurrentOp(k)' = CurrentOp(k)
    BY <1>2, <1>3 DEF CurrentOp
  <2>2. Len(loc'[k].outq) <= EndedCount(k) /\ (pc[k] = "io" => Len(loc'[k].outq) <= 1)
    <3>1. Len(loc'[k].outq) = Len(loc[k].outq) - 1
      BY <1>3, <1>4
    <3>2. QED
      BY <1>4, <1>6, <3>1
  <2>3. QED
    BY <1>2, <1>3, <1>5, <2>1, <2>2 DEF Queue
<1>11. OnHand(k)' = IF loc[k].dst = NoSlot THEN OnHand(k) - 1 ELSE OnHand(k)
  <2>1. OnHand(k)' = (loc'[k].arrived - EndedCount(k)') + Len(loc'[k].outq)
                     - (IF loc'[k].dst = NoSlot THEN 0 ELSE 1)
    BY <1>2 DEF OnHand
  <2>2. OnHand(k) = (loc[k].arrived - EndedCount(k)) + Len(loc[k].outq)
                    - (IF loc[k].dst = NoSlot THEN 0 ELSE 1)
    BY <1>2 DEF OnHand
  <2>3. /\ loc'[k].arrived = loc[k].arrived /\ EndedCount(k)' = EndedCount(k)
        /\ Len(loc'[k].outq) = Len(loc[k].outq) - 1 /\ loc'[k].dst = NoSlot
    <3>1. /\ loc'[k].arrived = loc[k].arrived /\ loc'[k].outq = Tail(loc[k].outq)
          /\ loc'[k].dst = NoSlot
      BY <1>3
    <3>2. QED
      BY <1>4, <1>5, <3>1
  <2> DEFINE a == loc[k].arrived
             n == EndedCount(k)
             w == Len(loc[k].outq)
  <2>n. a \in Nat /\ n \in Nat /\ w \in Nat
    BY <1>4
  <2>4. CASE loc[k].dst = NoSlot
    <3>1. OnHand(k)' = (a - n) + ((w - 1) - 0) /\ OnHand(k) = (a - n) + (w - 0)
      BY <2>1, <2>2, <2>3, <2>4
    <3> HIDE DEF a, n, w
    <3>2. OnHand(k)' = OnHand(k) - 1
      BY <2>n, <3>1
    <3>3. QED
      BY <2>4, <3>2
  <2>5. CASE loc[k].dst # NoSlot
    BY <1>4, <2>1, <2>2, <2>3, <2>5, SMTT(30)
  <2>6. QED
    BY <2>4, <2>5
<1>12. QED
  BY <1>3, <1>9, <1>10, <1>11

LEMMA SendHeaderFit ==
  ASSUME BaseInv, FitInv, NEW k \in Nodes, SendHeader(k)
  PROVE  FitInv' /\ NoNewLogic
<1>0. TypeInv
  BY DEF BaseInv
<1>1. /\ Sending(k) /\ Flushing(k) /\ loc[k].dst # NoSlot
      /\ UNCHANGED <<pass, bfree, reserve>>
  BY DEF SendHeader, Sending, poolVars
<1>2. /\ UNCHANGED <<pc, haltVars>>
      /\ loc' = [loc EXCEPT ![k] = SentPass(ReadyToSend(loc[k]))]
  <2>1. Allowed(Outgoing(k).fsm.type, "SEND")
    BY <1>1, WaitingFacts DEF Allowed
  <2>2. QED
    BY <1>0, <2>1, SendHeaderEffect
<1>3. /\ Shapes(k)' /\ Queue(k)' /\ OnHand(k)' = OnHand(k)
      /\ \A n \in Nodes \ {k} : loc'[n] = loc[n]
      /\ loc'[k].arrived = loc[k].arrived
  BY <1>1, <1>2, LeavesFit
<1>4. Pools(k)'
  <2>1. pc[k] \in AtWork \ {"record"} /\ pc'[k] \in AtWork \ {"record"} /\ pass'[k] = pass[k]
    BY <1>1, <1>2, FlushingFacts
  <2>2. Pools(k) /\ bfree'[k] = bfree[k]
    BY <1>1, <2>1, FitOf
  <2>3. QED
    BY <1>1, <1>3, <2>1, <2>2, PoolsKept
<1>5. FitInv'
  BY <1>1, <1>2, <1>3, <1>4, FitMoves DEF Fit
<1>6. QED
  BY <1>2, <1>5 DEF NoNewLogic, haltVars

LEMMA SendBoundaryFit ==
  ASSUME BaseInv, FitInv, NEW k \in Nodes, SendBoundary(k)
  PROVE  FitInv' /\ NoNewLogic
<1>0. TypeInv
  BY DEF BaseInv
<1>1. Sending(k) /\ Flushing(k) /\ BoundaryOut(k) /\ UNCHANGED pass
  BY DEF SendBoundary, Sending
<1>2. loc[k].dst = NoSlot
  BY <1>1, FlushingFacts, FitOf
<1>3. Allowed(Outgoing(k).fsm.type, "SEND")
  BY <1>1, WaitingFacts DEF Allowed
<1>4. /\ UNCHANGED <<pc, haltVars>>
      /\ loc' = [loc EXCEPT ![k] = SentPass(ReadyToSend(loc[k]))]
  BY <1>0, <1>3, SendBoundaryEffect
<1>5. PICK d : FreeSource(k, d, credits)
  BY <1>3 DEF SendBoundary
<1>6. /\ Shapes(k)' /\ Queue(k)' /\ OnHand(k)' = OnHand(k) - 1
      /\ \A n \in Nodes \ {k} : loc'[n] = loc[n]
      /\ loc'[k].arrived = loc[k].arrived
  BY <1>1, <1>2, <1>4, LeavesFit
<1>7. /\ Pools(k)' /\ \A n \in Nodes \ {k} : bfree'[n] = bfree[n]
      /\ UNCHANGED reserve \/ pass[k] = 1 \/ SelfLoop
  BY <1>1, <1>4, <1>5, <1>6, FreedPools
<1>8. FitInv'
  BY <1>1, <1>4, <1>6, <1>7, FitMoves DEF Fit
<1>9. QED
  BY <1>4, <1>8 DEF NoNewLogic, haltVars

\* The last pass lands a zone on the host.
LEMMA CollectFit ==
  ASSUME BaseInv, FitInv, NEW k \in Nodes, CollectZone(k)
  PROVE  FitInv' /\ NoNewLogic
<1>0. TypeInv
  BY DEF BaseInv
<1>1. /\ Flushing(k) /\ loc[k].outq # <<>> /\ pass[k] = Steps
      /\ UNCHANGED <<pc, pass, haltVars>>
  BY DEF CollectZone
<1>2. PICK d : FreeSource(k, d, credits)
  BY DEF CollectZone
<1>3. /\ pc[k] \in AtWork /\ pc'[k] = pc[k] /\ pass'[k] = pass[k]
      /\ pc[k] # "compute" /\ ~(pc[k] = "io" /\ CurrentOp(k) = "RECV")
  BY <1>1, FlushingFacts
<1>4. /\ loc'[k] = [loc[k] EXCEPT !.outq = Tail(@)]
      /\ \A n \in Nodes \ {k} : loc'[n] = loc[n]
  BY <1>0, CollectZoneType
<1>5. /\ loc[k] \in PassStates /\ EndedCount(k) \in Nat /\ loc[k].arrived \in Nat
      /\ Len(loc[k].outq) \in Nat \ {0} /\ Len(Tail(loc[k].outq)) = Len(loc[k].outq) - 1
      /\ loc[k].outq \in Seq(Zones)
  BY <1>0, <1>1, OutgoingFacts, WorkTypes
<1>6. /\ loc'[k].outq = Tail(loc[k].outq) /\ loc'[k].pos = loc[k].pos
      /\ loc'[k].arrived = loc[k].arrived /\ loc'[k].ended = loc[k].ended
      /\ loc'[k].op = loc[k].op /\ loc'[k].dst = loc[k].dst /\ loc'[k].slot = loc[k].slot
  BY <1>4, <1>5 DEF PassStates
<1>7. EndedCount(k)' = EndedCount(k) /\ ComputedCount(k)' = ComputedCount(k)
  BY <1>3, <1>6 DEF EndedCount, ComputedCount
<1>8. /\ Shaped(loc[k], ComputedCount(k)) /\ Len(loc[k].outq) <= EndedCount(k)
      /\ pc[k] = "io" => Len(loc[k].outq) <= 1
      /\ loc[k].dst = NoSlot
  BY <1>1, <1>3, FitOf DEF Sending
<1>9. Shapes(k)'
  <2>1. \A j \in Zones : j < loc'[k].arrived =>
           SlotShape(loc'[k].slot[j], j, ComputedCount(k), loc'[k].ended)
    BY <1>6, <1>8 DEF Shaped
  <2>2. ASSUME NEW q \in 1 .. Len(loc'[k].outq)
        PROVE  loc'[k].slot[loc'[k].outq[q]].fsm.type = "p"
    <3>1. q + 1 \in 1 .. Len(loc[k].outq) /\ Tail(loc[k].outq)[q] = loc[k].outq[q + 1]
      BY <1>1, <1>5, <1>6, <2>2, HeadTailProperties
    <3>2. loc[k].slot[loc[k].outq[q + 1]].fsm.type = "p"
      BY <1>8, <3>1 DEF Shaped
    <3>3. QED
      BY <1>6, <3>1, <3>2
  <2>3. QED
    BY <1>7, <2>1, <2>2 DEF Shapes, Shaped, SlotShape, FsmIs
<1>10. Len(loc'[k].outq) = Len(loc[k].outq) - 1
  BY <1>5, <1>6
<1>11. Queue(k)'
  <2>1. CurrentOp(k)' = CurrentOp(k)
    BY <1>3, <1>6 DEF CurrentOp
  <2>2. Len(loc'[k].outq) <= EndedCount(k) /\ (pc[k] = "io" => Len(loc'[k].outq) <= 1)
    BY <1>5, <1>8, <1>10
  <2>3. QED
    BY <1>3, <1>6, <1>7, <1>8, <2>1, <2>2 DEF Queue
<1>12. OnHand(k)' = OnHand(k) - 1
  <2> DEFINE a == loc[k].arrived
             n == EndedCount(k)
             w == Len(loc[k].outq)
  <2>1. a \in Nat /\ n \in Nat /\ w \in Nat
    BY <1>5
  <2>2. OnHand(k) = (a - n) + w - 0
    BY <1>3, <1>8 DEF OnHand
  <2>3. OnHand(k)' = (a - n) + (w - 1) - 0
    BY <1>3, <1>6, <1>7, <1>8, <1>10 DEF OnHand
  <2> HIDE DEF a, n, w
  <2>4. QED
    BY <2>1, <2>2, <2>3
<1>13. /\ Pools(k)' /\ \A n \in Nodes \ {k} : bfree'[n] = bfree[n]
       /\ UNCHANGED reserve \/ pass[k] = 1 \/ SelfLoop
  BY <1>1, <1>2, <1>6, <1>12, FreedPools
<1>14. FitInv'
  BY <1>1, <1>4, <1>9, <1>11, <1>13, FitMoves DEF Fit
<1>15. QED
  BY <1>1, <1>14 DEF NoNewLogic, haltVars

\* A zone is copied to the slot it will have at the consumer.
LEMMA CopyFit ==
  ASSUME BaseInv, FitInv, NEW k \in Nodes, CopyZone(k)
  PROVE  FitInv' /\ NoNewLogic
<1>0. TypeInv
  BY DEF BaseInv
<1>1. /\ Sending(k) /\ Flushing(k) /\ ~BoundaryOut(k) /\ loc[k].dst = NoSlot
      /\ pass[k] # Steps /\ loc[k].outq # <<>> /\ UNCHANGED pass
  BY DEF CopyZone, Sending
<1>2. /\ pc[k] \in AtWork \ {"record"} /\ pc[k] \notin {"loop", "record", "compute"}
      /\ ~(pc[k] = "io" /\ CurrentOp(k) = "RECV") /\ pc[k] \in AtWork
  BY <1>1, FlushingFacts
<1>3. /\ reserve \in Seq(SlotIds) /\ Len(reserve) \in Nat /\ Pools(k)
      /\ loc[k].arrived \in 0 .. N /\ EndedCount(k) \in Nat /\ N \in Nat
      /\ Len(loc[k].outq) \in Nat /\ loc[k] \in PassStates
  BY <1>0, <1>2, FitOf, WorkTypes
<1>4. SelfLoop => Len(reserve) >= 2
  BY <1>2, <1>3 DEF Pools
<1>5. /\ UNCHANGED <<pc, haltVars>>
      /\ \E s \in SlotIds : loc' = [loc EXCEPT ![k].dst = s]
      /\ SelfLoop => /\ UNCHANGED bfree
                     /\ reserve' = Append(Tail(reserve), Outgoing(k).dev)
      /\ ~SelfLoop => \E d, lane : FreeSource(k, d, lane)
  <2>1. CASE SelfLoop
    <3>1. reserve # <<>>
      BY <1>3, <1>4, <2>1
    <3>2. Head(reserve) \in SlotIds
      BY <1>3, <3>1
    <3>3. QED
      BY <2>1, <3>1, <3>2 DEF CopyZone, CopyToSelf
  <2>2. CASE ~SelfLoop
    <3>1. CopyOnCredit(k)
      BY <2>2 DEF CopyZone
    <3>2. Head(credits[k]) \in SlotIds
      BY <1>0, <3>1 DEF CopyOnCredit, TypeInv, LaneTypes
    <3>3. QED
      BY <2>2, <3>1, <3>2 DEF CopyOnCredit
  <2>3. QED
    BY <2>1, <2>2
<1>6. PICK s \in SlotIds : loc' = [loc EXCEPT ![k].dst = s]
  BY <1>5
<1>7. /\ loc'[k] = [loc[k] EXCEPT !.dst = s] /\ \A n \in Nodes \ {k} : loc'[n] = loc[n]
      /\ pc'[k] = pc[k] /\ pass'[k] = pass[k]
  BY <1>0, <1>1, <1>5, <1>6, DstStep
<1>8. /\ loc'[k].outq = loc[k].outq /\ loc'[k].pos = loc[k].pos
      /\ loc'[k].arrived = loc[k].arrived /\ loc'[k].ended = loc[k].ended
      /\ loc'[k].op = loc[k].op /\ loc'[k].slot = loc[k].slot /\ loc'[k].dst = s
  BY <1>3, <1>7 DEF PassStates
<1>9. s # NoSlot
  BY PoolFacts DEF SlotIds, NoSlot
<1>10. EndedCount(k)' = EndedCount(k) /\ ComputedCount(k)' = ComputedCount(k)
  BY <1>7, <1>8 DEF EndedCount, ComputedCount
<1>11. /\ Shaped(loc[k], ComputedCount(k)) /\ Len(loc[k].outq) <= EndedCount(k)
       /\ pc[k] = "io" => Len(loc[k].outq) <= 1
  BY <1>2, FitOf, SMTT(30)
<1>12. Shapes(k)'
  BY <1>8, <1>10, <1>11 DEF Shapes, Shaped, SlotShape, FsmIs
<1>13. Queue(k)'
  <2>1. CurrentOp(k)' = CurrentOp(k)
    BY <1>7, <1>8 DEF CurrentOp
  <2>2. Sending(k)'
    BY <1>1, <1>7, <1>8, <2>1 DEF Sending, Flushing
  <2>3. QED
    BY <1>1, <1>2, <1>7, <1>8, <1>10, <1>11, <2>1, <2>2 DEF Queue
<1>14. OnHand(k)' = OnHand(k) - 1
  <2> DEFINE a == loc[k].arrived
             n == EndedCount(k)
             w == Len(loc[k].outq)
  <2>1. a \in Nat /\ n \in Nat /\ w \in Nat
    BY <1>3
  <2>2. OnHand(k) = (a - n) + w - 0
    BY <1>1, <1>2 DEF OnHand
  <2>3. OnHand(k)' = (a - n) + w - 1
    BY <1>2, <1>7, <1>8, <1>9, <1>10 DEF OnHand
  <2> HIDE DEF a, n, w
  <2>4. QED
    BY <2>1, <2>2, <2>3
<1>15. /\ Pools(k)' /\ \A n \in Nodes \ {k} : bfree'[n] = bfree[n]
       /\ UNCHANGED reserve \/ pass[k] = 1 \/ SelfLoop
  <2>1. CASE ~SelfLoop
    <3>1. PICK d, lane : FreeSource(k, d, lane)
      BY <1>5, <2>1
    <3>2. QED
      BY <1>1, <1>5, <1>8, <1>14, <3>1, FreedPools
  <2>2. CASE SelfLoop
    <3>1. reserve' = Append(Tail(reserve), Outgoing(k).dev) /\ UNCHANGED bfree
      BY <1>5, <2>2
    <3>2. Len(reserve') = Len(reserve)
      <4>1. reserve # <<>>
        BY <1>3, <1>4, <2>2
      <4>2. Tail(reserve) \in Seq(SlotIds) /\ Len(Tail(reserve)) = Len(reserve) - 1
        BY <1>3, <4>1, HeadTailProperties
      <4>3. Outgoing(k).dev \in SlotIds
        BY <1>0, <1>1, OutgoingFacts
      <4>4. QED
        BY <1>3, <3>1, <4>2, <4>3
    <3>3. ~BoundaryIn(k)
      BY <2>2, SelfLoopAlone
    <3>4. Pools(k)'
      BY <1>2, <1>3, <1>7, <1>8, <2>2, <3>2, <3>3 DEF Pools
    <3>5. QED
      BY <2>2, <3>1, <3>4
  <2>3. QED
    BY <2>1, <2>2
<1>16. FitInv'
  BY <1>1, <1>5, <1>7, <1>12, <1>13, <1>15, FitMoves DEF Fit
<1>17. QED
  BY <1>5, <1>16 DEF NoNewLogic, haltVars

-----------------------------------------------------------------------------
(* Computations.                                                             *)

\* When position j is computed, only the head may still be held back below it.
LEMMA EndedBelow ==
  ASSUME NEW j \in Zones, NEW c, c = IF DeferHead /\ j > 0 THEN j - 1 ELSE j
  PROVE  /\ j \notin EndOrder(c)
         /\ \A i \in Zones : (i < j /\ i \notin EndOrder(c)) => DeferHead /\ i = 0
<1>1. N \in Nat \ {0} /\ Zones = 0 .. N - 1 /\ (DeferHead => N > 1)
  BY RingFacts DEF Zones, DeferHead
<1>2. c \in Zones
  BY <1>1
<1>3. j \notin EndOrder(c)
  <2>1. CASE DeferHead /\ j = 0
    <3>1. c = 0
      BY <2>1
    <3>2. QED
      BY <3>1, EndOrderFacts
  <2>2. CASE ~(DeferHead /\ j = 0)
    <3>1. j = Order(c)
      BY <1>1, <2>2 DEF Order
    <3>2. QED
      BY <1>2, <3>1, EndOrderFacts
  <2>3. QED
    BY <2>1, <2>2
<1>4. ASSUME NEW i \in Zones, i < j, ~(DeferHead /\ i = 0)
      PROVE  i \in EndOrder(c)
  <2>1. Rank(i) \in 0 .. c - 1
    BY <1>1, <1>4 DEF Rank
  <2>2. Order(Rank(i)) = i
    BY OrderFacts
  <2>3. QED
    BY <2>1, <2>2 DEF EndOrder
<1>5. QED
  BY <1>3, <1>4

\* What a computation that ends its zone, or holds it back, does to the counts.
LEMMA ComputeCounts ==
  ASSUME TypeInv, NEW k \in Nodes, pc[k] = "compute",
         loc'[k].pos = IF loc[k].pos + 1 < N THEN loc[k].pos + 1 ELSE loc[k].pos,
         pc'[k] = IF IsTail(loc[k].pos) /\ ~HeldBack(loc[k].pos) THEN "endhead"
                  ELSE AfterPosition(loc[k])
  PROVE  /\ EndedCount(k)' = IF HeldBack(loc[k].pos) THEN EndedCount(k) ELSE EndedCount(k) + 1
         /\ ComputedCount(k)' = loc[k].pos + 1
         /\ pc'[k] \in {"io", "endhead", "flush"}
         /\ pc'[k] = "io" => loc[k].pos + 1 < N
<1>1. PICK j \in 0 .. N - 1 : j = loc[k].pos
  BY WorkTypes
<1>2. N \in Nat \ {0} /\ (DeferHead => N > 1)
  BY RingFacts DEF DeferHead
<1>3. AfterPosition(loc[k]) = IF j + 1 < N THEN "io" ELSE "flush"
  BY <1>1 DEF AfterPosition
<1>4. /\ loc'[k].pos = IF j + 1 < N THEN j + 1 ELSE j
      /\ pc'[k] = IF IsTail(j) /\ ~HeldBack(j) THEN "endhead"
                  ELSE IF j + 1 < N THEN "io" ELSE "flush"
  BY <1>1, <1>3
<1>5. EndedCount(k) = IF DeferHead /\ j > 0 THEN j - 1 ELSE j
  BY <1>1 DEF EndedCount
<1>6. CASE HeldBack(j)
  <2>1. j = 0 /\ DeferHead /\ N > 1
    BY <1>2, <1>6 DEF HeldBack
  <2>2. loc'[k].pos = 1 /\ pc'[k] = "io" /\ j + 1 < N
    BY <1>2, <1>4, <1>6, <2>1
  <2>3. EndedCount(k)' = 0 /\ EndedCount(k) = 0 /\ ComputedCount(k)' = 1
    BY <1>5, <2>1, <2>2 DEF EndedCount, ComputedCount
  <2>4. QED
    BY <1>1, <1>6, <2>1, <2>2, <2>3
<1>7. CASE ~HeldBack(j) /\ IsTail(j)
  <2>1. DeferHead /\ j = N - 1 /\ N > 1 /\ pc'[k] = "endhead"
    BY <1>2, <1>4, <1>7 DEF IsTail
  <2>2. EndedCount(k)' = N - 1 /\ ComputedCount(k)' = N /\ EndedCount(k) = N - 2
    BY <1>1, <1>2, <1>5, <2>1 DEF EndedCount, ComputedCount
  <2>3. QED
    BY <1>1, <1>2, <1>7, <2>1, <2>2
<1>8. CASE ~HeldBack(j) /\ ~IsTail(j) /\ j + 1 < N
  <2>1. pc'[k] = "io" /\ loc'[k].pos = j + 1
    BY <1>4, <1>8
  <2>2. /\ EndedCount(k)' = (IF DeferHead /\ j + 1 > 0 THEN (j + 1) - 1 ELSE j + 1)
        /\ ComputedCount(k)' = j + 1
    BY <2>1 DEF EndedCount, ComputedCount
  <2>3. EndedCount(k)' = EndedCount(k) + 1
    BY <1>1, <1>2, <1>5, <1>8, <2>2 DEF HeldBack
  <2>4. QED
    BY <1>1, <1>8, <2>1, <2>2, <2>3
<1>9. CASE ~HeldBack(j) /\ ~IsTail(j) /\ ~(j + 1 < N)
  <2>1. pc'[k] = "flush" /\ j = N - 1 /\ ~DeferHead
    BY <1>1, <1>2, <1>4, <1>9 DEF IsTail
  <2>2. EndedCount(k)' = N /\ ComputedCount(k)' = N /\ EndedCount(k) = j
    BY <1>5, <2>1 DEF EndedCount, ComputedCount
  <2>3. QED
    BY <1>1, <1>2, <1>9, <2>1, <2>2
<1>10. QED
  BY <1>6, <1>7, <1>8, <1>9

\* A step of the work of a pass that takes and gives back no slot.
LEMMA WorkFit ==
  ASSUME BaseInv, FitInv, NEW k \in Nodes, UNCHANGED <<pass, poolVars, haltVars>>,
         \A n \in Nodes \ {k} : pc'[n] = pc[n] /\ loc'[n] = loc[n],
         pc[k] \in AtWork \ {"record"}, pc'[k] \in AtWork \ {"record"},
         loc'[k].arrived = loc[k].arrived, loc[k].dst = NoSlot, loc'[k].dst = NoSlot,
         EndedCount(k)' - Len(loc'[k].outq) = EndedCount(k) - Len(loc[k].outq),
         EndedCount(k)' \in Nat, Len(loc'[k].outq) \in Nat,
         Shapes(k)', Queue(k)'
  PROVE  FitInv' /\ NoNewLogic
<1>0. TypeInv /\ pc[k] \in AtWork /\ pc'[k] \in AtWork
  BY DEF BaseInv
<1>1. OnHand(k)' = OnHand(k)
  <2> DEFINE a == loc[k].arrived
             n == EndedCount(k)
             w == Len(loc[k].outq)
             m == EndedCount(k)'
             u == Len(loc'[k].outq)
  <2>1. a \in Nat /\ n \in Nat /\ w \in Nat /\ m \in Nat /\ u \in Nat /\ m - u = n - w
    BY <1>0, WorkTypes
  <2>2. OnHand(k) = (a - n) + w - 0
    BY <1>0 DEF OnHand
  <2>3. OnHand(k)' = (a - m) + u - 0
    BY <1>0 DEF OnHand
  <2> HIDE DEF a, n, w, m, u
  <2>4. QED
    BY <2>1, <2>2, <2>3, SMTT(30)
<1>2. Pools(k)'
  <2>1. Pools(k) /\ bfree'[k] = bfree[k] /\ pass'[k] = pass[k] /\ UNCHANGED reserve
    BY <1>0, FitOf DEF poolVars
  <2>2. QED
    BY <1>1, <2>1, PoolsKept
<1>3. FitInv'
  BY <1>2, FitMoves DEF Fit, poolVars
<1>4. QED
  BY <1>3 DEF NoNewLogic, haltVars

LEMMA ComputeFit ==
  ASSUME BaseInv, FitInv, NEW k \in Nodes, ComputeZone(k)
  PROVE  FitInv' /\ NoNewLogic
<1>0. TypeInv /\ FlowInv /\ DataInv
  BY DEF BaseInv
<1>1. /\ pc[k] = "compute" /\ pc[k] \in AtWork \ {"record"} /\ pc[k] \in AtWork
      /\ UNCHANGED <<pass, poolVars>>
  BY DEF ComputeZone, AtWork
<1>2. PICK j \in Zones : j = loc[k].pos
  BY <1>0, NodeFields, PassFields
<1>3. /\ loc[k] \in PassStates /\ EndedCount(k) \in Nat /\ N \in Nat \ {0} /\ j \in 0 .. N - 1
  BY <1>0, <1>2, WorkTypes
<1>4. /\ Shaped(loc[k], j) /\ loc[k].outq = <<>> /\ loc[k].dst = NoSlot
  BY <1>1, <1>2, FitOf DEF Sending, Flushing, ComputedCount
<1>5. LastNeeded(j) < loc[k].arrived
  <2>1. loc[k].arrived > LastNeeded(j)
    BY <1>0, <1>1, <1>2, NodeFields DEF Progress, Received
  <2>2. loc[k].arrived \in Nat /\ LastNeeded(j) \in Nat
    BY <1>0, <1>3, WorkTypes DEF LastNeeded
  <2>3. QED
    BY <2>1, <2>2
<1>6. /\ j \notin loc[k].ended
      /\ \A i \in Zones : (i < j /\ i \notin loc[k].ended) => DeferHead /\ i = 0
  <2>1. loc[k].ended = EndOrder(EndedCount(k))
    BY <1>0, <1>1, AtWorkData
  <2>2. EndedCount(k) = IF DeferHead /\ j > 0 THEN j - 1 ELSE j
    BY <1>1, <1>2 DEF EndedCount
  <2> DEFINE c == EndedCount(k)
  <2> HIDE DEF c
  <2>3. /\ j \notin EndOrder(c)
        /\ \A i \in Zones : (i < j /\ i \notin EndOrder(c)) => DeferHead /\ i = 0
    BY <2>2, EndedBelow DEF c
  <2>4. QED
    BY <2>1, <2>3 DEF c
<1>7. ASSUME NEW u \in PassStates, u.slot = EndedSlots(loc[k].slot, j),
             u.arrived = loc[k].arrived,
             u.ended = (IF HeldBack(j) THEN loc[k].ended ELSE loc[k].ended \cup {j}),
             u.outq = (IF HeldBack(j) THEN loc[k].outq ELSE Append(loc[k].outq, j))
      PROVE  Shaped(u, j + 1)
  <2> DEFINE p == loc[k]
  <2>1. /\ p \in PassStates /\ Shaped(p, j) /\ LastNeeded(j) < p.arrived
        /\ p.outq = <<>> /\ j \notin p.ended
        /\ \A i \in Zones : (i < j /\ i \notin p.ended) => DeferHead /\ i = 0
        /\ u.slot = EndedSlots(p.slot, j) /\ u.arrived = p.arrived
        /\ u.ended = (IF HeldBack(j) THEN p.ended ELSE p.ended \cup {j})
        /\ u.outq = (IF HeldBack(j) THEN p.outq ELSE Append(p.outq, j))
    BY <1>3, <1>4, <1>5, <1>6, <1>7
  <2> HIDE DEF p
  <2>2. QED
    BY <2>1, NextShape
<1>8. /\ ComputeLegal(loc[k].slot, j)
      /\ ~HeldBack(j) => EndLegal(ComputedSlots(loc[k].slot, j)[j].fsm, j)
  <2> DEFINE slot == loc[k].slot
             a == loc[k].arrived
             ended == loc[k].ended
  <2>1. /\ slot \in [Zones -> PassSlots] /\ a \in Nat /\ ended \in SUBSET Zones
        /\ LastNeeded(j) < a /\ j \notin ended
        /\ \A i \in Zones : (i < j /\ i \notin ended) => DeferHead /\ i = 0
        /\ \A i \in Zones : i < a => SlotShape(slot[i], i, j, ended)
    BY <1>3, <1>4, <1>5, <1>6, PassFields DEF Shaped
  <2> HIDE DEF slot, a, ended
  <2>2. QED
    BY <2>1, ComputedShape DEF slot
<1>9. /\ UNCHANGED haltVars
      /\ \A n \in Nodes \ {k} : pc'[n] = pc[n] /\ loc'[n] = loc[n]
      /\ loc'[k].slot = EndedSlots(loc[k].slot, j)
      /\ loc'[k].dst = loc[k].dst /\ loc'[k] \in PassStates
      /\ j + 1 < N => loc'[k].op = 1
      /\ loc'[k].ended = IF HeldBack(j) THEN loc[k].ended ELSE loc[k].ended \cup {j}
      /\ loc'[k].arrived = loc[k].arrived
      /\ loc'[k].pos = IF j + 1 < N THEN j + 1 ELSE j
      /\ loc'[k].outq = IF HeldBack(j) THEN loc[k].outq ELSE Append(loc[k].outq, j)
      /\ pc'[k] = IF IsTail(j) /\ ~HeldBack(j) THEN "endhead" ELSE AfterPosition(loc[k])
  BY <1>0, <1>2, <1>8, ComputeEffect
<1>10. /\ EndedCount(k)' = IF HeldBack(j) THEN EndedCount(k) ELSE EndedCount(k) + 1
       /\ ComputedCount(k)' = j + 1
       /\ pc'[k] \in {"io", "endhead", "flush"} /\ (pc'[k] = "io" => j + 1 < N)
  BY <1>0, <1>1, <1>2, <1>9, ComputeCounts
<1>11. Shaped(loc'[k], j + 1)
  BY <1>7, <1>9
<1>12. Shapes(k)'
  BY <1>10, <1>11 DEF Shapes, Shaped, SlotShape, FsmIs
<1>13. /\ Len(loc[k].outq) = 0
       /\ Len(loc'[k].outq) = IF HeldBack(j) THEN 0 ELSE 1
  <2>1. Len(loc[k].outq) = 0
    BY <1>4
  <2>2. CASE HeldBack(j)
    BY <1>9, <2>1, <2>2
  <2>3. CASE ~HeldBack(j)
    <3>1. loc'[k].outq = <<j>>
      BY <1>4, <1>9, <2>3
    <3>2. QED
      BY <2>1, <2>3, <3>1
  <2>4. QED
    BY <2>2, <2>3
<1>14. Queue(k)'
  <2>1. Len(loc'[k].outq) <= EndedCount(k)' /\ Len(loc'[k].outq) <= 1
    BY <1>3, <1>10, <1>13
  <2>2. pc'[k] # "compute" /\ ~(pc'[k] = "io" /\ loc'[k].op = 2)
    BY <1>9, <1>10
  <2>3. QED
    BY <1>4, <1>9, <2>1, <2>2 DEF Queue
<1>15. /\ EndedCount(k)' - Len(loc'[k].outq) = EndedCount(k) - Len(loc[k].outq)
       /\ EndedCount(k)' \in Nat /\ Len(loc'[k].outq) \in Nat
  BY <1>3, <1>10, <1>13
<1>16. pc'[k] \in AtWork \ {"record"} /\ loc'[k].dst = NoSlot
  BY <1>4, <1>9, <1>10 DEF AtWork
<1>17. QED
  BY <1>1, <1>4, <1>9, <1>12, <1>14, <1>15, <1>16, WorkFit

\* The head that waited for the closure ends last.
LEMMA EndHeadFit ==
  ASSUME BaseInv, FitInv, NEW k \in Nodes, EndHead(k)
  PROVE  FitInv' /\ NoNewLogic
<1>0. TypeInv /\ FlowInv /\ DataInv
  BY DEF BaseInv
<1>1. /\ pc[k] = "endhead" /\ pc[k] \in AtWork \ {"record"} /\ pc[k] \in AtWork
      /\ UNCHANGED <<pass, poolVars>>
  BY DEF EndHead, AtWork
<1>2. /\ loc[k] \in PassStates /\ N \in Nat \ {0} /\ loc[k].outq \in Seq(Zones) /\ 0 \in Zones
      /\ Len(loc[k].outq) \in Nat
  BY <1>0, WorkTypes, RingFacts
<1>3. EndedCount(k) = N - 1 /\ ComputedCount(k) = N
  BY <1>1 DEF EndedCount, ComputedCount
<1>4. /\ Shaped(loc[k], N) /\ Len(loc[k].outq) <= N - 1 /\ loc[k].dst = NoSlot
  BY <1>1, <1>3, FitOf DEF Sending, Flushing
<1>5. loc[k].arrived = N /\ DeferHead
  <2>1. loc[k].arrived = N
    BY <1>0, <1>1, NodeFields DEF Progress, AtTheEnd
  <2>2. NodeData(k)
    BY <1>0, NodeDataOf
  <2>3. QED
    BY <1>1, <2>1, <2>2 DEF NodeData
<1>6. 0 \notin loc[k].ended
  <2>1. loc[k].ended = EndOrder(N - 1)
    BY <1>0, <1>1, <1>3, AtWorkData
  <2>2. 0 = Order(N - 1) /\ N - 1 \in Zones
    BY <1>2, <1>5, RingFacts DEF Order
  <2>3. QED
    BY <2>1, <2>2, EndOrderFacts
<1>7. ASSUME NEW u \in PassStates, u.slot = [loc[k].slot EXCEPT ![0].fsm = Apply(@, "END")],
             u.arrived = loc[k].arrived, u.ended = loc[k].ended \cup {0},
             u.outq = Append(loc[k].outq, 0)
      PROVE  Shaped(u, N)
  <2> DEFINE p == loc[k]
  <2>1. /\ p \in PassStates /\ Shaped(p, N) /\ p.arrived = N /\ 0 \notin p.ended
        /\ u.slot = [p.slot EXCEPT ![0].fsm = Apply(@, "END")] /\ u.arrived = p.arrived
        /\ u.ended = p.ended \cup {0} /\ u.outq = Append(p.outq, 0)
    BY <1>2, <1>4, <1>5, <1>6, <1>7
  <2> HIDE DEF p
  <2>2. QED
    BY <1>5, <2>1, HeadShape
<1>8. EndLegal(loc[k].slot[0].fsm, 0)
  BY <1>2, <1>4, <1>5, <1>6, HeadLegal
<1>9. /\ UNCHANGED haltVars
      /\ \A n \in Nodes \ {k} : pc'[n] = pc[n] /\ loc'[n] = loc[n]
      /\ loc'[k].slot = [loc[k].slot EXCEPT ![0].fsm = Apply(@, "END")]
      /\ loc'[k].dst = loc[k].dst /\ loc'[k] \in PassStates
      /\ loc'[k].ended = loc[k].ended \cup {0} /\ loc'[k].arrived = loc[k].arrived
      /\ loc'[k].outq = Append(loc[k].outq, 0) /\ pc'[k] = "flush"
  BY <1>0, <1>8, EndHeadEffect
<1>10. EndedCount(k)' = N /\ ComputedCount(k)' = N
  BY <1>9 DEF EndedCount, ComputedCount
<1>11. Shaped(loc'[k], N)
  BY <1>7, <1>9
<1>12. Shapes(k)'
  BY <1>10, <1>11 DEF Shapes, Shaped, SlotShape, FsmIs
<1>13. Len(loc'[k].outq) = Len(loc[k].outq) + 1
  BY <1>2, <1>9
<1>14. Queue(k)'
  <2>1. Len(loc'[k].outq) <= N
    BY <1>2, <1>4, <1>13
  <2>2. QED
    BY <1>4, <1>9, <1>10, <2>1 DEF Queue
<1>15. /\ EndedCount(k)' - Len(loc'[k].outq) = EndedCount(k) - Len(loc[k].outq)
       /\ EndedCount(k)' \in Nat /\ Len(loc'[k].outq) \in Nat
  BY <1>2, <1>3, <1>10, <1>13
<1>16. pc'[k] \in AtWork \ {"record"} /\ loc'[k].dst = NoSlot
  BY <1>4, <1>9 DEF AtWork
<1>17. QED
  BY <1>1, <1>4, <1>9, <1>12, <1>14, <1>15, <1>16, WorkFit

-----------------------------------------------------------------------------
(* The end of a pass, the beginning, and every step.                         *)

\* A pass at its end has given all its slots back.
LEMMA NothingOnHand ==
  ASSUME TypeInv, FlowInv, FitInv, NEW k \in Nodes, pc[k] \in {"finish", "record"}
  PROVE  /\ OnHand(k) = 0 /\ loc[k].outq = <<>> /\ loc[k].dst = NoSlot
         /\ loc[k].arrived = N /\ EndedCount(k) = N
<1>1. pc[k] \in AtWork /\ ~Sending(k) /\ N \in Nat
  BY RingFacts DEF AtWork, Sending, Flushing
<1>2. loc[k].dst = NoSlot
  BY <1>1, FitOf
<1>3. loc[k].outq = <<>>
  BY NodeFlow DEF Counts
<1>4. loc[k].arrived = N
  BY NodeFields DEF Progress, AtTheEnd
<1>5. EndedCount(k) = N
  BY DEF EndedCount
<1>6. OnHand(k) = (N - N) + Len(<<>>) - 0
  BY <1>1, <1>2, <1>3, <1>4, <1>5 DEF OnHand
<1>7. QED
  BY <1>1, <1>2, <1>3, <1>4, <1>5, <1>6

LEMMA FinishFit ==
  ASSUME BaseInv, FitInv, NEW k \in Nodes, FinishPass(k)
  PROVE  FitInv' /\ NoNewLogic
<1>0. TypeInv /\ FlowInv /\ N \in Nat \ {0}
  BY RingFacts DEF BaseInv
<1>1. /\ pc[k] = "finish" /\ pc[k] \in AtWork /\ DrainReserve(k, SyncedDevice(k))
      /\ UNCHANGED <<pass, haltVars>>
  BY DEF FinishPass, AtWork
<1>2. /\ pc'[k] = "record" /\ loc'[k] = Synced(loc[k])
      /\ \A n \in Nodes \ {k} : pc'[n] = pc[n] /\ loc'[n] = loc[n]
  BY <1>0, FinishPassEffect
<1>3. /\ OnHand(k) = 0 /\ loc[k].outq = <<>> /\ loc[k].dst = NoSlot
      /\ loc[k].arrived = N /\ EndedCount(k) = N
  BY <1>0, <1>1, NothingOnHand
<1>4. /\ loc'[k].slot = loc[k].slot /\ loc'[k].outq = <<>> /\ loc'[k].dst = NoSlot
      /\ loc'[k].arrived = N /\ loc'[k].ended = loc[k].ended
  <2> DEFINE p == loc[k]
             u == loc'[k]
  <2>1. p \in PassStates /\ u = Synced(p)
    BY <1>0, <1>2, NodeFields
  <2> HIDE DEF p, u
  <2>2. /\ u.slot = p.slot /\ u.outq = p.outq /\ u.dst = p.dst
        /\ u.arrived = p.arrived /\ u.ended = p.ended
    BY <2>1, SyncedIs
  <2>3. QED
    BY <1>3, <2>2 DEF p, u
<1>5. /\ EndedCount(k)' = N /\ ComputedCount(k)' = N /\ ComputedCount(k) = N
  BY <1>1, <1>2 DEF EndedCount, ComputedCount
<1>6. OnHand(k)' = 0
  <2>1. OnHand(k)' = (N - N) + Len(<<>>) - 0
    BY <1>2, <1>4, <1>5 DEF OnHand, AtWork
  <2>2. QED
    BY <1>0, <2>1
<1>7. Shapes(k)'
  <2>1. Shaped(loc[k], N)
    BY <1>1, <1>5, FitOf
  <2>2. Shaped(loc'[k], N)
    BY <1>3, <1>4, <2>1 DEF Shaped
  <2>3. QED
    BY <1>5, <2>2 DEF Shapes, Shaped, SlotShape, FsmIs
<1>8. Queue(k)'
  BY <1>0, <1>2, <1>4, <1>5 DEF Queue
<1>9. /\ Pools(k) /\ Len(reserve) \in Nat /\ Len(bfree[k]) \in Nat
      /\ reserve \in Seq(SlotIds) /\ bfree[k] \in Seq(SlotIds)
      /\ bfree \in [Nodes -> Seq(SlotIds)]
  BY <1>0, <1>1, FitOf, WorkTypes DEF TypeInv, PoolTypes
<1>10. ASSUME pass[k] # 1 \/ SelfLoop
       PROVE  FitInv'
  <2>1. UNCHANGED <<bfree, reserve>>
    BY <1>1, <1>10 DEF DrainReserve, poolVars
  <2>2. Pools(k)'
    BY <1>1, <1>2, <1>3, <1>4, <1>6, <1>9, <1>10, <2>1, SelfLoopAlone DEF Pools
  <2>3. Fit(k)'
    BY <1>7, <1>8, <2>2 DEF Fit
  <2>4. /\ \A n \in Nodes \ {k} : /\ pc'[n] = pc[n] /\ pass'[n] = pass[n]
                                /\ loc'[n] = loc[n] /\ bfree'[n] = bfree[n]
        /\ UNCHANGED reserve \/ pass[k] = 1 \/ SelfLoop
    BY <1>1, <1>2, <2>1
  <2>5. QED
    BY <2>3, <2>4, FitMoves
<1>11. ASSUME ~(pass[k] # 1 \/ SelfLoop)
       PROVE  FitInv'
  <2>1. bfree' = IF BoundaryIn(k) THEN [bfree EXCEPT ![k] = @ \o reserve] ELSE bfree
    BY <1>1, <1>11 DEF DrainReserve
  <2>2. \A n \in Nodes \ {k} : bfree'[n] = bfree[n]
    BY <1>9, <2>1
  <2>3. BoundaryIn(k) => Len(bfree'[k]) >= SlotCount
    <3>1. SUFFICES ASSUME BoundaryIn(k) PROVE Len(bfree'[k]) >= SlotCount
      OBVIOUS
    <3>2. k = 0
      BY <1>0, <1>11, FirstPassIsHeads
    <3>3. Len(bfree[k]) >= Circulating(k) /\ Len(reserve) + 0 >= ReserveCount
      BY <1>1, <1>3, <1>9, <1>11, <3>1 DEF Pools
    <3>4. Circulating(k) = SlotCount - ReserveCount
      BY <3>2 DEF Circulating
    <3>5. bfree'[k] = bfree[k] \o reserve
      BY <1>9, <2>1, <3>1
    <3>6. Len(bfree'[k]) = Len(bfree[k]) + Len(reserve)
      BY <1>9, <3>5
    <3>7. QED
      BY <1>9, <3>3, <3>4, <3>6, PoolSizes
  <2>4. Pools(k)'
    BY <1>1, <1>2, <1>11, <2>3 DEF Pools
  <2>5. Fit(k)'
    BY <1>7, <1>8, <2>4 DEF Fit
  <2>6. /\ \A n \in Nodes \ {k} : /\ pc'[n] = pc[n] /\ pass'[n] = pass[n]
                                /\ loc'[n] = loc[n] /\ bfree'[n] = bfree[n]
        /\ UNCHANGED reserve \/ pass[k] = 1 \/ SelfLoop
    BY <1>1, <1>2, <1>11, <2>2
  <2>7. QED
    BY <2>5, <2>6, FitMoves
<1>12. FitInv'
  BY <1>10, <1>11
<1>13. QED
  BY <1>1, <1>12 DEF NoNewLogic, haltVars

LEMMA RecordFit ==
  ASSUME BaseInv, FitInv, NEW k \in Nodes, RecordPass(k)
  PROVE  FitInv' /\ NoNewLogic
<1>0. TypeInv /\ FlowInv /\ N \in Nat \ {0} /\ Z \in Nat \ {0}
  BY RingFacts DEF BaseInv
<1>1. /\ pc[k] = "record" /\ pc[k] \in AtWork /\ pc'[k] = "loop"
      /\ pass'[k] = pass[k] + Z /\ UNCHANGED <<loc, poolVars, haltVars>>
      /\ \A n \in Nodes \ {k} : pc'[n] = pc[n] /\ pass'[n] = pass[n]
  BY <1>0 DEF RecordPass, Goto, TypeInv, NodeTypes, AtWork
<1>2. pass'[k] # 1
  <2>1. pass[k] \in Nat \ {0}
    BY <1>0, NodeFlow DEF PassOfNode
  <2>2. QED
    BY <1>0, <1>1, <2>1
<1>3. OnHand(k) = 0 /\ loc[k].arrived = N
  BY <1>0, <1>1, NothingOnHand
<1>4. OnHand(k)' = 0
  BY <1>1 DEF OnHand, AtWork
<1>5. Shapes(k)' /\ Queue(k)'
  BY <1>1 DEF Shapes, Queue, AtWork
<1>6. Pools(k) /\ Len(reserve) \in Nat /\ Len(bfree[k]) \in Nat
  BY <1>0, <1>1, FitOf, WorkTypes
<1>7. Pools(k)'
  <2>1. bfree'[k] = bfree[k] /\ reserve' = reserve
    BY <1>1 DEF poolVars
  <2>2. BoundaryIn(k) => Len(bfree[k]) >= SlotCount
    BY <1>1, <1>3, <1>6 DEF Pools
  <2>3. SelfLoop => Len(reserve) >= 2
    BY <1>0, <1>1, <1>3, <1>6 DEF Pools
  <2>4. QED
    BY <1>2, <1>4, <1>6, <2>1, <2>2, <2>3 DEF Pools
<1>8. FitInv'
  BY <1>1, <1>5, <1>7, FitMoves DEF Fit, poolVars
<1>9. QED
  BY <1>1, <1>8 DEF NoNewLogic, haltVars

LEMMA InitFit == Init => FitInv
<1> SUFFICES ASSUME Init, NEW k \in Nodes PROVE Fit(k)
  BY DEF FitInv
<1>0. N \in Nat \ {0} /\ Z \in Nat \ {0}
  BY RingFacts
<1>1. /\ pc[k] = "loop" /\ pass[k] = k + 1 /\ k \in Nat
      /\ bfree[k] = IF BoundaryIn(k) THEN SlotRange(0, Circulating(k)) ELSE <<>>
      /\ reserve = SlotRange(Circulating(0), SlotCount)
  BY <1>0 DEF Init, Nodes
<1>2. Shapes(k) /\ Queue(k) /\ OnHand(k) = 0
  BY <1>1 DEF Shapes, Queue, OnHand, AtWork
<1>3. ASSUME NEW lo \in Int, NEW hi \in Int, lo <= hi
      PROVE  Len(SlotRange(lo, hi)) = hi - lo
  <2> DEFINE m == hi - lo
  <2>1. m \in Nat /\ SlotRange(lo, hi) = [q \in 1 .. m |-> lo + q - 1]
    BY <1>3 DEF SlotRange
  <2> HIDE DEF m
  <2>2. QED
    BY <2>1 DEF m
<1>4. /\ 0 \in Nodes /\ SlotCount \in Nat /\ ReserveCount \in Nat
      /\ Circulating(0) \in 0 .. SlotCount /\ Circulating(k) \in 0 .. SlotCount
      /\ Circulating(0) = SlotCount - ReserveCount
  BY <1>0, PoolFacts DEF Circulating, Nodes
<1>5. Len(reserve) = ReserveCount
  <2> DEFINE c == Circulating(0)
  <2>1. /\ c \in Int /\ SlotCount \in Int /\ c <= SlotCount
        /\ reserve = SlotRange(c, SlotCount) /\ c = SlotCount - ReserveCount
    BY <1>1, <1>4
  <2> HIDE DEF c
  <2>2. Len(reserve) = SlotCount - c
    BY <1>3, <2>1
  <2>3. QED
    BY <1>4, <2>1, <2>2
<1>6. BoundaryIn(k) => Len(bfree[k]) = Circulating(k)
  <2>1. Circulating(k) \in Int /\ 0 <= Circulating(k)
    BY <1>4
  <2> DEFINE c == Circulating(k)
  <2>2. c \in Int /\ 0 <= c /\ (BoundaryIn(k) => bfree[k] = SlotRange(0, c))
    BY <1>1, <2>1
  <2> HIDE DEF c
  <2>3. BoundaryIn(k) => Len(bfree[k]) = c - 0
    BY <1>3, <2>2
  <2>4. QED
    BY <2>2, <2>3 DEF c
<1>7. Pools(k)
  <2>1. BoundaryIn(k) =>
          IF pass[k] = 1
            THEN Len(bfree[k]) >= IF pc[k] = "record" THEN SlotCount ELSE Circulating(k)
          ELSE Len(bfree[k]) + OnHand(k) >= SlotCount
    <3>1. CASE k = 0
      BY <1>1, <1>4, <1>6, <3>1
    <3>2. CASE k # 0
      <4>1. Circulating(k) = SlotCount /\ pass[k] # 1
        BY <1>1, <1>4, <3>2 DEF Circulating
      <4>2. QED
        BY <1>2, <1>4, <1>6, <4>1
    <3>3. QED
      BY <3>1, <3>2
  <2>2. Len(reserve) + OnHand(k) >= ReserveCount
    BY <1>2, <1>4, <1>5
  <2>3. SelfLoop => Len(reserve) = N + 2
    BY <1>5, PoolSizes
  <2>4. SelfLoop => Len(reserve) >= 2 + (IF pass[k] # 1 THEN 0
                            ELSE IF pc[k] = "loop" THEN N ELSE N - loc[k].arrived)
    BY <1>0, <1>1, <2>3
  <2>5. QED
    BY <2>1, <2>2, <2>4 DEF Pools
<1>8. QED
  BY <1>2, <1>7 DEF Fit

LEMMA NodeStepFit ==
  ASSUME BaseInv, TypeInv', RingInv, FitInv, NEW k \in Nodes, NodeStep(k)
  PROVE  FitInv' /\ NoNewLogic
<1>0. TypeInv
  BY DEF BaseInv
<1>1. CASE NodeReturns(k) \/ RecvShutDown(k) \/ CreditShutDown(k) \/ FlushSeesHalt(k) \/ HaltCheck(k)
  BY <1>0, <1>1, LeaveFit
<1>2. CASE StartPass(k) \/ TakePreload(k) \/ RecvZone(k) \/ RecvBoundary(k) \/ RecvPoison(k)
  BY <1>0, <1>2, StartFit, TakePreloadFit, RecvZoneFit, RecvBoundaryFit, RecvPoisonFit
<1>3. CASE RecvDone(k) \/ FlushDone(k) \/ CollectZone(k) \/ CopyZone(k)
  BY <1>3, RecvDoneFit, FlushDoneFit, CollectFit, CopyFit
<1>4. CASE SendHeader(k) \/ SendBoundary(k) \/ CloseEdge(k) \/ PoisonRing(k)
  BY <1>0, <1>4, SendHeaderFit, SendBoundaryFit, CloseFit
<1>5. CASE ComputeZone(k) \/ EndHead(k) \/ FinishPass(k) \/ RecordPass(k)
  BY <1>5, ComputeFit, EndHeadFit, FinishFit, RecordFit
<1>6. QED
  BY <1>1, <1>2, <1>3, <1>4, <1>5 DEF NodeStep

LEMMA NextFit ==
  ASSUME BaseInv, TypeInv', RingInv, FitInv, [Next]_vars
  PROVE  FitInv' /\ NoNewLogic
<1>0. TypeInv
  BY DEF BaseInv
<1>1. ASSUME NEW k \in Nodes, NodeStep(k) PROVE FitInv' /\ NoNewLogic
  BY <1>1, NodeStepFit
<1>2. ASSUME NEW k \in Nodes, NodeFault(k) PROVE FitInv' /\ NoNewLogic
  BY <1>0, <1>2, FaultFit
<1>3. CASE (\E r \in Heads : Join(r)) \/ UNCHANGED vars
  BY <1>3, StandFit
<1>4. QED
  BY <1>1, <1>2, <1>3 DEF Next, AllReturned

\* No rank of the GPU ring ever stops with a protocol exception (std::logic_error):
\* zones arrive in order and in the state the receiver expects, every transition
\* apply makes is allowed, and a free slot is there whenever preload or a boundary
\* receive takes one and whenever the reserve must cover a copy.
THEOREM NoProtocolError == Spec => []NoLogicError
<1>1. Init => FitInv /\ NoLogicError
  BY InitFit DEF Init, NoLogicError
<1>2. BaseInv /\ BaseInv' /\ RingInv /\ FitInv /\ NoLogicError /\ [Next]_vars
        => FitInv' /\ NoLogicError'
  <2>1. SUFFICES ASSUME BaseInv, BaseInv', RingInv, FitInv, NoLogicError, [Next]_vars
                 PROVE  FitInv' /\ NoLogicError'
    OBVIOUS
  <2>2. TypeInv'
    BY <2>1 DEF BaseInv
  <2>3. FitInv' /\ NoNewLogic
    BY <2>1, <2>2, NextFit
  <2>4. QED
    BY <2>1, <2>3 DEF NoNewLogic, NoLogicError
<1>3. Spec => [](BaseInv /\ RingInv)
  BY AlwaysRing
<1>4. QED
  BY <1>1, <1>2, <1>3, PTL DEF Spec

-----------------------------------------------------------------------------
(* Device slots.  Each slot of a node is in one place at a time: a credit of *)
(* its producer, the free list, the reserve, a header under way, the copy    *)
(* about to be announced, or the pass in hand.                               *)

Kinds == {"credit", "free", "reserve", "chan", "copy", "pass"}

\* No slot is in two places.
OneHolder(v) ==
  \A a, b \in Kinds : \A q \in DOMAIN v[a], r \in DOMAIN v[b] :
    v[a][q] = v[b][r] => a = b /\ q = r
Absent(v, s) == \A a \in Kinds : \A q \in DOMAIN v[a] : v[a][q] # s
\* Every slot of w was in the same place in v; but for s, now in place b.
Within(w, v) ==
  \A a \in Kinds : \A q \in DOMAIN w[a] : \E r \in DOMAIN v[a] : w[a][q] = v[a][r]
WithinBut(w, v, b, s) ==
  \A a \in Kinds : \A q \in DOMAIN w[a] :
    \/ a = b /\ w[a][q] = s
    \/ \E r \in DOMAIN v[a] : w[a][q] = v[a][r] /\ w[a][q] # s

\* The first of a queue is taken.
LEMMA HolderHead ==
  ASSUME NEW v, NEW w, NEW S, NEW a \in Kinds, OneHolder(v),
         v[a] \in Seq(S), v[a] # <<>>, w[a] = Tail(v[a]),
         \A x \in Kinds : x # a => w[x] = v[x]
  PROVE  OneHolder(w) /\ Within(w, v) /\ Absent(w, Head(v[a]))
<1> DEFINE s == v[a]
<1>1. /\ Head(s) = s[1] /\ DOMAIN s = 1 .. Len(s) /\ Len(s) \in Nat \ {0}
      /\ DOMAIN Tail(s) = 1 .. Len(s) - 1
      /\ \A q \in 1 .. Len(s) - 1 : Tail(s)[q] = s[q + 1]
  OBVIOUS
<1>2. \A q \in DOMAIN w[a] : q + 1 \in DOMAIN s /\ w[a][q] = s[q + 1] /\ q + 1 # 1 /\ q \in Nat
  BY <1>1
<1>3. 1 \in DOMAIN s
  BY <1>1
<1> HIDE DEF s
<1>4. Within(w, v)
  <2>1. ASSUME NEW x \in Kinds, NEW q \in DOMAIN w[x]
        PROVE  \E r \in DOMAIN v[x] : w[x][q] = v[x][r]
    <3>1. CASE x = a
      BY <1>2, <2>1, <3>1 DEF s
    <3>2. CASE x # a
      BY <2>1, <3>2
    <3>3. QED
      BY <3>1, <3>2
  <2>2. QED
    BY <2>1 DEF Within
<1>5. Absent(w, Head(v[a]))
  <2>1. ASSUME NEW x \in Kinds, NEW q \in DOMAIN w[x], w[x][q] = s[1] PROVE FALSE
    <3>1. CASE x = a
      <4>1. q + 1 \in DOMAIN v[a] /\ 1 \in DOMAIN v[a] /\ v[a][q + 1] = v[a][1] /\ q + 1 # 1
        BY <1>2, <1>3, <2>1, <3>1 DEF s
      <4>2. QED
        BY <4>1 DEF OneHolder
    <3>2. CASE x # a
      <4>1. q \in DOMAIN v[x] /\ v[x][q] = v[a][1] /\ 1 \in DOMAIN v[a]
        BY <1>3, <2>1, <3>2 DEF s
      <4>2. QED
        BY <3>2, <4>1 DEF OneHolder
    <3>3. QED
      BY <3>1, <3>2
  <2>2. QED
    BY <1>1, <2>1 DEF Absent, s
<1>6. OneHolder(w)
  <2>1. ASSUME NEW x \in Kinds, NEW y \in Kinds, NEW q \in DOMAIN w[x], NEW r \in DOMAIN w[y],
               w[x][q] = w[y][r]
        PROVE  x = y /\ q = r
    <3>1. CASE x = a /\ y = a
      <4>1. q + 1 \in DOMAIN v[a] /\ r + 1 \in DOMAIN v[a] /\ v[a][q + 1] = v[a][r + 1]
            /\ q \in Nat /\ r \in Nat
        BY <1>2, <2>1, <3>1 DEF s
      <4>2. q + 1 = r + 1
        BY <4>1 DEF OneHolder
      <4>3. QED
        BY <3>1, <4>1, <4>2
    <3>2. CASE x = a /\ y # a
      <4>1. q + 1 \in DOMAIN v[a] /\ r \in DOMAIN v[y] /\ v[a][q + 1] = v[y][r]
        BY <1>2, <2>1, <3>2 DEF s
      <4>2. QED
        BY <3>2, <4>1 DEF OneHolder
    <3>3. CASE x # a /\ y = a
      <4>1. r + 1 \in DOMAIN v[a] /\ q \in DOMAIN v[x] /\ v[x][q] = v[a][r + 1]
        BY <1>2, <2>1, <3>3 DEF s
      <4>2. QED
        BY <3>3, <4>1 DEF OneHolder
    <3>4. CASE x # a /\ y # a
      <4>1. q \in DOMAIN v[x] /\ r \in DOMAIN v[y] /\ v[x][q] = v[y][r]
        BY <2>1, <3>4
      <4>2. QED
        BY <4>1 DEF OneHolder
    <3>5. QED
      BY <3>1, <3>2, <3>3, <3>4
  <2>2. QED
    BY <2>1 DEF OneHolder
<1>7. QED
  BY <1>4, <1>5, <1>6

\* Some places are emptied.
LEMMA HolderLess ==
  ASSUME NEW v, NEW w, OneHolder(v),
         \A x \in Kinds : \A q \in DOMAIN w[x] : q \in DOMAIN v[x] /\ w[x][q] = v[x][q]
  PROVE  /\ OneHolder(w) /\ Within(w, v)
         /\ \A a \in Kinds : \A q \in DOMAIN v[a] : q \notin DOMAIN w[a] => Absent(w, v[a][q])
<1>1. OneHolder(w)
  BY DEF OneHolder
<1>2. Within(w, v)
  BY DEF Within
<1>3. ASSUME NEW a \in Kinds, NEW q \in DOMAIN v[a], q \notin DOMAIN w[a]
      PROVE  Absent(w, v[a][q])
  BY <1>3 DEF OneHolder, Absent
<1>4. QED
  BY <1>1, <1>2, <1>3

\* A slot that is nowhere takes a new place.
LEMMA HolderMore ==
  ASSUME NEW v, NEW w, NEW b \in Kinds, NEW j, NEW s, OneHolder(v), Absent(v, s),
         DOMAIN w[b] = DOMAIN v[b] \cup {j}, j \notin DOMAIN v[b], w[b][j] = s,
         \A q \in DOMAIN v[b] : w[b][q] = v[b][q],
         \A x \in Kinds : x # b => w[x] = v[x]
  PROVE  OneHolder(w) /\ WithinBut(w, v, b, s)
<1>1. \A x \in Kinds : \A q \in DOMAIN w[x] :
        \/ x = b /\ q = j /\ w[x][q] = s
        \/ q \in DOMAIN v[x] /\ w[x][q] = v[x][q] /\ w[x][q] # s
  BY DEF Absent
<1>2. OneHolder(w)
  <2>1. ASSUME NEW x \in Kinds, NEW y \in Kinds, NEW q \in DOMAIN w[x], NEW r \in DOMAIN w[y],
               w[x][q] = w[y][r]
        PROVE  x = y /\ q = r
    BY <1>1, <2>1 DEF OneHolder
  <2>2. QED
    BY <2>1 DEF OneHolder
<1>3. QED
  BY <1>1, <1>2 DEF WithinBut

LEMMA HolderQueued ==
  ASSUME NEW v, NEW w, NEW b \in Kinds, NEW S, NEW s \in S, OneHolder(v), Absent(v, s),
         v[b] \in Seq(S), w[b] = Append(v[b], s),
         \A x \in Kinds : x # b => w[x] = v[x]
  PROVE  OneHolder(w) /\ WithinBut(w, v, b, s)
<1> DEFINE j == Len(v[b]) + 1
<1>1. DOMAIN w[b] = DOMAIN v[b] \cup {j} /\ j \notin DOMAIN v[b] /\ w[b][j] = s
      /\ \A q \in DOMAIN v[b] : w[b][q] = v[b][q]
  OBVIOUS
<1> HIDE DEF j
<1>2. QED
  BY <1>1, HolderMore

\* The reserve joins a queue.
Draining(v, w, b) ==
  /\ b \in {"free", "credit"} /\ v[b] \in Seq(SlotIds) /\ v["reserve"] \in Seq(SlotIds)
  /\ w[b] = v[b] \o v["reserve"] /\ w["reserve"] = <<>>
  /\ \A x \in Kinds : x \notin {b, "reserve"} => w[x] = v[x]

LEMMA HolderDrained ==
  ASSUME NEW v, NEW w, NEW b, OneHolder(v), Draining(v, w, b)
  PROVE  /\ OneHolder(w)
         /\ \A a \in Kinds : \A q \in DOMAIN w[a] :
              \/ \E r \in DOMAIN v[a] : w[a][q] = v[a][r]
              \/ a = b /\ \E r \in DOMAIN v["reserve"] : w[a][q] = v["reserve"][r]
<1> DEFINE s == v[b]
           t == v["reserve"]
<1>0. "reserve" \in Kinds /\ b \in Kinds
  BY DEF Kinds, Draining
<1>a. s \in Seq(SlotIds) /\ t \in Seq(SlotIds) /\ w[b] = s \o t
  BY DEF Draining
<1>c. w["reserve"] = <<>> /\ \A x \in Kinds : x \notin {b, "reserve"} => w[x] = v[x]
  BY DEF Draining
<1>b. /\ \A i, j \in DOMAIN t : t[i] = t[j] => i = j
      /\ \A x \in Kinds : \A i \in DOMAIN v[x] : \A j \in DOMAIN t : v[x][i] = t[j] => x = "reserve"
  BY <1>0 DEF OneHolder
<1> HIDE DEF s, t
<1>1. /\ DOMAIN s = 1 .. Len(s) /\ Len(s) \in Nat /\ DOMAIN t = 1 .. Len(t) /\ Len(t) \in Nat
      /\ DOMAIN (s \o t) = 1 .. Len(s) + Len(t)
      /\ \A q \in 1 .. Len(s) + Len(t) : (s \o t)[q] = IF q <= Len(s) THEN s[q] ELSE t[q - Len(s)]
  BY <1>a
<1>2. \A q \in DOMAIN w[b] :
        \/ q \in DOMAIN s /\ w[b][q] = s[q]
        \/ q - Len(s) \in DOMAIN t /\ w[b][q] = t[q - Len(s)] /\ q \in Nat
  BY <1>a, <1>1
<1>3. DOMAIN w["reserve"] = {}
  BY <1>c
<1>4. \A x \in Kinds : \A q \in DOMAIN w[x] :
        \/ q \in DOMAIN v[x] /\ w[x][q] = v[x][q]
        \/ x = b /\ q - Len(s) \in DOMAIN t /\ w[x][q] = t[q - Len(s)] /\ q \in Nat
  BY <1>2, <1>3, <1>c DEF s
<1>5. Len(s) \in Nat
  BY <1>1
<1>6. OneHolder(w)
  <2>1. ASSUME NEW x \in Kinds, NEW y \in Kinds, NEW q \in DOMAIN w[x], NEW r \in DOMAIN w[y],
               w[x][q] = w[y][r]
        PROVE  x = y /\ q = r
    <3>1. CASE q \in DOMAIN v[x] /\ w[x][q] = v[x][q] /\ r \in DOMAIN v[y] /\ w[y][r] = v[y][r]
      <4>1. q \in DOMAIN v[x] /\ r \in DOMAIN v[y] /\ v[x][q] = v[y][r]
        BY <2>1, <3>1
      <4>2. QED
        BY <4>1 DEF OneHolder
    <3>2. CASE /\ x = b /\ q - Len(s) \in DOMAIN t /\ w[x][q] = t[q - Len(s)] /\ q \in Nat
               /\ y = b /\ r - Len(s) \in DOMAIN t /\ w[y][r] = t[r - Len(s)] /\ r \in Nat
      <4>1. q - Len(s) = r - Len(s)
        BY <1>b, <2>1, <3>2
      <4>2. QED
        BY <1>5, <3>2, <4>1, SMT
    <3>3. CASE /\ q \in DOMAIN v[x] /\ w[x][q] = v[x][q]
               /\ y = b /\ r - Len(s) \in DOMAIN t /\ w[y][r] = t[r - Len(s)]
      <4>1. x = "reserve"
        BY <1>b, <2>1, <3>3
      <4>2. QED
        BY <1>3, <4>1
    <3>4. CASE /\ r \in DOMAIN v[y] /\ w[y][r] = v[y][r]
               /\ x = b /\ q - Len(s) \in DOMAIN t /\ w[x][q] = t[q - Len(s)]
      <4>1. r \in DOMAIN v[y] /\ v[y][r] = t[q - Len(s)] /\ q - Len(s) \in DOMAIN t
        BY <2>1, <3>4
      <4>2. y = "reserve"
        BY <1>b, <4>1
      <4>3. QED
        BY <1>3, <4>2
    <3>5. QED
      BY <1>4, <3>1, <3>2, <3>3, <3>4
  <2>2. QED
    BY <2>1 DEF OneHolder
<1>7. QED
  BY <1>4, <1>6 DEF t

-----------------------------------------------------------------------------
(* Order on the device.  Quiet: whatever accessed a place comes before clk.  *)
(* Ran: stream k went on from d to e; it accessed the places P, all of them  *)
(* after their earlier accesses, and recorded the events E.                  *)

Quiet(d, p, clk) == Before(d.writes[p], clk) /\ Before(d.reads[p], clk)

Ran(d, e, k, P, E) ==
  /\ e \in Devices /\ (e.raced => d.raced)
  /\ \A n \in Nodes : n # k => e.clock[n] = d.clock[n]
  /\ Before(d.clock[k], e.clock[k])
  /\ \A p \in DevicePlaces : p \notin P => e.writes[p] = d.writes[p] /\ e.reads[p] = d.reads[p]
  /\ \A p \in P : Quiet(e, p, e.clock[k])
  /\ \A x \in DeviceEvents : x \notin E => e.event[x] = d.event[x]

LEMMA DeviceFields ==
  ASSUME NEW d \in Devices
  PROVE  /\ d.clock \in [Nodes -> Clocks] /\ d.event \in [DeviceEvents -> Clocks]
         /\ d.host \in [Nodes -> Nat] /\ d.mem \in [DevicePlaces -> ZoneImages]
         /\ d.writes \in [DevicePlaces -> Clocks] /\ d.reads \in [DevicePlaces -> Clocks]
BY DEF Devices

LEMMA BeforeFacts ==
  ASSUME NEW a \in Clocks, NEW b \in Clocks
  PROVE  /\ Before(a, a)
         /\ \A c \in Clocks : Before(a, b) /\ Before(b, c) => Before(a, c)
         /\ Merge(a, b) \in Clocks /\ Before(a, Merge(a, b)) /\ Before(b, Merge(a, b))
         /\ \A k \in Nodes : Before(a, b) => a[k] <= b[k]
BY DEF Clocks, Before, Merge

LEMMA QuietLater ==
  ASSUME NEW d \in Devices, NEW p \in DevicePlaces, NEW a \in Clocks, NEW b \in Clocks,
         Quiet(d, p, a), Before(a, b)
  PROVE  Quiet(d, p, b)
<1>1. d.writes[p] \in Clocks /\ d.reads[p] \in Clocks
  BY DeviceFields
<1>2. QED
  BY <1>1, BeforeFacts DEF Quiet

LEMMA RanQuiet ==
  ASSUME NEW d \in Devices, NEW e, NEW k \in Nodes, NEW P \in SUBSET DevicePlaces, NEW E,
         Ran(d, e, k, P, E), NEW p \in DevicePlaces, Quiet(d, p, d.clock[k])
  PROVE  Quiet(e, p, e.clock[k])
<1>1. CASE p \in P
  BY <1>1 DEF Ran
<1>2. CASE p \notin P
  <2>1. e \in Devices /\ d.clock[k] \in Clocks /\ e.clock[k] \in Clocks
    BY DeviceFields DEF Ran
  <2>2. Quiet(e, p, d.clock[k])
    BY <1>2 DEF Ran, Quiet
  <2>3. QED
    BY <2>1, <2>2, QuietLater DEF Ran
<1>3. QED
  BY <1>1, <1>2

LEMMA RanTrans ==
  ASSUME NEW d \in Devices, NEW e, NEW f, NEW k \in Nodes,
         NEW P \in SUBSET DevicePlaces, NEW E, NEW Q \in SUBSET DevicePlaces, NEW F,
         Ran(d, e, k, P, E), Ran(e, f, k, Q, F)
  PROVE  Ran(d, f, k, P \cup Q, E \cup F)
<1>1. e \in Devices /\ f \in Devices /\ (f.raced => d.raced)
  BY DEF Ran
<1>2. d.clock[k] \in Clocks /\ e.clock[k] \in Clocks /\ f.clock[k] \in Clocks
  BY <1>1, DeviceFields
<1>3. Before(d.clock[k], f.clock[k])
  BY <1>2, BeforeFacts DEF Ran
<1>4. \A p \in P \cup Q : Quiet(f, p, f.clock[k])
  <2>1. ASSUME NEW p \in P PROVE Quiet(f, p, f.clock[k])
    <3>1. p \in DevicePlaces /\ Quiet(e, p, e.clock[k])
      BY <2>1 DEF Ran
    <3>2. QED
      BY <1>1, <3>1, RanQuiet
  <2>2. \A p \in Q : Quiet(f, p, f.clock[k])
    BY DEF Ran
  <2>3. QED
    BY <2>1, <2>2
<1>5. /\ \A n \in Nodes : n # k => f.clock[n] = d.clock[n]
      /\ \A p \in DevicePlaces : p \notin P \cup Q =>
           f.writes[p] = d.writes[p] /\ f.reads[p] = d.reads[p]
      /\ \A x \in DeviceEvents : x \notin E \cup F => f.event[x] = d.event[x]
  BY DEF Ran
<1>6. QED
  BY <1>1, <1>3, <1>4, <1>5 DEF Ran

\* An operation on places that are quiet for its stream.
LEMMA RanAccess ==
  ASSUME NEW d \in Devices, NEW k \in Nodes, NEW R \in SUBSET DevicePlaces,
         NEW W \in SUBSET DevicePlaces, \A p \in R \cup W : Quiet(d, p, d.clock[k])
  PROVE  Ran(d, Access(d, k, R, W), k, R \cup W, {})
<1> DEFINE now == d.clock[k][k] + 1
           e == Access(d, k, R, W)
           reads == [p \in DevicePlaces |-> IF p \in R THEN [d.reads[p] EXCEPT ![k] = now]
                                            ELSE d.reads[p]]
           writes == [p \in DevicePlaces |-> IF p \in W THEN [d.writes[p] EXCEPT ![k] = now]
                                             ELSE d.writes[p]]
           races == \/ d.raced
                    \/ \E p \in R \cup W : ~Before(d.writes[p], d.clock[k])
                    \/ \E p \in W : ~Before(d.reads[p], d.clock[k])
<1>1. e \in Devices
  BY AccessType
<1>2. now \in Nat /\ d.clock[k] \in Clocks
  BY ClockFacts
<1>3. e = [d EXCEPT !.clock[k][k] = now, !.reads = reads, !.writes = writes, !.raced = races]
  BY Zenon DEF Access
<1>4. ~d.raced => ~races
  BY DEF Quiet
<1> HIDE DEF reads, writes, races, now, e
<1>5. /\ e.clock = [d.clock EXCEPT ![k][k] = now] /\ e.reads = reads /\ e.writes = writes
      /\ e.raced = races /\ e.event = d.event
  BY <1>3 DEF Devices
<1>6. e.clock[k] = [d.clock[k] EXCEPT ![k] = now] /\ \A n \in Nodes : n # k => e.clock[n] = d.clock[n]
  BY <1>5, DeviceFields
<1>7. Before(d.clock[k], e.clock[k])
  BY <1>2, <1>6 DEF Before, Clocks, now
<1>8. \A c \in Clocks : Before(c, d.clock[k]) =>
        Before(c, e.clock[k]) /\ Before([c EXCEPT ![k] = now], e.clock[k])
  BY <1>2, <1>6 DEF Before, Clocks, now
<1>9. ASSUME NEW p \in R \cup W PROVE Quiet(e, p, e.clock[k])
  <2>1. /\ e.writes[p] = IF p \in W THEN [d.writes[p] EXCEPT ![k] = now] ELSE d.writes[p]
        /\ e.reads[p] = IF p \in R THEN [d.reads[p] EXCEPT ![k] = now] ELSE d.reads[p]
    BY <1>5, <1>9 DEF reads, writes
  <2>2. /\ d.writes[p] \in Clocks /\ d.reads[p] \in Clocks
        /\ Before(d.writes[p], d.clock[k]) /\ Before(d.reads[p], d.clock[k])
    BY <1>9, DeviceFields DEF Quiet
  <2>3. QED
    BY <1>8, <2>1, <2>2 DEF Quiet
<1>10. \A p \in DevicePlaces : p \notin R \cup W =>
         e.writes[p] = d.writes[p] /\ e.reads[p] = d.reads[p]
  BY <1>5 DEF reads, writes
<1>11. e.raced => d.raced
  BY <1>4, <1>5
<1>12. Ran(d, e, k, R \cup W, {})
  BY <1>1, <1>5, <1>6, <1>7, <1>9, <1>10, <1>11 DEF Ran
<1>13. QED
  BY <1>12 DEF e

LEMMA RanWrite ==
  ASSUME NEW d \in Devices, NEW e \in Devices, NEW k \in Nodes, NEW P, NEW E,
         Ran(d, e, k, P, E), NEW p, NEW image \in ZoneImages
  PROVE  Ran(d, [e EXCEPT !.mem[p] = image], k, P, E)
<1> DEFINE f == [e EXCEPT !.mem[p] = image]
<1>1. f \in Devices
  BY WriteType
<1>2. /\ f.clock = e.clock /\ f.event = e.event /\ f.writes = e.writes /\ f.reads = e.reads
      /\ f.raced = e.raced
  BY DEF Devices
<1> HIDE DEF f
<1>3. Ran(d, f, k, P, E)
  BY <1>1, <1>2 DEF Ran, Quiet
<1>4. QED
  BY <1>3 DEF f

LEMMA RanKernel ==
  ASSUME NEW d \in Devices, NEW k \in Nodes, NEW R \in SUBSET DevicePlaces,
         NEW p \in DevicePlaces, NEW image \in ZoneImages, NEW e,
         e = [Access(d, k, R, {p}) EXCEPT !.mem[p] = image],
         \A q \in R \cup {p} : Quiet(d, q, d.clock[k])
  PROVE  Ran(d, e, k, R \cup {p}, {})
<1> DEFINE a == Access(d, k, R, {p})
<1>1. Ran(d, a, k, R \cup {p}, {}) /\ a \in Devices
  BY RanAccess, AccessType
<1> HIDE DEF a
<1>2. Ran(d, [a EXCEPT !.mem[p] = image], k, R \cup {p}, {})
  BY <1>1, RanWrite
<1>3. e = [a EXCEPT !.mem[p] = image]
  BY DEF a
<1>4. QED
  BY <1>2, <1>3

LEMMA RanRecord ==
  ASSUME NEW d \in Devices, NEW k \in Nodes, NEW x \in DeviceEvents
  PROVE  /\ Ran(d, Record(d, k, x), k, {}, {x})
         /\ Record(d, k, x).event[x] = d.clock[k] /\ Record(d, k, x).clock = d.clock
         /\ Record(d, k, x).mem = d.mem /\ Record(d, k, x).host = d.host
         /\ Record(d, k, x).writes = d.writes /\ Record(d, k, x).reads = d.reads
<1> DEFINE e == Record(d, k, x)
<1>1. e \in Devices /\ e.mem = d.mem /\ d.clock[k] \in Clocks
  BY RecordType, ClockFacts
<1>2. /\ e.event = [d.event EXCEPT ![x] = d.clock[k]] /\ e.clock = d.clock /\ e.raced = d.raced
      /\ e.writes = d.writes /\ e.reads = d.reads /\ e.host = d.host
  BY DEF Record, Devices
<1> HIDE DEF e
<1>3. e.event[x] = d.clock[k] /\ \A y \in DeviceEvents : y # x => e.event[y] = d.event[y]
  BY <1>2, DeviceFields
<1>4. Before(d.clock[k], e.clock[k])
  BY <1>1, <1>2, BeforeFacts
<1>5. Ran(d, e, k, {}, {x})
  BY <1>1, <1>2, <1>3, <1>4 DEF Ran
<1>6. QED
  BY <1>1, <1>2, <1>3, <1>5 DEF e

LEMMA RanWait ==
  ASSUME NEW d \in Devices, NEW k \in Nodes, NEW x \in DeviceEvents
  PROVE  /\ Ran(d, WaitEvent(d, k, x), k, {}, {})
         /\ Before(d.event[x], WaitEvent(d, k, x).clock[k])
         /\ WaitEvent(d, k, x).mem = d.mem
<1> DEFINE e == WaitEvent(d, k, x)
           c == Merge(d.clock[k], d.event[x])
<1>1. e \in Devices /\ e.mem = d.mem /\ d.clock[k] \in Clocks /\ d.event[x] \in Clocks
  BY WaitEventType, ClockFacts, DeviceFields
<1>2. c \in Clocks /\ Before(d.clock[k], c) /\ Before(d.event[x], c)
  BY <1>1, BeforeFacts
<1> HIDE DEF c
<1>3. /\ e.clock = [d.clock EXCEPT ![k] = c] /\ e.event = d.event /\ e.raced = d.raced
      /\ e.writes = d.writes /\ e.reads = d.reads
  BY DEF WaitEvent, Devices, c
<1> HIDE DEF e
<1>4. e.clock[k] = c /\ \A n \in Nodes : n # k => e.clock[n] = d.clock[n]
  BY <1>3, DeviceFields
<1>5. Ran(d, e, k, {}, {})
  BY <1>1, <1>2, <1>3, <1>4 DEF Ran
<1>6. QED
  BY <1>1, <1>2, <1>4, <1>5 DEF e

LEMMA RanSync ==
  ASSUME NEW d \in Devices, NEW k \in Nodes
  PROVE  /\ Ran(d, StreamSync(d, k), k, {}, {})
         /\ StreamSync(d, k).host[k] = StreamSync(d, k).clock[k][k]
         /\ StreamSync(d, k).clock = d.clock /\ StreamSync(d, k).mem = d.mem
         /\ \A x \in DeviceEvents :
              /\ Ran(d, EventSync(d, k, x), k, {}, {}) /\ EventSync(d, k, x).clock = d.clock
              /\ EventSync(d, k, x).event = d.event /\ EventSync(d, k, x).mem = d.mem
              /\ EventSync(d, k, x).writes = d.writes /\ EventSync(d, k, x).reads = d.reads
              /\ EventSync(d, k, x).host[k] >= d.event[x][k]
<1>0. d.clock[k] \in Clocks /\ d.clock[k][k] \in Nat /\ d.host[k] \in Nat /\ Before(d.clock[k], d.clock[k])
  BY ClockFacts, BeforeFacts
<1>1. /\ Ran(d, StreamSync(d, k), k, {}, {})
      /\ StreamSync(d, k).host[k] = StreamSync(d, k).clock[k][k]
      /\ StreamSync(d, k).clock = d.clock /\ StreamSync(d, k).mem = d.mem
  <2> DEFINE e == StreamSync(d, k)
  <2>1. e \in Devices /\ e.mem = d.mem
    BY SyncType
  <2>2. /\ e.clock = d.clock /\ e.event = d.event /\ e.raced = d.raced
        /\ e.writes = d.writes /\ e.reads = d.reads /\ e.host[k] = d.clock[k][k]
    BY DEF StreamSync, Devices
  <2> HIDE DEF e
  <2>3. Ran(d, e, k, {}, {})
    BY <1>0, <2>1, <2>2 DEF Ran
  <2>4. QED
    BY <2>1, <2>2, <2>3 DEF e
<1>2. ASSUME NEW x \in DeviceEvents
      PROVE  /\ Ran(d, EventSync(d, k, x), k, {}, {}) /\ EventSync(d, k, x).clock = d.clock
             /\ EventSync(d, k, x).event = d.event /\ EventSync(d, k, x).mem = d.mem
             /\ EventSync(d, k, x).writes = d.writes /\ EventSync(d, k, x).reads = d.reads
             /\ EventSync(d, k, x).host[k] >= d.event[x][k]
  <2> DEFINE e == EventSync(d, k, x)
             c == IF d.event[x][k] > d.host[k] THEN d.event[x][k] ELSE d.host[k]
  <2>1. e \in Devices /\ e.mem = d.mem
    BY SyncType
  <2>2. d.event[x][k] \in Nat
    BY DeviceFields DEF Clocks
  <2>3. c >= d.event[x][k]
    BY <1>0, <2>2
  <2> HIDE DEF c
  <2>4. /\ e.clock = d.clock /\ e.event = d.event /\ e.raced = d.raced
        /\ e.writes = d.writes /\ e.reads = d.reads /\ e.host[k] = c
    BY DEF EventSync, Devices, c
  <2> HIDE DEF e
  <2>5. Ran(d, e, k, {}, {})
    BY <1>0, <2>1, <2>4 DEF Ran
  <2>6. QED
    BY <2>1, <2>3, <2>4, <2>5 DEF e
<1>3. QED
  BY <1>1, <1>2

\* The host uses a pinned buffer that its stream is known to have finished with.
LEMMA RanHost ==
  ASSUME NEW d \in Devices, NEW k \in Nodes, NEW p \in DevicePlaces,
         d.writes[p][k] <= d.host[k], d.reads[p][k] <= d.host[k]
  PROVE  /\ Ran(d, HostUse(d, k, p), k, {}, {}) /\ HostUse(d, k, p).mem = d.mem
         /\ HostUse(d, k, p).clock = d.clock /\ HostUse(d, k, p).event = d.event
         /\ HostUse(d, k, p).writes = d.writes /\ HostUse(d, k, p).reads = d.reads
         /\ \A image \in ZoneImages : Ran(d, HostWrite(d, k, p, image), k, {}, {})
<1> DEFINE e == HostUse(d, k, p)
           races == d.raced \/ d.writes[p][k] > d.host[k] \/ d.reads[p][k] > d.host[k]
<1>1. e \in Devices /\ e.mem = d.mem
  BY HostType
<1>2. /\ d.writes[p][k] \in Nat /\ d.reads[p][k] \in Nat /\ d.host[k] \in Nat
      /\ Before(d.clock[k], d.clock[k])
  <2>1. d.writes[p] \in Clocks /\ d.reads[p] \in Clocks /\ d.clock[k] \in Clocks
    BY DeviceFields
  <2>2. d.host[k] \in Nat
    BY DeviceFields
  <2>3. Before(d.clock[k], d.clock[k])
    BY <2>1, BeforeFacts
  <2>4. QED
    BY <2>1, <2>2, <2>3 DEF Clocks
<1>3. ~d.raced => ~races
  BY <1>2
<1>4. e = [d EXCEPT !.raced = races]
  BY DEF HostUse
<1> HIDE DEF races, e
<1>5. /\ e.clock = d.clock /\ e.event = d.event /\ e.raced = races
      /\ e.writes = d.writes /\ e.reads = d.reads
  BY <1>4 DEF Devices
<1>6. Ran(d, e, k, {}, {})
  BY <1>1, <1>2, <1>3, <1>5 DEF Ran
<1>7. ASSUME NEW image \in ZoneImages
      PROVE  Ran(d, HostWrite(d, k, p, image), k, {}, {})
  <2>1. Ran(d, [e EXCEPT !.mem[p] = image], k, {}, {})
    BY <1>1, <1>6, RanWrite
  <2>2. QED
    BY <2>1 DEF HostWrite, e
<1>8. QED
  BY <1>1, <1>5, <1>6, <1>7 DEF e

-----------------------------------------------------------------------------
(* Where the slots of node c are, and what whoever uses one next waits for.  *)

\* The positions whose zone is in the hands of node k: it arrived, and its slot
\* has not been given back.
InHand(k) ==
  LET p == loc[k]
  IN  IF pc[k] \notin AtWork THEN {}
      ELSE {j \in Zones :
              /\ j < p.arrived
              /\ j \notin p.ended \/ \E q \in 1 .. Len(p.outq) : p.outq[q] = j
              /\ p.dst # NoSlot => j # Head(p.outq)}
Copied(k) == IF pc[k] \in AtWork /\ loc[k].dst # NoSlot THEN {1} ELSE {}

Announces(k) == [q \in 1 .. Len(chan[k]) |-> chan[k][q].slot]
SlotsAt(c, a) ==
  CASE a = "credit" -> credits[InEdge(c)]
    [] a = "free" -> bfree[c]
    [] a = "reserve" -> IF c = 0 THEN reserve ELSE <<>>
    [] a = "chan" -> Announces(InEdge(c))
    [] a = "copy" -> [q \in Copied(InEdge(c)) |-> loc[InEdge(c)].dst]
    [] a = "pass" -> [j \in InHand(c) |-> loc[c].slot[j].dev]
SlotsOf(c) == [a \in Kinds |-> SlotsAt(c, a)]

\* A credit is used after the consumer's event, a copied zone after the arrival
\* event; the rest is the consumer's own.
Awaited(d, c, a, s) ==
  IF a = "credit" THEN d.event[FreeEvent(c, s)]
  ELSE IF a \in {"chan", "copy"} THEN d.event[ArrivalEvent(c, s)]
  ELSE d.clock[c]
Cleared(d, c, a, s) == Quiet(d, <<c, s>>, Awaited(d, c, a, s))
Holds(d, c, v) ==
  OneHolder(v) /\ \A a \in Kinds : \A q \in DOMAIN v[a] : Cleared(d, c, a, v[a][q])

\* The pinned buffers of a node: only its own stream uses them, and the last use
\* of the staging buffer for arrivals was recorded.
Pinned(d, c) ==
  /\ \A x \in {InStage, OutStage, EndScalars} : Quiet(d, <<c, x>>, d.clock[c])
  /\ d.writes[<<c, InStage>>][c] <= d.event[InEvent(c)][c]
  /\ d.reads[<<c, InStage>>][c] <= d.event[InEvent(c)][c]

\* The zones that wait ended, each once.
WaitOnce(p) ==
  /\ \A q, r \in 1 .. Len(p.outq) : p.outq[q] = p.outq[r] => q = r
  /\ \A q \in 1 .. Len(p.outq) : p.outq[q] \in p.ended
WaitsOnce(k) == pc[k] \in AtWork => WaitOnce(loc[k])

RaceInv ==
  ~dev.raced /\ \A c \in Nodes : Holds(dev, c, SlotsOf(c)) /\ Pinned(dev, c) /\ WaitsOnce(c)

LEMMA SlotEvents ==
  ASSUME NEW c \in Nodes
  PROVE  /\ \A s \in SlotIds : /\ <<c, s>> \in DevicePlaces
                               /\ FreeEvent(c, s) \in DeviceEvents
                               /\ ArrivalEvent(c, s) \in DeviceEvents
                               /\ FreeEvent(c, s) # InEvent(c) /\ ArrivalEvent(c, s) # InEvent(c)
         /\ InEvent(c) \in DeviceEvents
         /\ \A x \in {InStage, OutStage, EndScalars} : <<c, x>> \in DevicePlaces /\ x \notin SlotIds
<1>1. SlotCount \in Nat
  BY PoolFacts
<1>2. QED
  BY <1>1 DEF DevicePlaces, SlotIds, DeviceEvents, FreeEvent, ArrivalEvent, InEvent,
              InStage, OutStage, EndScalars

LEMMA SlotsAre ==
  ASSUME TypeInv, NEW c \in Nodes
  PROVE  /\ SlotsOf(c)["credit"] = credits[InEdge(c)] /\ SlotsOf(c)["free"] = bfree[c]
         /\ SlotsOf(c)["reserve"] = (IF c = 0 THEN reserve ELSE <<>>)
         /\ SlotsOf(c)["chan"] = Announces(InEdge(c))
         /\ SlotsOf(c)["copy"] = [q \in Copied(InEdge(c)) |-> loc[InEdge(c)].dst]
         /\ SlotsOf(c)["pass"] = [j \in InHand(c) |-> loc[c].slot[j].dev]
         /\ \A a \in {"credit", "free", "reserve", "chan"} : SlotsOf(c)[a] \in Seq(SlotIds)
         /\ InHand(c) \subseteq Zones
         /\ \A a \in Kinds : \A q \in DOMAIN SlotsOf(c)[a] : SlotsOf(c)[a][q] \in SlotIds
<1>1. /\ SlotsOf(c)["credit"] = credits[InEdge(c)] /\ SlotsOf(c)["free"] = bfree[c]
      /\ SlotsOf(c)["reserve"] = (IF c = 0 THEN reserve ELSE <<>>)
      /\ SlotsOf(c)["chan"] = Announces(InEdge(c))
      /\ SlotsOf(c)["copy"] = [q \in Copied(InEdge(c)) |-> loc[InEdge(c)].dst]
      /\ SlotsOf(c)["pass"] = [j \in InHand(c) |-> loc[c].slot[j].dev]
  BY DEF SlotsOf, SlotsAt, Kinds
<1>2. InEdge(c) \in Nodes /\ InHand(c) \subseteq Zones
  BY EdgesAreNodes DEF InHand
<1>3. /\ credits[InEdge(c)] \in Seq(SlotIds) /\ bfree[c] \in Seq(SlotIds)
      /\ reserve \in Seq(SlotIds) /\ chan[InEdge(c)] \in Seq(Headers)
      /\ loc[c] \in PassStates /\ loc[InEdge(c)] \in PassStates
  BY <1>2 DEF TypeInv, LaneTypes, PoolTypes, NodeTypes
<1>4. Announces(InEdge(c)) \in Seq(SlotIds)
  <2>1. \A q \in 1 .. Len(chan[InEdge(c)]) : chan[InEdge(c)][q].slot \in SlotIds
    <3>1. \A q \in 1 .. Len(chan[InEdge(c)]) : chan[InEdge(c)][q] \in Headers
      BY <1>3
    <3>2. \A m \in Headers : m.slot \in SlotIds
      BY DEF Headers
    <3>3. QED
      BY <3>1, <3>2
  <2>2. Len(chan[InEdge(c)]) \in Nat
    BY <1>3
  <2> DEFINE n == Len(chan[InEdge(c)])
             x(q) == chan[InEdge(c)][q].slot
  <2>3. n \in Nat /\ \A q \in 1 .. n : x(q) \in SlotIds
    BY <2>1, <2>2
  <2> HIDE DEF n, x
  <2>4. [q \in 1 .. n |-> x(q)] \in Seq(SlotIds)
    BY <2>3
  <2>5. QED
    BY <2>4 DEF Announces, n, x
<1>5. \A a \in {"credit", "free", "reserve", "chan"} : SlotsOf(c)[a] \in Seq(SlotIds)
  <2>1. (IF c = 0 THEN reserve ELSE <<>>) \in Seq(SlotIds)
    BY <1>3
  <2>2. /\ SlotsOf(c)["credit"] \in Seq(SlotIds) /\ SlotsOf(c)["free"] \in Seq(SlotIds)
        /\ SlotsOf(c)["reserve"] \in Seq(SlotIds) /\ SlotsOf(c)["chan"] \in Seq(SlotIds)
    BY <1>1, <1>3, <1>4, <2>1
  <2>3. QED
    BY <2>2
<1>6. \A a \in {"credit", "free", "reserve", "chan"} :
        \A q \in DOMAIN SlotsOf(c)[a] : SlotsOf(c)[a][q] \in SlotIds
  BY <1>5
<1>7. \A q \in DOMAIN SlotsOf(c)["copy"] : SlotsOf(c)["copy"][q] \in SlotIds
  BY <1>1, <1>3 DEF Copied, PassStates
<1>8. \A q \in DOMAIN SlotsOf(c)["pass"] : SlotsOf(c)["pass"][q] \in SlotIds
  <2>1. SlotsHeld(c)
    BY DEF TypeInv
  <2>2. QED
    BY <1>1, <1>2, <2>1 DEF SlotsHeld, InHand
<1>9. QED
  BY <1>1, <1>2, <1>5, <1>6, <1>7, <1>8 DEF Kinds

-----------------------------------------------------------------------------
(* How a step of stream k that accesses the places P and records the events  *)
(* E leaves the slots of node c.                                             *)

Own == {"free", "reserve", "pass"}
Slotted(v) == \A a \in Kinds : \A q \in DOMAIN v[a] : v[a][q] \in SlotIds
Shrunk(w, v) == \A a \in Kinds : \A q \in DOMAIN w[a] : q \in DOMAIN v[a] /\ w[a][q] = v[a][q]
Spared(c, s, P, E) ==
  <<c, s>> \notin P /\ FreeEvent(c, s) \notin E /\ ArrivalEvent(c, s) \notin E
\* All slots of c but s are the stream's own or not touched.
Apart(c, v, k, P, E, s) ==
  \A a \in Kinds : \A q \in DOMAIN v[a] :
    v[a][q] = s \/ (c = k /\ a \in Own) \/ Spared(c, v[a][q], P, E)

\* Every slot of w is cleared anew, or where it was and left alone.
Accounted(e, c, w, v, k, P, E) ==
  \A a \in Kinds : \A q \in DOMAIN w[a] :
    \/ w[a][q] \in SlotIds /\ Cleared(e, c, a, w[a][q])
    \/ /\ \E r \in DOMAIN v[a] : w[a][q] = v[a][r]
       /\ (c = k /\ a \in Own) \/ Spared(c, w[a][q], P, E)

LEMMA ClearedStays ==
  ASSUME NEW d \in Devices, NEW e, NEW k \in Nodes, NEW P \in SUBSET DevicePlaces, NEW E,
         Ran(d, e, k, P, E), NEW c \in Nodes, NEW a \in Kinds, NEW s \in SlotIds,
         Cleared(d, c, a, s), (c = k /\ a \in Own) \/ Spared(c, s, P, E)
  PROVE  Cleared(e, c, a, s)
<1>1. <<c, s>> \in DevicePlaces /\ FreeEvent(c, s) \in DeviceEvents /\ ArrivalEvent(c, s) \in DeviceEvents
  BY SlotEvents
<1>2. CASE c = k /\ a \in Own
  <2>1. Awaited(d, c, a, s) = d.clock[k] /\ Awaited(e, c, a, s) = e.clock[k]
    BY <1>2 DEF Awaited, Own
  <2>2. QED
    BY <1>1, <1>2, <2>1, RanQuiet DEF Cleared
<1>3. CASE Spared(c, s, P, E) /\ c # k
  <2>1. e.writes[<<c, s>>] = d.writes[<<c, s>>] /\ e.reads[<<c, s>>] = d.reads[<<c, s>>]
    BY <1>1, <1>3 DEF Ran, Spared
  <2>2. Awaited(e, c, a, s) = Awaited(d, c, a, s)
    BY <1>1, <1>3 DEF Awaited, Ran, Spared
  <2>3. QED
    BY <2>1, <2>2 DEF Cleared, Quiet
<1>4. CASE Spared(c, s, P, E) /\ c = k /\ a \notin Own
  <2>1. e.writes[<<c, s>>] = d.writes[<<c, s>>] /\ e.reads[<<c, s>>] = d.reads[<<c, s>>]
    BY <1>1, <1>4 DEF Ran, Spared
  <2>2. a = "credit" \/ a \in {"chan", "copy"}
    BY <1>4 DEF Kinds, Own
  <2>3. Awaited(e, c, a, s) = Awaited(d, c, a, s)
    BY <1>1, <1>4, <2>2 DEF Awaited, Ran, Spared
  <2>4. QED
    BY <2>1, <2>3 DEF Cleared, Quiet
<1>5. QED
  BY <1>2, <1>3, <1>4

LEMMA HoldsNext ==
  ASSUME NEW d \in Devices, NEW e, NEW k \in Nodes, NEW P \in SUBSET DevicePlaces, NEW E,
         Ran(d, e, k, P, E), NEW c \in Nodes, NEW v, NEW w,
         Holds(d, c, v), Slotted(v), OneHolder(w), Accounted(e, c, w, v, k, P, E)
  PROVE  Holds(e, c, w) /\ Slotted(w)
<1>1. ASSUME NEW a \in Kinds, NEW q \in DOMAIN w[a]
      PROVE  w[a][q] \in SlotIds /\ Cleared(e, c, a, w[a][q])
  <2>1. CASE w[a][q] \in SlotIds /\ Cleared(e, c, a, w[a][q])
    BY <2>1
  <2>2. CASE /\ \E r \in DOMAIN v[a] : w[a][q] = v[a][r]
             /\ (c = k /\ a \in Own) \/ Spared(c, w[a][q], P, E)
    <3>1. w[a][q] \in SlotIds /\ Cleared(d, c, a, w[a][q])
      BY <2>2 DEF Holds, Slotted
    <3>2. QED
      BY <2>2, <3>1, ClearedStays
  <2>3. QED
    BY <1>1, <2>1, <2>2 DEF Accounted
<1>2. QED
  BY <1>1 DEF Holds, Slotted

\* No slot comes to c.
LEMMA HoldsFewer ==
  ASSUME NEW d \in Devices, NEW e, NEW k \in Nodes, NEW P \in SUBSET DevicePlaces, NEW E,
         Ran(d, e, k, P, E), NEW c \in Nodes, NEW v, NEW w,
         Holds(d, c, v), Slotted(v), Shrunk(w, v), NEW s, Apart(c, v, k, P, E, s),
         \A a \in Kinds : \A q \in DOMAIN w[a] : w[a][q] # s \/ (c = k /\ a \in Own)
  PROVE  Holds(e, c, w) /\ Slotted(w)
<1>1. OneHolder(w)
  BY HolderLess DEF Shrunk, Holds
<1>2. \A a \in Kinds : \A q \in DOMAIN w[a] :
        /\ \E r \in DOMAIN v[a] : w[a][q] = v[a][r]
        /\ (c = k /\ a \in Own) \/ Spared(c, w[a][q], P, E)
  BY DEF Shrunk, Apart
<1>3. Accounted(e, c, w, v, k, P, E)
  BY <1>2 DEF Accounted
<1>4. QED
  BY <1>1, <1>3, HoldsNext

\* One slot of c moved.
LEMMA HoldsMoved ==
  ASSUME NEW d \in Devices, NEW e, NEW k \in Nodes, NEW P \in SUBSET DevicePlaces, NEW E,
         Ran(d, e, k, P, E), NEW c \in Nodes, NEW v, NEW w, NEW b \in Kinds, NEW s \in SlotIds,
         Holds(d, c, v), Slotted(v), OneHolder(w), WithinBut(w, v, b, s),
         Cleared(e, c, b, s), Apart(c, v, k, P, E, s)
  PROVE  Holds(e, c, w) /\ Slotted(w)
<1>1. ASSUME NEW a \in Kinds, NEW q \in DOMAIN w[a]
      PROVE  \/ w[a][q] \in SlotIds /\ Cleared(e, c, a, w[a][q])
             \/ /\ \E r \in DOMAIN v[a] : w[a][q] = v[a][r]
                /\ (c = k /\ a \in Own) \/ Spared(c, w[a][q], P, E)
  <2>1. CASE a = b /\ w[a][q] = s
    BY <2>1
  <2>2. CASE \E r \in DOMAIN v[a] : w[a][q] = v[a][r] /\ w[a][q] # s
    BY <2>2 DEF Apart
  <2>3. QED
    BY <1>1, <2>1, <2>2 DEF WithinBut
<1>2. Accounted(e, c, w, v, k, P, E)
  BY <1>1 DEF Accounted
<1>3. QED
  BY <1>2, HoldsNext

Queues == {"credit", "free", "reserve", "chan"}
\* The first slot s of queue a takes place j of b.
Taking(v, w, a, b, j, s) ==
  /\ a \in Queues /\ b \in {"pass", "copy"}
  /\ v[a] \in Seq(SlotIds) /\ v[a] # <<>> /\ s = Head(v[a]) /\ w[a] = Tail(v[a])
  /\ DOMAIN w[b] = DOMAIN v[b] \cup {j} /\ j \notin DOMAIN v[b] /\ w[b][j] = s
  /\ \A q \in DOMAIN v[b] : w[b][q] = v[b][q]
  /\ \A x \in Kinds : x \notin {a, b} => w[x] = v[x]
\* The slot s at place j of a joins queue b.
Giving(v, w, a, b, j, s) ==
  /\ b \in Queues /\ a \in {"pass", "copy"}
  /\ j \in DOMAIN v[a] /\ v[a][j] = s
  /\ v[b] \in Seq(SlotIds) /\ w[b] = Append(v[b], s)
  /\ DOMAIN w[a] = DOMAIN v[a] \ {j} /\ \A q \in DOMAIN w[a] : w[a][q] = v[a][q]
  /\ \A x \in Kinds : x \notin {a, b} => w[x] = v[x]

LEMMA HoldsTaken ==
  ASSUME NEW d \in Devices, NEW e, NEW k \in Nodes, NEW P \in SUBSET DevicePlaces, NEW E,
         Ran(d, e, k, P, E), NEW c \in Nodes, NEW v, NEW w, NEW a, NEW b, NEW j, NEW s,
         Holds(d, c, v), Slotted(v), Taking(v, w, a, b, j, s),
         Cleared(e, c, b, s), Apart(c, v, k, P, E, s)
  PROVE  Holds(e, c, w) /\ Slotted(w)
<1>0. /\ a \in Queues /\ b \in {"pass", "copy"}
      /\ v[a] \in Seq(SlotIds) /\ v[a] # <<>> /\ s = Head(v[a]) /\ w[a] = Tail(v[a])
      /\ DOMAIN w[b] = DOMAIN v[b] \cup {j} /\ j \notin DOMAIN v[b] /\ w[b][j] = s
      /\ \A q \in DOMAIN v[b] : w[b][q] = v[b][q]
      /\ \A x \in Kinds : x \notin {a, b} => w[x] = v[x]
  BY DEF Taking
<1> DEFINE u == [x \in Kinds |-> IF x = a THEN Tail(v[a]) ELSE v[x]]
<1>1. a \in Kinds /\ b \in Kinds /\ a # b /\ s \in SlotIds
  <2>1. Head(v[a]) \in SlotIds
    BY <1>0
  <2>2. QED
    BY <1>0, <2>1 DEF Kinds, Queues
<1>2. u[a] = Tail(v[a]) /\ \A x \in Kinds : x # a => u[x] = v[x]
  BY <1>1
<1> HIDE DEF u
<1>3. OneHolder(u) /\ Within(u, v) /\ Absent(u, s)
  <2>1. OneHolder(v)
    BY DEF Holds
  <2>2. OneHolder(u) /\ Within(u, v) /\ Absent(u, Head(v[a]))
    BY <1>0, <1>1, <1>2, <2>1, HolderHead
  <2>3. QED
    BY <1>0, <2>2
<1>4. /\ DOMAIN w[b] = DOMAIN u[b] \cup {j} /\ j \notin DOMAIN u[b] /\ w[b][j] = s
      /\ \A q \in DOMAIN u[b] : w[b][q] = u[b][q]
      /\ \A x \in Kinds : x # b => w[x] = u[x]
  BY <1>0, <1>1, <1>2
<1>5. Absent(u, s) /\ s \in SlotIds /\ Cleared(e, c, b, s) /\ Apart(c, v, k, P, E, s)
  BY <1>1, <1>3
<1>6. OneHolder(w) /\ WithinBut(w, u, b, s)
  BY <1>1, <1>3, <1>4, <1>5, HolderMore
<1>7. WithinBut(w, v, b, s)
  BY <1>3, <1>6 DEF WithinBut, Within
<1>8. QED
  BY <1>1, <1>5, <1>6, <1>7, HoldsMoved

LEMMA HoldsGiven ==
  ASSUME NEW d \in Devices, NEW e, NEW k \in Nodes, NEW P \in SUBSET DevicePlaces, NEW E,
         Ran(d, e, k, P, E), NEW c \in Nodes, NEW v, NEW w, NEW a, NEW b, NEW j, NEW s,
         Holds(d, c, v), Slotted(v), Giving(v, w, a, b, j, s),
         Cleared(e, c, b, s), Apart(c, v, k, P, E, s)
  PROVE  Holds(e, c, w) /\ Slotted(w)
<1> DEFINE u == [x \in Kinds |-> IF x = b THEN v[b] ELSE w[x]]
<1>0. /\ b \in Queues /\ a \in {"pass", "copy"}
      /\ j \in DOMAIN v[a] /\ v[a][j] = s
      /\ v[b] \in Seq(SlotIds) /\ w[b] = Append(v[b], s)
      /\ DOMAIN w[a] = DOMAIN v[a] \ {j} /\ \A q \in DOMAIN w[a] : w[a][q] = v[a][q]
      /\ \A x \in Kinds : x \notin {a, b} => w[x] = v[x]
  BY DEF Giving
<1>1. a \in Kinds /\ b \in Kinds /\ a # b
  BY <1>0 DEF Kinds, Queues
<1>2. u[b] = v[b] /\ \A x \in Kinds : x # b => u[x] = w[x]
  BY <1>1
<1>3. s \in SlotIds
  BY <1>0, <1>1 DEF Slotted
<1> HIDE DEF u
<1>4. \A x \in Kinds : \A q \in DOMAIN u[x] : q \in DOMAIN v[x] /\ u[x][q] = v[x][q]
  <2>1. ASSUME NEW x \in Kinds, NEW q \in DOMAIN u[x]
        PROVE  q \in DOMAIN v[x] /\ u[x][q] = v[x][q]
    <3>1. CASE x = b
      BY <1>2, <2>1, <3>1
    <3>2. CASE x = a
      BY <1>0, <1>1, <1>2, <2>1, <3>2
    <3>3. CASE x \notin {a, b}
      BY <1>0, <1>2, <2>1, <3>3
    <3>4. QED
      BY <3>1, <3>2, <3>3
  <2>2. QED
    BY <2>1
<1>5. j \in DOMAIN v[a] /\ j \notin DOMAIN u[a]
  BY <1>0, <1>1, <1>2
<1>6. OneHolder(u) /\ Within(u, v) /\ Absent(u, s)
  <2>1. OneHolder(v)
    BY DEF Holds
  <2>2. /\ OneHolder(u) /\ Within(u, v)
        /\ \A x \in Kinds : \A q \in DOMAIN v[x] : q \notin DOMAIN u[x] => Absent(u, v[x][q])
    BY <1>4, <2>1, HolderLess
  <2>3. QED
    BY <1>0, <1>1, <1>5, <2>2
<1>7. u[b] \in Seq(SlotIds) /\ w[b] = Append(u[b], s) /\ \A x \in Kinds : x # b => w[x] = u[x]
  BY <1>0, <1>2
<1>8. Cleared(e, c, b, s) /\ Apart(c, v, k, P, E, s)
  OBVIOUS
<1>9. OneHolder(w) /\ WithinBut(w, u, b, s)
  BY <1>1, <1>3, <1>6, <1>7, HolderQueued
<1>10. WithinBut(w, v, b, s)
  BY <1>6, <1>9 DEF WithinBut, Within
<1>11. QED
  BY <1>1, <1>3, <1>8, <1>9, <1>10, HoldsMoved

LEMMA PinnedNext ==
  ASSUME NEW d \in Devices, NEW e, NEW k \in Nodes, NEW P \in SUBSET DevicePlaces, NEW E,
         Ran(d, e, k, P, E), NEW c \in Nodes, Pinned(d, c),
         <<c, InStage>> \notin P, InEvent(c) \notin E,
         c = k \/ (<<c, OutStage>> \notin P /\ <<c, EndScalars>> \notin P)
  PROVE  Pinned(e, c)
<1>1. /\ InEvent(c) \in DeviceEvents
      /\ \A x \in {InStage, OutStage, EndScalars} : <<c, x>> \in DevicePlaces
  BY SlotEvents
<1>2. /\ e.writes[<<c, InStage>>] = d.writes[<<c, InStage>>]
      /\ e.reads[<<c, InStage>>] = d.reads[<<c, InStage>>]
      /\ e.event[InEvent(c)] = d.event[InEvent(c)]
  BY <1>1 DEF Ran
<1>3. ASSUME NEW x \in {InStage, OutStage, EndScalars} PROVE Quiet(e, <<c, x>>, e.clock[c])
  <2>1. CASE c = k
    BY <1>1, <2>1, RanQuiet DEF Pinned
  <2>2. CASE c # k
    <3>1. <<c, x>> \notin P
      BY <2>2
    <3>2. QED
      BY <1>1, <2>2, <3>1 DEF Pinned, Ran, Quiet
  <2>3. QED
    BY <2>1, <2>2
<1>4. QED
  BY <1>2, <1>3 DEF Pinned

-----------------------------------------------------------------------------
(* Steps that move no slot.  HandsFewer: node c takes nothing in hand.       *)

HandPlaces(k) ==
  {<<k, loc[k].slot[j].dev>> : j \in InHand(k)} \cup
  {<<k, x>> : x \in {InStage, OutStage, EndScalars}}
HandsFewer(c) ==
  /\ InHand(c)' \subseteq InHand(c)
  /\ \A j \in InHand(c)' : loc'[c].slot[j].dev = loc[c].slot[j].dev
  /\ Copied(c)' \subseteq Copied(c) /\ (Copied(c)' # {} => loc'[c].dst = loc[c].dst)
  /\ WaitsOnce(c)'

LEMMA SlotsNext ==
  ASSUME NEW c
  PROVE  /\ SlotsOf(c)'["credit"] = credits'[InEdge(c)] /\ SlotsOf(c)'["free"] = bfree'[c]
         /\ SlotsOf(c)'["reserve"] = (IF c = 0 THEN reserve' ELSE <<>>)
         /\ SlotsOf(c)'["chan"] = Announces(InEdge(c))'
         /\ SlotsOf(c)'["copy"] = [q \in Copied(InEdge(c))' |-> loc'[InEdge(c)].dst]
         /\ SlotsOf(c)'["pass"] = [j \in InHand(c)' |-> loc'[c].slot[j].dev]
BY DEF SlotsOf, SlotsAt, Kinds

LEMMA SlotsKept ==
  ASSUME TypeInv, NEW c \in Nodes, HandsFewer(c), HandsFewer(InEdge(c)),
         credits'[InEdge(c)] = credits[InEdge(c)], bfree'[c] = bfree[c],
         c = 0 => UNCHANGED reserve, chan'[InEdge(c)] = chan[InEdge(c)]
  PROVE  Shrunk(SlotsOf(c)', SlotsOf(c))
<1>1. Announces(InEdge(c))' = Announces(InEdge(c))
  BY DEF Announces
<1>2. /\ SlotsOf(c)'["credit"] = SlotsOf(c)["credit"] /\ SlotsOf(c)'["free"] = SlotsOf(c)["free"]
      /\ SlotsOf(c)'["reserve"] = SlotsOf(c)["reserve"] /\ SlotsOf(c)'["chan"] = SlotsOf(c)["chan"]
  <2>1. /\ SlotsOf(c)'["credit"] = credits'[InEdge(c)] /\ SlotsOf(c)'["free"] = bfree'[c]
        /\ SlotsOf(c)'["reserve"] = (IF c = 0 THEN reserve' ELSE <<>>)
        /\ SlotsOf(c)'["chan"] = Announces(InEdge(c))'
    BY SlotsNext
  <2>2. /\ SlotsOf(c)["credit"] = credits[InEdge(c)] /\ SlotsOf(c)["free"] = bfree[c]
        /\ SlotsOf(c)["reserve"] = (IF c = 0 THEN reserve ELSE <<>>)
        /\ SlotsOf(c)["chan"] = Announces(InEdge(c))
    BY SlotsAre
  <2>3. QED
    BY <1>1, <2>1, <2>2
<1>3. \A q \in DOMAIN SlotsOf(c)'["copy"] :
        q \in DOMAIN SlotsOf(c)["copy"] /\ SlotsOf(c)'["copy"][q] = SlotsOf(c)["copy"][q]
  <2>1. /\ SlotsOf(c)'["copy"] = [q \in Copied(InEdge(c))' |-> loc'[InEdge(c)].dst]
        /\ SlotsOf(c)["copy"] = [q \in Copied(InEdge(c)) |-> loc[InEdge(c)].dst]
    BY SlotsAre, SlotsNext
  <2>2. QED
    BY <2>1 DEF HandsFewer
<1>4. \A q \in DOMAIN SlotsOf(c)'["pass"] :
        q \in DOMAIN SlotsOf(c)["pass"] /\ SlotsOf(c)'["pass"][q] = SlotsOf(c)["pass"][q]
  <2>1. /\ SlotsOf(c)'["pass"] = [j \in InHand(c)' |-> loc'[c].slot[j].dev]
        /\ SlotsOf(c)["pass"] = [j \in InHand(c) |-> loc[c].slot[j].dev]
    BY SlotsAre, SlotsNext
  <2>2. QED
    BY <2>1 DEF HandsFewer
<1>5. QED
  BY <1>2, <1>3, <1>4 DEF Shrunk, Kinds

LEMMA HandsApart ==
  ASSUME TypeInv, RaceInv, NEW k \in Nodes, NEW c \in Nodes, NEW P, NEW E, NEW s,
         \A x \in SlotIds : x # s =>
           /\ <<c, x>> \in P => <<c, x>> \in HandPlaces(k)
           /\ FreeEvent(c, x) \notin E /\ ArrivalEvent(c, x) \notin E
  PROVE  Apart(c, SlotsOf(c), k, P, E, s)
<1>1. ASSUME NEW a \in Kinds, NEW q \in DOMAIN SlotsOf(c)[a], SlotsOf(c)[a][q] # s
      PROVE  (c = k /\ a \in Own) \/ Spared(c, SlotsOf(c)[a][q], P, E)
  <2>1. SlotsOf(c)[a][q] \in SlotIds
    BY <1>1, SlotsAre
  <2>2. CASE <<c, SlotsOf(c)[a][q]>> \in P
    <3>1. <<c, SlotsOf(c)[a][q]>> \in HandPlaces(k)
      BY <1>1, <2>1, <2>2
    <3>2. PICK j \in InHand(k) : <<c, SlotsOf(c)[a][q]>> = <<k, loc[k].slot[j].dev>>
      BY <2>1, <3>1, SlotEvents DEF HandPlaces
    <3>3. c = k /\ SlotsOf(c)["pass"] = [i \in InHand(c) |-> loc[c].slot[i].dev]
      BY <3>2, SlotsAre
    <3>4. j \in DOMAIN SlotsOf(c)["pass"] /\ SlotsOf(c)["pass"][j] = SlotsOf(c)[a][q]
      BY <3>2, <3>3
    <3>5. OneHolder(SlotsOf(c)) /\ "pass" \in Kinds
      BY DEF RaceInv, Holds, Kinds
    <3>6. a = "pass"
      BY <1>1, <3>4, <3>5 DEF OneHolder
    <3>7. QED
      BY <3>3, <3>6 DEF Own
  <2>3. CASE <<c, SlotsOf(c)[a][q]>> \notin P
    BY <1>1, <2>1, <2>3 DEF Spared
  <2>4. QED
    BY <2>2, <2>3
<1>2. QED
  BY <1>1 DEF Apart

\* Stream k goes on with what is in hand, no slot moves.
LEMMA RaceKept ==
  ASSUME TypeInv, RaceInv, NEW k \in Nodes, NEW P \in SUBSET DevicePlaces,
         Ran(dev, dev', k, P, {}), P \subseteq HandPlaces(k), <<k, InStage>> \notin P,
         \A c \in Nodes : Shrunk(SlotsOf(c)', SlotsOf(c)) /\ WaitsOnce(c)'
  PROVE  RaceInv'
<1>0. dev \in Devices
  BY DEF TypeInv
<1>1. ASSUME NEW c \in Nodes
      PROVE  Holds(dev', c, SlotsOf(c)')
  <2>1. Holds(dev, c, SlotsOf(c)) /\ Slotted(SlotsOf(c))
    BY SlotsAre DEF RaceInv, Slotted
  <2>2. Apart(c, SlotsOf(c), k, P, {}, NoSlot)
    BY HandsApart
  <2>3. Shrunk(SlotsOf(c)', SlotsOf(c))
    OBVIOUS
  <2>4. \A a \in Kinds : \A q \in DOMAIN SlotsOf(c)'[a] : SlotsOf(c)'[a][q] # NoSlot
    <3>1. NoSlot \notin SlotIds
      BY PoolFacts DEF NoSlot, SlotIds
    <3>2. QED
      BY <2>1, <2>3, <3>1 DEF Shrunk, Slotted
  <2>5. QED
    BY <1>0, <2>1, <2>2, <2>3, <2>4, HoldsFewer
<1>2. ASSUME NEW c \in Nodes PROVE Pinned(dev', c)
  <2>1. <<c, InStage>> \notin P
    BY DEF HandPlaces
  <2>2. c = k \/ (<<c, OutStage>> \notin P /\ <<c, EndScalars>> \notin P)
    BY DEF HandPlaces
  <2>3. Pinned(dev, c)
    BY DEF RaceInv
  <2>4. QED
    BY <1>0, <2>1, <2>2, <2>3, PinnedNext
<1>3. ~dev'.raced
  BY DEF Ran, RaceInv
<1>4. QED
  BY <1>1, <1>2, <1>3 DEF RaceInv

LEMMA WorkSame ==
  ASSUME RaceInv, NEW c \in Nodes,
         pc'[c] \in AtWork =>
           /\ pc[c] \in AtWork
           /\ \A j \in Zones : loc'[c].slot[j].dev = loc[c].slot[j].dev
           /\ loc'[c].arrived = loc[c].arrived
           /\ loc'[c].ended = loc[c].ended /\ loc'[c].outq = loc[c].outq
           /\ loc'[c].dst = loc[c].dst
  PROVE  HandsFewer(c)
<1>1. WaitsOnce(c)
  BY DEF RaceInv
<1>2. CASE pc'[c] \notin AtWork
  BY <1>2 DEF HandsFewer, InHand, Copied, WaitsOnce
<1>3. CASE pc'[c] \in AtWork
  <2>1. InHand(c)' = InHand(c) /\ Copied(c)' = Copied(c)
    BY <1>3 DEF InHand, Copied
  <2>2. WaitsOnce(c)'
    BY <1>1, <1>3 DEF WaitsOnce, WaitOnce
  <2>3. loc'[c].dst = loc[c].dst /\ \A j \in InHand(c)' : loc'[c].slot[j].dev = loc[c].slot[j].dev
    BY <1>3, <2>1 DEF InHand
  <2>4. QED
    BY <2>1, <2>2, <2>3 DEF HandsFewer
<1>4. QED
  BY <1>2, <1>3

LEMMA RanNone ==
  ASSUME NEW d \in Devices, NEW k \in Nodes
  PROVE  Ran(d, d, k, {}, {})
BY DeviceFields, BeforeFacts DEF Ran

\* Steps off the device.
LEMMA RaceStill ==
  ASSUME TypeInv, RaceInv, UNCHANGED <<dev, chan, credits, bfree, reserve>>,
         \A c \in Nodes : HandsFewer(c)
  PROVE  RaceInv'
<1>1. 0 \in Nodes
  BY RingFacts DEF Nodes
<1>2. Ran(dev, dev', 0, {}, {})
  BY <1>1, RanNone DEF TypeInv
<1>3. \A c \in Nodes : Shrunk(SlotsOf(c)', SlotsOf(c)) /\ WaitsOnce(c)'
  <2>1. ASSUME NEW c \in Nodes PROVE Shrunk(SlotsOf(c)', SlotsOf(c)) /\ WaitsOnce(c)'
    <3>1. InEdge(c) \in Nodes
      BY EdgesAreNodes
    <3>2. QED
      BY <3>1, SlotsKept DEF HandsFewer
  <2>2. QED
    BY <2>1
<1> DEFINE P == {}
<1>4. P \in SUBSET DevicePlaces /\ P \subseteq HandPlaces(0) /\ <<0, InStage>> \notin P
      /\ Ran(dev, dev', 0, P, {})
  BY <1>2
<1> HIDE DEF P
<1>5. QED
  BY <1>1, <1>3, <1>4, RaceKept

LEMMA RaceStops ==
  ASSUME TypeInv, RaceInv, UNCHANGED <<loc, dev, chan, credits, bfree, reserve>>,
         \A n \in Nodes : pc'[n] = pc[n] \/ pc'[n] \notin AtWork
  PROVE  RaceInv'
<1>1. \A c \in Nodes : HandsFewer(c)
  BY WorkSame
<1>2. QED
  BY <1>1, RaceStill

LEMMA RaceHalts ==
  ASSUME TypeInv, RaceInv, NEW k \in Nodes, NEW kind, SetHalt(k, kind),
         UNCHANGED <<loc, dev, chan, credits, bfree, reserve>>
  PROVE  RaceInv'
<1>1. \A n \in Nodes : pc'[n] = pc[n] \/ pc'[n] \in Stopped
  BY HaltMoves
<1>2. \A n \in Nodes : pc'[n] = pc[n] \/ pc'[n] \notin AtWork
  BY <1>1 DEF Stopped, AtWork
<1>3. QED
  BY <1>2, RaceStops

LEMMA GoneRace ==
  ASSUME TypeInv, RaceInv, NEW k \in Nodes,
         \/ NodeReturns(k) \/ RecvShutDown(k) \/ CreditShutDown(k) \/ FlushSeesHalt(k)
         \/ HaltCheck(k) \/ CloseEdge(k) \/ PoisonRing(k) \/ RecordPass(k)
  PROVE  RaceInv'
<1>1. UNCHANGED <<loc, dev, chan, credits, bfree, reserve>>
  BY DEF NodeReturns, RecvShutDown, CreditShutDown, FlushSeesHalt, HaltCheck, CloseEdge,
         PoisonRing, RecordPass, laneVars, poolVars
<1>2. PICK point \in Stopped \cup {"loop"} : Goto(k, point)
  BY DEF NodeReturns, RecvShutDown, CreditShutDown, FlushSeesHalt, HaltCheck, CloseEdge,
         PoisonRing, RecordPass, Stopped
<1>3. pc'[k] = point /\ \A n \in Nodes \ {k} : pc'[n] = pc[n]
  BY <1>2, GoneMoves
<1>4. \A n \in Nodes : pc'[n] = pc[n] \/ pc'[n] \notin AtWork
  BY <1>2, <1>3 DEF Stopped, AtWork
<1>5. QED
  BY <1>1, <1>4, RaceStops

LEMMA FaultRace ==
  ASSUME TypeInv, RaceInv, NEW k \in Nodes, NodeFault(k) \/ RecvPoison(k)
  PROVE  RaceInv'
<1>1. UNCHANGED <<loc, dev, chan, credits, bfree, reserve>>
  BY DEF NodeFault, RecvPoison, laneVars, poolVars
<1>2. CASE NodeFault(k)
  <2>1. PICK kind \in FaultsAt(k) : Fail(k, kind)
    BY <1>2 DEF NodeFault
  <2>2. CASE kind # "Spawn"
    BY <1>1, <2>1, <2>2, RaceHalts DEF Fail
  <2>3. CASE kind = "Spawn"
    <3>1. \A n \in Nodes : pc'[n] = pc[n] \/ pc'[n] \notin AtWork
      BY <2>1, <2>3 DEF Fail, SpawnFails, AtWork
    <3>2. QED
      BY <1>1, <3>1, RaceStops
  <2>4. QED
    BY <2>2, <2>3
<1>3. CASE RecvPoison(k)
  BY <1>1, <1>3, RaceHalts DEF RecvPoison
<1>4. QED
  BY <1>2, <1>3

LEMMA StandRace ==
  ASSUME TypeInv, RaceInv, (\E r \in Heads : Join(r)) \/ UNCHANGED vars
  PROVE  RaceInv'
<1>1. UNCHANGED <<pc, loc, dev, chan, credits, bfree, reserve>>
  BY DEF Join, vars, nodeVars, laneVars, poolVars
<1>2. QED
  BY <1>1, RaceStops

LEMMA OpDoneRace ==
  ASSUME TypeInv, RaceInv, NEW k \in Nodes, RecvDone(k) \/ FlushDone(k)
  PROVE  RaceInv'
<1>1. UNCHANGED <<dev, chan, credits, bfree, reserve>> /\ pc[k] \in AtWork
  BY DEF RecvDone, FlushDone, Flushing, laneVars, poolVars, AtWork
<1>2. \A n \in Nodes \ {k} : pc'[n] = pc[n] /\ loc'[n] = loc[n]
  BY DEF RecvDone, FlushDone, Goto, TypeInv, NodeTypes
<1>3. /\ loc'[k].slot = loc[k].slot /\ loc'[k].arrived = loc[k].arrived
      /\ loc'[k].ended = loc[k].ended /\ loc'[k].outq = loc[k].outq
      /\ loc'[k].dst = loc[k].dst
  <2>1. loc' = loc \/ loc' = [loc EXCEPT ![k].op = 2]
    BY DEF RecvDone, FlushDone
  <2>2. loc[k] \in PassStates /\ loc \in [Nodes -> PassStates]
    BY NodeFields DEF TypeInv, NodeTypes
  <2>3. loc'[k] = loc[k] \/ loc'[k] = [loc[k] EXCEPT !.op = 2]
    BY <2>1, <2>2
  <2>4. QED
    BY <2>2, <2>3 DEF PassStates
<1>4. \A c \in Nodes : HandsFewer(c)
  <2>1. HandsFewer(k)
    BY <1>1, <1>3, WorkSame
  <2>2. \A n \in Nodes \ {k} : HandsFewer(n)
    BY <1>2, WorkSame
  <2>3. QED
    BY <2>1, <2>2
<1>5. QED
  BY <1>1, <1>4, RaceStill

LEMMA StartRace ==
  ASSUME TypeInv, RaceInv, NEW k \in Nodes, StartPass(k)
  PROVE  RaceInv'
<1>1. /\ UNCHANGED <<dev, chan, credits, bfree, reserve>> /\ loc'[k] = FreshPass(pass[k])
      /\ \A n \in Nodes \ {k} : pc'[n] = pc[n] /\ loc'[n] = loc[n]
  BY DEF StartPass, Goto, TypeInv, NodeTypes, laneVars, poolVars
<1>2. loc'[k].arrived = 0 /\ loc'[k].outq = <<>> /\ loc'[k].dst = NoSlot
  BY <1>1 DEF FreshPass
<1>3. HandsFewer(k)
  <2>1. \A j \in Zones : ~(j < 0)
    BY RingFacts DEF Zones
  <2>2. InHand(k)' = {} /\ Copied(k)' = {}
    BY <1>2, <2>1 DEF InHand, Copied
  <2>3. WaitsOnce(k)'
    BY <1>2 DEF WaitsOnce, WaitOnce
  <2>4. QED
    BY <2>2, <2>3 DEF HandsFewer
<1>4. \A n \in Nodes \ {k} : HandsFewer(n)
  BY <1>1, WorkSame
<1>5. QED
  BY <1>1, <1>3, <1>4, RaceStill

-----------------------------------------------------------------------------
(* Computation: the places of the zones in hand are quiet for the stream, so *)
(* what the node enqueues on them is ordered.                                *)

AllQuiet(d, k, T) == T \subseteq DevicePlaces /\ \A p \in T : Quiet(d, p, d.clock[k])

LEMMA QuietRan ==
  ASSUME NEW d \in Devices, NEW e, NEW k \in Nodes, NEW T, NEW P, NEW E,
         AllQuiet(d, k, T), P \subseteq T, Ran(d, e, k, P, E)
  PROVE  e \in Devices /\ AllQuiet(e, k, T) /\ Ran(d, e, k, T, E)
<1>1. P \in SUBSET DevicePlaces /\ T \subseteq DevicePlaces
  BY DEF AllQuiet
<1>2. \A p \in T : Quiet(e, p, e.clock[k])
  <2>1. ASSUME NEW p \in T PROVE Quiet(e, p, e.clock[k])
    <3>1. p \in DevicePlaces /\ Quiet(d, p, d.clock[k])
      BY <2>1 DEF AllQuiet
    <3>2. QED
      BY <1>1, <3>1, RanQuiet
  <2>2. QED
    BY <2>1
<1>3. Ran(d, e, k, T, E)
  BY <1>2 DEF Ran
<1>4. QED
  BY <1>1, <1>2, <1>3 DEF AllQuiet, Ran

LEMMA KernelRuns ==
  ASSUME NEW d \in Devices, NEW k \in Nodes, NEW T, AllQuiet(d, k, T),
         NEW R \in SUBSET T, NEW p \in T, NEW image \in ZoneImages, NEW e,
         e = [Access(d, k, R, {p}) EXCEPT !.mem[p] = image]
  PROVE  e \in Devices /\ AllQuiet(e, k, T) /\ Ran(d, e, k, T, {})
<1>1. R \in SUBSET DevicePlaces /\ p \in DevicePlaces /\ R \cup {p} \subseteq T
      /\ \A q \in R \cup {p} : Quiet(d, q, d.clock[k])
  BY DEF AllQuiet
<1>2. Ran(d, e, k, R \cup {p}, {})
  BY <1>1, RanKernel
<1>3. QED
  BY <1>1, <1>2, QuietRan

LEMMA RunsTwice ==
  ASSUME NEW d \in Devices, NEW e, NEW f, NEW k \in Nodes, NEW T, AllQuiet(d, k, T),
         Ran(d, e, k, T, {}), Ran(e, f, k, T, {})
  PROVE  f \in Devices /\ AllQuiet(f, k, T) /\ Ran(d, f, k, T, {})
<1>1. T \in SUBSET DevicePlaces
  BY DEF AllQuiet
<1>2. Ran(d, f, k, T \cup T, {} \cup {})
  BY <1>1, RanTrans
<1>3. T \cup T = T /\ {} \cup {} = {}
  OBVIOUS
<1>4. Ran(d, f, k, T, {})
  BY <1>2, <1>3
<1>5. QED
  BY <1>4, QuietRan

LEMMA DriftRuns ==
  ASSUME NEW d \in Devices, NEW k \in Nodes, NEW T, AllQuiet(d, k, T),
         NEW s \in PassSlots, Place(k, s) \in T
  PROVE  Drift(d, k, s) \in Devices /\ AllQuiet(Drift(d, k, s), k, T)
         /\ Ran(d, Drift(d, k, s), k, T, {})
<1> DEFINE p == Place(k, s)
           image == Drifted(d.mem[p])
           e == [Access(d, k, {}, {p}) EXCEPT !.mem[p] = image]
<1>1. CASE s.drifted
  <2>1. Drift(d, k, s) = d
    BY <1>1 DEF Drift
  <2>2. Ran(d, d, k, {}, {})
    BY RanNone
  <2>3. {} \subseteq T
    OBVIOUS
  <2>4. AllQuiet(d, k, T) /\ Ran(d, d, k, T, {})
    BY <2>2, <2>3, QuietRan
  <2>5. QED
    BY <2>1, <2>4
<1>2. CASE ~s.drifted
  <2>1. Kernel(d, k, {}, p, LAMBDA mem : Drifted(mem[p])) = e
    BY DEF Kernel
  <2>2. Drift(d, k, s) = e
    BY <1>2, <2>1 DEF Drift
  <2>3. p \in T /\ image \in ZoneImages /\ {} \in SUBSET T
    BY PlaceType, MemoryType, ImageSteps
  <2>4. e = [Access(d, k, {}, {p}) EXCEPT !.mem[p] = image]
    OBVIOUS
  <2> HIDE DEF p, image, e
  <2>5. e \in Devices /\ AllQuiet(e, k, T) /\ Ran(d, e, k, T, {})
    BY <2>3, <2>4, KernelRuns
  <2>6. QED
    BY <2>2, <2>5
<1>3. QED
  BY <1>1, <1>2

LEMMA LaunchRuns ==
  ASSUME NEW d \in Devices, NEW k \in Nodes, NEW T, AllQuiet(d, k, T),
         NEW a \in PassSlots, NEW b \in PassSlots, Place(k, a) \in T, Place(k, b) \in T
  PROVE  LaunchPairs(d, k, a, b) \in Devices /\ AllQuiet(LaunchPairs(d, k, a, b), k, T)
         /\ Ran(d, LaunchPairs(d, k, a, b), k, T, {})
<1> DEFINE p == Place(k, a)
           r == Place(k, b)
           image == CountPairs(d.mem[p], d.mem[r])
           e == LaunchPairs(d, k, a, b)
<1>1. e = [Access(d, k, {r}, {p}) EXCEPT !.mem[p] = image]
  BY DEF LaunchPairs, Kernel
<1>2. p \in T /\ {r} \in SUBSET T
  OBVIOUS
<1>3. image \in ZoneImages
  BY PlaceType, MemoryType, ImageSteps
<1> HIDE DEF p, r, image, e
<1>4. e \in Devices /\ AllQuiet(e, k, T) /\ Ran(d, e, k, T, {})
  BY <1>1, <1>2, <1>3, KernelRuns
<1>5. QED
  BY <1>4 DEF e

LEMMA ComputedRuns ==
  ASSUME TypeInv, NEW k \in Nodes, NEW slot \in [Zones -> PassSlots], NEW j \in Zones,
         NEW T, AllQuiet(dev, k, T), \A q \in {j} \cup MetBy(j) : Place(k, slot[q]) \in T
  PROVE  ComputedDevice(k, slot, j) \in Devices /\ AllQuiet(ComputedDevice(k, slot, j), k, T)
         /\ Ran(dev, ComputedDevice(k, slot, j), k, T, {})
<1> DEFINE drifted == DriftedDevice(k, slot, j)
           own == LaunchPairs(drifted, k, slot[j], slot[j])
           b == slot[CHOOSE q \in MetBy(j) : TRUE]
<1>1. dev \in Devices /\ Place(k, slot[j]) \in T /\ slot[j] \in PassSlots
  BY DEF TypeInv
<1>2. drifted \in Devices /\ AllQuiet(drifted, k, T) /\ Ran(dev, drifted, k, T, {})
  <2> DEFINE d1 == Drift(dev, k, slot[j])
  <2>1. d1 \in Devices /\ AllQuiet(d1, k, T) /\ Ran(dev, d1, k, T, {})
    BY <1>1, DriftRuns
  <2>2. CASE j + 1 < N
    <3>1. j + 1 \in Zones /\ j + 1 \in MetBy(j)
      BY <2>2, RingFacts DEF Zones, MetBy
    <3> DEFINE d2 == Drift(d1, k, slot[j + 1])
    <3>2. drifted = d2
      BY <2>2 DEF DriftedDevice
    <3> HIDE DEF d1, drifted
    <3>3. slot[j + 1] \in PassSlots /\ Place(k, slot[j + 1]) \in T
      BY <3>1
    <3>4. d2 \in Devices /\ AllQuiet(d2, k, T) /\ Ran(d1, d2, k, T, {})
      BY <2>1, <3>3, DriftRuns
    <3> HIDE DEF d2
    <3>5. AllQuiet(d2, k, T) /\ Ran(dev, d2, k, T, {})
      BY <1>1, <2>1, <3>4, RunsTwice
    <3>6. QED
      BY <3>2, <3>4, <3>5
  <2>3. QED
    BY <2>1, <2>2 DEF DriftedDevice
<1> HIDE DEF drifted
<1>3. own \in Devices /\ AllQuiet(own, k, T) /\ Ran(drifted, own, k, T, {})
  BY <1>1, <1>2, LaunchRuns
<1>4. ComputedDevice(k, slot, j) =
        IF MetBy(j) = {} THEN own
        ELSE LaunchPairs(LaunchPairs(own, k, slot[j], b), k, b, slot[j])
  BY DEF ComputedDevice, drifted
<1> HIDE DEF own
<1>5. Ran(dev, own, k, T, {})
  BY <1>1, <1>2, <1>3, RunsTwice
<1>6. CASE MetBy(j) # {}
  <2> DEFINE q == CHOOSE q \in MetBy(j) : TRUE
  <2>1. q \in MetBy(j) /\ q \in Zones
    BY <1>6, MetByFacts
  <2>2. b \in PassSlots /\ Place(k, b) \in T
    BY <2>1
  <2> DEFINE d1 == LaunchPairs(own, k, slot[j], b)
             d2 == LaunchPairs(d1, k, b, slot[j])
  <2> HIDE DEF b, q
  <2>3. d1 \in Devices /\ AllQuiet(d1, k, T) /\ Ran(own, d1, k, T, {})
    BY <1>1, <1>3, <2>2, LaunchRuns
  <2> HIDE DEF d1
  <2>4. d2 \in Devices /\ AllQuiet(d2, k, T) /\ Ran(d1, d2, k, T, {})
    BY <1>1, <2>2, <2>3, LaunchRuns
  <2> HIDE DEF d2
  <2>5. Ran(own, d2, k, T, {})
    BY <1>3, <2>3, <2>4, RunsTwice
  <2>6. AllQuiet(d2, k, T) /\ Ran(dev, d2, k, T, {})
    BY <1>1, <1>5, <2>5, RunsTwice
  <2>7. ComputedDevice(k, slot, j) = d2
    BY <1>4, <1>6 DEF d1, d2
  <2>8. QED
    BY <2>4, <2>6, <2>7
<1>7. QED
  BY <1>3, <1>4, <1>5, <1>6

LEMMA EndedRuns ==
  ASSUME NEW d \in Devices, NEW k \in Nodes, NEW T, AllQuiet(d, k, T),
         NEW s \in PassSlots, Place(k, s) \in T, <<k, EndScalars>> \in T
  PROVE  EndedDevice(d, k, s) \in Devices /\ AllQuiet(EndedDevice(d, k, s), k, T)
         /\ Ran(d, EndedDevice(d, k, s), k, T, {})
<1> DEFINE p == Place(k, s)
           image == [d.mem[p] EXCEPT !.body = Kicked(@, d.mem[p].acc)]
           kicked == [Access(d, k, {}, {p}) EXCEPT !.mem[p] = image]
           out == <<k, EndScalars>>
           e == [Access(kicked, k, {p}, {out}) EXCEPT !.mem[out] = BlankImage]
<1>1. EndedDevice(d, k, s) = e
  BY Zenon DEF EndedDevice, Kernel
<1>2. p \in T /\ out \in T /\ {p} \in SUBSET T /\ {} \in SUBSET T /\ BlankImage \in ZoneImages
  BY ImageTypes
<1>3. image \in ZoneImages
  BY PlaceType, MemoryType, ImageSteps
<1> HIDE DEF p, image, out
<1>4. kicked \in Devices /\ AllQuiet(kicked, k, T) /\ Ran(d, kicked, k, T, {})
  BY <1>2, <1>3, KernelRuns
<1> HIDE DEF kicked
<1>5. e \in Devices /\ AllQuiet(e, k, T) /\ Ran(kicked, e, k, T, {})
  BY <1>2, <1>4, KernelRuns
<1> HIDE DEF e
<1>6. AllQuiet(e, k, T) /\ Ran(d, e, k, T, {})
  BY <1>4, <1>5, RunsTwice
<1>7. QED
  BY <1>1, <1>5, <1>6, SMTT(30)

\* What is in hand is quiet.
LEMMA HandsQuiet ==
  ASSUME TypeInv, RaceInv, NEW k \in Nodes
  PROVE  AllQuiet(dev, k, HandPlaces(k)) /\ HandPlaces(k) \subseteq DevicePlaces
<1>1. ASSUME NEW j \in InHand(k)
      PROVE  LET p == <<k, loc[k].slot[j].dev>> IN p \in DevicePlaces /\ Quiet(dev, p, dev.clock[k])
  <2>1. SlotsOf(k)["pass"] = [i \in InHand(k) |-> loc[k].slot[i].dev] /\ "pass" \in Kinds
    BY SlotsAre DEF Kinds
  <2>2. j \in DOMAIN SlotsOf(k)["pass"] /\ SlotsOf(k)["pass"][j] = loc[k].slot[j].dev
    BY <2>1
  <2>3. loc[k].slot[j].dev \in SlotIds
    <3>1. \A q \in DOMAIN SlotsOf(k)["pass"] : SlotsOf(k)["pass"][q] \in SlotIds
      BY <2>1, SlotsAre
    <3>2. QED
      BY <2>2, <3>1
  <2>4. Cleared(dev, k, "pass", loc[k].slot[j].dev)
    <3>1. Holds(dev, k, SlotsOf(k))
      BY DEF RaceInv
    <3>2. QED
      BY <2>1, <2>2, <3>1 DEF Holds
  <2>5. QED
    BY <2>3, <2>4, SlotEvents DEF Cleared, Awaited
<1>2. \A x \in {InStage, OutStage, EndScalars} :
        <<k, x>> \in DevicePlaces /\ Quiet(dev, <<k, x>>, dev.clock[k])
  BY SlotEvents DEF RaceInv, Pinned
<1>3. QED
  BY <1>1, <1>2 DEF AllQuiet, HandPlaces

\* A zone in hand ends.
LEMMA HandsEnd ==
  ASSUME TypeInv, RaceInv, NEW k \in Nodes, NEW j \in Zones,
         pc[k] \in AtWork, pc'[k] \in AtWork, j \in InHand(k), j \notin loc[k].ended,
         loc[k].dst = NoSlot, loc'[k].dst = NoSlot, loc'[k].arrived = loc[k].arrived,
         \A i \in Zones : loc'[k].slot[i].dev = loc[k].slot[i].dev,
         loc'[k].ended = loc[k].ended \cup {j}, loc'[k].outq = Append(loc[k].outq, j)
  PROVE  HandsFewer(k)
<1>1. /\ loc[k].outq \in Seq(Zones) /\ Len(loc[k].outq) \in Nat /\ WaitOnce(loc[k])
  BY WorkTypes DEF RaceInv, WaitsOnce
<1> DEFINE s == loc[k].outq
           t == loc'[k].outq
<1>2. /\ Len(t) = Len(s) + 1 /\ Len(s) \in Nat /\ t[Len(s) + 1] = j
      /\ \A q \in 1 .. Len(s) : t[q] = s[q]
  BY <1>1
<1>3. /\ \A q \in 1 .. Len(s) : s[q] \in loc[k].ended
      /\ \A q, r \in 1 .. Len(s) : s[q] = s[r] => q = r
  BY <1>1 DEF WaitOnce
<1> HIDE DEF s, t
<1>4. \A q \in 1 .. Len(t) : q \in 1 .. Len(s) \/ q = Len(s) + 1
  BY <1>2
<1>5. \A q \in 1 .. Len(t) : t[q] \in loc[k].ended \cup {j}
  BY <1>2, <1>3, <1>4
<1>6. \A q, r \in 1 .. Len(t) : t[q] = t[r] => q = r
  BY <1>2, <1>3, <1>4
<1>7. WaitsOnce(k)'
  BY <1>5, <1>6 DEF WaitsOnce, WaitOnce, t
<1>8. InHand(k)' \subseteq InHand(k)
  <2>1. ASSUME NEW i \in InHand(k)', i # j PROVE i \in InHand(k)
    <3>1. /\ i \in Zones /\ i < loc[k].arrived
          /\ i \notin loc'[k].ended \/ \E q \in 1 .. Len(t) : t[q] = i
      BY <2>1 DEF InHand, t
    <3>2. i \notin loc[k].ended \/ \E q \in 1 .. Len(s) : s[q] = i
      BY <1>2, <1>4, <2>1, <3>1
    <3>3. QED
      BY <3>1, <3>2 DEF InHand, s
  <2>2. QED
    BY <2>1
<1>9. Copied(k)' = {}
  BY DEF Copied
<1>10. \A i \in InHand(k)' : i \in Zones
  BY DEF InHand
<1>11. QED
  BY <1>7, <1>8, <1>9, <1>10 DEF HandsFewer

\* The stream works on what is in hand, no slot moves.
LEMMA RaceWorks ==
  ASSUME TypeInv, RaceInv, NEW k \in Nodes,
         Ran(dev, dev', k, HandPlaces(k) \ {<<k, InStage>>}, {}),
         UNCHANGED <<chan, credits, bfree, reserve>>,
         \A n \in Nodes \ {k} : pc'[n] = pc[n] /\ loc'[n] = loc[n], HandsFewer(k)
  PROVE  RaceInv'
<1> DEFINE P == HandPlaces(k) \ {<<k, InStage>>}
<1>1. P \in SUBSET DevicePlaces /\ P \subseteq HandPlaces(k) /\ <<k, InStage>> \notin P
      /\ Ran(dev, dev', k, P, {})
  BY HandsQuiet
<1> HIDE DEF P
<1>2. \A c \in Nodes : HandsFewer(c)
  BY WorkSame
<1>3. \A c \in Nodes : Shrunk(SlotsOf(c)', SlotsOf(c)) /\ WaitsOnce(c)'
  <2>1. ASSUME NEW c \in Nodes PROVE Shrunk(SlotsOf(c)', SlotsOf(c)) /\ WaitsOnce(c)'
    <3>1. InEdge(c) \in Nodes
      BY EdgesAreNodes
    <3>2. QED
      BY <1>2, <3>1, SlotsKept DEF HandsFewer
  <2>2. QED
    BY <2>1
<1>4. QED
  BY <1>1, <1>3, RaceKept

\* The positions a computation works on are in hand.
LEMMA ComputeInHand ==
  ASSUME BaseInv, FitInv, NEW k \in Nodes, pc[k] = "compute", NEW j \in Zones, j = loc[k].pos
  PROVE  /\ loc[k].outq = <<>> /\ loc[k].dst = NoSlot /\ j \notin loc[k].ended
         /\ {j} \cup MetBy(j) \subseteq InHand(k)
<1>0. TypeInv /\ FlowInv /\ DataInv /\ pc[k] \in AtWork
  BY DEF BaseInv, AtWork
<1>1. N \in Nat \ {0} /\ Zones = 0 .. N - 1 /\ loc[k].arrived \in Nat
  BY <1>0, WorkTypes
<1>2. loc[k].outq = <<>> /\ loc[k].dst = NoSlot
  BY <1>0, FitOf DEF Sending, Flushing
<1>3. LastNeeded(j) < loc[k].arrived
  <2>1. loc[k].arrived > LastNeeded(j)
    BY <1>0, NodeFields DEF Progress, Received
  <2>2. QED
    BY <1>1, <2>1 DEF LastNeeded
<1>4. j < loc[k].arrived /\ \A q \in MetBy(j) : q \in Zones /\ q < loc[k].arrived
  BY <1>1, <1>3 DEF LastNeeded, MetBy
<1>5. loc[k].ended = EndOrder(IF DeferHead /\ j > 0 THEN j - 1 ELSE j)
  BY <1>0, AtWorkData DEF EndedCount
<1>6. j \notin loc[k].ended /\ \A q \in MetBy(j) : q \notin loc[k].ended
  <2>1. ASSUME NEW i \in loc[k].ended PROVE i # j /\ i \notin MetBy(j)
    <3>1. PICK t \in 0 .. (IF DeferHead /\ j > 0 THEN j - 1 ELSE j) - 1 : i = Order(t)
      BY <1>5 DEF EndOrder
    <3>2. Order(t) = IF DeferHead THEN (IF t + 1 < N THEN t + 1 ELSE 0) ELSE t
      BY <1>1, <3>1 DEF Order
    <3>3. QED
      BY <1>1, <3>1, <3>2 DEF MetBy, DeferHead
  <2>2. QED
    BY <2>1
<1>7. {j} \cup MetBy(j) \subseteq InHand(k)
  BY <1>0, <1>2, <1>4, <1>6 DEF InHand
<1>8. QED
  BY <1>2, <1>6, <1>7

LEMMA ComputeRace ==
  ASSUME BaseInv, FitInv, RaceInv, NEW k \in Nodes, ComputeZone(k)
  PROVE  RaceInv'
<1>0. TypeInv /\ pc[k] = "compute" /\ pc[k] \in AtWork /\ UNCHANGED <<chan, credits, bfree, reserve>>
  BY DEF BaseInv, ComputeZone, AtWork, laneVars, poolVars
<1>1. PICK j \in Zones : j = loc[k].pos
  BY <1>0, NodeFields, PassFields
<1> DEFINE slot == loc[k].slot
           bad == \/ ~ComputeLegal(slot, j)
                  \/ ~HeldBack(j) /\ ~EndLegal(ComputedSlots(slot, j)[j].fsm, j)
           T == HandPlaces(k) \ {<<k, InStage>>}
           d == ComputedDevice(k, slot, j)
<1>2. loc[k] \in PassStates /\ slot \in [Zones -> PassSlots]
  BY <1>0, NodeFields, PassFields
<1>3. [loc[k] EXCEPT !.slot = ComputedSlots(slot, j)].slot = ComputedSlots(slot, j)
  BY <1>2 DEF PassStates
<1>4. CASE bad
  <2>1. SetHalt(k, "Logic") /\ UNCHANGED <<loc, dev>>
    BY <1>1, <1>3, <1>4 DEF ComputeZone
  <2>2. QED
    BY <1>0, <2>1, RaceHalts
<1>5. CASE ~bad
  <2>1. dev' = IF HeldBack(j) THEN d ELSE EndedDevice(d, k, slot[j])
    BY <1>1, <1>3, <1>5 DEF ComputeZone
  <2>2. /\ \A n \in Nodes \ {k} : pc'[n] = pc[n] /\ loc'[n] = loc[n]
        /\ loc'[k].slot = EndedSlots(slot, j) /\ loc'[k].dst = loc[k].dst
        /\ loc'[k].ended = IF HeldBack(j) THEN loc[k].ended ELSE loc[k].ended \cup {j}
        /\ loc'[k].arrived = loc[k].arrived
        /\ loc'[k].outq = IF HeldBack(j) THEN loc[k].outq ELSE Append(loc[k].outq, j)
        /\ pc'[k] = IF IsTail(j) /\ ~HeldBack(j) THEN "endhead" ELSE AfterPosition(loc[k])
    BY <1>0, <1>1, <1>5, ComputeEffect
  <2>3. /\ loc[k].outq = <<>> /\ loc[k].dst = NoSlot /\ j \notin loc[k].ended
        /\ {j} \cup MetBy(j) \subseteq InHand(k)
    BY <1>0, <1>1, ComputeInHand
  <2>4. pc'[k] \in AtWork
    BY <2>2 DEF AtWork, AfterPosition
  <2>5. \A i \in Zones : loc'[k].slot[i].dev = loc[k].slot[i].dev
    <3>1. /\ ComputedSlots(slot, j) \in [Zones -> PassSlots]
          /\ \A i \in Zones : ComputedSlots(slot, j)[i].dev = slot[i].dev
      BY <1>2, ComputedSlotsType
    <3>2. \A s \in PassSlots : \A f : [s EXCEPT !.fsm = f].dev = s.dev
      BY DEF PassSlots
    <3>3. QED
      BY <2>2, <3>1, <3>2 DEF EndedSlots
  <2>6. AllQuiet(dev, k, T) /\ <<k, EndScalars>> \in T /\ \A q \in {j} \cup MetBy(j) : Place(k, slot[q]) \in T
    <3>1. AllQuiet(dev, k, HandPlaces(k))
      BY <1>0, HandsQuiet
    <3>2. AllQuiet(dev, k, T)
      BY <3>1 DEF AllQuiet
    <3>3. <<k, EndScalars>> \in T
      BY DEF HandPlaces, EndScalars, InStage
    <3>4. ASSUME NEW q \in {j} \cup MetBy(j) PROVE Place(k, slot[q]) \in T
      <4>1. q \in InHand(k)
        BY <2>3
      <4>2. slot[q].dev # InStage
        <5>1. q \in Zones /\ q < loc[k].arrived
          BY <4>1 DEF InHand
        <5>2. slot[q].dev \in SlotIds
          BY <1>0, <5>1 DEF TypeInv, SlotsHeld
        <5>3. QED
          BY <5>2, SlotEvents
      <4>3. QED
        BY <4>1, <4>2 DEF Place, HandPlaces
    <3>5. QED
      BY <3>2, <3>3, <3>4
  <2>7. Ran(dev, dev', k, T, {})
    <3>1. dev \in Devices /\ slot[j] \in PassSlots /\ Place(k, slot[j]) \in T
      BY <1>0, <1>2, <2>6 DEF TypeInv
    <3>2. <<k, EndScalars>> \in T /\ AllQuiet(dev, k, T)
      BY <2>6
    <3>3. d \in Devices /\ AllQuiet(d, k, T) /\ Ran(dev, d, k, T, {})
      <4>1. AllQuiet(dev, k, T) /\ \A q \in {j} \cup MetBy(j) : Place(k, slot[q]) \in T
        BY <2>6
      <4> HIDE DEF T, slot
      <4>2. slot \in [Zones -> PassSlots]
        BY <1>2
      <4>3. QED
        BY <1>0, <4>1, <4>2, ComputedRuns
    <3> HIDE DEF T, d
    <3>4. /\ AllQuiet(EndedDevice(d, k, slot[j]), k, T)
          /\ Ran(d, EndedDevice(d, k, slot[j]), k, T, {})
      BY <3>1, <3>2, <3>3, EndedRuns
    <3>5. Ran(dev, EndedDevice(d, k, slot[j]), k, T, {})
      BY <3>1, <3>2, <3>3, <3>4, RunsTwice
    <3>6. QED
      BY <2>1, <3>3, <3>5
  <2>8. HandsFewer(k)
    <3>1. CASE HeldBack(j)
      BY <1>0, <2>2, <2>5, <3>1, WorkSame
    <3>2. CASE ~HeldBack(j)
      BY <1>0, <2>2, <2>3, <2>4, <2>5, <3>2, HandsEnd
    <3>3. QED
      BY <3>1, <3>2
  <2>9. QED
    BY <1>0, <2>2, <2>7, <2>8, RaceWorks
<1>6. QED
  BY <1>4, <1>5

LEMMA EndHeadRace ==
  ASSUME BaseInv, FitInv, RaceInv, NEW k \in Nodes, EndHead(k)
  PROVE  RaceInv'
<1>0. /\ TypeInv /\ FlowInv /\ DataInv /\ pc[k] = "endhead" /\ pc[k] \in AtWork
      /\ UNCHANGED <<chan, credits, bfree, reserve>>
  BY DEF BaseInv, EndHead, AtWork, laneVars, poolVars
<1> DEFINE s == loc[k].slot[0]
           T == HandPlaces(k) \ {<<k, InStage>>}
<1>1. /\ loc[k] \in PassStates /\ loc[k].slot \in [Zones -> PassSlots] /\ 0 \in Zones
      /\ N \in Nat \ {0} /\ s \in PassSlots
  BY <1>0, NodeFields, PassFields, RingFacts
<1>2. CASE ~EndLegal(s.fsm, 0)
  <2>1. SetHalt(k, "Logic") /\ UNCHANGED <<loc, dev>>
    BY <1>2 DEF EndHead
  <2>2. QED
    BY <1>0, <2>1, RaceHalts
<1>3. CASE EndLegal(s.fsm, 0)
  <2>1. dev' = EndedDevice(dev, k, s)
    BY <1>3 DEF EndHead
  <2>2. /\ \A n \in Nodes \ {k} : pc'[n] = pc[n] /\ loc'[n] = loc[n]
        /\ loc'[k].slot = [loc[k].slot EXCEPT ![0].fsm = Apply(@, "END")]
        /\ loc'[k].dst = loc[k].dst /\ loc'[k].arrived = loc[k].arrived
        /\ loc'[k].ended = loc[k].ended \cup {0} /\ loc'[k].outq = Append(loc[k].outq, 0)
        /\ pc'[k] = "flush"
    BY <1>0, <1>3, EndHeadEffect
  <2>3. loc[k].dst = NoSlot
    BY <1>0, FitOf DEF Sending, Flushing
  <2>4. loc[k].arrived = N /\ DeferHead
    <3>1. loc[k].arrived = N
      BY <1>0, NodeFields DEF Progress, AtTheEnd
    <3>2. NodeData(k)
      BY <1>0, NodeDataOf
    <3>3. QED
      BY <1>0, <3>1, <3>2 DEF NodeData
  <2>5. 0 \notin loc[k].ended
    <3>1. loc[k].ended = EndOrder(N - 1)
      BY <1>0, AtWorkData DEF EndedCount
    <3>2. 0 = Order(N - 1) /\ N - 1 \in Zones
      BY <1>1, <2>4, RingFacts DEF Order
    <3>3. QED
      BY <3>1, <3>2, EndOrderFacts
  <2>6. 0 \in InHand(k)
    BY <1>0, <1>1, <2>3, <2>4, <2>5 DEF InHand
  <2>7. pc'[k] \in AtWork /\ \A i \in Zones : loc'[k].slot[i].dev = loc[k].slot[i].dev
    <3>1. \A i \in Zones : loc'[k].slot[i].dev = loc[k].slot[i].dev
      BY <1>1, <2>2 DEF PassSlots
    <3>2. QED
      BY <2>2, <3>1 DEF AtWork
  <2>8. HandsFewer(k)
    BY <1>0, <1>1, <2>2, <2>3, <2>5, <2>6, <2>7, HandsEnd
  <2>9. AllQuiet(dev, k, T) /\ <<k, EndScalars>> \in T /\ Place(k, s) \in T
    <3>1. AllQuiet(dev, k, HandPlaces(k))
      BY <1>0, HandsQuiet
    <3>2. AllQuiet(dev, k, T)
      BY <3>1 DEF AllQuiet
    <3>3. <<k, EndScalars>> \in T
      BY DEF HandPlaces, EndScalars, InStage
    <3>4. s.dev \in SlotIds
      <4>1. 0 < loc[k].arrived
        BY <1>1, <2>4
      <4>2. QED
        BY <1>0, <1>1, <4>1 DEF TypeInv, SlotsHeld
    <3>5. s.dev # InStage
      BY <3>4, SlotEvents
    <3>6. QED
      BY <2>6, <3>2, <3>3, <3>5 DEF Place, HandPlaces
  <2>10. Ran(dev, dev', k, T, {})
    <3>1. dev \in Devices
      BY <1>0 DEF TypeInv
    <3> HIDE DEF T, s
    <3>2. QED
      BY <1>1, <2>1, <2>9, <3>1, EndedRuns
  <2>11. QED
    BY <1>0, <2>2, <2>8, <2>10, RaceWorks
<1>4. QED
  BY <1>2, <1>3

-----------------------------------------------------------------------------
(* The zone that leaves.                                                     *)

LEMMA HeadWaits ==
  ASSUME TypeInv, RaceInv, NEW k \in Nodes, Flushing(k), loc[k].outq # <<>>
  PROVE  /\ pc[k] \in AtWork /\ Head(loc[k].outq) \in Zones
         /\ Head(loc[k].outq) \in loc[k].ended /\ WaitOnce(loc[k])
         /\ Outgoing(k).dev \in SlotIds /\ SourceOf(k) \in DevicePlaces
         /\ loc[k].dst = NoSlot =>
              /\ Head(loc[k].outq) \in InHand(k) /\ SourceOf(k) \in HandPlaces(k)
              /\ Quiet(dev, SourceOf(k), dev.clock[k])
              /\ SlotsOf(k)["pass"][Head(loc[k].outq)] = Outgoing(k).dev
              /\ Head(loc[k].outq) \in DOMAIN SlotsOf(k)["pass"]
<1> DEFINE s == loc[k].outq
           j == Head(s)
<1>1. pc[k] \in AtWork
  BY DEF Flushing, AtWork
<1>2. s \in Seq(Zones) /\ Len(s) \in Nat /\ s # <<>>
  BY WorkTypes
<1>3. 1 \in 1 .. Len(s) /\ j = s[1] /\ j \in Zones
  BY <1>2
<1>4. WaitOnce(loc[k])
  BY <1>1 DEF RaceInv, WaitsOnce
<1>5. j \in loc[k].ended /\ j < loc[k].arrived
  BY <1>3, <1>4 DEF WaitOnce, TypeInv, SlotsHeld
<1>6. Outgoing(k).dev \in SlotIds
  BY <1>3, <1>5 DEF TypeInv, SlotsHeld, Outgoing
<1>7. SourceOf(k) \in DevicePlaces
  BY <1>6, SlotEvents DEF SourceOf
<1>8. ASSUME loc[k].dst = NoSlot
      PROVE  /\ j \in InHand(k) /\ SourceOf(k) \in HandPlaces(k)
             /\ Quiet(dev, SourceOf(k), dev.clock[k])
             /\ SlotsOf(k)["pass"][j] = Outgoing(k).dev
             /\ j \in DOMAIN SlotsOf(k)["pass"]
  <2>1. j \in InHand(k)
    BY <1>1, <1>3, <1>5, <1>8 DEF InHand
  <2>2. SourceOf(k) \in HandPlaces(k)
    BY <2>1 DEF HandPlaces, SourceOf, Outgoing
  <2>3. Quiet(dev, SourceOf(k), dev.clock[k])
    BY <2>2, HandsQuiet DEF AllQuiet
  <2>4. SlotsOf(k)["pass"] = [i \in InHand(k) |-> loc[k].slot[i].dev]
    BY SlotsAre
  <2>5. QED
    BY <2>1, <2>2, <2>3, <2>4 DEF Outgoing
<1>9. QED
  BY <1>1, <1>3, <1>4, <1>5, <1>6, <1>7, <1>8

\* The zone is taken out of the queue.
LEMMA HeadLeaves ==
  ASSUME TypeInv, RaceInv, NEW k \in Nodes, Flushing(k), loc[k].outq # <<>>, pc'[k] \in AtWork,
         loc'[k].outq = Tail(loc[k].outq), loc'[k].ended = loc[k].ended,
         loc'[k].arrived = loc[k].arrived, loc'[k].dst = NoSlot,
         \A i \in Zones : loc'[k].slot[i].dev = loc[k].slot[i].dev
  PROVE  /\ HandsFewer(k)
         /\ InHand(k)' = InHand(k) \ (IF loc[k].dst = NoSlot THEN {Head(loc[k].outq)} ELSE {})
         /\ Copied(k)' = {}
<1> DEFINE s == loc[k].outq
           t == loc'[k].outq
           j == Head(s)
<1>1. /\ pc[k] \in AtWork /\ j \in Zones /\ j \in loc[k].ended /\ WaitOnce(loc[k])
  BY HeadWaits
<1>2. s \in Seq(Zones) /\ s # <<>>
  BY WorkTypes
<1>3. /\ Len(s) \in Nat /\ Len(t) = Len(s) - 1 /\ \A q \in 1 .. Len(t) : t[q] = s[q + 1] /\ q + 1 \in 1 .. Len(s) /\ q + 1 # 1
      /\ \A q \in 1 .. Len(s) : q = 1 \/ (q - 1 \in 1 .. Len(t) /\ t[q - 1] = s[q])
      /\ s[1] = j /\ 1 \in 1 .. Len(s)
  BY <1>2
<1>4. /\ \A q, r \in 1 .. Len(s) : s[q] = s[r] => q = r
      /\ \A q \in 1 .. Len(s) : s[q] \in loc[k].ended
  BY <1>1 DEF WaitOnce
<1> HIDE DEF s, t, j
<1>5. \A q, r \in 1 .. Len(t) : t[q] = t[r] => q = r
  <2>1. ASSUME NEW q \in 1 .. Len(t), NEW r \in 1 .. Len(t), t[q] = t[r] PROVE q = r
    <3>1. q + 1 = r + 1 /\ q \in Nat /\ r \in Nat
      BY <1>3, <1>4, <2>1
    <3>2. QED
      BY <3>1
  <2>2. QED
    BY <2>1
<1>6. WaitsOnce(k)'
  BY <1>3, <1>4, <1>5 DEF WaitsOnce, WaitOnce, t
<1>7. \A i : (\E q \in 1 .. Len(t) : t[q] = i) <=> (i # j /\ \E q \in 1 .. Len(s) : s[q] = i)
  BY <1>3, <1>4
<1>8. ASSUME NEW i
      PROVE  i \in InHand(k)' <=> i \in InHand(k) \ (IF loc[k].dst = NoSlot THEN {j} ELSE {})
  <2>1. i \in InHand(k)' <=>
          i \in Zones /\ i < loc[k].arrived /\ (i \notin loc[k].ended \/ \E q \in 1 .. Len(t) : t[q] = i)
    BY DEF InHand, t
  <2>2. i \in InHand(k) <=>
          /\ i \in Zones /\ i < loc[k].arrived
          /\ i \notin loc[k].ended \/ \E q \in 1 .. Len(s) : s[q] = i
          /\ loc[k].dst # NoSlot => i # j
    BY <1>1 DEF InHand, s, j
  <2>3. QED
    BY <1>1, <1>7, <2>1, <2>2
<1>9. InHand(k)' = InHand(k) \ (IF loc[k].dst = NoSlot THEN {j} ELSE {})
  BY <1>8
<1>10. Copied(k)' = {}
  BY DEF Copied
<1>11. InHand(k)' \subseteq InHand(k) /\ \A i \in InHand(k)' : i \in Zones
  BY <1>9 DEF InHand
<1>12. HandsFewer(k)
  BY <1>6, <1>10, <1>11 DEF HandsFewer
<1>13. QED
  BY <1>9, <1>10, <1>12 DEF j, s

\* The zone is copied to slot s of the consumer.
LEMMA HeadCopied ==
  ASSUME TypeInv, RaceInv, NEW k \in Nodes, Flushing(k), loc[k].outq # <<>>, pc'[k] = pc[k],
         loc[k].dst = NoSlot, loc'[k].dst # NoSlot,
         loc'[k].outq = loc[k].outq, loc'[k].ended = loc[k].ended,
         loc'[k].arrived = loc[k].arrived, loc'[k].slot = loc[k].slot
  PROVE  /\ WaitsOnce(k)' /\ InHand(k)' = InHand(k) \ {Head(loc[k].outq)}
         /\ Copied(k) = {} /\ Copied(k)' = {1}
<1>1. pc[k] \in AtWork /\ WaitOnce(loc[k])
  BY HeadWaits
<1>2. WaitsOnce(k)'
  BY <1>1 DEF WaitsOnce, WaitOnce
<1>3. InHand(k)' = InHand(k) \ {Head(loc[k].outq)}
  BY <1>1 DEF InHand
<1>4. QED
  BY <1>1, <1>2, <1>3 DEF Copied

-----------------------------------------------------------------------------
(* What the copies and the host's use of pinned memory do to the device.     *)

LEMMA SyncUse ==
  ASSUME NEW d \in Devices, NEW k \in Nodes, NEW p \in DevicePlaces, Quiet(d, p, d.clock[k])
  PROVE  /\ Ran(d, HostUse(StreamSync(d, k), k, p), k, {}, {})
         /\ HostUse(StreamSync(d, k), k, p).mem = d.mem
<1> DEFINE e == StreamSync(d, k)
           f == HostUse(e, k, p)
<1>1. /\ Ran(d, e, k, {}, {}) /\ e.host[k] = e.clock[k][k] /\ e.clock = d.clock /\ e.mem = d.mem
  BY RanSync
<1>2. e.writes[p] = d.writes[p] /\ e.reads[p] = d.reads[p] /\ e \in Devices
  BY <1>1 DEF Ran
<1>3. e.writes[p][k] <= e.host[k] /\ e.reads[p][k] <= e.host[k]
  BY <1>1, <1>2 DEF Quiet, Before
<1> HIDE DEF e
<1>4. Ran(e, f, k, {}, {}) /\ f.mem = e.mem
  BY <1>2, <1>3, RanHost
<1> HIDE DEF f
<1>5. Ran(d, f, k, {} \cup {}, {} \cup {})
  BY <1>1, <1>4, RanTrans
<1>6. {} \cup {} = {}
  OBVIOUS
<1>7. Ran(d, f, k, {}, {}) /\ f.mem = d.mem
  BY <1>1, <1>4, <1>5, <1>6
<1>8. QED
  BY <1>7 DEF e, f

LEMMA QuietStays ==
  ASSUME NEW d \in Devices, NEW e, NEW k \in Nodes, Ran(d, e, k, {}, {})
  PROVE  /\ e \in Devices
         /\ \A p \in DevicePlaces : Quiet(d, p, d.clock[k]) => Quiet(e, p, e.clock[k])
<1> DEFINE P == {}
<1>1. P \in SUBSET DevicePlaces /\ Ran(d, e, k, P, {})
  OBVIOUS
<1> HIDE DEF P
<1>2. \A p \in DevicePlaces : Quiet(d, p, d.clock[k]) => Quiet(e, p, e.clock[k])
  BY <1>1, RanQuiet
<1>3. QED
  BY <1>2 DEF Ran

LEMMA ReadyRuns ==
  ASSUME TypeInv, RaceInv, NEW k \in Nodes
  PROVE  /\ Ran(dev, SyncedDevice(k), k, {}, {}) /\ SyncedDevice(k).mem = dev.mem
         /\ Ran(dev, ReadyDevice(k), k, {}, {}) /\ ReadyDevice(k).mem = dev.mem
<1>1. dev \in Devices /\ <<k, EndScalars>> \in DevicePlaces
  BY SlotEvents DEF TypeInv
<1>2. Quiet(dev, <<k, EndScalars>>, dev.clock[k])
  BY DEF RaceInv, Pinned
<1>3. Ran(dev, dev, k, {}, {})
  BY <1>1, RanNone
<1>4. Ran(dev, SyncedDevice(k), k, {}, {}) /\ SyncedDevice(k).mem = dev.mem
  BY <1>1, <1>2, <1>3, SyncUse DEF SyncedDevice
<1>5. QED
  BY <1>3, <1>4 DEF ReadyDevice

\* A copy from place q to place p of the device, both quiet for the stream.
Copying(d, k, q, p) == [Access(d, k, {q}, {p}) EXCEPT !.mem[p] = d.mem[q]]

LEMMA CopyRuns ==
  ASSUME NEW d \in Devices, NEW k \in Nodes, NEW q \in DevicePlaces, NEW p \in DevicePlaces,
         Quiet(d, q, d.clock[k]), Quiet(d, p, d.clock[k])
  PROVE  /\ Ran(d, Copying(d, k, q, p), k, {q, p}, {})
         /\ \A x \in DevicePlaces :
              Copying(d, k, q, p).mem[x] = d.mem[IF x = p THEN q ELSE x]
<1> DEFINE e == Copying(d, k, q, p)
           image == d.mem[q]
           R == {q}
<1>1. image \in ZoneImages
  BY MemoryType
<1>2. R \in SUBSET DevicePlaces /\ \A x \in R \cup {p} : Quiet(d, x, d.clock[k])
  OBVIOUS
<1>3. R \cup {p} = {q, p}
  OBVIOUS
<1>4. e = [Access(d, k, R, {p}) EXCEPT !.mem[p] = image]
  BY DEF Copying
<1> HIDE DEF image, R, e
<1>5. Ran(d, e, k, R \cup {p}, {})
  BY <1>1, <1>2, <1>4, RanKernel
<1>6. e.mem = [d.mem EXCEPT ![p] = image]
  <2> DEFINE a == Access(d, k, R, {p})
  <2>1. a \in Devices /\ a.mem = d.mem
    BY AccessType
  <2> HIDE DEF a
  <2>2. e = [a EXCEPT !.mem[p] = image]
    BY <1>4 DEF a
  <2>3. e.mem = [a.mem EXCEPT ![p] = image]
    BY <2>1, <2>2 DEF Devices
  <2>4. QED
    BY <2>1, <2>3
<1>7. \A x \in DevicePlaces : e.mem[x] = IF x = p THEN image ELSE d.mem[x]
  BY <1>6, DeviceFields
<1>8. QED
  BY <1>3, <1>5, <1>7 DEF image, e

LEMMA PayloadRuns ==
  ASSUME dev \in Devices, NEW k \in Nodes, NEW s \in SlotIds, SourceOf(k) \in DevicePlaces,
         Quiet(dev, SourceOf(k), dev.clock[k]),
         \/ Quiet(dev, <<Consumer(k), s>>, dev.event[FreeEvent(Consumer(k), s)])
         \/ Quiet(dev, <<Consumer(k), s>>, dev.clock[k])
  PROVE  /\ Ran(dev, Payload(k, s), k, {SourceOf(k), <<Consumer(k), s>>},
                {ArrivalEvent(Consumer(k), s)})
         /\ Cleared(Payload(k, s), Consumer(k), "copy", s)
         /\ \A x \in DevicePlaces :
              Payload(k, s).mem[x] = dev.mem[IF x = <<Consumer(k), s>> THEN SourceOf(k) ELSE x]
<1> DEFINE c == Consumer(k)
           q == SourceOf(k)
           p == <<c, s>>
           free == FreeEvent(c, s)
           arr == ArrivalEvent(c, s)
           d == WaitEvent(dev, k, free)
           e == Copying(d, k, q, p)
           f == Record(e, k, arr)
<1>1. c \in Nodes
  BY EdgesAreNodes
<1>2. p \in DevicePlaces /\ free \in DeviceEvents /\ arr \in DeviceEvents
  <2> HIDE DEF c
  <2>1. QED
    BY <1>1, SlotEvents
<1>3. Payload(k, s) = f
  BY DEF Payload, Kernel, Copying
<1>4. /\ q \in DevicePlaces /\ Quiet(dev, q, dev.clock[k])
      /\ Quiet(dev, p, dev.event[free]) \/ Quiet(dev, p, dev.clock[k])
  OBVIOUS
<1>5. Awaited(f, c, "copy", s) = f.event[arr]
  BY DEF Awaited
<1> HIDE DEF c, q, free, arr
<1>6. Ran(dev, d, k, {}, {}) /\ Before(dev.event[free], d.clock[k]) /\ d.mem = dev.mem
  BY <1>2, RanWait
<1> HIDE DEF p
<1>7. d \in Devices /\ d.clock[k] \in Clocks /\ dev.clock[k] \in Clocks /\ dev.event[free] \in Clocks
  <2>1. d \in Devices
    BY <1>6 DEF Ran
  <2>2. QED
    BY <1>2, <2>1, DeviceFields, ClockFacts
<1>8. Quiet(d, q, d.clock[k])
  BY <1>4, <1>6, RanQuiet
<1>9. Quiet(d, p, d.clock[k])
  <2>1. Quiet(dev, p, d.clock[k])
    BY <1>2, <1>4, <1>6, <1>7, QuietLater DEF Ran
  <2>2. QED
    BY <1>2, <1>6, <2>1 DEF Ran, Quiet
<1> HIDE DEF d
<1>10. /\ Ran(d, e, k, {q, p}, {})
       /\ \A x \in DevicePlaces : e.mem[x] = d.mem[IF x = p THEN q ELSE x]
  BY <1>2, <1>4, <1>7, <1>8, <1>9, CopyRuns, SMTT(30)
<1> HIDE DEF e
<1>11. e \in Devices /\ Quiet(e, p, e.clock[k])
  BY <1>10 DEF Ran
<1>12. /\ Ran(e, f, k, {}, {arr}) /\ f.event[arr] = e.clock[k] /\ f.mem = e.mem
       /\ f.writes = e.writes /\ f.reads = e.reads
  BY <1>2, <1>11, RanRecord
<1> HIDE DEF f
<1>13. Quiet(f, p, f.event[arr])
  BY <1>11, <1>12 DEF Quiet
<1>14. Ran(dev, e, k, {} \cup {q, p}, {} \cup {})
  BY <1>2, <1>4, <1>6, <1>10, RanTrans
<1>15. Ran(dev, f, k, ({} \cup {q, p}) \cup {}, ({} \cup {}) \cup {arr})
  BY <1>2, <1>4, <1>12, <1>14, RanTrans
<1>16. ({} \cup {q, p}) \cup {} = {q, p} /\ ({} \cup {}) \cup {arr} = {arr}
  OBVIOUS
<1>17. /\ Ran(dev, f, k, {q, p}, {arr})
       /\ \A x \in DevicePlaces : f.mem[x] = dev.mem[IF x = p THEN q ELSE x]
  BY <1>6, <1>10, <1>12, <1>15, <1>16
<1>18. Cleared(f, c, "copy", s)
  BY <1>5, <1>13 DEF Cleared, p
<1>19. QED
  BY <1>3, <1>17, <1>18 DEF c, q, p, arr

LEMMA OutStagedRuns ==
  ASSUME TypeInv, RaceInv, NEW k \in Nodes, SourceOf(k) \in DevicePlaces,
         Quiet(dev, SourceOf(k), dev.clock[k])
  PROVE  /\ Ran(dev, OutStaged(k), k, {SourceOf(k), <<k, OutStage>>}, {})
         /\ OutStaged(k).mem[<<k, OutStage>>] = dev.mem[SourceOf(k)]
         /\ \A x \in DevicePlaces : x # <<k, OutStage>> => OutStaged(k).mem[x] = dev.mem[x]
<1> DEFINE q == SourceOf(k)
           p == <<k, OutStage>>
           d == ReadyDevice(k)
           e == Copying(d, k, q, p)
           f == HostUse(StreamSync(e, k), k, p)
<1>1. OutStaged(k) = f
  BY DEF OutStaged, Kernel, Copying
<1>2. p \in DevicePlaces /\ q \in DevicePlaces /\ dev \in Devices /\ Quiet(dev, q, dev.clock[k])
  BY SlotEvents DEF TypeInv
<1>3. Quiet(dev, p, dev.clock[k])
  BY DEF RaceInv, Pinned
<1>4. Ran(dev, d, k, {}, {}) /\ d.mem = dev.mem
  BY ReadyRuns
<1> HIDE DEF d, q, p
<1>5. d \in Devices /\ Quiet(d, q, d.clock[k]) /\ Quiet(d, p, d.clock[k])
  BY <1>2, <1>3, <1>4, QuietStays
<1>6. /\ Ran(d, e, k, {q, p}, {})
      /\ \A x \in DevicePlaces : e.mem[x] = d.mem[IF x = p THEN q ELSE x]
  BY <1>2, <1>5, CopyRuns
<1> HIDE DEF e
<1>7. e \in Devices /\ Quiet(e, p, e.clock[k])
  BY <1>6 DEF Ran
<1>8. Ran(e, f, k, {}, {}) /\ f.mem = e.mem
  BY <1>2, <1>7, SyncUse
<1> HIDE DEF f
<1>9. Ran(dev, e, k, {} \cup {q, p}, {} \cup {})
  BY <1>2, <1>4, <1>6, RanTrans
<1>10. Ran(dev, f, k, ({} \cup {q, p}) \cup {}, ({} \cup {}) \cup {})
  BY <1>2, <1>8, <1>9, RanTrans
<1>11. ({} \cup {q, p}) \cup {} = {q, p} /\ ({} \cup {}) \cup {} = {}
  OBVIOUS
<1>12. Ran(dev, f, k, {q, p}, {})
  BY <1>10, <1>11
<1>13. \A x \in DevicePlaces : f.mem[x] = dev.mem[IF x = p THEN q ELSE x]
  BY <1>4, <1>6, <1>8
<1>14. QED
  BY <1>1, <1>2, <1>12, <1>13 DEF q, p

\* A boundary arrival goes through the staging buffer to slot s.
LEMMA UnstageRuns ==
  ASSUME dev \in Devices, NEW k \in Nodes, Pinned(dev, k), NEW m \in WireMessages,
         NEW s \in SlotIds, Quiet(dev, <<k, s>>, dev.clock[k])
  PROVE  LET e == Unstage(Stage(k, m), k, s)
         IN  /\ Ran(dev, e, k, {<<k, InStage>>, <<k, s>>}, {InEvent(k)})
             /\ Pinned(e, k)
             /\ e.mem[<<k, s>>] = WireImage(m)
             /\ \A x \in DevicePlaces : x \notin {<<k, InStage>>, <<k, s>>} => e.mem[x] = dev.mem[x]
<1> DEFINE q == <<k, InStage>>
           p == <<k, s>>
           x == InEvent(k)
           image == WireImage(m)
           a == EventSync(dev, k, x)
           b == HostWrite(a, k, q, image)
           d == Copying(b, k, q, p)
           e == Record(d, k, x)
<1>1. /\ q \in DevicePlaces /\ p \in DevicePlaces /\ x \in DeviceEvents /\ q # p
      /\ Quiet(dev, p, dev.clock[k]) /\ image \in ZoneImages
  BY SlotEvents, ImageTypes
<1>2. /\ Quiet(dev, q, dev.clock[k])
      /\ dev.writes[q][k] <= dev.event[x][k] /\ dev.reads[q][k] <= dev.event[x][k]
  BY DEF Pinned
<1>3. Unstage(Stage(k, m), k, s) = e
  BY DEF Unstage, Stage, Kernel, Copying
<1>4. \A y \in {OutStage, EndScalars} : <<k, y>> \in DevicePlaces /\ Quiet(dev, <<k, y>>, dev.clock[k])
  BY SlotEvents DEF Pinned
<1>q. q = <<k, InStage>>
  OBVIOUS
<1>x. x = InEvent(k)
  OBVIOUS
<1> HIDE DEF q, p, x, image
<1>5. /\ Ran(dev, a, k, {}, {}) /\ a.clock = dev.clock /\ a.mem = dev.mem
      /\ a.writes = dev.writes /\ a.reads = dev.reads /\ a.host[k] >= dev.event[x][k]
  BY <1>1, RanSync
<1> HIDE DEF a
<1>6. a \in Devices /\ a.writes[q][k] <= a.host[k] /\ a.reads[q][k] <= a.host[k]
  <2>1. a \in Devices
    BY <1>5 DEF Ran
  <2>2. /\ dev.writes[q] \in Clocks /\ dev.reads[q] \in Clocks /\ dev.event[x] \in Clocks
        /\ a.host[k] \in Nat
    BY <1>1, <2>1, DeviceFields
  <2>3. dev.writes[q][k] \in Nat /\ dev.reads[q][k] \in Nat /\ dev.event[x][k] \in Nat
    BY <2>2 DEF Clocks
  <2>4. QED
    BY <1>2, <1>5, <2>1, <2>2, <2>3
<1>7. Ran(a, b, k, {}, {})
  BY <1>1, <1>6, RanHost
<1>8. \A y \in DevicePlaces : b.mem[y] = IF y = q THEN image ELSE dev.mem[y]
  <2>1. HostUse(a, k, q).mem = a.mem /\ HostUse(a, k, q) \in Devices
    BY <1>6, HostType
  <2>2. b.mem = [HostUse(a, k, q).mem EXCEPT ![q] = image]
    BY <2>1 DEF HostWrite, Devices
  <2>3. b.mem = [dev.mem EXCEPT ![q] = image]
    BY <1>5, <2>1, <2>2
  <2>4. QED
    BY <2>3, DeviceFields
<1>b. b \in Devices
  BY <1>7 DEF Ran
<1> HIDE DEF b
<1>9. Ran(dev, b, k, {} \cup {}, {} \cup {})
  BY <1>5, <1>7, RanTrans
<1>10. {} \cup {} = {}
  OBVIOUS
<1>11. Ran(dev, b, k, {}, {})
  BY <1>9, <1>10
<1>12. Quiet(b, q, b.clock[k]) /\ Quiet(b, p, b.clock[k])
  BY <1>1, <1>2, <1>11, QuietStays
<1>13. /\ Ran(b, d, k, {q, p}, {})
       /\ \A y \in DevicePlaces : d.mem[y] = b.mem[IF y = p THEN q ELSE y]
  BY <1>1, <1>b, <1>12, CopyRuns
<1> HIDE DEF d
<1>14. d \in Devices /\ Quiet(d, q, d.clock[k])
  BY <1>13 DEF Ran
<1>15. /\ Ran(d, e, k, {}, {x}) /\ e.event[x] = d.clock[k] /\ e.mem = d.mem
       /\ e.writes = d.writes /\ e.reads = d.reads /\ e.clock = d.clock
  BY <1>1, <1>14, RanRecord
<1> HIDE DEF e
<1>16. Ran(dev, d, k, {} \cup {q, p}, {} \cup {})
  BY <1>1, <1>11, <1>13, RanTrans
<1>17. Ran(dev, e, k, ({} \cup {q, p}) \cup {}, ({} \cup {}) \cup {x})
  BY <1>1, <1>15, <1>16, RanTrans
<1>18. ({} \cup {q, p}) \cup {} = {q, p} /\ ({} \cup {}) \cup {x} = {x}
  OBVIOUS
<1>19. Ran(dev, e, k, {q, p}, {x})
  BY <1>17, <1>18
<1>20. Quiet(e, q, e.clock[k])
  BY <1>14, <1>15 DEF Quiet
<1>21. e.writes[q][k] <= e.event[x][k] /\ e.reads[q][k] <= e.event[x][k]
  BY <1>14, <1>15 DEF Quiet, Before
<1>22. {q, p} \in SUBSET DevicePlaces
  BY <1>1
<1>23. \A y \in {OutStage, EndScalars} : Quiet(e, <<k, y>>, e.clock[k])
  BY <1>4, <1>19, <1>22, RanQuiet
<1>24. Pinned(e, k)
  BY <1>q, <1>x, <1>20, <1>21, <1>23 DEF Pinned
<1>25. /\ e.mem[p] = image
       /\ \A y \in DevicePlaces : y \notin {q, p} => e.mem[y] = dev.mem[y]
  <2>1. dev.mem \in [DevicePlaces -> ZoneImages]
    BY DeviceFields
  <2>2. QED
    BY <1>1, <1>8, <1>13, <1>15, <2>1
<1>26. QED
  BY <1>3, <1>19, <1>24, <1>25 DEF q, p, x, image

LEMMA CollectRuns ==
  ASSUME dev \in Devices, NEW k \in Nodes, NEW q \in DevicePlaces, Quiet(dev, q, dev.clock[k])
  PROVE  /\ Ran(dev, StreamSync(Reading(dev, k, {q}), k), k, {q}, {})
         /\ StreamSync(Reading(dev, k, {q}), k).mem = dev.mem
<1> DEFINE R == {q}
           W == {}
           d == Access(dev, k, R, W)
           e == StreamSync(d, k)
<1>1. R \in SUBSET DevicePlaces /\ W \in SUBSET DevicePlaces /\ R \cup W = {q}
  OBVIOUS
<1>2. StreamSync(Reading(dev, k, {q}), k) = e
  BY DEF Reading
<1>3. \A p \in R \cup W : Quiet(dev, p, dev.clock[k])
  OBVIOUS
<1> HIDE DEF R, W
<1>4. Ran(dev, d, k, R \cup W, {})
  BY <1>1, <1>3, RanAccess
<1>5. d.mem = dev.mem
  BY AccessType
<1> HIDE DEF d
<1>6. Ran(d, e, k, {}, {}) /\ e.mem = d.mem
  BY <1>4, RanSync DEF Ran
<1> HIDE DEF e
<1>7. Ran(dev, e, k, (R \cup W) \cup {}, {} \cup {})
  BY <1>1, <1>4, <1>6, RanTrans
<1>8. (R \cup W) \cup {} = {q} /\ {} \cup {} = {}
  BY <1>1
<1>9. Ran(dev, e, k, {q}, {}) /\ e.mem = dev.mem
  BY <1>5, <1>6, <1>7, <1>8
<1>10. QED
  BY <1>2, <1>9

LEMMA PinnedStays ==
  ASSUME TypeInv, RaceInv, NEW k \in Nodes, NEW P \in SUBSET DevicePlaces, NEW E,
         Ran(dev, dev', k, P, E), NEW c \in Nodes,
         <<c, InStage>> \notin P, InEvent(c) \notin E,
         c = k \/ (<<c, OutStage>> \notin P /\ <<c, EndScalars>> \notin P)
  PROVE  Pinned(dev', c)
<1>1. dev \in Devices /\ Pinned(dev, c)
  BY DEF TypeInv, RaceInv
<1>2. QED
  BY <1>1, PinnedNext

\* No slot comes to node c.
LEMMA OtherHolds ==
  ASSUME TypeInv, RaceInv, NEW k \in Nodes, NEW P \in SUBSET DevicePlaces, NEW E,
         Ran(dev, dev', k, P, E), NEW c \in Nodes, Shrunk(SlotsOf(c)', SlotsOf(c)),
         \A x \in SlotIds :
           /\ <<c, x>> \in P => <<c, x>> \in HandPlaces(k)
           /\ FreeEvent(c, x) \notin E /\ ArrivalEvent(c, x) \notin E
  PROVE  Holds(dev', c, SlotsOf(c)')
<1>1. Holds(dev, c, SlotsOf(c)) /\ Slotted(SlotsOf(c)) /\ dev \in Devices
  BY SlotsAre DEF RaceInv, Slotted, TypeInv
<1>2. Apart(c, SlotsOf(c), k, P, E, NoSlot)
  BY HandsApart
<1>3. NoSlot \notin SlotIds
  BY PoolFacts DEF NoSlot, SlotIds
<1>4. \A a \in Kinds : \A q \in DOMAIN SlotsOf(c)'[a] : SlotsOf(c)'[a][q] # NoSlot
  BY <1>1, <1>3 DEF Shrunk, Slotted
<1>5. QED
  BY <1>1, <1>2, <1>4, HoldsFewer

-----------------------------------------------------------------------------
(* Arrivals.                                                                 *)

\* The slot of the zone that arrives.
LEMMA ArrivedSlot ==
  ASSUME TypeInv, NEW k \in Nodes, AwaitsArrival(k), NEW s \in SlotIds,
         NEW fsm, NEW lam, NEW dt, Arrive(k, s, fsm, lam, dt)
  PROVE  loc'[k].slot[loc[k].arrived].dev = s
<1> DEFINE p == loc[k]
           a == p.arrived
           new == [EmptySlot EXCEPT !.zone = ZoneAt(pass[k], a), !.fsm = fsm,
                                    !.dev = s, !.lam = lam]
<1>1. /\ loc \in [Nodes -> PassStates] /\ p \in PassStates /\ a \in Zones
      /\ p.slot \in [Zones -> PassSlots]
  BY NodeFields, AwaitedIsZone, PassFields DEF TypeInv, NodeTypes
<1>2. new.dev = s
  BY EmptySlotType DEF PassSlots
<1>3. loc' = [loc EXCEPT ![k].slot[a] = new, ![k].dt = IF a = 0 THEN dt ELSE @,
                         ![k].rbuf = IF a = ForecastPosition THEN lam ELSE @,
                         ![k].arrived = a + 1]
  BY DEF Arrive
<1> HIDE DEF new, a
<1>4. loc'[k].slot[a] = new
  BY <1>1, <1>3 DEF PassStates
<1>5. QED
  BY <1>2, <1>4 DEF a

\* A zone is taken in hand.
LEMMA HandGrows ==
  ASSUME BaseInv, FitInv, RaceInv, NEW k \in Nodes, AwaitsArrival(k), NEW s \in SlotIds,
         NEW fsm \in ZoneRecords, NEW lam \in Lambdas, NEW dt \in TimeSteps,
         Arrive(k, s, fsm, lam, dt), UNCHANGED <<pc, pass>>
  PROVE  LET a == loc[k].arrived
         IN  /\ InHand(k)' = InHand(k) \cup {a} /\ a \notin InHand(k) /\ a \in Zones
             /\ loc'[k].slot[a].dev = s
             /\ \A j \in InHand(k) : loc'[k].slot[j].dev = loc[k].slot[j].dev
             /\ Copied(k)' = Copied(k) /\ loc'[k].dst = loc[k].dst
             /\ \A c \in Nodes : WaitsOnce(c)'
             /\ \A c \in Nodes \ {k} : HandsFewer(c)
<1> DEFINE a == loc[k].arrived
<1>0. TypeInv /\ pc[k] = "io" /\ pc[k] \in AtWork /\ CurrentOp(k) = "RECV" /\ a \in Zones
      /\ Zones = 0 .. N - 1 /\ N \in Nat \ {0}
  BY AwaitedIsZone, RingFacts DEF BaseInv, AwaitsArrival, AtWork, Zones
<1>1. /\ \A n \in Nodes \ {k} : loc'[n] = loc[n]
      /\ loc'[k].arrived = a + 1 /\ loc'[k].outq = loc[k].outq
      /\ loc'[k].ended = loc[k].ended /\ loc'[k].dst = loc[k].dst
      /\ \A j \in Zones : j # a => loc'[k].slot[j] = loc[k].slot[j]
  BY <1>0, ArriveEffect
<1>s. loc'[k].slot[a].dev = s
  BY <1>0, ArrivedSlot
<1>2. loc[k].dst = NoSlot
  <2>1. loc[k].dst # NoSlot => Sending(k)
    BY <1>0, FitOf
  <2>2. ~Flushing(k)
    BY <1>0 DEF Flushing
  <2>3. QED
    BY <2>1, <2>2 DEF Sending
<1>3. a \notin loc[k].ended
  <2> DEFINE c == IF DeferHead /\ loc[k].pos > 0 THEN loc[k].pos - 1 ELSE loc[k].pos
  <2>1. loc[k].ended = EndOrder(EndedCount(k)) /\ (loc[k].pos > 0 => a > loc[k].pos)
    BY <1>0, AtWorkData DEF BaseInv
  <2>2. EndedCount(k) = c /\ loc[k].pos \in 0 .. N - 1
    BY <1>0, WorkTypes DEF EndedCount
  <2>3. ASSUME NEW t \in 0 .. c - 1 PROVE Order(t) # a
    <3>1. Order(t) = IF DeferHead THEN (IF t + 1 < N THEN t + 1 ELSE 0) ELSE t
      BY <1>0, <2>2 DEF Order
    <3>2. QED
      BY <1>0, <2>1, <2>2, <3>1
  <2>4. QED
    BY <2>1, <2>2, <2>3 DEF EndOrder
<1>4. InHand(k)' = InHand(k) \cup {a} /\ a \notin InHand(k)
  <2>1. \A j \in Zones : j < a + 1 <=> j < a \/ j = a
    BY <1>0
  <2>2. ~(a < a)
    BY <1>0
  <2>3. QED
    BY <1>0, <1>1, <1>2, <1>3, <2>1, <2>2 DEF InHand
<1>5. \A j \in InHand(k) : loc'[k].slot[j].dev = loc[k].slot[j].dev
  BY <1>1, <1>4 DEF InHand
<1>6. Copied(k)' = Copied(k)
  BY <1>1 DEF Copied
<1>7. \A c \in Nodes \ {k} : HandsFewer(c)
  BY <1>1, WorkSame
<1>8. WaitsOnce(k)'
  <2>1. WaitsOnce(k)
    BY DEF RaceInv
  <2>2. QED
    BY <1>0, <1>1, <2>1 DEF WaitsOnce, WaitOnce
<1>9. \A c \in Nodes : WaitsOnce(c)'
  BY <1>7, <1>8 DEF HandsFewer
<1>10. QED
  BY <1>0, <1>s, <1>1, <1>4, <1>5, <1>6, <1>7, <1>9

QueuesSame(c) == \A x \in Queues : SlotsOf(c)'[x] = SlotsOf(c)[x]
HandSame(c) ==
  /\ InHand(c)' = InHand(c)
  /\ \A j \in InHand(c) : loc'[c].slot[j].dev = loc[c].slot[j].dev
CopySame(c) == Copied(c)' = Copied(c) /\ (Copied(c) # {} => loc'[c].dst = loc[c].dst)

LEMMA KindsKept ==
  ASSUME TypeInv, NEW c \in Nodes
  PROVE  /\ CopySame(InEdge(c)) => SlotsOf(c)'["copy"] = SlotsOf(c)["copy"]
         /\ HandSame(c) => SlotsOf(c)'["pass"] = SlotsOf(c)["pass"]
         /\ /\ InHand(c)' \subseteq InHand(c)
            /\ \A j \in InHand(c)' : loc'[c].slot[j].dev = loc[c].slot[j].dev
            => \A q \in DOMAIN SlotsOf(c)'["pass"] :
                 q \in DOMAIN SlotsOf(c)["pass"] /\ SlotsOf(c)'["pass"][q] = SlotsOf(c)["pass"][q]
<1>1. /\ SlotsOf(c)'["copy"] = [q \in Copied(InEdge(c))' |-> loc'[InEdge(c)].dst]
      /\ SlotsOf(c)["copy"] = [q \in Copied(InEdge(c)) |-> loc[InEdge(c)].dst]
      /\ SlotsOf(c)'["pass"] = [j \in InHand(c)' |-> loc'[c].slot[j].dev]
      /\ SlotsOf(c)["pass"] = [j \in InHand(c) |-> loc[c].slot[j].dev]
  BY SlotsAre, SlotsNext
<1>2. QED
  BY <1>1 DEF CopySame, HandSame

\* Nothing comes to node c, and its queues stand.
LEMMA QueuesKept ==
  ASSUME TypeInv, NEW c \in Nodes, QueuesSame(c), CopySame(InEdge(c)) \/ HandsFewer(InEdge(c)),
         HandsFewer(c)
  PROVE  Shrunk(SlotsOf(c)', SlotsOf(c))
<1>1. /\ SlotsOf(c)'["copy"] = [q \in Copied(InEdge(c))' |-> loc'[InEdge(c)].dst]
      /\ SlotsOf(c)["copy"] = [q \in Copied(InEdge(c)) |-> loc[InEdge(c)].dst]
      /\ SlotsOf(c)'["pass"] = [j \in InHand(c)' |-> loc'[c].slot[j].dev]
      /\ SlotsOf(c)["pass"] = [j \in InHand(c) |-> loc[c].slot[j].dev]
  BY SlotsAre, SlotsNext
<1>2. ASSUME NEW a \in Queues, NEW q \in DOMAIN SlotsOf(c)'[a]
      PROVE  q \in DOMAIN SlotsOf(c)[a] /\ SlotsOf(c)'[a][q] = SlotsOf(c)[a][q]
  BY <1>2 DEF QueuesSame
<1>3. \A q \in DOMAIN SlotsOf(c)'["copy"] :
        q \in DOMAIN SlotsOf(c)["copy"] /\ SlotsOf(c)'["copy"][q] = SlotsOf(c)["copy"][q]
  BY <1>1 DEF HandsFewer, CopySame
<1>4. \A q \in DOMAIN SlotsOf(c)'["pass"] :
        q \in DOMAIN SlotsOf(c)["pass"] /\ SlotsOf(c)'["pass"][q] = SlotsOf(c)["pass"][q]
  BY <1>1 DEF HandsFewer
<1>5. QED
  BY <1>2, <1>3, <1>4 DEF Shrunk, Kinds, Queues

\* The first slot of queue a is taken in hand.
LEMMA ArriveRace ==
  ASSUME BaseInv, FitInv, RaceInv, NEW k \in Nodes, AwaitsArrival(k), NEW s \in SlotIds,
         NEW fsm \in ZoneRecords, NEW lam \in Lambdas, NEW dt \in TimeSteps,
         Arrive(k, s, fsm, lam, dt), UNCHANGED <<pc, pass>>,
         NEW a \in {"reserve", "free", "chan"}, SlotsOf(k)[a] # <<>>, s = Head(SlotsOf(k)[a]),
         SlotsOf(k)'[a] = Tail(SlotsOf(k)[a]),
         \A x \in Queues \ {a} : SlotsOf(k)'[x] = SlotsOf(k)[x],
         \A c \in Nodes \ {k} : QueuesSame(c),
         NEW P \in SUBSET DevicePlaces, NEW E, Ran(dev, dev', k, P, E),
         Cleared(dev', k, "pass", s), \A c \in Nodes : Pinned(dev', c),
         \A c \in Nodes : \A x \in SlotIds :
           /\ <<c, x>> \in P => c = k /\ x = s
           /\ FreeEvent(c, x) \notin E /\ ArrivalEvent(c, x) \notin E
  PROVE  RaceInv'
<1> DEFINE j == loc[k].arrived
<1>0. TypeInv /\ dev \in Devices
  BY DEF BaseInv, TypeInv
<1>1. /\ InHand(k)' = InHand(k) \cup {j} /\ j \notin InHand(k) /\ j \in Zones
      /\ loc'[k].slot[j].dev = s
      /\ \A i \in InHand(k) : loc'[k].slot[i].dev = loc[k].slot[i].dev
      /\ Copied(k)' = Copied(k) /\ loc'[k].dst = loc[k].dst
      /\ \A c \in Nodes : WaitsOnce(c)'
      /\ \A c \in Nodes \ {k} : HandsFewer(c)
  BY HandGrows
<1> HIDE DEF j
<1>2. CopySame(k)
  BY <1>1 DEF CopySame
<1>3. ASSUME NEW c \in Nodes \ {k} PROVE Holds(dev', c, SlotsOf(c)')
  <2>1. InEdge(c) \in Nodes
    BY EdgesAreNodes
  <2>2. Shrunk(SlotsOf(c)', SlotsOf(c))
    BY <1>0, <1>1, <1>2, <2>1, QueuesKept
  <2>3. QED
    BY <1>0, <2>2, OtherHolds
<1>4. Holds(dev', k, SlotsOf(k)')
  <2>1. Holds(dev, k, SlotsOf(k)) /\ Slotted(SlotsOf(k))
    BY <1>0, SlotsAre DEF RaceInv, Slotted
  <2>2. SlotsOf(k)'["copy"] = SlotsOf(k)["copy"]
    <3>1. InEdge(k) = k \/ InEdge(k) \in Nodes \ {k}
      BY EdgesAreNodes
    <3>2. CASE InEdge(k) = k
      BY <1>0, <1>2, <3>2, KindsKept
    <3>3. CASE InEdge(k) \in Nodes \ {k}
      <4>1. pc'[InEdge(k)] = pc[InEdge(k)] /\ loc'[InEdge(k)] = loc[InEdge(k)]
        <5>1. loc \in [Nodes -> PassStates]
          BY <1>0 DEF TypeInv, NodeTypes
        <5>2. QED
          BY <3>3, <5>1 DEF Arrive
      <4>2. CopySame(InEdge(k))
        BY <4>1 DEF CopySame, Copied
      <4>3. QED
        BY <1>0, <4>2, KindsKept
    <3>4. QED
      BY <3>1, <3>2, <3>3
  <2>3. /\ SlotsOf(k)'["pass"] = [i \in InHand(k)' |-> loc'[k].slot[i].dev]
        /\ SlotsOf(k)["pass"] = [i \in InHand(k) |-> loc[k].slot[i].dev]
        /\ SlotsOf(k)[a] \in Seq(SlotIds)
    BY <1>0, SlotsAre, SlotsNext
  <2>4. Taking(SlotsOf(k), SlotsOf(k)', a, "pass", j, s)
    <3> DEFINE v == SlotsOf(k)
               w == SlotsOf(k)'
    <3>1. /\ DOMAIN w["pass"] = DOMAIN v["pass"] \cup {j} /\ j \notin DOMAIN v["pass"]
          /\ w["pass"][j] = s /\ \A q \in DOMAIN v["pass"] : w["pass"][q] = v["pass"][q]
      BY <1>1, <2>3
    <3>2. \A x \in Kinds : x \notin {a, "pass"} => w[x] = v[x]
      BY <2>2 DEF Kinds, Queues
    <3>3. v[a] \in Seq(SlotIds) /\ v[a] # <<>> /\ w[a] = Tail(v[a]) /\ s = Head(v[a])
          /\ a \in Queues
      BY <2>3 DEF Queues
    <3> HIDE DEF v, w
    <3>4. Taking(v, w, a, "pass", j, s)
      BY <3>1, <3>2, <3>3 DEF Taking
    <3>5. QED
      BY <3>4 DEF v, w
  <2>5. Apart(k, SlotsOf(k), k, P, E, s)
    BY <1>0, HandsApart
  <2>6. QED
    BY <1>0, <2>1, <2>4, <2>5, HoldsTaken
<1>5. ~dev'.raced
  BY DEF Ran, RaceInv
<1>6. QED
  BY <1>1, <1>3, <1>4, <1>5 DEF RaceInv

LEMMA QueuesStand ==
  ASSUME TypeInv, NEW c \in Nodes
  PROVE  /\ credits'[InEdge(c)] = credits[InEdge(c)] => SlotsOf(c)'["credit"] = SlotsOf(c)["credit"]
         /\ bfree'[c] = bfree[c] => SlotsOf(c)'["free"] = SlotsOf(c)["free"]
         /\ c # 0 \/ reserve' = reserve => SlotsOf(c)'["reserve"] = SlotsOf(c)["reserve"]
         /\ chan'[InEdge(c)] = chan[InEdge(c)] => SlotsOf(c)'["chan"] = SlotsOf(c)["chan"]
<1>1. /\ SlotsOf(c)'["credit"] = credits'[InEdge(c)] /\ SlotsOf(c)'["free"] = bfree'[c]
      /\ SlotsOf(c)'["reserve"] = (IF c = 0 THEN reserve' ELSE <<>>)
      /\ SlotsOf(c)'["chan"] = Announces(InEdge(c))'
  BY SlotsNext
<1>2. /\ SlotsOf(c)["credit"] = credits[InEdge(c)] /\ SlotsOf(c)["free"] = bfree[c]
      /\ SlotsOf(c)["reserve"] = (IF c = 0 THEN reserve ELSE <<>>)
      /\ SlotsOf(c)["chan"] = Announces(InEdge(c))
  BY SlotsAre
<1>3. chan'[InEdge(c)] = chan[InEdge(c)] => Announces(InEdge(c))' = Announces(InEdge(c))
  BY DEF Announces
<1>4. QED
  BY <1>1, <1>2, <1>3

LEMMA QueueHead ==
  ASSUME TypeInv, RaceInv, NEW c \in Nodes, NEW a \in Queues, SlotsOf(c)[a] # <<>>
  PROVE  /\ Head(SlotsOf(c)[a]) \in SlotIds /\ Cleared(dev, c, a, Head(SlotsOf(c)[a]))
         /\ <<c, Head(SlotsOf(c)[a])>> \in DevicePlaces
<1>1. SlotsOf(c)[a] \in Seq(SlotIds) /\ a \in Kinds
  BY SlotsAre DEF Queues, Kinds
<1>2. 1 \in DOMAIN SlotsOf(c)[a] /\ Head(SlotsOf(c)[a]) = SlotsOf(c)[a][1]
      /\ Head(SlotsOf(c)[a]) \in SlotIds
  BY <1>1
<1>3. Holds(dev, c, SlotsOf(c))
  BY DEF RaceInv
<1>4. Cleared(dev, c, a, Head(SlotsOf(c)[a]))
  BY <1>1, <1>2, <1>3 DEF Holds
<1>5. QED
  BY <1>2, <1>4, SlotEvents

LEMMA PreloadRace ==
  ASSUME BaseInv, FitInv, RaceInv, NEW k \in Nodes, TakePreload(k)
  PROVE  RaceInv'
<1> DEFINE s == Head(reserve)
           i == ZoneAt(1, loc[k].arrived)
           fsm == [FreeZone EXCEPT !.type = InitialZoneType(1)]
           p == <<k, s>>
           P == {p}
           R == {}
           image == T0Image(i)
<1>0. /\ TypeInv /\ dev \in Devices /\ AwaitsArrival(k) /\ pass[k] = 1 /\ k = 0
      /\ UNCHANGED <<pass, chan, credits, bfree>>
  BY FirstPassIsHeads DEF BaseInv, TypeInv, TakePreload, Preloads, laneVars
<1>1. CASE reserve = <<>>
  <2>1. SetHalt(k, "Logic") /\ UNCHANGED <<loc, reserve, dev>>
    BY <1>1 DEF TakePreload
  <2>2. QED
    BY <1>0, <2>1, RaceHalts
<1>2. CASE reserve # <<>>
  <2>1. /\ Arrive(k, s, fsm, FullLambda(0), DtInitial) /\ reserve' = Tail(reserve)
        /\ dev' = Kernel(dev, k, {}, <<k, s>>, LAMBDA mem : T0Image(i))
        /\ UNCHANGED <<pc, pass>>
    BY <1>0, <1>2 DEF TakePreload
  <2>2. SlotsOf(k)["reserve"] = reserve /\ SlotsOf(k)'["reserve"] = reserve'
    BY <1>0, SlotsAre, SlotsNext
  <2>3. s \in SlotIds /\ Cleared(dev, k, "reserve", s) /\ p \in DevicePlaces
    <3>1. SlotsOf(k)["reserve"] # <<>> /\ "reserve" \in Queues
      BY <1>2, <2>2 DEF Queues
    <3>2. QED
      BY <1>0, <2>2, <3>1, QueueHead
  <2>4. Quiet(dev, p, dev.clock[k])
    BY <2>3 DEF Cleared, Awaited
  <2>5. Ran(dev, dev', k, P, {})
    <3> DEFINE e == [Access(dev, k, R, {p}) EXCEPT !.mem[p] = image]
    <3>1. dev' = e
      BY <2>1 DEF Kernel
    <3>2. image \in ZoneImages
      <4>1. i \in Zones
        <5>1. loc[k].arrived \in Nat /\ 1 \in Nat
          BY <1>0, WorkTypes
        <5>2. QED
          BY <5>1, ZoneAtType
      <4>2. QED
        BY <4>1, ImageTypes
    <3>3. R \cup {p} = P /\ R \in SUBSET DevicePlaces
      OBVIOUS
    <3>4. \A q \in R \cup {p} : Quiet(dev, q, dev.clock[k])
      BY <2>4
    <3> HIDE DEF R, p, image, P
    <3>a. e = [Access(dev, k, R, {p}) EXCEPT !.mem[p] = image]
      OBVIOUS
    <3> HIDE DEF e
    <3>5. Ran(dev, e, k, R \cup {p}, {})
      BY <1>0, <2>3, <3>2, <3>3, <3>4, <3>a, RanKernel
    <3>6. QED
      BY <3>1, <3>3, <3>5
  <2>6. P \in SUBSET DevicePlaces
    BY <2>3
  <2>7. Cleared(dev', k, "pass", s)
    BY <2>5 DEF Ran, Cleared, Awaited
  <2>8. \A c \in Nodes : Pinned(dev', c)
    <3>1. ASSUME NEW c \in Nodes, NEW x \in {InStage, OutStage, EndScalars} PROVE <<c, x>> \notin P
      BY <2>3, SlotEvents
    <3> DEFINE E == {}
    <3>2. Ran(dev, dev', k, P, E) /\ \A c \in Nodes : InEvent(c) \notin E
      BY <2>5
    <3> HIDE DEF P, E
    <3>3. QED
      BY <1>0, <2>6, <3>1, <3>2, PinnedStays
  <2>9. \A c \in Nodes : \A x \in SlotIds :
          /\ <<c, x>> \in P => c = k /\ x = s
          /\ FreeEvent(c, x) \notin {} /\ ArrivalEvent(c, x) \notin {}
    OBVIOUS
  <2>10. /\ \A x \in Queues \ {"reserve"} : SlotsOf(k)'[x] = SlotsOf(k)[x]
         /\ \A c \in Nodes \ {k} : QueuesSame(c)
    <3>1. ASSUME NEW c \in Nodes, NEW x \in Queues, c # k \/ x # "reserve"
          PROVE  SlotsOf(c)'[x] = SlotsOf(c)[x]
      BY <1>0, <3>1, QueuesStand DEF Queues
    <3>2. QED
      BY <3>1 DEF QueuesSame
  <2>11. fsm \in ZoneRecords /\ FullLambda(0) \in Lambdas /\ DtInitial \in TimeSteps
    BY FreeZoneType, LambdaTypes DEF InitialZoneType, ZoneRecords, ZoneTypes
  <2>12. /\ SlotsOf(k)["reserve"] # <<>> /\ s = Head(SlotsOf(k)["reserve"])
         /\ SlotsOf(k)'["reserve"] = Tail(SlotsOf(k)["reserve"])
    BY <1>2, <2>1, <2>2
  <2>13. Arrive(k, s, fsm, FullLambda(0), DtInitial) /\ UNCHANGED <<pc, pass>>
    BY <2>1
  <2> HIDE DEF s, fsm, P
  <2>14. QED
    BY <1>0, <2>3, <2>5, <2>6, <2>7, <2>8, <2>9, <2>10, <2>11, <2>12, <2>13, ArriveRace
<1>3. QED
  BY <1>1, <1>2

LEMMA AnnouncesMoves ==
  ASSUME TypeInv, NEW e \in Nodes
  PROVE  /\ chan[e] # <<>> /\ chan'[e] = Tail(chan[e]) =>
              /\ Announces(e) # <<>> /\ Head(Announces(e)) = Head(chan[e]).slot
              /\ Announces(e)' = Tail(Announces(e))
         /\ \A m : chan'[e] = Append(chan[e], m) /\ m \in Headers =>
              Announces(e)' = Append(Announces(e), m.slot)
<1> DEFINE s == chan[e]
           t == chan'[e]
<1>1. s \in Seq(Headers) /\ Len(s) \in Nat
  BY DEF TypeInv, LaneTypes
<1>2. Announces(e) = [q \in 1 .. Len(s) |-> s[q].slot] /\ Announces(e)' = [q \in 1 .. Len(t) |-> t[q].slot]
  BY DEF Announces
<1> DEFINE u == [q \in 1 .. Len(s) |-> s[q].slot]
           w == [q \in 1 .. Len(t) |-> t[q].slot]
<1>3. u \in Seq(SlotIds)
  <2>1. Announces(e) \in Seq(SlotIds)
    <3> DEFINE c == Consumer(e)
    <3>1. c \in Nodes /\ InEdge(c) = e
      BY EdgesAreNodes, ConsumerOfIn
    <3> HIDE DEF c
    <3>2. SlotsOf(c)["chan"] = Announces(e) /\ SlotsOf(c)["chan"] \in Seq(SlotIds)
      BY <3>1, SlotsAre
    <3>3. QED
      BY <3>2
  <2>2. QED
    BY <1>2, <2>1
<1>4. ASSUME s # <<>>, t = Tail(s)
      PROVE  u # <<>> /\ Head(u) = Head(s).slot /\ w = Tail(u)
  <2>1. /\ Len(t) = Len(s) - 1 /\ Len(s) \in Nat \ {0} /\ Head(s) = s[1]
        /\ \A q \in 1 .. Len(t) : t[q] = s[q + 1]
    BY <1>1, <1>4
  <2>2. Len(u) = Len(s)
    BY <1>1
  <2>a. u[1] = s[1].slot
    BY <2>1
  <2>5. \A q \in 1 .. Len(t) : t[q].slot = u[q + 1]
    BY <2>1
  <2>b. u \in Seq(SlotIds)
    BY <1>3
  <2> HIDE DEF u
  <2>3. u # <<>> /\ Head(u) = u[1] /\ u[1] = s[1].slot
    BY <2>1, <2>2, <2>a, <2>b
  <2> DEFINE x == Tail(u)
  <2>4. /\ x \in Seq(SlotIds) /\ Len(x) = Len(t)
        /\ \A q \in 1 .. Len(x) : x[q] = u[q + 1] /\ x[q] \in SlotIds
    BY <2>1, <2>2, <2>b, <2>3
  <2> HIDE DEF x
  <2>c. \A q \in 1 .. Len(t) : t[q].slot \in SlotIds /\ Len(t) \in Nat
    BY <2>1, <2>4, <2>5
  <2>d. w \in Seq(SlotIds) /\ Len(w) = Len(x) /\ \A q \in 1 .. Len(w) : w[q] = x[q]
    <3> DEFINE n == Len(t)
               f(q) == t[q].slot
    <3>1. n \in Nat /\ \A q \in 1 .. n : f(q) \in SlotIds /\ f(q) = x[q]
      BY <2>1, <2>4, <2>5, <2>c
    <3>2. n = Len(x)
      BY <2>4
    <3> HIDE DEF n, f
    <3>3. [q \in 1 .. n |-> f(q)] \in Seq(SlotIds) /\ Len([q \in 1 .. n |-> f(q)]) = n
      BY <3>1
    <3>4. QED
      BY <3>1, <3>2, <3>3 DEF n, f
  <2> HIDE DEF w
  <2>6. w = Tail(u)
    <3>1. w = x
      BY <2>4, <2>d, SeqEqual
    <3>2. QED
      BY <3>1 DEF x
  <2>7. QED
    BY <2>1, <2>3, <2>6
<1>5. ASSUME NEW m, m \in Headers, t = Append(s, m)
      PROVE  w = Append(u, m.slot)
  <2>1. /\ Len(t) = Len(s) + 1 /\ t[Len(s) + 1] = m /\ \A q \in 1 .. Len(s) : t[q] = s[q]
    BY <1>1, <1>5
  <2>2. Len(u) = Len(s)
    BY <1>1
  <2>3. Append(u, m.slot) = [q \in 1 .. Len(u) + 1 |-> IF q = Len(u) + 1 THEN m.slot ELSE u[q]]
    BY <1>3
  <2>4. \A q \in 1 .. Len(t) : t[q].slot = IF q = Len(u) + 1 THEN m.slot ELSE u[q]
    BY <1>1, <2>1, <2>2
  <2>5. QED
    BY <2>1, <2>2, <2>3, <2>4
<1>6. QED
  BY <1>2, <1>4, <1>5

LEMMA RecvZoneRace ==
  ASSUME BaseInv, RingInv, FitInv, RaceInv, NEW k \in Nodes, RecvZone(k)
  PROVE  RaceInv'
<1> DEFINE e == InEdge(k)
           m == Head(chan[e])
           s == m.slot
           fsm == Apply(FreeZone, "RECV")
           lam == m.lam
           dt == m.dt
           x == ArrivalEvent(k, s)
           P == {}
           E == {}
<1>0. /\ TypeInv /\ dev \in Devices /\ AwaitsArrival(k) /\ e \in Nodes /\ chan[e] # <<>>
      /\ UNCHANGED <<pass, credits, bfree, reserve>> /\ chan' = [chan EXCEPT ![e] = Tail(@)]
  BY EdgesAreNodes DEF BaseInv, TypeInv, RecvZone, poolVars
<1>1. s \in SlotIds /\ lam \in Lambdas /\ dt \in TimeSteps /\ InOrder(k, m)
  BY HeaderInOrder
<1>2. Arrive(k, s, fsm, lam, dt) /\ UNCHANGED <<pc, pass>> /\ dev' = WaitEvent(dev, k, x)
  BY <1>0, <1>1 DEF RecvZone
<1>3. fsm \in ZoneRecords
  BY FreeZoneType, ApplyType DEF ZoneEvents
<1>4. chan'[e] = Tail(chan[e]) /\ \A c \in Nodes \ {k} : chan'[InEdge(c)] = chan[InEdge(c)]
  <2>1. chan \in [Nodes -> Seq(Headers)]
    BY <1>0 DEF TypeInv, LaneTypes
  <2>2. \A c \in Nodes \ {k} : InEdge(c) \in Nodes /\ InEdge(c) # e
    BY EdgesAreNodes, ConsumerOfIn
  <2>3. QED
    BY <1>0, <2>1, <2>2
<1>5. /\ SlotsOf(k)["chan"] # <<>> /\ s = Head(SlotsOf(k)["chan"])
      /\ SlotsOf(k)'["chan"] = Tail(SlotsOf(k)["chan"])
  <2>1. SlotsOf(k)["chan"] = Announces(e) /\ SlotsOf(k)'["chan"] = Announces(e)'
    BY <1>0, SlotsAre, SlotsNext
  <2>2. QED
    BY <1>0, <1>4, <2>1, AnnouncesMoves
<1>6. <<k, s>> \in DevicePlaces /\ x \in DeviceEvents /\ Quiet(dev, <<k, s>>, dev.event[x])
  <2>1. Cleared(dev, k, "chan", s) /\ <<k, s>> \in DevicePlaces
    <3>1. "chan" \in Queues
      BY DEF Queues
    <3>2. QED
      BY <1>0, <1>5, <3>1, QueueHead
  <2>2. QED
    BY <1>1, <2>1, SlotEvents DEF Cleared, Awaited
<1>7. Ran(dev, dev', k, P, E) /\ Before(dev.event[x], dev'.clock[k])
  BY <1>0, <1>2, <1>6, RanWait
<1>8. Cleared(dev', k, "pass", s)
  <2>1. dev' \in Devices /\ dev.event[x] \in Clocks /\ dev'.clock[k] \in Clocks
    <3>1. dev' \in Devices
      BY <1>7 DEF Ran
    <3>2. QED
      BY <1>0, <1>6, <3>1, DeviceFields, ClockFacts
  <2>2. Quiet(dev, <<k, s>>, dev'.clock[k])
    BY <1>0, <1>6, <1>7, <2>1, QuietLater, SMTT(30)
  <2>3. Quiet(dev', <<k, s>>, dev'.clock[k])
    BY <1>6, <1>7, <2>2 DEF Ran, Quiet
  <2>4. QED
    BY <2>3 DEF Cleared, Awaited
<1>9. /\ P \in SUBSET DevicePlaces
      /\ \A c \in Nodes : \A y \in SlotIds :
           /\ <<c, y>> \in P => c = k /\ y = s
           /\ FreeEvent(c, y) \notin E /\ ArrivalEvent(c, y) \notin E
  OBVIOUS
<1>10. \A c \in Nodes : Pinned(dev', c)
  <2>1. \A c \in Nodes : \A y : <<c, y>> \notin P /\ InEvent(c) \notin E
    OBVIOUS
  <2> HIDE DEF P, E
  <2>2. QED
    BY <1>0, <1>7, <1>9, <2>1, PinnedStays
<1>11. /\ \A y \in Queues \ {"chan"} : SlotsOf(k)'[y] = SlotsOf(k)[y]
       /\ \A c \in Nodes \ {k} : QueuesSame(c)
  <2>1. ASSUME NEW c \in Nodes, NEW y \in Queues, c # k \/ y # "chan"
        PROVE  SlotsOf(c)'[y] = SlotsOf(c)[y]
    BY <1>0, <1>4, <2>1, QueuesStand DEF Queues
  <2>2. QED
    BY <2>1 DEF QueuesSame
<1>12. Arrive(k, s, fsm, lam, dt) /\ UNCHANGED <<pc, pass>>
  BY <1>2
<1> HIDE DEF e, m, s, fsm, lam, dt, x, P, E
<1>13. QED
  BY <1>0, <1>1, <1>3, <1>5, <1>7, <1>8, <1>9, <1>10, <1>11, <1>12, ArriveRace

LEMMA RecvBoundaryRace ==
  ASSUME BaseInv, RingInv, FitInv, RaceInv, NEW k \in Nodes, RecvBoundary(k)
  PROVE  RaceInv'
<1> DEFINE m == Head(link[k])
           s == Head(bfree[k])
           fsm == Apply(FreeZone, "RECV")
           lam == m.lam
           dt == m.dt
           P == {<<k, InStage>>, <<k, s>>}
           E == {InEvent(k)}
<1>0. /\ TypeInv /\ dev \in Devices /\ AwaitsArrival(k)
      /\ UNCHANGED <<pass, chan, credits, reserve>>
  BY DEF BaseInv, TypeInv, RecvBoundary, laneVars
<1>1. m \in WireMessages /\ lam \in Lambdas /\ dt \in TimeSteps /\ InOrder(k, m) /\ RankOf(k) = k
  BY MessageInOrder
<1>2. CASE bfree[k] = <<>>
  <2>1. SetHalt(k, "Logic") /\ UNCHANGED <<loc, bfree, dev>>
    BY <1>2 DEF RecvBoundary
  <2>2. QED
    BY <1>0, <2>1, RaceHalts
<1>3. CASE bfree[k] # <<>>
  <2>1. /\ Arrive(k, s, fsm, lam, dt) /\ UNCHANGED <<pc, pass>>
        /\ bfree' = [bfree EXCEPT ![k] = Tail(@)]
        /\ dev' = Unstage(Stage(k, m), k, s)
    BY <1>0, <1>1, <1>3 DEF RecvBoundary
  <2>2. /\ bfree'[k] = Tail(bfree[k]) /\ \A c \in Nodes \ {k} : bfree'[c] = bfree[c]
    BY <1>0, <2>1 DEF TypeInv, PoolTypes
  <2>3. /\ SlotsOf(k)["free"] # <<>> /\ s = Head(SlotsOf(k)["free"])
        /\ SlotsOf(k)'["free"] = Tail(SlotsOf(k)["free"])
    <3>1. SlotsOf(k)["free"] = bfree[k] /\ SlotsOf(k)'["free"] = bfree'[k]
      BY <1>0, SlotsAre, SlotsNext
    <3>2. QED
      BY <1>3, <2>2, <3>1
  <2>4. s \in SlotIds /\ <<k, s>> \in DevicePlaces /\ Quiet(dev, <<k, s>>, dev.clock[k])
    <3>1. "free" \in Queues
      BY DEF Queues
    <3>2. s \in SlotIds /\ <<k, s>> \in DevicePlaces /\ Cleared(dev, k, "free", s)
      BY <1>0, <2>3, <3>1, QueueHead
    <3>3. QED
      BY <3>2 DEF Cleared, Awaited
  <2>5. Ran(dev, dev', k, P, E) /\ Pinned(dev', k)
    <3>1. Pinned(dev, k)
      BY DEF RaceInv
    <3> HIDE DEF m, s
    <3>2. QED
      BY <1>0, <1>1, <2>1, <2>4, <3>1, UnstageRuns
  <2>6. P \in SUBSET DevicePlaces
    BY <2>4, SlotEvents
  <2>7. Cleared(dev', k, "pass", s)
    BY <2>5 DEF Ran, Cleared, Awaited
  <2>8. \A c \in Nodes : Pinned(dev', c)
    <3>1. ASSUME NEW c \in Nodes, c # k PROVE Pinned(dev', c)
      <4>1. \A x : <<c, x>> \notin P
        BY <3>1
      <4>2. InEvent(c) \notin E
        BY <3>1 DEF InEvent
      <4> HIDE DEF P, E
      <4>3. QED
        BY <1>0, <2>5, <2>6, <4>1, <4>2, PinnedStays
    <3>2. QED
      BY <2>5, <3>1
  <2>9. \A c \in Nodes : \A x \in SlotIds :
          /\ <<c, x>> \in P => c = k /\ x = s
          /\ FreeEvent(c, x) \notin E /\ ArrivalEvent(c, x) \notin E
    BY SlotEvents DEF FreeEvent, ArrivalEvent, InEvent
  <2>10. /\ \A x \in Queues \ {"free"} : SlotsOf(k)'[x] = SlotsOf(k)[x]
         /\ \A c \in Nodes \ {k} : QueuesSame(c)
    <3>1. ASSUME NEW c \in Nodes, NEW x \in Queues, c # k \/ x # "free"
          PROVE  SlotsOf(c)'[x] = SlotsOf(c)[x]
      BY <1>0, <2>2, <3>1, QueuesStand DEF Queues
    <3>2. QED
      BY <3>1 DEF QueuesSame
  <2>11. fsm \in ZoneRecords
    BY FreeZoneType, ApplyType DEF ZoneEvents
  <2>12. Arrive(k, s, fsm, lam, dt) /\ UNCHANGED <<pc, pass>> /\ lam \in Lambdas /\ dt \in TimeSteps
    BY <1>1, <2>1
  <2> HIDE DEF m, s, fsm, lam, dt, P, E
  <2>13. QED
    BY <1>0, <2>3, <2>4, <2>5, <2>6, <2>7, <2>8, <2>9, <2>10, <2>11, <2>12, ArriveRace
<1>4. QED
  BY <1>2, <1>3

-----------------------------------------------------------------------------
(* Departures: the slot a zone left.                                         *)

LEMMA FreedRuns ==
  ASSUME NEW k \in Nodes, NEW d, NEW lane, NEW P \in SUBSET DevicePlaces, NEW E,
         dev \in Devices, Ran(dev, d, k, P, E), Outgoing(k).dev \in SlotIds,
         FreeSource(k, d, lane)
  PROVE  LET x == FreeEvent(k, Outgoing(k).dev)
         IN  /\ Ran(dev, dev', k, P, E \cup {x})
             /\ dev'.mem = d.mem /\ dev'.clock = d.clock
             /\ dev'.writes = d.writes /\ dev'.reads = d.reads
             /\ \A y \in DeviceEvents : y # x => dev'.event[y] = d.event[y]
             /\ dev' = d \/ dev'.event[x] = d.clock[k]
<1> DEFINE s == Outgoing(k).dev
           x == FreeEvent(k, s)
           F == {x}
<1>1. d \in Devices /\ x \in DeviceEvents
  <2>1. s \in SlotIds
    OBVIOUS
  <2> HIDE DEF s
  <2>2. QED
    BY <2>1, SlotEvents DEF Ran
<1>2. dev' = d \/ dev' = Record(d, k, x)
  BY DEF FreeSource
<1> HIDE DEF x
<1>3. ASSUME NEW e, e = Record(d, k, x)
      PROVE  /\ Ran(dev, e, k, P, E \cup {x}) /\ e.mem = d.mem /\ e.clock = d.clock
             /\ e.writes = d.writes /\ e.reads = d.reads
             /\ \A y \in DeviceEvents : y # x => e.event[y] = d.event[y]
             /\ e.event[x] = d.clock[k]
  <2>1. /\ Ran(d, e, k, {}, F) /\ e.mem = d.mem /\ e.clock = d.clock
        /\ e.writes = d.writes /\ e.reads = d.reads /\ e.event[x] = d.clock[k]
    BY <1>1, <1>3, RanRecord
  <2>2. \A y \in DeviceEvents : y # x => e.event[y] = d.event[y]
    BY <2>1 DEF Ran
  <2> DEFINE Q == {}
  <2>3. Q \in SUBSET DevicePlaces /\ Ran(d, e, k, Q, F)
    BY <2>1
  <2> HIDE DEF Q, F
  <2>4. Ran(dev, e, k, P \cup Q, E \cup F)
    BY <2>3, RanTrans
  <2>5. P \cup Q = P /\ E \cup F = E \cup {x}
    BY DEF Q, F
  <2>6. QED
    BY <2>1, <2>2, <2>4, <2>5
<1>4. Ran(dev, d, k, P, E \cup {x})
  BY DEF Ran
<1>5. QED
  <2>1. CASE dev' = d
    BY <1>4, <2>1 DEF x
  <2>2. CASE dev' = Record(d, k, x)
    BY <1>3, <2>2 DEF x
  <2>3. QED
    BY <1>2, <2>1, <2>2

\* The zone that leaves node k gives its slot back.
LEMMA SourceGiven ==
  ASSUME BaseInv, RaceInv, NEW k \in Nodes, Flushing(k), loc[k].outq # <<>>, loc[k].dst = NoSlot,
         NEW d, NEW lane \in [Nodes -> Seq(SlotIds)], NEW P \in SUBSET DevicePlaces, NEW E,
         Ran(dev, d, k, P, E), FreeSource(k, d, lane),
         lane[InEdge(k)] = credits[InEdge(k)], Quiet(d, SourceOf(k), d.clock[k]),
         InHand(k)' = InHand(k) \ {Head(loc[k].outq)},
         \A j \in InHand(k)' : loc'[k].slot[j].dev = loc[k].slot[j].dev,
         SlotsOf(k)'["chan"] = SlotsOf(k)["chan"], SlotsOf(k)'["copy"] = SlotsOf(k)["copy"],
         \A x \in SlotIds : x # Outgoing(k).dev =>
           /\ <<k, x>> \in P => <<k, x>> \in HandPlaces(k)
           /\ FreeEvent(k, x) \notin E /\ ArrivalEvent(k, x) \notin E
  PROVE  Holds(dev', k, SlotsOf(k)')
<1> DEFINE j == Head(loc[k].outq)
           s == Outgoing(k).dev
           x == FreeEvent(k, s)
           F == E \cup {x}
           v == SlotsOf(k)
           w == SlotsOf(k)'
<1>0. TypeInv /\ FlowInv /\ dev \in Devices /\ d \in Devices /\ InEdge(k) \in Nodes
  BY EdgesAreNodes DEF BaseInv, TypeInv, Ran
<1>1. /\ s \in SlotIds /\ j \in InHand(k) /\ j \in DOMAIN v["pass"] /\ v["pass"][j] = s
      /\ <<k, s>> \in DevicePlaces /\ SourceOf(k) = <<k, s>>
  BY <1>0, HeadWaits DEF SourceOf
<1>2. /\ Ran(dev, dev', k, P, F)
      /\ dev'.clock = d.clock /\ dev'.writes = d.writes /\ dev'.reads = d.reads
      /\ dev' = d \/ dev'.event[x] = d.clock[k]
  BY <1>0, <1>1, FreedRuns
<1>3. Quiet(dev', <<k, s>>, dev'.clock[k])
  BY <1>1, <1>2 DEF Quiet
<1>4. Holds(dev, k, v) /\ Slotted(v)
  BY <1>0, SlotsAre DEF RaceInv, Slotted
<1>5. Apart(k, v, k, P, F, s)
  <2>1. \A y \in SlotIds : y # s => /\ <<k, y>> \in P => <<k, y>> \in HandPlaces(k)
                                    /\ FreeEvent(k, y) \notin F /\ ArrivalEvent(k, y) \notin F
    BY DEF FreeEvent, ArrivalEvent
  <2> HIDE DEF F, s
  <2>2. QED
    BY <1>0, <2>1, HandsApart
<1>6. /\ DOMAIN w["pass"] = DOMAIN v["pass"] \ {j} /\ \A q \in DOMAIN w["pass"] : w["pass"][q] = v["pass"][q]
  <2>1. /\ w["pass"] = [i \in InHand(k)' |-> loc'[k].slot[i].dev]
        /\ v["pass"] = [i \in InHand(k) |-> loc[k].slot[i].dev]
    BY <1>0, SlotsAre, SlotsNext
  <2>2. QED
    BY <2>1
<1>7. w["chan"] = v["chan"] /\ w["copy"] = v["copy"]
  OBVIOUS
<1>8. /\ v["credit"] = credits[InEdge(k)] /\ v["free"] = bfree[k]
      /\ v["reserve"] = IF k = 0 THEN reserve ELSE <<>>
      /\ \A a \in Queues : v[a] \in Seq(SlotIds)
  BY <1>0, SlotsAre DEF Queues
<1>9. /\ w["credit"] = credits'[InEdge(k)] /\ w["free"] = bfree'[k]
      /\ w["reserve"] = IF k = 0 THEN reserve' ELSE <<>>
  BY SlotsNext
<1>10. ASSUME NEW b \in Queues, w[b] = Append(v[b], s), Cleared(dev', k, b, s),
              \A y \in Queues \ {b, "chan"} : w[y] = v[y]
       PROVE  Holds(dev', k, w)
  <2>1. Giving(v, w, "pass", b, j, s)
    <3>1. \A y \in Kinds : y \notin {"pass", b} => w[y] = v[y]
      BY <1>7, <1>10 DEF Queues, Kinds
    <3>2. v[b] \in Seq(SlotIds)
      BY <1>8
    <3> HIDE DEF v, w, j, s
    <3>3. QED
      BY <1>1, <1>6, <1>10, <3>1, <3>2 DEF Giving
  <2> HIDE DEF v, w, j, s, F
  <2>2. QED
    BY <1>0, <1>2, <1>4, <1>5, <1>10, <2>1, HoldsGiven
<1>11. CASE pass[k] = 1 \/ SelfLoop
  <2>1. k = 0
    BY <1>0, <1>11, FirstPassIsHeads, SelfLoopNodes
  <2>2. reserve' = Append(reserve, s) /\ credits' = lane /\ UNCHANGED bfree
    BY <1>11 DEF FreeSource
  <2>3. Cleared(dev', k, "reserve", s)
    BY <1>3 DEF Cleared, Awaited
  <2>4. w["reserve"] = Append(v["reserve"], s) /\ \A y \in Queues \ {"reserve", "chan"} : w[y] = v[y]
    BY <1>8, <1>9, <2>1, <2>2 DEF Queues
  <2>5. QED
    BY <1>10, <2>3, <2>4 DEF Queues
<1>12. CASE ~(pass[k] = 1 \/ SelfLoop) /\ BoundaryIn(k)
  <2>1. /\ bfree' = [bfree EXCEPT ![k] = Append(@, s)] /\ credits' = lane /\ UNCHANGED reserve
    BY <1>12 DEF FreeSource
  <2>2. Cleared(dev', k, "free", s)
    BY <1>3 DEF Cleared, Awaited
  <2>3. bfree'[k] = Append(bfree[k], s)
    BY <1>0, <2>1 DEF TypeInv, PoolTypes
  <2>4. w["free"] = Append(v["free"], s) /\ \A y \in Queues \ {"free", "chan"} : w[y] = v[y]
    BY <1>8, <1>9, <2>1, <2>3 DEF Queues
  <2>5. QED
    BY <1>10, <2>2, <2>4 DEF Queues
<1>13. CASE ~(pass[k] = 1 \/ SelfLoop) /\ ~BoundaryIn(k)
  <2>1. /\ credits' = GiveCredit(lane, k, s) /\ dev' = Record(d, k, x) /\ UNCHANGED <<bfree, reserve>>
    BY <1>13 DEF FreeSource, poolVars
  <2>2. CASE EdgeDown(InEdge(k))
    <3>1. credits' = lane
      BY <2>1, <2>2 DEF GiveCredit
    <3>2. \A y \in Queues : w[y] = v[y]
      BY <1>7, <1>8, <1>9, <2>1, <3>1 DEF Queues
    <3>3. Shrunk(w, v)
      BY <1>6, <1>7, <3>2 DEF Shrunk, Kinds, Queues
    <3> HIDE DEF v, w, j, s, F
    <3>4. Absent(w, s)
      <4>1. OneHolder(v) /\ "pass" \in Kinds /\ j \notin DOMAIN w["pass"]
        BY <1>4, <1>6 DEF Holds, Kinds
      <4>2. \A a \in Kinds : \A q \in DOMAIN v[a] : q \notin DOMAIN w[a] => Absent(w, v[a][q])
        BY <3>3, <4>1, HolderLess DEF Shrunk
      <4>3. QED
        BY <1>1, <4>1, <4>2
    <3>5. \A a \in Kinds : \A q \in DOMAIN w[a] : w[a][q] # s
      BY <3>4 DEF Absent
    <3> DEFINE e == dev'
    <3>6. /\ Ran(dev, e, k, P, F) /\ Holds(dev, k, v) /\ Slotted(v) /\ Apart(k, v, k, P, F, s)
          /\ dev \in Devices
      BY <1>0, <1>2, <1>4, <1>5
    <3> HIDE DEF e
    <3>7. Holds(e, k, w)
      BY <3>3, <3>5, <3>6, HoldsFewer
    <3>8. QED
      BY <3>7 DEF e, w
  <2>3. CASE ~EdgeDown(InEdge(k))
    <3>1. credits'[InEdge(k)] = Append(credits[InEdge(k)], s)
      BY <1>0, <2>1, <2>3 DEF GiveCredit
    <3>2. Cleared(dev', k, "credit", s)
      <4>1. dev'.event[x] = d.clock[k]
        BY <1>0, <1>1, <2>1, SlotEvents, RanRecord, ZenonT(40)
      <4>2. Quiet(dev', <<k, s>>, dev'.event[x])
        BY <1>2, <1>3, <4>1
      <4>3. QED
        BY <4>2 DEF Cleared, Awaited
    <3>3. w["credit"] = Append(v["credit"], s) /\ \A y \in Queues \ {"credit", "chan"} : w[y] = v[y]
      BY <1>8, <1>9, <2>1, <3>1 DEF Queues
    <3>4. QED
      BY <1>10, <3>2, <3>3 DEF Queues
  <2>4. QED
    BY <2>2, <2>3
<1>14. QED
  BY <1>11, <1>12, <1>13

LEMMA FreedQueues ==
  ASSUME BaseInv, NEW k \in Nodes, NEW d, NEW lane \in [Nodes -> Seq(SlotIds)],
         FreeSource(k, d, lane), NEW c \in Nodes \ {k}
  PROVE  /\ credits'[InEdge(c)] = lane[InEdge(c)] /\ bfree'[c] = bfree[c]
         /\ c # 0 \/ reserve' = reserve
<1>0. TypeInv /\ FlowInv /\ bfree \in [Nodes -> Seq(SlotIds)]
  BY DEF BaseInv, TypeInv, PoolTypes
<1>1. InEdge(c) \in Nodes /\ InEdge(c) # InEdge(k)
  BY EdgesAreNodes, ConsumerOfIn
<1>2. pass[k] = 1 \/ SelfLoop => c # 0
  BY <1>0, FirstPassIsHeads, SelfLoopNodes
<1>3. credits' = lane \/ credits' = GiveCredit(lane, k, Outgoing(k).dev)
  BY DEF FreeSource
<1>4. credits'[InEdge(c)] = lane[InEdge(c)]
  BY <1>1, <1>3 DEF GiveCredit
<1>5. bfree' = bfree \/ bfree' = [bfree EXCEPT ![k] = Append(@, Outgoing(k).dev)]
  BY DEF FreeSource, poolVars
<1>6. reserve' = reserve \/ pass[k] = 1 \/ SelfLoop
  BY DEF FreeSource, poolVars
<1>7. QED
  BY <1>0, <1>2, <1>4, <1>5, <1>6

\* The zone leaves the ring, or the rank.
LEMMA LeavesRace ==
  ASSUME BaseInv, RaceInv, NEW k \in Nodes, Flushing(k), loc[k].outq # <<>>, loc[k].dst = NoSlot,
         UNCHANGED <<pc, chan>>, \A n \in Nodes \ {k} : loc'[n] = loc[n],
         loc'[k].outq = Tail(loc[k].outq), loc'[k].ended = loc[k].ended,
         loc'[k].arrived = loc[k].arrived, loc'[k].dst = NoSlot,
         \A i \in Zones : loc'[k].slot[i].dev = loc[k].slot[i].dev,
         NEW d, NEW P, Ran(dev, d, k, P, {}), P \subseteq HandPlaces(k), <<k, InStage>> \notin P,
         FreeSource(k, d, credits), Quiet(d, SourceOf(k), d.clock[k])
  PROVE  RaceInv'
<1> DEFINE s == Outgoing(k).dev
           F == {FreeEvent(k, s)}
           lane == credits
<1>0. /\ TypeInv /\ dev \in Devices /\ P \in SUBSET DevicePlaces /\ pc[k] \in AtWork
      /\ pc'[k] \in AtWork /\ lane \in [Nodes -> Seq(SlotIds)] /\ s \in SlotIds
  <2>1. TypeInv
    BY DEF BaseInv
  <2>2. pc[k] \in AtWork /\ s \in SlotIds
    BY <2>1, HeadWaits
  <2>3. HandPlaces(k) \subseteq DevicePlaces
    BY <2>1, HandsQuiet
  <2>4. QED
    BY <2>1, <2>2, <2>3 DEF TypeInv, LaneTypes
<1>1. /\ HandsFewer(k) /\ InHand(k)' = InHand(k) \ {Head(loc[k].outq)} /\ Copied(k)' = {}
  BY <1>0, HeadLeaves
<1>2. Copied(k) = {} /\ CopySame(k)
  BY <1>1 DEF Copied, CopySame
<1>3. \A c \in Nodes \ {k} : HandsFewer(c) /\ CopySame(c)
  BY WorkSame DEF CopySame, Copied
<1>4. Ran(dev, dev', k, P, F)
  <2> DEFINE E == {}
             x == FreeEvent(k, s)
  <2>1. Ran(dev, d, k, P, E) /\ E \cup {x} = F
    OBVIOUS
  <2>2. FreeSource(k, d, lane)
    OBVIOUS
  <2> HIDE DEF E, F, lane
  <2>3. Ran(dev, dev', k, P, E \cup {x})
    BY <1>0, <2>1, <2>2, FreedRuns
  <2>4. QED
    BY <2>1, <2>3
<1>5. Holds(dev', k, SlotsOf(k)')
  <2> DEFINE E == {}
  <2>1. /\ Ran(dev, d, k, P, E) /\ FreeSource(k, d, lane) /\ lane[InEdge(k)] = credits[InEdge(k)]
        /\ \A x \in SlotIds : x # s =>
             /\ <<k, x>> \in P => <<k, x>> \in HandPlaces(k)
             /\ FreeEvent(k, x) \notin E /\ ArrivalEvent(k, x) \notin E
    OBVIOUS
  <2>2. \A j \in InHand(k)' : loc'[k].slot[j].dev = loc[k].slot[j].dev
    BY <1>1 DEF HandsFewer
  <2>3. SlotsOf(k)'["chan"] = SlotsOf(k)["chan"]
    BY <1>0, QueuesStand
  <2>4. SlotsOf(k)'["copy"] = SlotsOf(k)["copy"]
    <3>1. CopySame(InEdge(k))
      BY <1>2, <1>3, EdgesAreNodes
    <3>2. QED
      BY <1>0, <3>1, KindsKept
  <2> HIDE DEF E, lane, s, F
  <2>5. QED
    BY <1>0, <1>1, <2>1, <2>2, <2>3, <2>4, SourceGiven DEF s
<1>6. ASSUME NEW c \in Nodes \ {k} PROVE Holds(dev', c, SlotsOf(c)')
  <2>1. FreeSource(k, d, lane)
    OBVIOUS
  <2>2. QueuesSame(c)
    <3>1. /\ credits'[InEdge(c)] = lane[InEdge(c)] /\ bfree'[c] = bfree[c]
          /\ c # 0 \/ reserve' = reserve
      <4> HIDE DEF lane
      <4>1. QED
        BY <1>0, <2>1, FreedQueues
    <3>2. /\ SlotsOf(c)'["credit"] = SlotsOf(c)["credit"] /\ SlotsOf(c)'["free"] = SlotsOf(c)["free"]
          /\ SlotsOf(c)'["reserve"] = SlotsOf(c)["reserve"] /\ SlotsOf(c)'["chan"] = SlotsOf(c)["chan"]
      BY <1>0, <3>1, QueuesStand
    <3>3. QED
      BY <3>2 DEF QueuesSame, Queues
  <2>3. Shrunk(SlotsOf(c)', SlotsOf(c))
    <3>1. InEdge(c) \in Nodes
      BY EdgesAreNodes
    <3>2. QED
      BY <1>0, <1>1, <1>3, <2>2, <3>1, QueuesKept
  <2>4. \A x \in SlotIds :
          /\ <<c, x>> \in P => <<c, x>> \in HandPlaces(k)
          /\ FreeEvent(c, x) \notin F /\ ArrivalEvent(c, x) \notin F
    BY DEF FreeEvent, ArrivalEvent
  <2> HIDE DEF F
  <2>5. QED
    BY <1>0, <1>4, <2>3, <2>4, OtherHolds
<1>7. ASSUME NEW c \in Nodes PROVE Pinned(dev', c)
  <2>1. <<c, InStage>> \notin P
    BY DEF HandPlaces
  <2>2. c = k \/ (<<c, OutStage>> \notin P /\ <<c, EndScalars>> \notin P)
    BY DEF HandPlaces
  <2>3. InEvent(c) \notin F
    BY DEF InEvent, FreeEvent
  <2> HIDE DEF F
  <2>4. QED
    BY <1>0, <1>4, <2>1, <2>2, <2>3, PinnedStays
<1>8. ~dev'.raced /\ \A c \in Nodes : WaitsOnce(c)'
  BY <1>1, <1>3, <1>4 DEF Ran, RaceInv, HandsFewer
<1>9. QED
  BY <1>5, <1>6, <1>7, <1>8 DEF RaceInv

LEMMA CollectRace ==
  ASSUME BaseInv, FitInv, RaceInv, NEW k \in Nodes, CollectZone(k)
  PROVE  RaceInv'
<1> DEFINE q == SourceOf(k)
           P == {q}
           d == StreamSync(Reading(dev, k, {q}), k)
<1>0. /\ TypeInv /\ dev \in Devices /\ Flushing(k) /\ loc[k].outq # <<>> /\ pass[k] = Steps
      /\ UNCHANGED <<pc, chan>> /\ loc' = [loc EXCEPT ![k].outq = Tail(@)]
      /\ FreeSource(k, d, credits) /\ pc[k] \in AtWork
  BY HeadWaits DEF CollectZone, BaseInv, TypeInv
<1>1. loc[k].dst = NoSlot
  BY <1>0, FitOf DEF Sending
<1>2. /\ \A n \in Nodes \ {k} : loc'[n] = loc[n]
      /\ loc'[k].outq = Tail(loc[k].outq)
      /\ loc'[k].ended = loc[k].ended /\ loc'[k].arrived = loc[k].arrived
      /\ loc'[k].dst = loc[k].dst /\ loc'[k].slot = loc[k].slot
  <2>1. loc[k] \in PassStates /\ loc \in [Nodes -> PassStates]
    BY <1>0, WorkTypes DEF TypeInv, NodeTypes
  <2>2. loc'[k] = [loc[k] EXCEPT !.outq = Tail(@)] /\ \A n \in Nodes \ {k} : loc'[n] = loc[n]
    BY <1>0, <2>1
  <2>3. QED
    BY <2>1, <2>2 DEF PassStates
<1>3. q \in DevicePlaces /\ q \in HandPlaces(k) /\ Quiet(dev, q, dev.clock[k]) /\ q # <<k, InStage>>
  <2>1. Outgoing(k).dev \in SlotIds
    BY <1>0, HeadWaits
  <2>2. q # <<k, InStage>>
    BY <2>1, SlotEvents DEF SourceOf
  <2>3. QED
    BY <1>0, <1>1, <2>2, HeadWaits
<1>4. Ran(dev, d, k, P, {}) /\ Quiet(d, q, d.clock[k])
  <2> HIDE DEF q
  <2>1. Ran(dev, d, k, P, {})
    BY <1>0, <1>3, CollectRuns
  <2>2. QED
    BY <2>1 DEF Ran
<1>5. P \subseteq HandPlaces(k) /\ <<k, InStage>> \notin P
  BY <1>3
<1>6. \A i \in Zones : loc'[k].slot[i].dev = loc[k].slot[i].dev
  BY <1>2
<1> HIDE DEF P, d
<1>7. QED
  BY <1>0, <1>1, <1>2, <1>4, <1>5, <1>6, LeavesRace

LEMMA SentPlaces ==
  ASSUME TypeInv, NEW k \in Nodes, loc[k].outq # <<>>,
         loc' = [loc EXCEPT ![k] = SentPass(ReadyToSend(loc[k]))]
  PROVE  \A i \in Zones : loc'[k].slot[i].dev = loc[k].slot[i].dev
<1> DEFINE p == ReadyToSend(loc[k])
           j == Head(p.outq)
           fsm == Apply(p.slot[j].fsm, "SEND")
<1>1. loc[k] \in PassStates /\ loc \in [Nodes -> PassStates]
  BY WorkTypes DEF TypeInv, NodeTypes
<1>2. loc'[k] = SentPass(p)
  BY <1>1
<1>3. p.slot = loc[k].slot /\ p.outq = loc[k].outq /\ p.slot \in [Zones -> PassSlots]
  BY <1>1 DEF ReadyToSend, Synced, PassStates
<1>4. DOMAIN p = DOMAIN loc[k]
  BY <1>1 DEF ReadyToSend, Synced, PassStates
<1>5. SentPass(p).slot = [p.slot EXCEPT ![j].fsm = fsm]
  BY <1>1, <1>4 DEF SentPass, PassStates
<1> HIDE DEF p, fsm, j
<1>6. \A i \in Zones : [p.slot EXCEPT ![j].fsm = fsm][i].dev = p.slot[i].dev
  BY <1>3 DEF PassSlots
<1>7. QED
  BY <1>2, <1>3, <1>5, <1>6, ZenonT(40)

LEMMA SendBoundaryRace ==
  ASSUME BaseInv, FitInv, RaceInv, NEW k \in Nodes, SendBoundary(k)
  PROVE  RaceInv'
<1> DEFINE q == SourceOf(k)
           P == {q, <<k, OutStage>>}
           d == OutStaged(k)
<1>0. /\ TypeInv /\ dev \in Devices /\ Flushing(k) /\ loc[k].outq # <<>> /\ Sending(k)
      /\ UNCHANGED chan /\ BoundaryOut(k) /\ pc[k] \in AtWork
  BY HeadWaits DEF SendBoundary, Sending, BaseInv, TypeInv
<1>1. CASE ~Allowed(Outgoing(k).fsm.type, "SEND")
  <2>1. SetHalt(k, "Logic") /\ UNCHANGED <<loc, dev, credits, bfree, reserve>>
    BY <1>1 DEF SendBoundary, poolVars
  <2>2. QED
    BY <1>0, <2>1, RaceHalts
<1>2. CASE Allowed(Outgoing(k).fsm.type, "SEND")
  <2>1. /\ FreeSource(k, d, credits) /\ UNCHANGED <<pc, pass>>
        /\ loc' = [loc EXCEPT ![k] = SentPass(ReadyToSend(loc[k]))]
    BY <1>2 DEF SendBoundary
  <2>2. loc[k].dst = NoSlot
    BY <1>0, FitOf
  <2>3. /\ \A n \in Nodes \ {k} : loc'[n] = loc[n]
        /\ loc'[k].outq = Tail(loc[k].outq) /\ loc'[k].ended = loc[k].ended
        /\ loc'[k].arrived = loc[k].arrived /\ loc'[k].dst = NoSlot
    BY <1>0, <2>1, SentStep
  <2>4. \A i \in Zones : loc'[k].slot[i].dev = loc[k].slot[i].dev
    BY <1>0, <2>1, SentPlaces
  <2>5. q \in DevicePlaces /\ q \in HandPlaces(k) /\ Quiet(dev, q, dev.clock[k]) /\ q # <<k, InStage>>
    <3>1. Outgoing(k).dev \in SlotIds
      BY <1>0, HeadWaits
    <3>2. q # <<k, InStage>>
      BY <3>1, SlotEvents DEF SourceOf
    <3>3. QED
      BY <1>0, <2>2, <3>2, HeadWaits
  <2>6. Ran(dev, d, k, P, {}) /\ Quiet(d, q, d.clock[k])
    <3>1. Ran(dev, d, k, P, {})
      BY <1>0, <2>5, OutStagedRuns
    <3>2. QED
      BY <3>1 DEF Ran
  <2>7. P \subseteq HandPlaces(k) /\ <<k, InStage>> \notin P
    BY <2>5 DEF HandPlaces, InStage, OutStage
  <2> HIDE DEF P, d
  <2>8. QED
    BY <1>0, <2>1, <2>2, <2>3, <2>4, <2>6, <2>7, LeavesRace
<1>3. QED
  BY <1>1, <1>2

\* Stream k stands or waits: no place is accessed, no event recorded.
LEMMA IdleHolds ==
  ASSUME TypeInv, RaceInv, NEW k \in Nodes, Ran(dev, dev', k, {}, {})
  PROVE  /\ ~dev'.raced /\ \A c \in Nodes : Pinned(dev', c)
         /\ \A c \in Nodes : Shrunk(SlotsOf(c)', SlotsOf(c)) => Holds(dev', c, SlotsOf(c)')
         /\ \A c \in Nodes, a \in Kinds, s \in SlotIds :
              Cleared(dev, c, a, s) => Cleared(dev', c, a, s)
         /\ \A c \in Nodes : \A v, s : Apart(c, v, k, {}, {}, s)
<1> DEFINE P == {}
           E == {}
<1>1. P \in SUBSET DevicePlaces /\ Ran(dev, dev', k, P, E) /\ dev \in Devices
  BY DEF TypeInv
<1>2. \A c \in Nodes : \A x : <<c, x>> \notin P /\ FreeEvent(c, x) \notin E /\ ArrivalEvent(c, x) \notin E
                              /\ InEvent(c) \notin E
  OBVIOUS
<1>3. \A c \in Nodes : \A v, s : Apart(c, v, k, P, E, s)
  BY DEF Apart, Spared
<1> HIDE DEF P, E
<1>4. \A c \in Nodes : Pinned(dev', c)
  BY <1>1, <1>2, PinnedStays
<1>5. \A c \in Nodes : Shrunk(SlotsOf(c)', SlotsOf(c)) => Holds(dev', c, SlotsOf(c)')
  BY <1>1, <1>2, OtherHolds
<1>6. ASSUME NEW c \in Nodes, NEW a \in Kinds, NEW s \in SlotIds, Cleared(dev, c, a, s)
      PROVE  Cleared(dev', c, a, s)
  <2>1. Spared(c, s, P, E)
    BY <1>2 DEF Spared
  <2>2. QED
    BY <1>1, <1>6, <2>1, ClearedStays
<1>7. ~dev'.raced
  BY DEF Ran, RaceInv
<1>8. QED
  BY <1>3, <1>4, <1>5, <1>6, <1>7 DEF P, E

\* The slot of a copy is announced to the consumer.
LEMMA AnnounceRace ==
  ASSUME NEW k \in Nodes, NEW c \in Nodes, InEdge(c) = k, NEW m \in Headers,
         TypeInv, RaceInv, Ran(dev, dev', k, {}, {}),
         UNCHANGED <<credits, bfree, reserve>>, Copied(k) = {1}, Copied(k)' = {},
         m.slot = loc[k].dst, chan'[k] = Append(chan[k], m), HandSame(c)
  PROVE  Holds(dev', c, SlotsOf(c)')
<1> DEFINE v == SlotsOf(c)
           w == SlotsOf(c)'
           s == loc[k].dst
<1>1. c \in Nodes /\ InEdge(c) = k
  OBVIOUS
<1>2. /\ v["copy"] = [q \in {1} |-> s] /\ v["chan"] = Announces(k) /\ v["chan"] \in Seq(SlotIds)
      /\ Slotted(v)
  <2>1. /\ v["copy"] = [q \in Copied(InEdge(c)) |-> loc[InEdge(c)].dst]
        /\ v["chan"] = Announces(InEdge(c)) /\ v["chan"] \in Seq(SlotIds)
    BY SlotsAre
  <2>2. \A a \in Kinds : \A q \in DOMAIN v[a] : v[a][q] \in SlotIds
    BY SlotsAre
  <2>3. Slotted(v)
    BY <2>2 DEF Slotted
  <2>4. QED
    BY <1>1, <2>1, <2>3
<1>3. w["copy"] = [q \in {} |-> loc'[k].dst] /\ w["chan"] = Announces(k)'
  BY <1>1, SlotsNext, Zenon
<1>4. w["chan"] = Append(v["chan"], s)
  BY <1>2, <1>3, AnnouncesMoves
<1>5. \A x \in Kinds : x \notin {"copy", "chan"} => w[x] = v[x]
  <2>1. w["pass"] = v["pass"]
    BY <1>1, KindsKept
  <2>2. w["credit"] = v["credit"] /\ w["free"] = v["free"] /\ w["reserve"] = v["reserve"]
    BY <1>1, QueuesStand
  <2>3. QED
    BY <2>1, <2>2 DEF Kinds
<1>6. 1 \in DOMAIN v["copy"] /\ v["copy"][1] = s /\ s \in SlotIds
  BY <1>2 DEF Slotted, Kinds
<1>7. DOMAIN w["copy"] = DOMAIN v["copy"] \ {1} /\ \A q \in DOMAIN w["copy"] : w["copy"][q] = v["copy"][q]
  BY <1>2, <1>3
<1>8. Holds(dev, c, v)
  BY <1>1 DEF RaceInv
<1>9. Cleared(dev', c, "chan", s)
  <2>1. Cleared(dev, c, "copy", s) /\ "copy" \in Kinds
    BY <1>6, <1>8 DEF Holds, Kinds
  <2>2. Cleared(dev', c, "copy", s)
    BY <1>1, <1>6, <2>1, IdleHolds
  <2>3. QED
    BY <2>2 DEF Cleared, Awaited
<1> HIDE DEF v, w, s
<1>10. Giving(v, w, "copy", "chan", 1, s)
  BY <1>2, <1>4, <1>5, <1>6, <1>7 DEF Giving, Queues
<1> DEFINE P == {}
           E == {}
<1>11. /\ P \in SUBSET DevicePlaces /\ Ran(dev, dev', k, P, E) /\ dev \in Devices
       /\ Apart(c, v, k, P, E, s)
  BY <1>1, IdleHolds DEF TypeInv
<1> HIDE DEF P, E
<1>12. Holds(dev', c, w)
  BY <1>1, <1>2, <1>8, <1>9, <1>10, <1>11, HoldsGiven
<1>13. QED
  BY <1>12 DEF w

LEMMA SendHeaderRace ==
  ASSUME BaseInv, FitInv, RaceInv, NEW k \in Nodes, SendHeader(k)
  PROVE  RaceInv'
<1> DEFINE c == Consumer(k)
<1>0. /\ TypeInv /\ Flushing(k) /\ loc[k].outq # <<>> /\ Sending(k) /\ pc[k] \in AtWork
      /\ UNCHANGED <<credits, bfree, reserve>> /\ loc[k].dst # NoSlot
      /\ c \in Nodes /\ InEdge(c) = k
  BY HeadWaits, EdgesAreNodes, ConsumerOfIn DEF SendHeader, Sending, BaseInv, poolVars
<1>1. CASE SetHalt(k, "Logic") /\ UNCHANGED <<chan, loc>> /\ ~Allowed(Outgoing(k).fsm.type, "SEND")
  <2>1. UNCHANGED dev
    BY <1>1 DEF SendHeader
  <2>2. QED
    BY <1>0, <1>1, <2>1, RaceHalts
<1>2. CASE /\ UNCHANGED <<pc, haltVars>>
           /\ loc' = [loc EXCEPT ![k] = SentPass(ReadyToSend(loc[k]))]
           /\ Allowed(Outgoing(k).fsm.type, "SEND")
  <2>1. dev' = ReadyDevice(k) /\ UNCHANGED pass
    BY <1>2 DEF SendHeader
  <2>2. Ran(dev, dev', k, {}, {})
    BY <1>0, <2>1, ReadyRuns
  <2>3. /\ \A n \in Nodes \ {k} : loc'[n] = loc[n]
        /\ loc'[k].outq = Tail(loc[k].outq) /\ loc'[k].ended = loc[k].ended
        /\ loc'[k].arrived = loc[k].arrived /\ loc'[k].dst = NoSlot
        /\ \A i \in Zones : loc'[k].slot[i].dev = loc[k].slot[i].dev
    BY <1>0, <1>2, <2>1, SentStep, SentPlaces
  <2>4. HandsFewer(k) /\ InHand(k)' = InHand(k) /\ Copied(k)' = {} /\ Copied(k) = {1}
    BY <1>0, <1>2, <2>3, HeadLeaves DEF Copied
  <2>5. \A n \in Nodes \ {k} : HandsFewer(n) /\ HandSame(n)
    BY <1>2, <2>3, WorkSame DEF HandSame, InHand
  <2>6. HandSame(c)
    <3>1. HandSame(k)
      BY <2>4 DEF HandSame, HandsFewer
    <3>2. QED
      BY <1>0, <2>5, <3>1
  <2>7. \A n \in Nodes : HandsFewer(n) /\ WaitsOnce(n)'
    BY <2>4, <2>5 DEF HandsFewer
  <2>8. ASSUME NEW n \in Nodes, chan'[InEdge(n)] = chan[InEdge(n)]
        PROVE  Holds(dev', n, SlotsOf(n)')
    <3>1. QueuesSame(n)
      <4>1. /\ SlotsOf(n)'["credit"] = SlotsOf(n)["credit"] /\ SlotsOf(n)'["free"] = SlotsOf(n)["free"]
            /\ SlotsOf(n)'["reserve"] = SlotsOf(n)["reserve"] /\ SlotsOf(n)'["chan"] = SlotsOf(n)["chan"]
        BY <1>0, <2>8, QueuesStand
      <4>2. QED
        BY <4>1 DEF QueuesSame, Queues
    <3>2. Shrunk(SlotsOf(n)', SlotsOf(n))
      BY <1>0, <2>7, <3>1, EdgesAreNodes, QueuesKept
    <3>3. QED
      BY <1>0, <2>2, <3>2, IdleHolds
  <2>9. \A n \in Nodes : Holds(dev', n, SlotsOf(n)')
    <3>1. CASE UNCHANGED chan
      BY <2>8, <3>1
    <3>2. CASE \E m \in Headers : m.slot = loc[k].dst /\ chan' = [chan EXCEPT ![k] = Append(@, m)]
      <4>1. PICK m \in Headers : m.slot = loc[k].dst /\ chan' = [chan EXCEPT ![k] = Append(@, m)]
        BY <3>2
      <4>2. chan'[k] = Append(chan[k], m) /\ \A n \in Nodes \ {c} : chan'[InEdge(n)] = chan[InEdge(n)]
        <5>1. chan \in [Nodes -> Seq(Headers)]
          BY <1>0 DEF TypeInv, LaneTypes
        <5>2. \A n \in Nodes \ {c} : InEdge(n) \in Nodes /\ InEdge(n) # k
          BY EdgesAreNodes, ConsumerOfIn
        <5>3. QED
          BY <4>1, <5>1, <5>2
      <4>3. Holds(dev', c, SlotsOf(c)')
        <5>1. c \in Nodes /\ InEdge(c) = k /\ m \in Headers /\ m.slot = loc[k].dst
          BY <1>0, <4>1
        <5>2. TypeInv /\ RaceInv /\ UNCHANGED <<credits, bfree, reserve>>
          BY <1>0
        <5>3. chan'[k] = Append(chan[k], m)
          BY <4>2
        <5> HIDE DEF c
        <5>4. QED
          BY <2>2, <2>4, <2>6, <5>1, <5>2, <5>3, AnnounceRace
      <4>4. QED
        BY <2>8, <4>2, <4>3
    <3>3. UNCHANGED chan \/ \E m \in Headers : m.slot = loc[k].dst /\ chan' = [chan EXCEPT ![k] = Append(@, m)]
      BY <1>0, <1>2, SendHeaderEffect
    <3>4. QED
      BY <3>1, <3>2, <3>3
  <2>10. QED
    BY <1>0, <2>2, <2>7, <2>9, IdleHolds DEF RaceInv
<1>3. QED
  BY <1>0, <1>1, <1>2, SendHeaderEffect DEF SendHeader

LEMMA EdgesApart ==
  ASSUME NEW k \in Nodes, ~SelfLoop
  PROVE  /\ Consumer(k) \in Nodes /\ Consumer(k) # k /\ InEdge(Consumer(k)) = k
         /\ InEdge(k) \in Nodes /\ InEdge(k) # k
         /\ \A n \in Nodes \ {Consumer(k)} : InEdge(n) \in Nodes /\ InEdge(n) # k
<1>1. Consumer(k) # k
  <2>1. Z \in Nat \ {0} /\ Z # 1 /\ k \in 0 .. Z - 1
    BY RingFacts DEF Nodes, SelfLoop
  <2>2. CASE k = Z - 1
    BY <2>1, <2>2 DEF Consumer
  <2>3. CASE k # Z - 1
    <3>1. k + 1 \in 0 .. Z - 1
      BY <2>1, <2>3
    <3>2. QED
      BY <2>1, <3>1 DEF Consumer
  <2>4. QED
    BY <2>2, <2>3
<1>2. QED
  BY <1>1, EdgesAreNodes, ConsumerOfIn

\* The slot is taken from the credits, with the zone in it.
LEMMA CopyTakes ==
  ASSUME TypeInv, RaceInv, NEW k \in Nodes, NEW c \in Nodes, InEdge(c) = k, NEW s,
         credits[k] # <<>>, s = Head(credits[k]), credits'[k] = Tail(credits[k]),
         UNCHANGED chan, bfree'[c] = bfree[c], c # 0 \/ reserve' = reserve,
         Copied(k) = {}, Copied(k)' = {1}, loc'[k].dst = s, HandSame(c),
         NEW P \in SUBSET DevicePlaces, NEW E, Ran(dev, dev', k, P, E),
         Cleared(dev', c, "copy", s), Apart(c, SlotsOf(c), k, P, E, s)
  PROVE  Holds(dev', c, SlotsOf(c)')
<1> DEFINE v == SlotsOf(c)
           w == SlotsOf(c)'
<1>1. v["credit"] = credits[k] /\ v["credit"] \in Seq(SlotIds) /\ w["credit"] = Tail(v["credit"])
  BY SlotsAre, SlotsNext
<1>2. v["copy"] = [q \in {} |-> loc[k].dst] /\ w["copy"] = [q \in {1} |-> s]
  <2>1. v["copy"] = [q \in Copied(InEdge(c)) |-> loc[InEdge(c)].dst]
    BY SlotsAre
  <2>2. w["copy"] = [q \in Copied(InEdge(c))' |-> loc'[InEdge(c)].dst]
    BY SlotsNext
  <2>3. QED
    BY <2>1, <2>2
<1>3. \A x \in Kinds : x \notin {"credit", "copy"} => w[x] = v[x]
  <2>1. w["pass"] = v["pass"]
    BY KindsKept
  <2>2. w["free"] = v["free"] /\ w["reserve"] = v["reserve"] /\ w["chan"] = v["chan"]
    BY QueuesStand
  <2>3. QED
    BY <2>1, <2>2 DEF Kinds
<1>4. Holds(dev, c, v) /\ dev \in Devices
  BY DEF RaceInv, TypeInv
<1>5. Slotted(v)
  <2>1. \A a \in Kinds : \A q \in DOMAIN v[a] : v[a][q] \in SlotIds
    BY SlotsAre
  <2>2. QED
    BY <2>1 DEF Slotted
<1>6. Apart(c, v, k, P, E, s) /\ v["credit"] # <<>> /\ s = Head(v["credit"])
  BY <1>1
<1> HIDE DEF v, w
<1>7. Taking(v, w, "credit", "copy", 1, s)
  <2>1. DOMAIN w["copy"] = {1} /\ w["copy"][1] = s /\ DOMAIN v["copy"] = {}
    BY <1>2
  <2>2. QED
    BY <1>1, <1>3, <1>6, <2>1 DEF Taking, Queues
<1>8. Holds(dev', c, w)
  BY <1>4, <1>5, <1>6, <1>7, HoldsTaken
<1>9. QED
  BY <1>8 DEF w

\* What copying on a credit does, and how far the device goes on.
LEMMA CopyStep ==
  ASSUME BaseInv, RaceInv, NEW k \in Nodes, CopyZone(k), ~SelfLoop
  PROVE  LET s == Head(credits[k])
             c == Consumer(k)
             d == Payload(k, s)
             P == {SourceOf(k), <<c, s>>}
             lane == [credits EXCEPT ![k] = Tail(@)]
         IN  /\ credits[k] # <<>> /\ s \in SlotIds /\ P \in SUBSET DevicePlaces
             /\ Ran(dev, d, k, P, {ArrivalEvent(c, s)}) /\ Cleared(d, c, "copy", s)
             /\ FreeSource(k, d, lane) /\ lane \in [Nodes -> Seq(SlotIds)]
             /\ lane[k] = Tail(credits[k]) /\ \A n \in Nodes \ {k} : lane[n] = credits[n]
             /\ UNCHANGED <<pc, pass, chan>> /\ loc'[k] = [loc[k] EXCEPT !.dst = s]
             /\ \A n \in Nodes \ {k} : loc'[n] = loc[n]
<1> DEFINE s == Head(credits[k])
           c == Consumer(k)
           lane == [credits EXCEPT ![k] = Tail(@)]
<1>0. /\ TypeInv /\ dev \in Devices /\ credits \in [Nodes -> Seq(SlotIds)]
      /\ c \in Nodes /\ InEdge(c) = k
      /\ Flushing(k) /\ loc[k].outq # <<>> /\ loc[k].dst = NoSlot
  BY EdgesAreNodes, ConsumerOfIn DEF BaseInv, TypeInv, LaneTypes, CopyZone, Sending
<1>1. /\ credits[k] # <<>> /\ FreeSource(k, Payload(k, s), lane)
      /\ loc' = [loc EXCEPT ![k].dst = s] /\ UNCHANGED <<pc, pass, chan>>
  BY DEF CopyZone, CopyOnCredit
<1>2. SlotsOf(c)["credit"] = credits[k]
  BY <1>0, SlotsAre
<1>3. s \in SlotIds /\ Cleared(dev, c, "credit", s) /\ <<c, s>> \in DevicePlaces
  <2>1. "credit" \in Queues
    BY DEF Queues
  <2>2. QED
    BY <1>0, <1>1, <1>2, <2>1, QueueHead
<1>4. Quiet(dev, <<c, s>>, dev.event[FreeEvent(c, s)])
  BY <1>3 DEF Cleared, Awaited
<1>5. SourceOf(k) \in DevicePlaces /\ Quiet(dev, SourceOf(k), dev.clock[k])
  BY <1>0, HeadWaits
<1>6. loc'[k] = [loc[k] EXCEPT !.dst = s] /\ \A n \in Nodes \ {k} : loc'[n] = loc[n]
  <2> HIDE DEF s
  <2>1. QED
    BY <1>0, <1>1, <1>3, DstStep
<1>7. /\ lane \in [Nodes -> Seq(SlotIds)] /\ lane[k] = Tail(credits[k])
      /\ \A n \in Nodes \ {k} : lane[n] = credits[n]
  <2>1. Tail(credits[k]) \in Seq(SlotIds)
    BY <1>0, <1>1
  <2>2. QED
    BY <1>0, <2>1
<1>8. /\ Ran(dev, Payload(k, s), k, {SourceOf(k), <<c, s>>}, {ArrivalEvent(c, s)})
      /\ Cleared(Payload(k, s), c, "copy", s)
  <2> HIDE DEF s
  <2>1. QED
    BY <1>0, <1>3, <1>4, <1>5, PayloadRuns
<1> HIDE DEF s, lane
<1>9. QED
  BY <1>1, <1>3, <1>5, <1>6, <1>7, <1>8 DEF s, lane

LEMMA CopyCreditRace ==
  ASSUME BaseInv, FitInv, RaceInv, NEW k \in Nodes, CopyZone(k), ~SelfLoop
  PROVE  RaceInv'
<1> DEFINE s == Head(credits[k])
           c == Consumer(k)
           d == Payload(k, s)
           P == {SourceOf(k), <<c, s>>}
           E == {ArrivalEvent(c, s)}
           x == FreeEvent(k, Outgoing(k).dev)
           F == E \cup {x}
           lane == [credits EXCEPT ![k] = Tail(@)]
<1>0. /\ TypeInv /\ dev \in Devices /\ Flushing(k) /\ loc[k].outq # <<>> /\ loc[k].dst = NoSlot
      /\ pc[k] \in AtWork /\ Outgoing(k).dev \in SlotIds
  BY HeadWaits DEF BaseInv, TypeInv, CopyZone, Sending
<1>1. /\ credits[k] # <<>> /\ s \in SlotIds /\ P \in SUBSET DevicePlaces
      /\ Ran(dev, d, k, P, E) /\ Cleared(d, c, "copy", s)
      /\ FreeSource(k, d, lane) /\ lane \in [Nodes -> Seq(SlotIds)]
      /\ lane[k] = Tail(credits[k]) /\ \A n \in Nodes \ {k} : lane[n] = credits[n]
      /\ UNCHANGED <<pc, pass, chan>> /\ loc'[k] = [loc[k] EXCEPT !.dst = s]
      /\ \A n \in Nodes \ {k} : loc'[n] = loc[n]
  BY CopyStep
<1>2. /\ c \in Nodes /\ c # k /\ InEdge(c) = k /\ InEdge(k) \in Nodes /\ InEdge(k) # k
      /\ \A n \in Nodes \ {c} : InEdge(n) \in Nodes /\ InEdge(n) # k
  BY EdgesApart
<1>3. SourceOf(k) \in HandPlaces(k) /\ SourceOf(k) = <<k, Outgoing(k).dev>>
  BY <1>0, HeadWaits DEF SourceOf
<1>s. s \in SlotIds /\ s # NoSlot
  BY <1>1, PoolFacts DEF SlotIds, NoSlot
<1> HIDE DEF s, c, lane, d
<1>4. /\ loc'[k].dst = s /\ loc'[k].outq = loc[k].outq /\ loc'[k].ended = loc[k].ended
      /\ loc'[k].arrived = loc[k].arrived /\ loc'[k].slot = loc[k].slot
  <2>1. loc[k] \in PassStates
    BY <1>0, WorkTypes
  <2>2. QED
    BY <1>1, <2>1 DEF PassStates
<1>5. /\ WaitsOnce(k)' /\ InHand(k)' = InHand(k) \ {Head(loc[k].outq)}
      /\ Copied(k) = {} /\ Copied(k)' = {1}
  <2>1. pc'[k] = pc[k] /\ loc'[k].dst # NoSlot
    BY <1>1, <1>4, <1>s
  <2>2. QED
    BY <1>0, <1>4, <2>1, HeadCopied
<1>6. \A n \in Nodes \ {k} : HandsFewer(n) /\ CopySame(n) /\ HandSame(n)
  <2>1. ASSUME NEW n \in Nodes \ {k} PROVE pc'[n] = pc[n] /\ loc'[n] = loc[n]
    BY <1>1
  <2>2. ASSUME NEW n \in Nodes \ {k} PROVE HandsFewer(n)
    <3>1. RaceInv /\ n \in Nodes
      OBVIOUS
    <3>2. QED
      BY <2>1, <3>1, WorkSame
  <2>3. \A n \in Nodes \ {k} : CopySame(n) /\ HandSame(n)
    BY <2>1 DEF CopySame, Copied, HandSame, InHand
  <2>4. QED
    BY <2>2, <2>3
<1>7. /\ Ran(dev, dev', k, P, F) /\ dev'.writes = d.writes /\ dev'.reads = d.reads
      /\ \A y \in DeviceEvents : y # x => dev'.event[y] = d.event[y]
  <2>1. /\ P \in SUBSET DevicePlaces /\ Ran(dev, d, k, P, E) /\ FreeSource(k, d, lane)
        /\ dev \in Devices /\ Outgoing(k).dev \in SlotIds /\ F = E \cup {FreeEvent(k, Outgoing(k).dev)}
    BY <1>0, <1>1
  <2> HIDE DEF P, E, F
  <2>2. QED
    BY <2>1, FreedRuns, ZenonT(40)
<1>8. Holds(dev', k, SlotsOf(k)')
  <2>1. /\ lane[InEdge(k)] = credits[InEdge(k)]
        /\ \A j \in InHand(k)' : loc'[k].slot[j].dev = loc[k].slot[j].dev
    BY <1>1, <1>2, <1>4
  <2>2. SlotsOf(k)'["chan"] = SlotsOf(k)["chan"]
    BY <1>0, <1>1, QueuesStand
  <2>3. SlotsOf(k)'["copy"] = SlotsOf(k)["copy"]
    <3>1. CopySame(InEdge(k))
      BY <1>2, <1>6
    <3>2. QED
      BY <1>0, <3>1, KindsKept
  <2>4. \A y \in SlotIds : y # Outgoing(k).dev =>
          /\ <<k, y>> \in P => <<k, y>> \in HandPlaces(k)
          /\ FreeEvent(k, y) \notin E /\ ArrivalEvent(k, y) \notin E
    BY <1>2, <1>3 DEF FreeEvent, ArrivalEvent
  <2>5. Quiet(d, SourceOf(k), d.clock[k])
    BY <1>1 DEF Ran
  <2> HIDE DEF P, E
  <2>6. QED
    BY <1>0, <1>1, <1>5, <2>1, <2>2, <2>3, <2>4, <2>5, SourceGiven
<1>9. \A n \in Nodes \ {k} :
        /\ credits'[InEdge(n)] = lane[InEdge(n)] /\ bfree'[n] = bfree[n]
        /\ n # 0 \/ reserve' = reserve
  BY <1>1, FreedQueues
<1>10. \A n \in Nodes \ {k} : \A y \in SlotIds : n # c \/ y # s =>
         /\ <<n, y>> \in P => <<n, y>> \in HandPlaces(k)
         /\ FreeEvent(n, y) \notin F /\ ArrivalEvent(n, y) \notin F
  BY <1>3 DEF FreeEvent, ArrivalEvent
<1>11. Holds(dev', c, SlotsOf(c)')
  <2>1. credits'[k] = Tail(credits[k]) /\ bfree'[c] = bfree[c] /\ (c # 0 \/ reserve' = reserve)
    BY <1>1, <1>2, <1>9
  <2>2. Cleared(dev', c, "copy", s)
    <3>1. ArrivalEvent(c, s) \in DeviceEvents /\ ArrivalEvent(c, s) # x
      BY <1>1, <1>2, SlotEvents DEF FreeEvent, ArrivalEvent
    <3>2. dev'.event[ArrivalEvent(c, s)] = d.event[ArrivalEvent(c, s)]
      BY <1>7, <3>1
    <3>3. QED
      BY <1>1, <1>7, <3>2 DEF Cleared, Awaited, Quiet
  <2>3. HandSame(c)
    BY <1>2, <1>6
  <2> HIDE DEF P, F
  <2>4. Apart(c, SlotsOf(c), k, P, F, s)
    BY <1>0, <1>2, <1>10, HandsApart
  <2>5. s = Head(credits[k]) /\ UNCHANGED chan
    BY <1>1 DEF s
  <2>6. QED
    BY <1>0, <1>1, <1>2, <1>4, <1>5, <1>7, <2>1, <2>2, <2>3, <2>4, <2>5, CopyTakes
<1>12. ASSUME NEW n \in Nodes \ {k, c} PROVE Holds(dev', n, SlotsOf(n)')
  <2>1. credits'[InEdge(n)] = credits[InEdge(n)]
    BY <1>1, <1>2, <1>9
  <2>2. QueuesSame(n)
    <3>1. /\ SlotsOf(n)'["credit"] = SlotsOf(n)["credit"] /\ SlotsOf(n)'["free"] = SlotsOf(n)["free"]
          /\ SlotsOf(n)'["reserve"] = SlotsOf(n)["reserve"] /\ SlotsOf(n)'["chan"] = SlotsOf(n)["chan"]
      BY <1>0, <1>1, <1>9, <2>1, QueuesStand
    <3>2. QED
      BY <3>1 DEF QueuesSame, Queues
  <2>3. CopySame(InEdge(n)) /\ HandsFewer(n)
    BY <1>2, <1>6
  <2>4. Shrunk(SlotsOf(n)', SlotsOf(n))
    BY <1>0, <1>2, <2>2, <2>3, QueuesKept
  <2>5. \A y \in SlotIds :
          /\ <<n, y>> \in P => <<n, y>> \in HandPlaces(k)
          /\ FreeEvent(n, y) \notin F /\ ArrivalEvent(n, y) \notin F
    BY <1>10, <1>12
  <2>6. P \in SUBSET DevicePlaces /\ Ran(dev, dev', k, P, F) /\ n \in Nodes
    BY <1>1, <1>7
  <2> HIDE DEF P, F
  <2>7. QED
    BY <1>0, <2>4, <2>5, <2>6, OtherHolds
<1>13. ASSUME NEW n \in Nodes PROVE Pinned(dev', n)
  <2>1. <<n, InStage>> \notin P /\ <<n, OutStage>> \notin P /\ <<n, EndScalars>> \notin P
    <3>1. \A y \in {InStage, OutStage, EndScalars} : y # s /\ y # Outgoing(k).dev
      BY <1>0, <1>s, SlotEvents
    <3>2. \A y : <<n, y>> \in P => y \in {s, Outgoing(k).dev}
      BY <1>3
    <3> HIDE DEF P
    <3>3. QED
      BY <3>1, <3>2
  <2>2. InEvent(n) \notin F
    BY DEF InEvent, FreeEvent, ArrivalEvent
  <2> HIDE DEF P, F
  <2>3. QED
    BY <1>0, <1>1, <1>7, <2>1, <2>2, PinnedStays
<1>14. ~dev'.raced /\ \A n \in Nodes : WaitsOnce(n)'
  BY <1>5, <1>6, <1>7 DEF Ran, RaceInv, HandsFewer
<1>15. QED
  BY <1>8, <1>11, <1>12, <1>13, <1>14 DEF RaceInv

LEMMA NoneApart ==
  ASSUME NEW c, NEW v, NEW k, NEW s, NEW P, NEW E, P = {}, E = {}
  PROVE  Apart(c, v, k, P, E, s)
BY DEF Apart, Spared

\* A slot of the reserve takes the copy, and the source goes to the reserve.
LEMMA SelfGives ==
  ASSUME TypeInv, RaceInv, SelfLoop, NEW k \in Nodes, NEW s, NEW j \in InHand(k),
         reserve # <<>>, s = Head(reserve), loc[k].slot[j].dev \in SlotIds,
         reserve' = Append(Tail(reserve), loc[k].slot[j].dev),
         UNCHANGED <<chan, credits, bfree>>,
         Copied(k) = {}, Copied(k)' = {1}, loc'[k].dst = s,
         InHand(k)' = InHand(k) \ {j}, \A i \in InHand(k)' : loc'[k].slot[i].dev = loc[k].slot[i].dev,
         NEW P \in SUBSET DevicePlaces, NEW E, Ran(dev, dev', k, P, E),
         Cleared(dev', k, "copy", s), Apart(k, SlotsOf(k), k, P, E, s),
         Quiet(dev', <<k, loc[k].slot[j].dev>>, dev'.clock[k])
  PROVE  Holds(dev', k, SlotsOf(k)')
<1> DEFINE t == loc[k].slot[j].dev
           v == SlotsOf(k)
           w == SlotsOf(k)'
           u == [x \in Kinds |-> IF x = "reserve" THEN Tail(v[x])
                                 ELSE IF x = "copy" THEN [q \in {1} |-> s] ELSE v[x]]
<1>0. k = 0 /\ InEdge(k) = k
  BY SelfLoopNodes, EdgesAreNodes
<1>1. v["reserve"] = reserve /\ w["reserve"] = reserve' /\ v["reserve"] \in Seq(SlotIds)
  BY <1>0, SlotsAre, SlotsNext
<1>2. v["copy"] = [q \in {} |-> loc[k].dst] /\ w["copy"] = [q \in {1} |-> s]
  <2>1. v["copy"] = [q \in Copied(InEdge(k)) |-> loc[InEdge(k)].dst]
    BY SlotsAre
  <2>2. w["copy"] = [q \in Copied(InEdge(k))' |-> loc'[InEdge(k)].dst]
    BY SlotsNext
  <2>3. InEdge(k) = k
    BY <1>0
  <2> HIDE DEF v, w
  <2>4. QED
    BY <2>1, <2>2, <2>3
<1>3. v["pass"] = [i \in InHand(k) |-> loc[k].slot[i].dev] /\ w["pass"] = [i \in InHand(k)' |-> loc'[k].slot[i].dev]
  BY SlotsAre, SlotsNext
<1>4. /\ DOMAIN w["pass"] = DOMAIN v["pass"] \ {j} /\ \A q \in DOMAIN w["pass"] : w["pass"][q] = v["pass"][q]
      /\ j \in DOMAIN v["pass"] /\ v["pass"][j] = t
  BY <1>3
<1>5. w["free"] = v["free"] /\ w["credit"] = v["credit"] /\ w["chan"] = v["chan"]
  BY QueuesStand, EdgesAreNodes
<1>6. Holds(dev, k, v) /\ dev \in Devices /\ dev' \in Devices
  BY DEF RaceInv, TypeInv, Ran
<1>7. Slotted(v)
  <2>1. \A a \in Kinds : \A q \in DOMAIN v[a] : v[a][q] \in SlotIds
    BY SlotsAre
  <2>2. QED
    BY <2>1 DEF Slotted
<1>8. /\ Apart(k, v, k, P, E, s) /\ v["reserve"] # <<>> /\ s = Head(v["reserve"])
      /\ t \in SlotIds /\ Quiet(dev', <<k, t>>, dev'.clock[k])
      /\ w["reserve"] = Append(Tail(v["reserve"]), t)
  BY <1>1
<1>9. /\ u["reserve"] = Tail(v["reserve"]) /\ u["copy"] = [q \in {1} |-> s]
      /\ \A x \in Kinds : x \notin {"reserve", "copy"} => u[x] = v[x]
  BY DEF Kinds
<1> HIDE DEF v, w, u, t
<1>10. Taking(v, u, "reserve", "copy", 1, s)
  <2>1. DOMAIN u["copy"] = {1} /\ u["copy"][1] = s /\ DOMAIN v["copy"] = {}
    BY <1>2, <1>9
  <2>2. QED
    BY <1>1, <1>8, <1>9, <2>1 DEF Taking, Queues
<1>11. Holds(dev', k, u) /\ Slotted(u)
  BY <1>6, <1>7, <1>8, <1>10, HoldsTaken
<1>12. Giving(u, w, "pass", "reserve", j, t)
  <2>1. u["pass"] = v["pass"] /\ \A x \in Kinds : x \notin {"pass", "reserve"} => w[x] = u[x]
    BY <1>2, <1>5, <1>9 DEF Kinds
  <2>2. u["reserve"] \in Seq(SlotIds)
    BY <1>1, <1>8, <1>9
  <2>3. QED
    BY <1>4, <1>8, <1>9, <2>1, <2>2 DEF Giving, Queues
<1>13. Cleared(dev', k, "reserve", t)
  BY <1>8 DEF Cleared, Awaited
<1> DEFINE e == dev'
           Q == {}
           R == {}
<1>14. /\ Ran(e, e, k, Q, R) /\ Q \in SUBSET DevicePlaces /\ Apart(k, u, k, Q, R, t)
  BY <1>6, RanNone, NoneApart
<1>15. Holds(e, k, u) /\ Slotted(u) /\ Cleared(e, k, "reserve", t) /\ e \in Devices
  BY <1>6, <1>11, <1>13
<1> HIDE DEF e, Q, R
<1>16. Holds(e, k, w)
  BY <1>12, <1>14, <1>15, HoldsGiven
<1>17. QED
  BY <1>16 DEF w, e

LEMMA CopySelfRace ==
  ASSUME BaseInv, FitInv, RaceInv, NEW k \in Nodes, CopyZone(k), SelfLoop
  PROVE  RaceInv'
<1> DEFINE s == Head(reserve)
           j == Head(loc[k].outq)
           P == {SourceOf(k), <<k, s>>}
           E == {ArrivalEvent(k, s)}
<1>0. /\ TypeInv /\ dev \in Devices /\ Flushing(k) /\ loc[k].outq # <<>> /\ loc[k].dst = NoSlot
      /\ pc[k] \in AtWork /\ Outgoing(k).dev \in SlotIds /\ UNCHANGED <<pass, chan, credits, bfree>>
      /\ CopyToSelf(k)
  BY HeadWaits DEF BaseInv, TypeInv, CopyZone, CopyToSelf, Sending
<1>1. k = 0 /\ Nodes = {k} /\ Consumer(k) = k
  BY SelfLoopNodes, EdgesAreNodes
<1>2. CASE reserve = <<>>
  <2>1. SetHalt(k, "Logic") /\ UNCHANGED <<loc, reserve, dev>>
    BY <1>0, <1>2 DEF CopyToSelf
  <2>2. QED
    BY <1>0, <2>1, RaceHalts
<1>3. CASE reserve # <<>>
  <2>1. /\ dev' = Payload(k, s) /\ reserve' = Append(Tail(reserve), Outgoing(k).dev)
        /\ loc' = [loc EXCEPT ![k].dst = s] /\ UNCHANGED pc
    BY <1>0, <1>3 DEF CopyToSelf
  <2>2. SlotsOf(k)["reserve"] = reserve
    BY <1>0, <1>1, SlotsAre
  <2>3. s \in SlotIds /\ Cleared(dev, k, "reserve", s) /\ <<k, s>> \in DevicePlaces
    <3>1. "reserve" \in Queues
      BY DEF Queues
    <3>2. QED
      BY <1>0, <1>3, <2>2, <3>1, QueueHead
  <2>4. Quiet(dev, <<k, s>>, dev.clock[k])
    BY <2>3 DEF Cleared, Awaited
  <2>5. /\ SourceOf(k) \in DevicePlaces /\ Quiet(dev, SourceOf(k), dev.clock[k])
        /\ SourceOf(k) \in HandPlaces(k) /\ SourceOf(k) = <<k, Outgoing(k).dev>> /\ j \in InHand(k)
        /\ Outgoing(k).dev = loc[k].slot[j].dev
    BY <1>0, HeadWaits DEF SourceOf, Outgoing
  <2>6. s # NoSlot
    BY <2>3, PoolFacts DEF SlotIds, NoSlot
  <2>7. Ran(dev, dev', k, P, E) /\ Cleared(dev', k, "copy", s)
    <3>1. /\ Ran(dev, Payload(k, s), k, {SourceOf(k), <<k, s>>}, {ArrivalEvent(k, s)})
          /\ Cleared(Payload(k, s), k, "copy", s)
      <4> HIDE DEF s
      <4>1. QED
        BY <1>0, <1>1, <2>3, <2>4, <2>5, PayloadRuns
    <3>2. QED
      BY <2>1, <3>1
  <2>8. P \in SUBSET DevicePlaces
    BY <2>3, <2>5
  <2>9. loc'[k] = [loc[k] EXCEPT !.dst = s]
    <3> HIDE DEF s
    <3>1. QED
      BY <1>0, <2>1, <2>3, DstStep
  <2>10. /\ loc'[k].dst = s /\ loc'[k].outq = loc[k].outq /\ loc'[k].ended = loc[k].ended
         /\ loc'[k].arrived = loc[k].arrived /\ loc'[k].slot = loc[k].slot
    <3>1. loc[k] \in PassStates
      BY <1>0, WorkTypes
    <3>2. QED
      BY <2>9, <3>1 DEF PassStates
  <2>11. Apart(k, SlotsOf(k), k, P, E, s)
    <3>1. \A x \in SlotIds : x # s =>
            /\ <<k, x>> \in P => <<k, x>> \in HandPlaces(k)
            /\ FreeEvent(k, x) \notin E /\ ArrivalEvent(k, x) \notin E
      BY <2>5, SMTT(30) DEF FreeEvent, ArrivalEvent
    <3> HIDE DEF P, E
    <3>2. QED
      BY <1>0, <3>1, HandsApart
  <2>12. Quiet(dev', <<k, loc[k].slot[j].dev>>, dev'.clock[k])
    BY <2>5, <2>7 DEF Ran
  <2>13. \A n \in Nodes : Pinned(dev', n)
    <3>1. <<k, InStage>> \notin P
      <4>1. InStage # s /\ InStage # Outgoing(k).dev
        BY <1>0, <2>3, SlotEvents
      <4>2. QED
        BY <2>5, <4>1
    <3>2. InEvent(k) \notin E
      BY DEF InEvent, ArrivalEvent
    <3> HIDE DEF P, E
    <3>3. QED
      BY <1>0, <1>1, <2>7, <2>8, <3>1, <3>2, PinnedStays
  <2> HIDE DEF s, j, P, E
  <2>14. /\ WaitsOnce(k)' /\ InHand(k)' = InHand(k) \ {j}
         /\ Copied(k) = {} /\ Copied(k)' = {1}
    <3>1. pc'[k] = pc[k] /\ loc'[k].dst # NoSlot
      BY <2>1, <2>6, <2>10
    <3>2. QED
      BY <1>0, <2>10, <3>1, HeadCopied DEF j
  <2>15. Holds(dev', k, SlotsOf(k)')
    <3>1. s = Head(reserve) /\ UNCHANGED <<chan, credits, bfree>> /\ reserve # <<>>
          /\ reserve' = Append(Tail(reserve), loc[k].slot[j].dev) /\ loc[k].slot[j].dev \in SlotIds
      BY <1>0, <1>3, <2>1, <2>5 DEF s
    <3>2. \A i \in InHand(k)' : loc'[k].slot[i].dev = loc[k].slot[i].dev
      BY <2>10
    <3>3. QED
      BY <1>0, <2>5, <2>7, <2>8, <2>10, <2>11, <2>12, <2>14, <3>1, <3>2, SelfGives
  <2>16. QED
    BY <1>1, <2>7, <2>13, <2>14, <2>15 DEF RaceInv, Ran
<1>4. QED
  BY <1>2, <1>3

-----------------------------------------------------------------------------
(* The end of a pass, at which the reserve left goes to the pool.            *)

\* The reserve's events are recorded, or none is.
LEMMA RanEvents ==
  ASSUME NEW d \in Devices, NEW e, NEW k \in Nodes, NEW F,
         e = [d EXCEPT !.event = [x \in DeviceEvents |-> IF x \in F THEN d.clock[k] ELSE d.event[x]]]
  PROVE  /\ Ran(d, e, k, {}, F) /\ e.clock = d.clock
         /\ \A x \in F \cap DeviceEvents : e.event[x] = d.clock[k]
<1> DEFINE events == [x \in DeviceEvents |-> IF x \in F THEN d.clock[k] ELSE d.event[x]]
<1>1. events \in [DeviceEvents -> Clocks] /\ d.clock[k] \in Clocks
  <2>1. d.clock[k] \in Clocks /\ \A x \in DeviceEvents : d.event[x] \in Clocks
    BY DeviceFields
  <2>2. QED
    BY <2>1
<1>2. \A x \in DeviceEvents : events[x] = IF x \in F THEN d.clock[k] ELSE d.event[x]
  OBVIOUS
<1>3. e = [d EXCEPT !.event = events]
  OBVIOUS
<1> HIDE DEF events
<1>4. /\ e \in Devices /\ e.event = events /\ e.clock = d.clock /\ e.writes = d.writes
      /\ e.reads = d.reads /\ e.raced = d.raced
  BY <1>1, <1>3 DEF Devices
<1>5. Before(d.clock[k], e.clock[k])
  BY <1>1, <1>4, BeforeFacts
<1>6. QED
  BY <1>2, <1>4, <1>5 DEF Ran

\* The events F free slots of the reserve; the reserve's slots were freed.
FromReserve(v, k, F) ==
  \A x \in F : \E q \in DOMAIN v["reserve"] : x = FreeEvent(k, v["reserve"][q])
Freed(e, k, v) ==
  \A q \in DOMAIN v["reserve"] : e.event[FreeEvent(k, v["reserve"][q])] = e.clock[k]

\* What the drain leaves alone, and what it finds cleared.
LEMMA Undrained ==
  ASSUME NEW d \in Devices, NEW e, NEW k \in Nodes, NEW P \in SUBSET DevicePlaces, NEW F,
         P = {}, Ran(d, e, k, P, F), NEW v, Holds(d, k, v), Slotted(v),
         FromReserve(v, k, F)
  PROVE  /\ \A a \in Kinds : a # "reserve" => \A q \in DOMAIN v[a] : Spared(k, v[a][q], P, F)
         /\ \A q \in DOMAIN v["reserve"] : Quiet(e, <<k, v["reserve"][q]>>, e.clock[k])
<1>1. ASSUME NEW a \in Kinds, a # "reserve", NEW q \in DOMAIN v[a]
      PROVE  Spared(k, v[a][q], P, F)
  <2>1. FreeEvent(k, v[a][q]) \notin F
    <3>1. ASSUME NEW r \in DOMAIN v["reserve"], FreeEvent(k, v[a][q]) = FreeEvent(k, v["reserve"][r])
          PROVE  FALSE
      <4>1. v[a][q] = v["reserve"][r]
        BY <3>1 DEF FreeEvent
      <4>2. "reserve" \in Kinds /\ OneHolder(v)
        BY DEF Kinds, Holds
      <4>3. QED
        BY <1>1, <4>1, <4>2 DEF OneHolder
    <3>2. QED
      BY <3>1 DEF FromReserve
  <2>2. ArrivalEvent(k, v[a][q]) \notin F
    BY DEF ArrivalEvent, FreeEvent, FromReserve
  <2>3. QED
    BY <2>1, <2>2 DEF Spared
<1>2. ASSUME NEW q \in DOMAIN v["reserve"] PROVE Quiet(e, <<k, v["reserve"][q]>>, e.clock[k])
  <2>1. "reserve" \in Kinds /\ "reserve" \in Own
    BY DEF Kinds, Own
  <2>2. v["reserve"][q] \in SlotIds /\ Cleared(d, k, "reserve", v["reserve"][q])
    BY <2>1 DEF Slotted, Holds
  <2>3. Cleared(e, k, "reserve", v["reserve"][q])
    BY <2>1, <2>2, ClearedStays
  <2>4. QED
    BY <2>3 DEF Cleared, Awaited
<1>3. QED
  BY <1>1, <1>2

\* The reserve joins the pool b.
LEMMA HoldsDrained ==
  ASSUME NEW d \in Devices, NEW e, NEW k \in Nodes, NEW P \in SUBSET DevicePlaces, NEW F,
         P = {}, Ran(d, e, k, P, F), NEW v, NEW w, Holds(d, k, v), Slotted(v),
         FromReserve(v, k, F),
         NEW b, Draining(v, w, b),
         b = "credit" => Freed(e, k, v)
  PROVE  Holds(e, k, w)
<1>1. b \in {"free", "credit"} /\ b \in Kinds /\ b # "reserve" /\ OneHolder(v)
  BY DEF Kinds, Holds, Draining
<1>2. /\ OneHolder(w)
      /\ \A a \in Kinds : \A q \in DOMAIN w[a] :
           \/ \E r \in DOMAIN v[a] : w[a][q] = v[a][r]
           \/ a = b /\ \E r \in DOMAIN v["reserve"] : w[a][q] = v["reserve"][r]
  BY <1>1, HolderDrained
<1>3. /\ \A a \in Kinds : a # "reserve" => \A q \in DOMAIN v[a] : Spared(k, v[a][q], P, F)
      /\ \A q \in DOMAIN v["reserve"] : Quiet(e, <<k, v["reserve"][q]>>, e.clock[k])
  BY Undrained
<1>4. ASSUME NEW r \in DOMAIN v["reserve"]
      PROVE  v["reserve"][r] \in SlotIds /\ Cleared(e, k, b, v["reserve"][r])
  <2>1. v["reserve"][r] \in SlotIds
    BY DEF Slotted, Kinds
  <2>2. CASE b = "free"
    BY <1>3, <2>1, <2>2 DEF Cleared, Awaited
  <2>3. CASE b = "credit"
    BY <1>3, <2>1, <2>3 DEF Cleared, Awaited, Freed
  <2>4. QED
    BY <1>1, <2>2, <2>3
<1>5. DOMAIN w["reserve"] = {}
  BY DEF Draining
<1>6. Accounted(e, k, w, v, k, P, F)
  <2>1. ASSUME NEW a \in Kinds, NEW q \in DOMAIN w[a]
        PROVE  \/ w[a][q] \in SlotIds /\ Cleared(e, k, a, w[a][q])
               \/ /\ \E r \in DOMAIN v[a] : w[a][q] = v[a][r]
                  /\ Spared(k, w[a][q], P, F)
    BY <1>2, <1>3, <1>4, <1>5, <2>1
  <2>2. QED
    BY <2>1 DEF Accounted
<1>7. QED
  BY <1>2, <1>6, HoldsNext

\* The reserve is dropped, the edge being down.
LEMMA HoldsDropped ==
  ASSUME NEW d \in Devices, NEW e, NEW k \in Nodes, NEW P \in SUBSET DevicePlaces, NEW F,
         P = {}, Ran(d, e, k, P, F), NEW v, NEW w, Holds(d, k, v), Slotted(v),
         FromReserve(v, k, F),
         w["reserve"] = <<>>, \A x \in Kinds : x # "reserve" => w[x] = v[x]
  PROVE  Holds(e, k, w)
<1>1. DOMAIN w["reserve"] = {}
  OBVIOUS
<1>2. \A a \in Kinds : \A q \in DOMAIN w[a] : a # "reserve" /\ q \in DOMAIN v[a] /\ w[a][q] = v[a][q]
  BY <1>1
<1>3. OneHolder(w)
  <2>1. OneHolder(v)
    BY DEF Holds
  <2>2. QED
    BY <1>2, <2>1 DEF OneHolder
<1>4. \A a \in Kinds : a # "reserve" => \A q \in DOMAIN v[a] : Spared(k, v[a][q], P, F)
  BY Undrained
<1>5. Accounted(e, k, w, v, k, P, F)
  BY <1>2, <1>4 DEF Accounted
<1>6. QED
  BY <1>3, <1>5, HoldsNext

\* The drain, as the device sees it.
LEMMA DrainRuns ==
  ASSUME BaseInv, RaceInv, NEW k \in Nodes, FinishPass(k)
  PROVE  \E F : /\ Ran(dev, dev', k, {}, F)
                /\ \A x \in F : \E q \in 1 .. Len(reserve) : x = FreeEvent(k, reserve[q])
                /\ pass[k] # 1 \/ SelfLoop \/ BoundaryIn(k) => F = {}
                /\ ~(pass[k] # 1 \/ SelfLoop \/ BoundaryIn(k)) =>
                     \A q \in 1 .. Len(reserve) : dev'.event[FreeEvent(k, reserve[q])] = dev'.clock[k]
<1> DEFINE d == SyncedDevice(k)
<1>0. TypeInv /\ dev \in Devices /\ DrainReserve(k, d) /\ reserve \in Seq(SlotIds)
  BY DEF BaseInv, TypeInv, PoolTypes, FinishPass
<1>1. Ran(dev, d, k, {}, {}) /\ d \in Devices
  BY <1>0, ReadyRuns DEF Ran
<1> HIDE DEF d
<1>2. CASE pass[k] # 1 \/ SelfLoop \/ BoundaryIn(k)
  <2>1. dev' = d
    BY <1>0, <1>2 DEF DrainReserve
  <2>2. QED
    BY <1>1, <1>2, <2>1
<1>3. CASE ~(pass[k] # 1 \/ SelfLoop \/ BoundaryIn(k))
  <2> DEFINE F == {x \in DeviceEvents : \E q \in 1 .. Len(reserve) : x = FreeEvent(k, reserve[q])}
  <2>1. dev' = [d EXCEPT !.event = [x \in DeviceEvents |-> IF x \in F THEN d.clock[k] ELSE d.event[x]]]
    <3>1. dev' = [d EXCEPT !.event = [x \in DeviceEvents |->
                                        IF \E q \in 1 .. Len(reserve) : x = FreeEvent(k, reserve[q])
                                          THEN d.clock[k] ELSE d.event[x]]]
      BY <1>0, <1>3 DEF DrainReserve
    <3>2. [x \in DeviceEvents |-> IF \E q \in 1 .. Len(reserve) : x = FreeEvent(k, reserve[q])
                                    THEN d.clock[k] ELSE d.event[x]]
          = [x \in DeviceEvents |-> IF x \in F THEN d.clock[k] ELSE d.event[x]]
      OBVIOUS
    <3>3. QED
      BY <3>1, <3>2
  <2>2. \A q \in 1 .. Len(reserve) : FreeEvent(k, reserve[q]) \in F
    <3>1. ASSUME NEW q \in 1 .. Len(reserve) PROVE FreeEvent(k, reserve[q]) \in DeviceEvents
      <4>1. reserve[q] \in SlotIds
        BY <1>0
      <4>2. QED
        BY <4>1, SlotEvents
    <3>2. QED
      BY <3>1
  <2>3. F \subseteq DeviceEvents /\ \A x \in F : \E q \in 1 .. Len(reserve) : x = FreeEvent(k, reserve[q])
    OBVIOUS
  <2> HIDE DEF F
  <2> DEFINE e == dev'
  <2>4. e = [d EXCEPT !.event = [x \in DeviceEvents |-> IF x \in F THEN d.clock[k] ELSE d.event[x]]]
    BY <2>1
  <2> HIDE DEF e
  <2>5. /\ Ran(d, e, k, {}, F) /\ e.clock = d.clock
        /\ \A x \in F \cap DeviceEvents : e.event[x] = d.clock[k]
    BY <1>1, <2>4, RanEvents
  <2>6. Ran(dev, e, k, {}, F)
    <3> DEFINE P == {}
               E == {}
    <3>1. Ran(dev, d, k, P, E) /\ Ran(d, e, k, P, F) /\ P \in SUBSET DevicePlaces
          /\ P \cup P = {} /\ E \cup F = F
      BY <1>1, <2>5
    <3> HIDE DEF P, E
    <3>2. Ran(dev, e, k, P \cup P, E \cup F)
      BY <1>0, <3>1, RanTrans
    <3>3. QED
      BY <3>1, <3>2
  <2>7. \A q \in 1 .. Len(reserve) : e.event[FreeEvent(k, reserve[q])] = e.clock[k]
    BY <2>2, <2>3, <2>5
  <2>8. QED
    BY <1>3, <2>3, <2>6, <2>7 DEF e
<1>4. QED
  BY <1>2, <1>3

\* The pools, and what the pass holds, as node k sees them.
LEMMA DrainPools ==
  ASSUME BaseInv, RaceInv, NEW k \in Nodes, FinishPass(k),
         \A c \in Nodes : HandSame(c) /\ CopySame(c)
  PROVE  LET v == SlotsOf(k)
             w == SlotsOf(k)'
         IN  /\ \A c \in Nodes \ {k} : QueuesSame(c)
             /\ pass[k] # 1 \/ SelfLoop => QueuesSame(k)
             /\ ~(pass[k] # 1 \/ SelfLoop) =>
                  /\ v["reserve"] = reserve /\ w["reserve"] = <<>>
                  /\ IF BoundaryIn(k) THEN Draining(v, w, "free")
                     ELSE IF EdgeDown(InEdge(k))
                       THEN \A x \in Kinds : x # "reserve" => w[x] = v[x]
                     ELSE Draining(v, w, "credit")
<1> DEFINE v == SlotsOf(k)
           w == SlotsOf(k)'
<1>0. /\ TypeInv /\ FlowInv /\ DrainReserve(k, SyncedDevice(k)) /\ UNCHANGED chan
      /\ reserve \in Seq(SlotIds) /\ bfree \in [Nodes -> Seq(SlotIds)]
      /\ credits \in [Nodes -> Seq(SlotIds)] /\ InEdge(k) \in Nodes
  BY EdgesAreNodes DEF BaseInv, TypeInv, PoolTypes, LaneTypes, FinishPass
<1>1. w["pass"] = v["pass"] /\ w["copy"] = v["copy"] /\ w["chan"] = v["chan"]
  BY <1>0, KindsKept, QueuesStand
<1>2. /\ v["credit"] = credits[InEdge(k)] /\ v["free"] = bfree[k]
      /\ v["reserve"] = IF k = 0 THEN reserve ELSE <<>>
      /\ \A a \in Queues : v[a] \in Seq(SlotIds)
  BY <1>0, SlotsAre DEF Queues
<1>3. /\ w["credit"] = credits'[InEdge(k)] /\ w["free"] = bfree'[k]
      /\ w["reserve"] = IF k = 0 THEN reserve' ELSE <<>>
  BY SlotsNext
<1>4. CASE pass[k] # 1 \/ SelfLoop
  <2>1. UNCHANGED <<credits, bfree, reserve>>
    BY <1>0, <1>4 DEF DrainReserve, poolVars
  <2>2. \A c \in Nodes : QueuesSame(c)
    BY <1>0, <2>1, QueuesStand, EdgesAreNodes DEF QueuesSame, Queues
  <2>3. QED
    BY <1>4, <2>2
<1>5. CASE ~(pass[k] # 1 \/ SelfLoop)
  <2>1. k = 0
    BY <1>0, <1>5, FirstPassIsHeads
  <2>2. reserve' = <<>>
    BY <1>0, <1>5 DEF DrainReserve
  <2>3. v["reserve"] = reserve /\ w["reserve"] = <<>>
    BY <1>2, <1>3, <2>1, <2>2
  <2>4. ASSUME NEW c \in Nodes \ {k} PROVE QueuesSame(c)
    <3>1. InEdge(c) \in Nodes /\ InEdge(c) # InEdge(k)
      BY EdgesAreNodes, ConsumerOfIn
    <3>2. credits'[InEdge(c)] = credits[InEdge(c)] /\ bfree'[c] = bfree[c] /\ c # 0
      BY <1>0, <1>5, <2>1, <3>1 DEF DrainReserve
    <3>3. QED
      BY <1>0, <3>2, QueuesStand DEF QueuesSame, Queues
  <2>5. CASE BoundaryIn(k)
    <3>1. bfree' = [bfree EXCEPT ![k] = @ \o reserve] /\ UNCHANGED credits
      BY <1>0, <1>5, <2>5 DEF DrainReserve
    <3>2. w["free"] = v["free"] \o v["reserve"] /\ w["credit"] = v["credit"]
      BY <1>0, <1>2, <1>3, <2>3, <3>1
    <3>3. Draining(v, w, "free")
      <4>1. \A x \in Kinds : x \notin {"free", "reserve"} => w[x] = v[x]
        BY <1>1, <3>2 DEF Kinds
      <4>2. v["free"] \in Seq(SlotIds) /\ v["reserve"] \in Seq(SlotIds)
        BY <1>2 DEF Queues
      <4> HIDE DEF v, w
      <4>3. QED
        BY <2>3, <3>2, <4>1, <4>2 DEF Draining
    <3>4. QED
      BY <1>5, <2>3, <2>4, <2>5, <3>3
  <2>6. CASE ~BoundaryIn(k) /\ EdgeDown(InEdge(k))
    <3>1. UNCHANGED <<bfree, credits>>
      BY <1>0, <1>5, <2>6 DEF DrainReserve
    <3>2. \A x \in Kinds : x # "reserve" => w[x] = v[x]
      BY <1>1, <1>2, <1>3, <3>1 DEF Kinds
    <3>3. QED
      BY <1>5, <2>3, <2>4, <2>6, <3>2
  <2>7. CASE ~BoundaryIn(k) /\ ~EdgeDown(InEdge(k))
    <3>1. credits' = [credits EXCEPT ![InEdge(k)] = @ \o reserve] /\ UNCHANGED bfree
      BY <1>0, <1>5, <2>7 DEF DrainReserve
    <3>2. w["credit"] = v["credit"] \o v["reserve"] /\ w["free"] = v["free"]
      BY <1>0, <1>2, <1>3, <2>3, <3>1
    <3>3. Draining(v, w, "credit")
      <4>1. \A x \in Kinds : x \notin {"credit", "reserve"} => w[x] = v[x]
        BY <1>1, <3>2 DEF Kinds
      <4>2. v["credit"] \in Seq(SlotIds) /\ v["reserve"] \in Seq(SlotIds)
        BY <1>2 DEF Queues
      <4> HIDE DEF v, w
      <4>3. QED
        BY <2>3, <3>2, <4>1, <4>2 DEF Draining
    <3>4. QED
      BY <1>5, <2>3, <2>4, <2>7, <3>3
  <2>8. QED
    BY <2>5, <2>6, <2>7
<1>6. QED
  BY <1>4, <1>5

LEMMA FinishRace ==
  ASSUME BaseInv, RaceInv, NEW k \in Nodes, FinishPass(k)
  PROVE  RaceInv'
<1> DEFINE v == SlotsOf(k)
           w == SlotsOf(k)'
           P == {}
<1>0. TypeInv /\ dev \in Devices /\ pc[k] = "finish" /\ UNCHANGED chan
  BY DEF BaseInv, TypeInv, FinishPass
<1>1. /\ pc'[k] = "record" /\ loc'[k] = Synced(loc[k]) /\ loc[k] \in PassStates
      /\ \A n \in Nodes \ {k} : pc'[n] = pc[n] /\ loc'[n] = loc[n]
  BY <1>0, FinishPassEffect, WorkTypes DEF AtWork
<1>2. /\ loc'[k].slot = loc[k].slot /\ loc'[k].arrived = loc[k].arrived
      /\ loc'[k].ended = loc[k].ended /\ loc'[k].outq = loc[k].outq /\ loc'[k].dst = loc[k].dst
  BY <1>1 DEF Synced, PassStates
<1>3. \A n \in Nodes : HandsFewer(n) /\ HandSame(n) /\ CopySame(n)
  <2>1. HandsFewer(k)
    BY <1>0, <1>1, <1>2, WorkSame DEF AtWork
  <2>2. HandSame(k) /\ CopySame(k)
    BY <1>0, <1>1, <1>2 DEF HandSame, CopySame, InHand, Copied, AtWork
  <2>3. \A n \in Nodes \ {k} : HandsFewer(n) /\ HandSame(n) /\ CopySame(n)
    BY <1>1, WorkSame, Zenon DEF HandSame, CopySame, InHand, Copied
  <2>4. QED
    BY <2>1, <2>2, <2>3
<1>4. PICK F : /\ Ran(dev, dev', k, {}, F)
               /\ \A x \in F : \E q \in 1 .. Len(reserve) : x = FreeEvent(k, reserve[q])
               /\ pass[k] # 1 \/ SelfLoop \/ BoundaryIn(k) => F = {}
               /\ ~(pass[k] # 1 \/ SelfLoop \/ BoundaryIn(k)) =>
                    \A q \in 1 .. Len(reserve) : dev'.event[FreeEvent(k, reserve[q])] = dev'.clock[k]
  BY DrainRuns
<1>5. P \in SUBSET DevicePlaces /\ P = {} /\ Ran(dev, dev', k, P, F) /\ reserve \in Seq(SlotIds)
  BY <1>0, <1>4 DEF TypeInv, PoolTypes
<1>6. /\ \A c \in Nodes \ {k} : QueuesSame(c)
      /\ pass[k] # 1 \/ SelfLoop => QueuesSame(k)
      /\ ~(pass[k] # 1 \/ SelfLoop) =>
           /\ v["reserve"] = reserve /\ w["reserve"] = <<>>
           /\ IF BoundaryIn(k) THEN Draining(v, w, "free")
              ELSE IF EdgeDown(InEdge(k))
                THEN \A x \in Kinds : x # "reserve" => w[x] = v[x]
              ELSE Draining(v, w, "credit")
  BY <1>3, DrainPools
<1> HIDE DEF P
<1>7. ASSUME NEW c \in Nodes, QueuesSame(c),
             \A x \in SlotIds : FreeEvent(c, x) \notin F
      PROVE  Holds(dev', c, SlotsOf(c)')
  <2>1. Shrunk(SlotsOf(c)', SlotsOf(c))
    BY <1>0, <1>3, <1>7, EdgesAreNodes, QueuesKept
  <2>2. \A x \in SlotIds :
          /\ <<c, x>> \in P => <<c, x>> \in HandPlaces(k)
          /\ FreeEvent(c, x) \notin F /\ ArrivalEvent(c, x) \notin F
    BY <1>4, <1>5, <1>7 DEF FreeEvent, ArrivalEvent
  <2>3. QED
    BY <1>0, <1>5, <2>1, <2>2, OtherHolds
<1>8. ASSUME NEW c \in Nodes \ {k} PROVE Holds(dev', c, SlotsOf(c)')
  <2>1. \A x \in SlotIds : FreeEvent(c, x) \notin F
    BY <1>4 DEF FreeEvent
  <2>2. QED
    BY <1>6, <1>7, <2>1
<1>9. Holds(dev', k, w)
  <2>1. CASE pass[k] # 1 \/ SelfLoop
    <3>1. F = {} /\ QueuesSame(k)
      BY <1>4, <1>6, <2>1
    <3>2. QED
      BY <1>7, <3>1
  <2>2. CASE ~(pass[k] # 1 \/ SelfLoop)
    <3>1. Holds(dev, k, v) /\ Slotted(v)
      BY <1>0, SlotsAre DEF RaceInv, Slotted
    <3>2. v["reserve"] = reserve /\ w["reserve"] = <<>>
      BY <1>6, <2>2
    <3>3. DOMAIN v["reserve"] = 1 .. Len(reserve)
      BY <1>5, <3>2
    <3>4. FromReserve(v, k, F)
      BY <1>4, <3>2, <3>3 DEF FromReserve
    <3> DEFINE e == dev'
    <3>5. /\ ~BoundaryIn(k) => Freed(e, k, v)
          /\ Ran(dev, e, k, P, F) /\ P = {} /\ P \in SUBSET DevicePlaces /\ dev \in Devices
      BY <1>0, <1>4, <1>5, <2>2, <3>2, <3>3 DEF Freed
    <3>6. IF BoundaryIn(k) THEN Draining(v, w, "free")
          ELSE IF EdgeDown(InEdge(k)) THEN \A x \in Kinds : x # "reserve" => w[x] = v[x]
          ELSE Draining(v, w, "credit")
      BY <1>6, <2>2
    <3> HIDE DEF v, w, e
    <3>7. CASE BoundaryIn(k)
      <4>1. Draining(v, w, "free")
        BY <3>6, <3>7
      <4>2. Holds(e, k, w)
        BY <3>1, <3>4, <3>5, <4>1, HoldsDrained
      <4>3. QED
        BY <4>2 DEF e
    <3>8. CASE ~BoundaryIn(k) /\ EdgeDown(InEdge(k))
      <4>1. \A x \in Kinds : x # "reserve" => w[x] = v[x]
        BY <3>6, <3>8
      <4>2. Holds(e, k, w)
        BY <3>1, <3>2, <3>4, <3>5, <4>1, HoldsDropped
      <4>3. QED
        BY <4>2 DEF e
    <3>9. CASE ~BoundaryIn(k) /\ ~EdgeDown(InEdge(k))
      <4>1. Draining(v, w, "credit")
        BY <3>6, <3>9
      <4>2. Holds(e, k, w)
        BY <3>1, <3>4, <3>5, <3>9, <4>1, HoldsDrained
      <4>3. QED
        BY <4>2 DEF e
    <3>10. QED
      BY <3>7, <3>8, <3>9
  <2>3. QED
    BY <2>1, <2>2
<1>10. ASSUME NEW n \in Nodes PROVE Pinned(dev', n)
  <2>1. <<n, InStage>> \notin P /\ <<n, OutStage>> \notin P /\ <<n, EndScalars>> \notin P
    BY <1>5
  <2>2. InEvent(n) \notin F
    BY <1>4 DEF InEvent, FreeEvent
  <2>3. QED
    BY <1>0, <1>5, <2>1, <2>2, PinnedStays
<1>11. ~dev'.raced /\ \A n \in Nodes : WaitsOnce(n)'
  BY <1>3, <1>5 DEF Ran, RaceInv, HandsFewer
<1>12. QED
  BY <1>8, <1>9, <1>10, <1>11 DEF RaceInv

-----------------------------------------------------------------------------
(* No race.                                                                  *)

LEMMA IdleIsQuiet ==
  ASSUME TypeInv, dev = IdleDevice, NEW c \in Nodes
  PROVE  /\ ~dev.raced /\ Pinned(dev, c)
         /\ \A a \in Kinds, s \in SlotIds : Cleared(dev, c, a, s)
<1>1. Never \in Clocks /\ \A n \in Nodes : Never[n] = 0
  BY DEF Never, Clocks
<1>2. /\ \A p \in DevicePlaces : dev.writes[p] = Never /\ dev.reads[p] = Never
      /\ \A x \in DeviceEvents : dev.event[x] = Never
      /\ ~dev.raced /\ dev.clock[c] = Never
  BY DEF IdleDevice
<1>3. Before(Never, Never)
  BY <1>1, BeforeFacts
<1>4. \A p \in DevicePlaces : Quiet(dev, p, Never)
  BY <1>2, <1>3 DEF Quiet
<1>5. ASSUME NEW a \in Kinds, NEW s \in SlotIds PROVE Cleared(dev, c, a, s)
  <2>1. Awaited(dev, c, a, s) = Never /\ <<c, s>> \in DevicePlaces
    BY <1>2, SlotEvents DEF Awaited
  <2>2. QED
    BY <1>4, <2>1 DEF Cleared
<1>6. Pinned(dev, c)
  <2>1. \A x \in {InStage, OutStage, EndScalars} : <<c, x>> \in DevicePlaces
    BY SlotEvents
  <2>2. InEvent(c) \in DeviceEvents
    BY SlotEvents
  <2>3. Never[c] <= Never[c]
    BY <1>1
  <2>4. QED
    BY <1>2, <1>4, <2>1, <2>2, <2>3 DEF Pinned
<1>7. QED
  BY <1>2, <1>5, <1>6

LEMMA InitRace == ASSUME Init PROVE RaceInv
<1>0. TypeInv
  BY InitType
<1>1. ASSUME NEW c \in Nodes PROVE OneHolder(SlotsOf(c))
  <2> DEFINE v == SlotsOf(c)
             m == Circulating(c)
             lo == Circulating(0)
  <2>1. /\ m \in Nat /\ SlotCount \in Nat /\ lo \in Nat /\ (c = 0 => lo = m)
    BY PoolFacts, RingFacts DEF Nodes
  <2>2. /\ InEdge(c) \in Nodes /\ BoundaryOut(InEdge(c)) = BoundaryIn(c)
    BY EdgesAreNodes, ConsumerOfIn DEF BoundaryOut
  <2>3. /\ v["credit"] = (IF BoundaryIn(c) THEN <<>> ELSE SlotRange(0, m))
        /\ v["free"] = (IF BoundaryIn(c) THEN SlotRange(0, m) ELSE <<>>)
        /\ v["reserve"] = (IF c = 0 THEN SlotRange(lo, SlotCount) ELSE <<>>)
    <3>1. Consumer(InEdge(c)) = c
      BY ConsumerOfIn
    <3>2. /\ v["credit"] = credits[InEdge(c)] /\ v["free"] = bfree[c]
          /\ v["reserve"] = (IF c = 0 THEN reserve ELSE <<>>)
      BY <1>0, SlotsAre
    <3>3. /\ credits[InEdge(c)] = (IF BoundaryIn(c) THEN <<>> ELSE SlotRange(0, m))
          /\ bfree[c] = (IF BoundaryIn(c) THEN SlotRange(0, m) ELSE <<>>)
          /\ reserve = SlotRange(lo, SlotCount)
      BY <2>2, <3>1 DEF Init
    <3>4. QED
      BY <3>2, <3>3
  <2>4. DOMAIN v["chan"] = {} /\ DOMAIN v["copy"] = {} /\ DOMAIN v["pass"] = {}
    <3>1. pc[c] \notin AtWork /\ pc[InEdge(c)] \notin AtWork /\ chan[InEdge(c)] = <<>>
      BY <2>2 DEF Init, AtWork
    <3>2. InHand(c) = {} /\ Copied(InEdge(c)) = {} /\ Announces(InEdge(c)) = <<>>
      BY <3>1 DEF InHand, Copied, Announces
    <3>3. /\ v["chan"] = Announces(InEdge(c))
          /\ v["copy"] = [q \in Copied(InEdge(c)) |-> loc[InEdge(c)].dst]
          /\ v["pass"] = [j \in InHand(c) |-> loc[c].slot[j].dev]
      BY <1>0, SlotsAre
    <3>4. QED
      BY <3>2, <3>3
  <2> HIDE DEF v, m, lo
  <2>5. /\ DOMAIN SlotRange(0, m) = 1 .. m /\ \A q \in 1 .. m : SlotRange(0, m)[q] = q - 1
        /\ DOMAIN SlotRange(lo, SlotCount) = 1 .. SlotCount - lo
        /\ \A q \in 1 .. SlotCount - lo : SlotRange(lo, SlotCount)[q] = lo + q - 1
    BY <2>1 DEF SlotRange
  <2>6. ASSUME NEW a \in Kinds, NEW q \in DOMAIN v[a]
        PROVE  \/ /\ a = (IF BoundaryIn(c) THEN "free" ELSE "credit")
                  /\ q \in 1 .. m /\ v[a][q] = q - 1
               \/ a = "reserve" /\ c = 0 /\ q \in 1 .. SlotCount - lo /\ v[a][q] = lo + q - 1
    <3>1. CASE a = "credit"
      <4>1. v[a] = SlotRange(0, m) /\ ~BoundaryIn(c)
        BY <2>3, <2>6, <3>1
      <4>2. QED
        BY <2>5, <3>1, <4>1
    <3>2. CASE a = "free"
      <4>1. v[a] = SlotRange(0, m) /\ BoundaryIn(c)
        BY <2>3, <2>6, <3>2
      <4>2. QED
        BY <2>5, <3>2, <4>1
    <3>3. CASE a = "reserve"
      <4>1. v[a] = SlotRange(lo, SlotCount) /\ c = 0
        BY <2>3, <2>6, <3>3
      <4>2. QED
        BY <2>5, <3>3, <4>1
    <3>4. QED
      BY <2>4, <2>6, <3>1, <3>2, <3>3 DEF Kinds
  <2>7. ASSUME NEW a \in Kinds, NEW b \in Kinds, NEW q \in DOMAIN v[a], NEW r \in DOMAIN v[b],
               v[a][q] = v[b][r]
        PROVE  a = b /\ q = r
    <3>1. /\ \/ /\ a = (IF BoundaryIn(c) THEN "free" ELSE "credit")
                /\ q \in 1 .. m /\ v[a][q] = q - 1
             \/ a = "reserve" /\ c = 0 /\ q \in 1 .. SlotCount - lo /\ v[a][q] = lo + q - 1
          /\ \/ /\ b = (IF BoundaryIn(c) THEN "free" ELSE "credit")
                /\ r \in 1 .. m /\ v[b][r] = r - 1
             \/ b = "reserve" /\ c = 0 /\ r \in 1 .. SlotCount - lo /\ v[b][r] = lo + r - 1
      BY <2>6
    <3>2. QED
      BY <2>1, <2>7, <3>1
  <2>8. QED
    BY <2>7 DEF OneHolder, v
<1>2. ASSUME NEW c \in Nodes PROVE Holds(dev, c, SlotsOf(c)) /\ Pinned(dev, c) /\ ~dev.raced
  <2>1. dev = IdleDevice
    BY DEF Init
  <2>2. \A a \in Kinds : \A q \in DOMAIN SlotsOf(c)[a] : SlotsOf(c)[a][q] \in SlotIds
    BY <1>0, SlotsAre
  <2>3. QED
    BY <1>0, <1>1, <2>1, <2>2, IdleIsQuiet DEF Holds
<1>3. \A c \in Nodes : WaitsOnce(c)
  BY DEF Init, WaitsOnce, AtWork
<1>4. 0 \in Nodes
  BY RingFacts DEF Nodes
<1>5. QED
  BY <1>2, <1>3, <1>4 DEF RaceInv

LEMMA NodeStepRace ==
  ASSUME BaseInv, RingInv, FitInv, RaceInv, NEW k \in Nodes, NodeStep(k)
  PROVE  RaceInv'
<1>0. TypeInv
  BY DEF BaseInv
<1>1. CASE \/ NodeReturns(k) \/ RecvShutDown(k) \/ CreditShutDown(k) \/ FlushSeesHalt(k)
           \/ HaltCheck(k) \/ CloseEdge(k) \/ PoisonRing(k) \/ RecordPass(k)
  BY <1>0, <1>1, GoneRace
<1>2. CASE StartPass(k) \/ TakePreload(k) \/ RecvZone(k) \/ RecvBoundary(k) \/ RecvPoison(k)
  BY <1>0, <1>2, StartRace, PreloadRace, RecvZoneRace, RecvBoundaryRace, FaultRace
<1>3. CASE RecvDone(k) \/ FlushDone(k) \/ CollectZone(k)
  BY <1>0, <1>3, OpDoneRace, CollectRace
<1>4. CASE CopyZone(k)
  BY <1>4, CopyCreditRace, CopySelfRace
<1>5. CASE SendHeader(k) \/ SendBoundary(k)
  BY <1>5, SendHeaderRace, SendBoundaryRace
<1>6. CASE ComputeZone(k) \/ EndHead(k) \/ FinishPass(k)
  BY <1>6, ComputeRace, EndHeadRace, FinishRace
<1>7. QED
  BY <1>1, <1>2, <1>3, <1>4, <1>5, <1>6 DEF NodeStep

LEMMA NextRace ==
  ASSUME BaseInv, RingInv, FitInv, RaceInv, [Next]_vars
  PROVE  RaceInv'
<1>0. TypeInv
  BY DEF BaseInv
<1>1. ASSUME NEW k \in Nodes, NodeStep(k) PROVE RaceInv'
  BY <1>1, NodeStepRace
<1>2. ASSUME NEW k \in Nodes, NodeFault(k) PROVE RaceInv'
  BY <1>0, <1>2, FaultRace
<1>3. CASE (\E r \in Heads : Join(r)) \/ UNCHANGED vars
  BY <1>0, <1>3, StandRace
<1>4. QED
  BY <1>1, <1>2, <1>3 DEF Next, AllReturned

\* No two operations of the GPU ring's streams ever race on a slot or on a pinned
\* host buffer: the free and arrival events, the stream synchronisations and the
\* slot pools order every write of a place after all earlier uses of it.
THEOREM GpuNeverRaces == Spec => []NoRace
<1>1. Init => RaceInv
  BY InitRace
<1>2. Spec => [](BaseInv /\ RingInv)
  BY AlwaysRing
<1>3. Init => FitInv
  BY InitFit
<1>4. BaseInv /\ BaseInv' /\ RingInv /\ FitInv /\ RaceInv /\ [Next]_vars => FitInv' /\ RaceInv'
  <2>1. SUFFICES ASSUME BaseInv, BaseInv', RingInv, FitInv, RaceInv, [Next]_vars
                 PROVE  FitInv' /\ RaceInv'
    OBVIOUS
  <2>2. TypeInv' /\ TypeInv
    BY <2>1 DEF BaseInv
  <2>3. FitInv'
    BY <2>1, <2>2, NextFit
  <2>4. QED
    BY <2>1, <2>3, NextRace
<1>5. RaceInv => NoRace
  BY DEF RaceInv, NoRace
<1>6. QED
  BY <1>1, <1>2, <1>3, <1>4, <1>5, PTL DEF Spec

=============================================================================
