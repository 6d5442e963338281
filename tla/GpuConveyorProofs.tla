------------------------- MODULE GpuConveyorProofs -------------------------
(***************************************************************************)
(* Proofs about GpuConveyor for every number of zones, nodes, ranks and    *)
(* passes, with every fault allowed.                                       *)
(*                                                                         *)
(* First the types, which passes a failed one stops and that recorded      *)
(* passes are those of a serial run.  Then what travels around the ring:   *)
(* the zones an edge carries are numbered in the order in which they are   *)
(* sent; those under way lie between what the consumer has taken and what  *)
(* the producer has sent, never more than a pass apart.  So a pool of as   *)
(* many buffers as there are zones is never exhausted.                     *)
(***************************************************************************)
EXTENDS GpuConveyor, PassDataProofs, SequenceTheorems, FiniteSetTheorems,
        WellFoundedInduction, TLAPS

-----------------------------------------------------------------------------
(* The ring, its ranks and its pools.                                        *)

LEMMA RingFacts ==
  /\ N \in Nat \ {0} /\ Z \in Nat \ {0} /\ Steps \in Nat \ {0}
  /\ 0 \in Zones /\ N - 1 \in Zones /\ 0 \in Nodes
  /\ Pbc \in BOOLEAN
BY RingAssumption, GpuAssumption DEF RingAssumption, GpuAssumption, Zones, Nodes

LEMMA EdgesAreNodes ==
  ASSUME NEW k \in Nodes
  PROVE  InEdge(k) \in Nodes /\ Consumer(k) \in Nodes
BY RingFacts DEF Nodes, InEdge, Consumer

LEMMA MinOfTwo ==
  ASSUME NEW a \in Int, NEW b \in Int
  PROVE  Min({a, b}) = (IF a <= b THEN a ELSE b)
<1> DEFINE m == IF a <= b THEN a ELSE b
<1>1. m \in {a, b} /\ \A y \in {a, b} : m =< y
  OBVIOUS
<1>2. \A x \in {a, b} : (\A y \in {a, b} : x =< y) => x = m
  OBVIOUS
<1>3. QED
  BY <1>1, <1>2 DEF Min

LEMMA MaxOfTwo ==
  ASSUME NEW a \in Int, NEW b \in Int
  PROVE  Max({a, b}) = (IF a >= b THEN a ELSE b)
<1> DEFINE m == IF a >= b THEN a ELSE b
<1>1. m \in {a, b} /\ \A y \in {a, b} : m >= y
  OBVIOUS
<1>2. \A x \in {a, b} : (\A y \in {a, b} : x >= y) => x = m
  OBVIOUS
<1>3. QED
  BY <1>1, <1>2 DEF Max

\* The least element of a set of natural numbers, and the greatest of a bounded
\* one.
LEMMA MinExists ==
  ASSUME NEW S \in SUBSET Nat, S # {}
  PROVE  Min(S) \in S /\ \A y \in S : Min(S) =< y
<1>1. PICK g \in S : \A h \in S : ~(<<h, g>> \in OpToRel(<, Nat))
  <2>1. \A R : IsWellFoundedOn(R, Nat) =>
          \E g \in S : \A h \in S : ~(<<h, g>> \in R)
    BY WFMin, Zenon
  <2>2. QED
    BY <2>1, NatLessThanWellFounded, Zenon
<1>2. \A h \in S : ~(h < g)
  <2>1. \A a, b \in Nat : a < b => <<a, b>> \in OpToRel(<, Nat)
    BY DEF OpToRel
  <2>2. QED
    BY <1>1, <2>1, Zenon
<1>3. g \in S /\ \A y \in S : g =< y
  <2>1. \A y \in S : g =< y
    <3>1. SUFFICES ASSUME NEW y \in S PROVE g =< y
      OBVIOUS
    <3>2. ~(y < g) /\ y \in Int /\ g \in Int
      BY <1>2
    <3>3. QED
      BY <3>2
  <2>2. QED
    BY <2>1
<1> DEFINE m == CHOOSE x \in S : \A y \in S : x =< y
<1>4. m \in S /\ \A y \in S : m =< y
  BY <1>3
<1>5. Min(S) = m
  BY DEF Min
<1>6. QED
  BY <1>4, <1>5, Zenon

LEMMA MaxExists ==
  ASSUME NEW b \in Nat, NEW S \in SUBSET (0 .. b), S # {}
  PROVE  Max(S) \in S /\ \A y \in S : Max(S) >= y
<1> DEFINE T == {b - y : y \in S}
<1>0. \A y \in S : y \in Int /\ b - y \in Nat
  OBVIOUS
<1>1. T \in SUBSET Nat /\ T # {}
  BY <1>0, Zenon
<1>2. Min(T) \in T /\ \A t \in T : Min(T) =< t
  BY <1>1, MinExists
<1>3. PICK x \in S : Min(T) = b - x
  BY <1>2, Zenon
<1>4. \A y \in S : x >= y
  <2>1. SUFFICES ASSUME NEW y \in S PROVE x >= y
    OBVIOUS
  <2>2. b - y \in T
    OBVIOUS
  <2>3. b - x =< b - y
    BY <1>2, <1>3, <2>2
  <2>4. x \in Int /\ y \in Int
    OBVIOUS
  <2>5. QED
    BY <2>3, <2>4
<1> DEFINE m == CHOOSE z \in S : \A y \in S : z >= y
<1>5. m \in S /\ \A y \in S : m >= y
  BY <1>4
<1>6. Max(S) = m
  BY DEF Max
<1>7. QED
  BY <1>5, <1>6, Zenon

LEMMA RankFacts ==
  ASSUME NEW k \in Nodes
  PROVE  RankOf(k) \in Heads /\ RankOf(k) \in 0 .. k
<1> DEFINE S == {r \in Heads : r <= k}
<1>1. k \in Nat /\ S \in SUBSET (0 .. k) /\ S # {}
  <2>1. k \in Nat
    BY RingFacts DEF Nodes
  <2>2. \A r \in S : r \in 0 .. k
    BY <2>1, RanksAssumption DEF RanksAssumption
  <2>3. 0 \in S
    BY <2>1, RanksAssumption DEF RanksAssumption
  <2>4. QED
    BY <2>1, <2>2, <2>3, Zenon
<1> HIDE DEF S
<1>2. Max(S) \in S
  BY <1>1, MaxExists
<1> USE DEF S
<1>3. QED
  BY <1>1, <1>2 DEF RankOf

LEMMA HeadsAreNodes == Heads \subseteq Nodes /\ Heads \subseteq Nat /\ 0 \in Heads
BY RanksAssumption, GpuAssumption DEF RanksAssumption, GpuAssumption, Nodes

LEMMA NextRankType ==
  ASSUME NEW r \in Heads
  PROVE  NextRank(r) \in Heads
<1> DEFINE above == {s \in Heads : s > r}
<1>1. above \in SUBSET Nat
  BY HeadsAreNodes
<1>2. above # {} => Min(above) \in above
  BY <1>1, MinExists
<1>3. QED
  BY <1>2, HeadsAreNodes DEF NextRank

LEMMA RanksType == Ranks \in Nat \ {0}
<1>1. IsFiniteSet(Nodes)
  BY RingFacts, FS_Interval DEF Nodes
<1>2. IsFiniteSet(Heads)
  BY <1>1, HeadsAreNodes, FS_Subset
<1>3. Cardinality(Heads) \in Nat /\ Cardinality(Heads) # 0
  BY <1>2, HeadsAreNodes, FS_CardinalityType, FS_EmptySet
<1>4. QED
  BY <1>3 DEF Ranks

\* The node that feeds node k is fed by none other.
LEMMA ConsumerOfIn ==
  ASSUME NEW k \in Nodes
  PROVE  Consumer(InEdge(k)) = k /\ InEdge(Consumer(k)) = k
<1>1. Z \in Nat \ {0} /\ k \in 0 .. Z - 1
  BY RingFacts DEF Nodes
<1>2. CASE k = 0
  <2>1. (k - 1 + Z) % Z = Z - 1 /\ (Z - 1 + 1) % Z = 0
    BY <1>1, <1>2
  <2>2. CASE Z = 1
    BY <2>1, <2>2, <1>1, <1>2 DEF InEdge, Consumer
  <2>3. CASE Z > 1
    <3>1. (k + 1) % Z = 1 /\ (1 - 1 + Z) % Z = 0
      BY <1>1, <1>2, <2>3
    <3>2. QED
      BY <2>1, <3>1, <1>2 DEF InEdge, Consumer
  <2>4. QED
    BY <2>2, <2>3, <1>1
<1>3. CASE k # 0
  <2>1. (k - 1 + Z) % Z = k - 1
    <3>1. k - 1 + Z = 1 * Z + (k - 1) /\ k - 1 \in 0 .. Z - 1
      BY <1>1, <1>3
    <3>2. QED
      BY <3>1, <1>1
  <2>2. (k - 1 + 1) % Z = k
    BY <1>1, <1>3
  <2>3. CASE k + 1 < Z
    <3>1. (k + 1) % Z = k + 1
      BY <1>1, <2>3
    <3>2. (k + 1 - 1 + Z) % Z = k
      <4>1. k + 1 - 1 + Z = 1 * Z + k
        BY <1>1
      <4>2. QED
        BY <4>1, <1>1
    <3>3. InEdge(k) = k - 1 /\ Consumer(k - 1) = k
      BY <2>1, <2>2 DEF InEdge, Consumer
    <3>4. Consumer(k) = k + 1
      BY <3>1 DEF Consumer
    <3>5. InEdge(k + 1) = k
      BY <1>1, <3>2 DEF InEdge
    <3>6. QED
      BY <3>3, <3>4, <3>5
  <2>4. CASE k + 1 = Z
    <3>0. 0 - 1 + Z = k /\ k \in 0 .. Z - 1
      BY <1>1, <2>4
    <3>1. (k + 1) % Z = 0 /\ (0 - 1 + Z) % Z = k
      BY <1>1, <2>4, <3>0
    <3>2. QED
      BY <2>1, <2>2, <3>1 DEF InEdge, Consumer
  <2>5. QED
    BY <2>3, <2>4, <1>1
<1>4. QED
  BY <1>2, <1>3

LEMMA PoolFacts ==
  /\ SlotCount \in Nat /\ ReserveCount \in Nat
  /\ 0 < ReserveCount /\ ReserveCount <= SlotCount
  /\ \A k \in Nodes : Circulating(k) \in 0 .. SlotCount
<1> DEFINE q == (N + Z - 1) \div Z
<1>1. q \in Int /\ N \in Nat \ {0}
  BY RingFacts
<1>2. Max({8, q + 4}) = (IF 8 >= q + 4 THEN 8 ELSE q + 4)
  BY <1>1, MaxOfTwo
<1>3. Min({N + 2, Max({8, q + 4})})
        = (IF N + 2 <= Max({8, q + 4}) THEN N + 2 ELSE Max({8, q + 4}))
  <2>1. Max({8, q + 4}) \in Int /\ N + 2 \in Int
    BY <1>1, <1>2
  <2> HIDE DEF q
  <2>2. QED
    BY <2>1, MinOfTwo
<1>4. Min({N, 6}) = (IF N <= 6 THEN N ELSE 6)
  BY <1>1, MinOfTwo
<1>5. SlotCount = IF SelfLoop THEN N + 2
                  ELSE IF N + 2 <= Max({8, q + 4}) THEN N + 2 ELSE Max({8, q + 4})
  BY <1>3 DEF SlotCount
<1>6. ReserveCount = IF SelfLoop THEN SlotCount ELSE IF N <= 6 THEN N ELSE 6
  BY <1>4 DEF ReserveCount
<1> HIDE DEF q
<1>7. SlotCount \in Nat /\ ReserveCount \in Nat /\ 0 < ReserveCount /\ ReserveCount <= SlotCount
  BY <1>1, <1>2, <1>5, <1>6
<1>8. QED
  BY <1>7 DEF Circulating

LEMMA SlotRangeType ==
  ASSUME NEW a \in Nat, NEW b \in 0 .. SlotCount, a <= b
  PROVE  SlotRange(a, b) \in Seq(SlotIds)
<1>1. SlotCount \in Nat
  BY PoolFacts
<1>2. \A q \in 1 .. b - a : a + q - 1 \in SlotIds
  BY <1>1 DEF SlotIds
<1>3. QED
  BY <1>1, <1>2 DEF SlotRange
-----------------------------------------------------------------------------
(* Types.  TypeOK alone is not inductive: a zone that leaves gives back its  *)
(* slot, so the zones in the out queue must have arrived, and those that     *)
(* arrived must have a slot.                                                 *)

Received(k) ==
  pc[k] = "compute" \/ (pc[k] = "io" /\ loc[k].op = 2 /\ CurrentOp(k) = "SEND")

SlotsHeld(k) ==
  /\ \A j \in Zones : j < loc[k].arrived => loc[k].slot[j].dev \in SlotIds
  /\ \A q \in 1 .. Len(loc[k].outq) : loc[k].outq[q] < loc[k].arrived

AtTheEnd == {"endhead", "flush", "finish", "record"}

Progress(k) ==
  /\ Received(k) => loc[k].arrived > LastNeeded(loc[k].pos)
  /\ pc[k] \in AtTheEnd => loc[k].pos = N - 1 /\ loc[k].arrived = N

NodeTypes ==
  /\ pc \in [Nodes -> NodePoints] /\ pass \in [Nodes -> Nat]
  /\ loc \in [Nodes -> PassStates]
LaneTypes ==
  /\ chan \in [Nodes -> Seq(Headers)] /\ credits \in [Nodes -> Seq(SlotIds)]
  /\ closed \subseteq Nodes
PoolTypes == bfree \in [Nodes -> Seq(SlotIds)] /\ reserve \in Seq(SlotIds)
HaltTypes == haltKind \in [Heads -> HaltKinds] /\ haltPass \in [Heads -> Nat]
LinkTypes ==
  /\ link \in [Heads -> Seq(WireMessages)]
  /\ poisoned \in [Heads -> BOOLEAN] /\ poisonSent \in [Heads -> BOOLEAN]
  /\ nextBuf \in [Heads -> 0 .. PoolSize - 1]
EndTypes ==
  /\ stats \in [Passes -> PassRecords] /\ final \in [Zones -> Bodies]
  /\ result \in [Heads -> Results]
LevelType == level \in [Zones -> Nat]

\* The node that closes its rank's edges is alone in that and finds one open.
ClosingWell ==
  /\ \A r \in Heads : ~HaltOn(r) => EdgesOf(r) \cap closed = {}
  /\ \A k \in Nodes : pc[k] = "closing" =>
       /\ HaltOn(RankOf(k)) /\ ~(EdgesOf(RankOf(k)) \subseteq closed)
       /\ \A n \in Nodes : pc[n] = "closing" /\ RankOf(n) = RankOf(k) => n = k

TypeInv ==
  /\ NodeTypes /\ LaneTypes /\ PoolTypes /\ HaltTypes /\ LinkTypes /\ EndTypes
  /\ LevelType /\ dev \in Devices /\ ClosingWell
  /\ \A k \in Nodes : SlotsHeld(k) /\ Progress(k)

LEMMA TypesOK == TypeInv => TypeOK
BY DEF TypeInv, TypeOK, NodeTypes, LaneTypes, PoolTypes, HaltTypes, LinkTypes,
       EndTypes, LevelType, Devices

\* What an action leaves alone keeps its type.
LEMMA Untouched ==
  ASSUME TypeInv
  PROVE  /\ UNCHANGED laneVars => LaneTypes'
         /\ UNCHANGED poolVars => PoolTypes'
         /\ UNCHANGED haltVars => HaltTypes'
         /\ UNCHANGED linkVars => LinkTypes'
         /\ UNCHANGED endVars => EndTypes'
         /\ UNCHANGED level => LevelType'
         /\ UNCHANGED dev => dev' \in Devices
<1>1. UNCHANGED laneVars => LaneTypes'
  BY DEF TypeInv, laneVars, LaneTypes
<1>2. UNCHANGED poolVars => PoolTypes'
  BY DEF TypeInv, poolVars, PoolTypes
<1>3. UNCHANGED haltVars => HaltTypes'
  BY DEF TypeInv, haltVars, HaltTypes
<1>4. UNCHANGED linkVars => LinkTypes'
  BY DEF TypeInv, linkVars, LinkTypes
<1>5. UNCHANGED endVars => EndTypes'
  BY DEF TypeInv, endVars, EndTypes
<1>6. UNCHANGED level => LevelType'
  BY DEF TypeInv, LevelType
<1>7. QED
  BY <1>1, <1>2, <1>3, <1>4, <1>5, <1>6 DEF TypeInv

\* A step of node k moves no other node.
LEMMA OthersKeep ==
  ASSUME TypeInv, NEW k \in Nodes, NodeTypes', SlotsHeld(k)', Progress(k)',
         \A n \in Nodes \ {k} : pc'[n] = pc[n] /\ loc'[n] = loc[n]
  PROVE  \A n \in Nodes : SlotsHeld(n)' /\ Progress(n)'
<1>1. SUFFICES ASSUME NEW n \in Nodes, n # k PROVE SlotsHeld(n)' /\ Progress(n)'
  OBVIOUS
<1>2. pc'[n] = pc[n] /\ loc'[n] = loc[n] /\ SlotsHeld(n) /\ Progress(n)
  BY <1>1 DEF TypeInv
<1>3. QED
  BY <1>2 DEF SlotsHeld, Progress, Received, CurrentOp

\* A step of node k that only moves its control point.
LEMMA MoveOnly ==
  ASSUME TypeInv, NEW k \in Nodes, NEW point \in NodePoints, Goto(k, point),
         UNCHANGED <<pass, loc>>, Progress(k)'
  PROVE  NodeTypes' /\ \A n \in Nodes : SlotsHeld(n)' /\ Progress(n)'
<1>1. NodeTypes'
  BY DEF TypeInv, NodeTypes, Goto
<1>2. SlotsHeld(k)'
  BY DEF TypeInv, SlotsHeld
<1>3. \A n \in Nodes \ {k} : pc'[n] = pc[n] /\ loc'[n] = loc[n]
  BY DEF TypeInv, NodeTypes, Goto
<1>4. QED
  BY <1>1, <1>2, <1>3, OthersKeep

\* Where a node stops nothing is asked of its pass.
LEMMA StopAnywhere ==
  ASSUME TypeInv, NEW k \in Nodes, NEW point \in {"closing", "poison", "done"},
         Goto(k, point), UNCHANGED <<pass, loc>>
  PROVE  NodeTypes' /\ \A n \in Nodes : SlotsHeld(n)' /\ Progress(n)'
<1>1. pc'[k] = point
  BY DEF TypeInv, NodeTypes, Goto
<1>2. Progress(k)'
  BY <1>1 DEF Progress, Received, AtTheEnd
<1>3. point \in NodePoints
  BY DEF NodePoints
<1>4. QED
  BY <1>2, <1>3, MoveOnly

LEMMA ClosingKept ==
  ASSUME TypeInv, UNCHANGED <<closed, haltKind>>,
         \A n \in Nodes : pc'[n] = "closing" => pc[n] = "closing"
  PROVE  ClosingWell'
BY DEF TypeInv, ClosingWell, HaltOn

LEMMA SetHaltType ==
  ASSUME TypeInv, NEW k \in Nodes, NEW kind \in HaltKinds \ {"None"},
         SetHalt(k, kind), UNCHANGED <<pass, loc, closed>>
  PROVE  /\ NodeTypes' /\ HaltTypes' /\ ClosingWell'
         /\ \A n \in Nodes : SlotsHeld(n)' /\ Progress(n)'
<1>1. RankOf(k) \in Heads
  BY RankFacts
<1>2. CASE HaltOn(RankOf(k))
  <2>1. Goto(k, "done") /\ UNCHANGED haltVars
    BY <1>2 DEF SetHalt
  <2>2. ClosingWell'
    BY <2>1, ClosingKept DEF Goto, haltVars, TypeInv, NodeTypes
  <2>3. QED
    BY <2>1, <2>2, StopAnywhere, Untouched
<1>3. CASE ~HaltOn(RankOf(k))
  <2>0. /\ Goto(k, "closing")
        /\ haltKind' = [haltKind EXCEPT ![RankOf(k)] = kind]
        /\ haltPass' = [haltPass EXCEPT ![RankOf(k)] = pass[k]]
    BY <1>3 DEF SetHalt
  <2>1. HaltTypes'
    BY <1>1, <2>0 DEF TypeInv, HaltTypes, NodeTypes
  <2>2. ClosingWell'
    <3>1. k \in EdgesOf(RankOf(k)) /\ EdgesOf(RankOf(k)) \cap closed = {}
      BY <1>1, <1>3 DEF EdgesOf, TypeInv, ClosingWell
    <3>2. ~(EdgesOf(RankOf(k)) \subseteq closed')
      BY <3>1
    <3>3. \A r \in Heads : haltKind'[r] = IF r = RankOf(k) THEN kind ELSE haltKind[r]
      BY <2>0 DEF TypeInv, HaltTypes
    <3>4. \A n \in Nodes : pc'[n] = IF n = k THEN "closing" ELSE pc[n]
      BY <2>0 DEF Goto, TypeInv, NodeTypes
    <3>5. \A n \in Nodes : pc[n] = "closing" => RankOf(n) # RankOf(k)
      BY <1>3 DEF TypeInv, ClosingWell
    <3>6. \A r \in Heads : ~HaltOn(r)' => EdgesOf(r) \cap closed' = {}
      BY <3>3 DEF HaltOn, TypeInv, ClosingWell
    <3>7. ASSUME NEW q \in Nodes, pc'[q] = "closing"
          PROVE  /\ HaltOn(RankOf(q))' /\ ~(EdgesOf(RankOf(q)) \subseteq closed')
                 /\ \A n \in Nodes : pc'[n] = "closing" /\ RankOf(n) = RankOf(q) => n = q
      <4>1. RankOf(q) \in Heads
        BY RankFacts
      <4>2. CASE q = k
        BY <3>2, <3>3, <3>4, <3>5, <4>1, <4>2 DEF HaltOn
      <4>3. CASE q # k
        BY <3>3, <3>4, <3>5, <3>7, <4>1, <4>3 DEF HaltOn, TypeInv, ClosingWell
      <4>4. QED
        BY <4>2, <4>3
    <3>8. QED
      BY <3>6, <3>7 DEF ClosingWell
  <2>3. QED
    BY <2>0, <2>1, <2>2, StopAnywhere
<1>4. QED
  BY <1>2, <1>3

LEMMA HaltKindNames ==
  /\ {"Logic", "Ring", "Spawn"} \subseteq HaltKinds \ {"None"}
  /\ FaultKinds \subseteq HaltKinds \ {"None"}
BY DEF HaltKinds, FaultKinds, SyncKinds, RecordKinds

-----------------------------------------------------------------------------
(* The device: every operation maps a device to a device.                    *)

LEMMA ClockFacts ==
  ASSUME NEW d \in Devices, NEW k \in Nodes
  PROVE  /\ d.clock[k] \in Clocks /\ d.clock[k][k] \in Nat
         /\ d.host[k] \in Nat /\ d.mem \in [DevicePlaces -> ZoneImages]
BY DEF Devices, Clocks

LEMMA AccessType ==
  ASSUME NEW d \in Devices, NEW k \in Nodes, NEW R, NEW W
  PROVE  Access(d, k, R, W) \in Devices /\ Access(d, k, R, W).mem = d.mem
<1> DEFINE now == d.clock[k][k] + 1
           Touched(last, S) ==
             [p \in DevicePlaces |-> IF p \in S THEN [last[p] EXCEPT ![k] = now]
                                     ELSE last[p]]
           races == \/ d.raced
                    \/ \E p \in R \cup W : ~Before(d.writes[p], d.clock[k])
                    \/ \E p \in W : ~Before(d.reads[p], d.clock[k])
<1>1. now \in Nat
  BY ClockFacts
<1>2. \A last \in [DevicePlaces -> Clocks] : \A S :
        Touched(last, S) \in [DevicePlaces -> Clocks]
  BY <1>1 DEF Clocks
<1>3. d.reads \in [DevicePlaces -> Clocks] /\ d.writes \in [DevicePlaces -> Clocks]
      /\ d.event \in [DeviceEvents -> Clocks] /\ d.host \in [Nodes -> Nat]
      /\ d.mem \in [DevicePlaces -> ZoneImages] /\ d.clock \in [Nodes -> Clocks]
  BY DEF Devices
<1>4. Touched(d.reads, R) \in [DevicePlaces -> Clocks]
      /\ Touched(d.writes, W) \in [DevicePlaces -> Clocks]
  BY <1>2, <1>3
<1>5. races \in BOOLEAN
  OBVIOUS
<1>6. [d.clock EXCEPT ![k][k] = now] \in [Nodes -> Clocks]
  BY <1>1, <1>3 DEF Clocks
<1> DEFINE reads == Touched(d.reads, R)
           writes == Touched(d.writes, W)
<1>7. reads \in [DevicePlaces -> Clocks] /\ writes \in [DevicePlaces -> Clocks]
  BY <1>4
<1>8. Access(d, k, R, W) = [d EXCEPT !.clock[k][k] = now, !.reads = reads,
                                     !.writes = writes, !.raced = races]
  BY Zenon DEF Access
<1> HIDE DEF Touched, races, now, reads, writes
<1>9. QED
  BY <1>1, <1>3, <1>5, <1>6, <1>7, <1>8 DEF Devices

LEMMA WriteType ==
  ASSUME NEW d \in Devices, NEW p, NEW image \in ZoneImages
  PROVE  [d EXCEPT !.mem[p] = image] \in Devices
BY DEF Devices

LEMMA RecordType ==
  ASSUME NEW d \in Devices, NEW k \in Nodes, NEW e
  PROVE  Record(d, k, e) \in Devices /\ Record(d, k, e).mem = d.mem
BY ClockFacts DEF Record, Devices

LEMMA WaitEventType ==
  ASSUME NEW d \in Devices, NEW k \in Nodes, NEW e \in DeviceEvents
  PROVE  WaitEvent(d, k, e) \in Devices /\ WaitEvent(d, k, e).mem = d.mem
<1>1. d.event[e] \in Clocks /\ d.clock[k] \in Clocks
  BY DEF Devices
<1>2. Merge(d.clock[k], d.event[e]) \in Clocks
  BY <1>1 DEF Merge, Clocks
<1>3. QED
  BY <1>2 DEF WaitEvent, Devices

LEMMA SyncType ==
  ASSUME NEW d \in Devices, NEW k \in Nodes
  PROVE  /\ StreamSync(d, k) \in Devices /\ StreamSync(d, k).mem = d.mem
         /\ \A e \in DeviceEvents : EventSync(d, k, e) \in Devices
                                    /\ EventSync(d, k, e).mem = d.mem
<1>1. d.clock[k][k] \in Nat /\ d.host[k] \in Nat
  BY ClockFacts
<1>2. StreamSync(d, k) \in Devices /\ StreamSync(d, k).mem = d.mem
  BY <1>1 DEF StreamSync, Devices
<1>3. ASSUME NEW e \in DeviceEvents
      PROVE  EventSync(d, k, e) \in Devices /\ EventSync(d, k, e).mem = d.mem
  <2>1. d.event[e][k] \in Nat
    BY DEF Devices, Clocks
  <2>2. QED
    BY <1>1, <2>1 DEF EventSync, Devices
<1>4. QED
  BY <1>2, <1>3

LEMMA HostType ==
  ASSUME NEW d \in Devices, NEW k \in Nodes, NEW p
  PROVE  /\ HostUse(d, k, p) \in Devices /\ HostUse(d, k, p).mem = d.mem
         /\ \A image \in ZoneImages : HostWrite(d, k, p, image) \in Devices
<1>1. HostUse(d, k, p) \in Devices /\ HostUse(d, k, p).mem = d.mem
  <2> DEFINE races == d.raced \/ d.writes[p][k] > d.host[k] \/ d.reads[p][k] > d.host[k]
  <2>1. races \in BOOLEAN
    OBVIOUS
  <2>2. HostUse(d, k, p) = [d EXCEPT !.raced = races]
    BY DEF HostUse
  <2> HIDE DEF races
  <2>3. QED
    BY <2>1, <2>2 DEF Devices
<1>2. QED
  BY <1>1, WriteType DEF HostWrite

LEMMA KernelIs ==
  ASSUME NEW d \in Devices, NEW k \in Nodes, NEW R, NEW p \in DevicePlaces,
         NEW image \in ZoneImages, NEW e,
         e = [Access(d, k, R, {p}) EXCEPT !.mem[p] = image]
  PROVE  e \in Devices /\ e.mem = [d.mem EXCEPT ![p] = image]
<1> DEFINE a == Access(d, k, R, {p})
<1>1. a \in Devices /\ a.mem = d.mem
  BY AccessType
<1> HIDE DEF a
<1>2. e = [a EXCEPT !.mem[p] = image]
  BY DEF a
<1>3. e \in Devices
  <2>1. [a EXCEPT !.mem[p] = image] \in Devices
    BY <1>1, WriteType
  <2>2. QED
    BY <1>2, <2>1, Zenon
<1>4. e.mem = [a.mem EXCEPT ![p] = image]
  BY <1>1, <1>2 DEF Devices
<1>5. QED
  BY <1>1, <1>3, <1>4

-----------------------------------------------------------------------------
(* The operators of the model keep the types of what they transform.         *)

LEMMA ApplyType ==
  ASSUME NEW z \in ZoneRecords, NEW e \in ZoneEvents
  PROVE  Apply(z, e) \in ZoneRecords
<1>1. Target(e) \in ZoneTypes
  BY DEF ZoneEvents, ZoneTypes, Target
<1>2. (IF e \in {"RECV", "SEND"} THEN {} ELSE z.contrib_mask) \in SUBSET Contributors
  BY DEF ZoneRecords
<1>3. (e = "END") \in BOOLEAN
  OBVIOUS
<1>4. QED
  BY <1>1, <1>2, <1>3, Zenon DEF Apply, ZoneRecords

LEMMA FreeZoneType == FreeZone \in ZoneRecords
BY DEF FreeZone, ZoneRecords, ZoneTypes, Contributors

LEMMA ContributeType ==
  ASSUME NEW z \in ZoneRecords, NEW c \in Contributors
  PROVE  Contribute(z, c) \in ZoneRecords
BY DEF Contribute, ZoneRecords

LEMMA ForcesType ==
  /\ NoForces \in [Zones -> Nat]
  /\ \A i \in Zones : FullForces(i) \in [Zones -> Nat]
BY DEF NoForces, FullForces

LEMMA LambdaTypes ==
  /\ NoLambda \in Lambdas
  /\ \A h \in Nat : FullLambda(h) \in Lambdas
  /\ NoDt \in TimeSteps /\ DtInitial \in TimeSteps
  /\ \A lam \in Lambdas, dt \in TimeSteps : AutoDt(lam, dt) \in TimeSteps
BY DEF NoLambda, Lambdas, FullLambda, NoDt, DtInitial, TimeSteps, AutoDt

LEMMA BodyTypes ==
  NoBody \in Bodies /\ \A i \in Zones, h \in Nat : CompleteBody(i, h) \in Bodies
BY ForcesType DEF NoBody, CompleteBody, Bodies

LEMMA BodyStepsTypes ==
  ASSUME NEW b \in Bodies
  PROVE  /\ [b EXCEPT !.x = @ + 1, !.v = @ + 1] \in Bodies
         /\ \A f \in [Zones -> Nat] : [b EXCEPT !.f = f, !.v = @ + 1] \in Bodies
<1>1. b.x + 1 \in Nat /\ b.v + 1 \in Nat
  <2>1. b.x \in Nat /\ b.v \in Nat
    BY DEF Bodies
  <2>2. QED
    BY <2>1
<1>2. \A x, v \in Nat : [b EXCEPT !.x = x, !.v = v] \in Bodies
  BY DEF Bodies
<1>3. \A f \in [Zones -> Nat], v \in Nat : [b EXCEPT !.f = f, !.v = v] \in Bodies
  BY DEF Bodies
<1>4. QED
  BY <1>1, <1>2, <1>3

LEMMA ImageTypes ==
  /\ BlankImage \in ZoneImages
  /\ \A i \in Zones : T0Image(i) \in ZoneImages
  /\ \A m \in WireMessages : WireImage(m) \in ZoneImages
<1>1. BlankImage \in ZoneImages
  BY RingFacts, BodyTypes, ForcesType DEF BlankImage, ZoneImages
<1>2. \A i \in Zones : T0Image(i) \in ZoneImages
  BY BodyTypes, ForcesType DEF T0Image, ZoneImages
<1>3. ASSUME NEW m \in WireMessages PROVE WireImage(m) \in ZoneImages
  <2>1. m.zone \in Zones /\ m.body \in Bodies
    BY DEF WireMessages
  <2>2. QED
    BY <1>1, <2>1 DEF WireImage, ZoneImages
<1>4. QED
  BY <1>1, <1>2, <1>3

LEMMA ImageSteps ==
  ASSUME NEW a \in ZoneImages, NEW b \in ZoneImages
  PROVE  /\ Drifted(a) \in ZoneImages /\ CountPairs(a, b) \in ZoneImages
         /\ [a EXCEPT !.body = Kicked(@, a.acc)] \in ZoneImages
<1>1. a.body \in Bodies /\ b.zone \in Zones /\ a.acc \in [Zones -> Nat]
  BY DEF ZoneImages
<1>2. Drifted(a) \in ZoneImages
  <2> DEFINE body == [a.body EXCEPT !.x = @ + 1, !.v = @ + 1]
  <2>1. body \in Bodies
    BY <1>1, BodyStepsTypes
  <2>2. Drifted(a) = [a EXCEPT !.body = body, !.acc = NoForces]
    BY <1>1 DEF Drifted, ZoneImages, Bodies
  <2> HIDE DEF body
  <2>3. QED
    BY <2>1, <2>2, ForcesType DEF ZoneImages
<1>3. CountPairs(a, b) \in ZoneImages
  <2>1. [a.acc EXCEPT ![b.zone] = @ + 1] \in [Zones -> Nat]
    BY <1>1
  <2>2. QED
    BY <2>1 DEF CountPairs, ZoneImages
<1>4. [a EXCEPT !.body = Kicked(@, a.acc)] \in ZoneImages
  <2>1. Kicked(a.body, a.acc) \in Bodies
    BY <1>1, BodyStepsTypes DEF Kicked
  <2>2. QED
    BY <2>1 DEF ZoneImages
<1>5. QED
  BY <1>2, <1>3, <1>4

LEMMA EmptySlotType == EmptySlot \in PassSlots
BY RingFacts, FreeZoneType, LambdaTypes DEF EmptySlot, PassSlots, NoSlot

LEMMA FreshPassType ==
  ASSUME NEW h \in Nat
  PROVE  FreshPass(h) \in PassStates
<1>1. [pass |-> h, zones |-> {}] \in Lambdas
  BY DEF Lambdas
<1>2. [j \in Zones |-> EmptySlot] \in [Zones -> PassSlots]
  BY EmptySlotType
<1>3. <<>> \in Seq(Zones)
  BY EmptySeq
<1>4. QED
  BY <1>1, <1>2, <1>3, RingFacts, LambdaTypes DEF FreshPass, PassStates, NoSlot

\* The fields of a pass that the proofs look at.
LEMMA PassFields ==
  ASSUME NEW p \in PassStates
  PROVE  /\ p.pos \in Zones /\ p.op \in 1 .. 2 /\ p.slot \in [Zones -> PassSlots]
         /\ p.outq \in Seq(Zones) /\ p.ended \in SUBSET Zones /\ p.synced \in BOOLEAN
         /\ p.sent \in Nat /\ p.arrived \in 0 .. N /\ p.dt \in TimeSteps
         /\ p.agg \in Lambdas /\ p.rbuf \in Lambdas /\ p.dst \in SlotIds \cup {NoSlot}
         /\ p.agg.pass \in Nat /\ p.agg.zones \in SUBSET Zones
BY DEF PassStates, Lambdas

LEMMA SlotFields ==
  ASSUME NEW s \in PassSlots
  PROVE  /\ s.zone \in Zones /\ s.fsm \in ZoneRecords
         /\ s.dev \in SlotIds \cup {NoSlot} /\ s.lam \in Lambdas
BY DEF PassSlots

-----------------------------------------------------------------------------
(* Every action keeps the types.                                             *)

\* The actions in which a node just leaves.
LEMMA LeaveType ==
  ASSUME TypeInv, NEW k \in Nodes, Goto(k, "done"),
         UNCHANGED <<pass, loc, laneVars, poolVars, dev, haltVars, linkVars,
                     endVars, level>>
  PROVE  TypeInv'
<1>1. ClosingWell'
  BY ClosingKept DEF Goto, TypeInv, NodeTypes, laneVars, haltVars
<1>2. QED
  BY <1>1, StopAnywhere, Untouched DEF TypeInv

LEMMA RecvPoisonType ==
  ASSUME TypeInv, NEW k \in Nodes, RecvPoison(k)
  PROVE  TypeInv'
<1> DEFINE r == RankOf(k)
           m == Head(link[r])
           rest == [link EXCEPT ![r] = Tail(@)]
<1>1. r \in Heads /\ NextRank(r) \in Heads
  BY RankFacts, NextRankType
<1>2. /\ EdgeRecvPoison(r) /\ SetHalt(k, "Ring")
      /\ UNCHANGED <<pass, loc, laneVars, poolVars, dev, endVars, level>>
  BY DEF RecvPoison
<1>3. NodeTypes' /\ HaltTypes' /\ ClosingWell' /\ \A n \in Nodes : SlotsHeld(n)' /\ Progress(n)'
  BY <1>2, SetHaltType, HaltKindNames DEF laneVars
<1> HIDE DEF r
<1>4. link[r] \in Seq(WireMessages) /\ link[r] # <<>>
  BY <1>1, <1>2 DEF EdgeRecvPoison, HasPoison, TypeInv, LinkTypes
<1>5. m \in WireMessages /\ rest \in [Heads -> Seq(WireMessages)]
  BY <1>1, <1>4 DEF TypeInv, LinkTypes
<1>6. link' \in [Heads -> Seq(WireMessages)]
  <2>1. CASE m.step > 0
    <3> DEFINE onward == PoisonWith(m, m.step - 1)
    <3>1. m.step - 1 \in Nat
      BY <1>5, <2>1 DEF WireMessages
    <3>2. onward \in WireMessages
      BY <1>5, <3>1 DEF PoisonWith, WireMessages
    <3> HIDE DEF onward
    <3>3. \A n \in Heads : Append(rest[n], onward) \in Seq(WireMessages)
      BY <1>5, <3>2
    <3>4. link' = [rest EXCEPT ![NextRank(r)] = Append(@, onward)]
      BY <1>2, <2>1 DEF EdgeRecvPoison, onward
    <3> HIDE DEF rest
    <3>5. QED
      BY <1>1, <1>5, <3>3, <3>4
  <2>2. CASE ~(m.step > 0)
    BY <1>2, <1>5, <2>2 DEF EdgeRecvPoison
  <2>3. QED
    BY <2>1, <2>2
<1>7. LinkTypes'
  BY <1>1, <1>2, <1>6 DEF EdgeRecvPoison, TypeInv, LinkTypes
<1>8. QED
  BY <1>2, <1>3, <1>7, Untouched DEF TypeInv

LEMMA BlankMessageType == BlankMessage \in WireMessages
BY RingFacts, LambdaTypes, BodyTypes DEF BlankMessage, WireMessages

LEMMA PoisonRingType ==
  ASSUME TypeInv, NEW k \in Nodes, PoisonRing(k)
  PROVE  TypeInv'
<1> DEFINE r == RankOf(k)
           poison == PoisonWith(BlankMessage, Ranks - 1)
<1>1. r \in Heads /\ NextRank(r) \in Heads
  BY RankFacts, NextRankType
<1>2. /\ EdgePoison(r, BlankMessage) /\ Goto(k, "done")
      /\ UNCHANGED <<pass, loc, laneVars, poolVars, dev, haltVars, endVars, level>>
  BY DEF PoisonRing
<1>3. ClosingWell'
  BY <1>2, ClosingKept DEF Goto, TypeInv, NodeTypes, laneVars, haltVars
<1>4. LinkTypes'
  <2> HIDE DEF r
  <2>1. CASE poisoned[r] \/ poisonSent[r]
    BY <1>2, <2>1, Untouched DEF EdgePoison
  <2>2. CASE ~(poisoned[r] \/ poisonSent[r])
    <3>1. Ranks - 1 \in Nat
      BY RanksType
    <3>2. poison \in WireMessages
      BY <3>1, BlankMessageType DEF PoisonWith, WireMessages
    <3>3. link' = [link EXCEPT ![NextRank(r)] = Append(@, poison)]
      BY <1>2, <2>2 DEF EdgePoison
    <3>4. /\ poisonSent' = [poisonSent EXCEPT ![r] = TRUE]
          /\ UNCHANGED <<poisoned, nextBuf>>
      BY <1>2, <2>2 DEF EdgePoison
    <3> HIDE DEF poison
    <3>5. \A n \in Heads : Append(link[n], poison) \in Seq(WireMessages)
      BY <3>2 DEF TypeInv, LinkTypes
    <3>6. link' \in [Heads -> Seq(WireMessages)]
      BY <1>1, <3>3, <3>5 DEF TypeInv, LinkTypes
    <3>7. QED
      BY <3>4, <3>6 DEF TypeInv, LinkTypes
  <2>3. QED
    BY <2>1, <2>2
<1>5. QED
  BY <1>2, <1>3, <1>4, StopAnywhere, Untouched DEF TypeInv

LEMMA CloseEdgeType ==
  ASSUME TypeInv, NEW k \in Nodes, CloseEdge(k)
  PROVE  TypeInv'
<1> DEFINE r == RankOf(k)
           open == EdgesOf(r) \ closed
           e == Min(open)
           point == IF open # {e} THEN "closing" ELSE IF Mpi THEN "poison" ELSE "done"
<1>1. /\ pc[k] = "closing" /\ closed' = closed \cup {e} /\ Goto(k, point)
      /\ UNCHANGED <<pass, loc, chan, credits, poolVars, dev, haltVars, linkVars,
                     endVars, level>>
  BY DEF CloseEdge
<1>2. HaltOn(r) /\ open # {}
  BY <1>1 DEF TypeInv, ClosingWell
<1>3. open \in SUBSET Nat /\ open \subseteq Nodes
  BY RingFacts DEF EdgesOf, Nodes
<1>4. e \in open
  <2> HIDE DEF open
  <2>1. QED
    BY <1>2, <1>3, MinExists
<1>5. LaneTypes'
  BY <1>1, <1>3, <1>4 DEF TypeInv, LaneTypes
<1>6. \A n \in Nodes : pc'[n] = IF n = k THEN point ELSE pc[n]
  BY <1>1 DEF Goto, TypeInv, NodeTypes
<1>7. ClosingWell'
  <2>1. \A h \in Heads : ~HaltOn(h)' => EdgesOf(h) \cap closed' = {}
    <3>1. SUFFICES ASSUME NEW h \in Heads, ~HaltOn(h) PROVE EdgesOf(h) \cap closed' = {}
      BY <1>1 DEF HaltOn, haltVars
    <3>2. EdgesOf(h) \cap closed = {} /\ h # r
      BY <1>2, <3>1 DEF TypeInv, ClosingWell
    <3>3. e \notin EdgesOf(h)
      BY <1>4, <3>2 DEF EdgesOf
    <3> HIDE DEF e
    <3>4. QED
      BY <1>1, <3>2, <3>3
  <2>2. ASSUME NEW q \in Nodes, pc'[q] = "closing"
        PROVE  /\ HaltOn(RankOf(q))' /\ ~(EdgesOf(RankOf(q)) \subseteq closed')
               /\ \A n \in Nodes : pc'[n] = "closing" /\ RankOf(n) = RankOf(q) => n = q
    <3>1. \A n \in Nodes : pc'[n] = "closing" => pc[n] = "closing"
      BY <1>1, <1>6
    <3>2. HaltOn(RankOf(q))' /\ \A n \in Nodes : pc'[n] = "closing" /\ RankOf(n) = RankOf(q) => n = q
      BY <1>1, <2>2, <3>1 DEF TypeInv, ClosingWell, HaltOn, haltVars
    <3>3. CASE q = k
      <4>1. open # {e}
        BY <1>6, <2>2, <3>3
      <4> HIDE DEF e
      <4>2. ~(EdgesOf(r) \subseteq closed')
        BY <1>1, <1>4, <4>1
      <4>3. QED
        BY <3>2, <3>3, <4>2
    <3>4. CASE q # k
      <4>1. pc[q] = "closing" /\ RankOf(q) # r /\ ~(EdgesOf(RankOf(q)) \subseteq closed)
        BY <1>1, <2>2, <3>1, <3>4 DEF TypeInv, ClosingWell
      <4>2. e \notin EdgesOf(RankOf(q))
        BY <1>4, <4>1 DEF EdgesOf
      <4> HIDE DEF e
      <4>3. QED
        BY <1>1, <3>2, <4>1, <4>2
    <3>5. QED
      BY <3>3, <3>4
  <2>3. QED
    BY <2>1, <2>2 DEF ClosingWell
<1>8. NodeTypes' /\ \A n \in Nodes : SlotsHeld(n)' /\ Progress(n)'
  <2>1. point \in {"closing", "poison", "done"}
    OBVIOUS
  <2> HIDE DEF point
  <2>2. QED
    BY <1>1, <2>1, StopAnywhere
<1>9. QED
  BY <1>1, <1>5, <1>7, <1>8, Untouched DEF TypeInv

LEMMA SpawnFailsType ==
  ASSUME TypeInv, NEW k \in Nodes, SpawnFails(k),
         UNCHANGED <<pass, loc, laneVars, poolVars, dev, linkVars, endVars, level>>
  PROVE  TypeInv'
<1> DEFINE r == RankOf(k)
<1>1. r \in Heads
  BY RankFacts
<1>2. /\ haltKind' = IF HaltOn(r) THEN haltKind ELSE [haltKind EXCEPT ![r] = "Spawn"]
      /\ UNCHANGED haltPass
  BY DEF SpawnFails
<1>3. /\ pc' \in [Nodes -> NodePoints]
      /\ \A q \in Nodes : pc'[q] = IF q = k /\ ~HaltOn(r) THEN "closing"
                                   ELSE IF q \in Missing(k) THEN "done" ELSE pc[q]
  BY DEF SpawnFails, TypeInv, NodeTypes, NodePoints
<1>4. HaltTypes'
  BY <1>1, <1>2, HaltKindNames DEF TypeInv, HaltTypes
<1>5. NodeTypes'
  BY <1>3 DEF TypeInv, NodeTypes
<1>6. ASSUME NEW n \in Nodes PROVE SlotsHeld(n)' /\ Progress(n)'
  <2>1. SlotsHeld(n)'
    BY DEF TypeInv, SlotsHeld
  <2>2. pc'[n] = pc[n] \/ pc'[n] \in {"closing", "done"}
    BY <1>3
  <2>3. Progress(n) /\ loc'[n] = loc[n]
    BY DEF TypeInv
  <2>4. Progress(n)'
    BY <2>2, <2>3 DEF Progress, Received, CurrentOp, AtTheEnd
  <2>5. QED
    BY <2>1, <2>4
<1>7. ClosingWell'
  <2>1. CASE HaltOn(r)
    <3>1. \A n \in Nodes : pc'[n] = "closing" => pc[n] = "closing"
      BY <1>3, <2>1
    <3>2. QED
      BY <1>2, <2>1, <3>1, ClosingKept DEF laneVars
  <2>2. CASE ~HaltOn(r)
    <3>1. k \in EdgesOf(r) /\ EdgesOf(r) \cap closed = {}
      BY <1>1, <2>2 DEF EdgesOf, TypeInv, ClosingWell
    <3>2. ~(EdgesOf(r) \subseteq closed') /\ closed' = closed
      BY <3>1 DEF laneVars
    <3>3. \A h \in Heads : haltKind'[h] = IF h = r THEN "Spawn" ELSE haltKind[h]
      BY <1>2, <2>2 DEF TypeInv, HaltTypes
    <3>5. \A n \in Nodes : pc[n] = "closing" => RankOf(n) # r
      BY <2>2 DEF TypeInv, ClosingWell
    <3>6. \A h \in Heads : ~HaltOn(h)' => EdgesOf(h) \cap closed' = {}
      BY <3>2, <3>3 DEF HaltOn, TypeInv, ClosingWell
    <3>7. ASSUME NEW q \in Nodes, pc'[q] = "closing"
          PROVE  /\ HaltOn(RankOf(q))' /\ ~(EdgesOf(RankOf(q)) \subseteq closed')
                 /\ \A n \in Nodes : pc'[n] = "closing" /\ RankOf(n) = RankOf(q) => n = q
      <4>1. RankOf(q) \in Heads
        BY RankFacts
      <4>2. CASE q = k
        BY <1>3, <3>2, <3>3, <3>5, <4>1, <4>2 DEF HaltOn
      <4>3. CASE q # k
        <5>1. pc[q] = "closing" /\ RankOf(q) # r
          BY <1>3, <3>5, <3>7, <4>3
        <5>2. \A n \in Nodes : pc'[n] = "closing" /\ RankOf(n) = RankOf(q) => pc[n] = "closing"
          BY <1>3, <5>1
        <5>3. QED
          BY <3>2, <3>3, <4>1, <5>1, <5>2 DEF HaltOn, TypeInv, ClosingWell
      <4>4. QED
        BY <4>2, <4>3
    <3>8. QED
      BY <3>6, <3>7 DEF ClosingWell
  <2>3. QED
    BY <2>1, <2>2
<1>8. QED
  BY <1>4, <1>5, <1>6, <1>7, Untouched DEF TypeInv

LEMMA NodeFaultType ==
  ASSUME TypeInv, NEW k \in Nodes, NodeFault(k)
  PROVE  TypeInv'
<1>1. PICK kind \in FaultsAt(k) : Fail(k, kind)
  BY DEF NodeFault
<1>2. UNCHANGED <<pass, loc, laneVars, poolVars, dev, linkVars, endVars, level>>
  BY DEF NodeFault
<1>3. CASE kind = "Spawn"
  BY <1>1, <1>2, <1>3, SpawnFailsType DEF Fail
<1>4. CASE kind # "Spawn"
  <2>1. kind \in HaltKinds \ {"None"}
    BY GpuAssumption, HaltKindNames DEF GpuAssumption, FaultsAt
  <2>2. SetHalt(k, kind)
    BY <1>1, <1>4 DEF Fail
  <2>3. NodeTypes' /\ HaltTypes' /\ ClosingWell' /\ \A n \in Nodes : SlotsHeld(n)' /\ Progress(n)'
    BY <1>2, <2>1, <2>2, SetHaltType DEF laneVars
  <2>4. QED
    BY <1>2, <2>3, Untouched DEF TypeInv
<1>5. QED
  BY <1>3, <1>4

LEMMA ZoneAtType ==
  ASSUME NEW h \in Nat, NEW j \in Nat
  PROVE  ZoneAt(h, j) \in Zones
<1>1. Rotation(h) \in Nat
  BY RingFacts DEF Rotation
<1>2. Rotation(h) + j \in Nat
  BY <1>1
<1>3. QED
  BY <1>2, RingFacts DEF ZoneAt, Zones

LEMMA NodeFields ==
  ASSUME TypeInv, NEW k \in Nodes
  PROVE  /\ pc[k] \in NodePoints /\ pass[k] \in Nat /\ loc[k] \in PassStates
         /\ SlotsHeld(k) /\ Progress(k)
BY DEF TypeInv, NodeTypes

LEMMA IoOrderFacts ==
  ASSUME TypeInv, NEW k \in Nodes
  PROVE  CurrentOp(k) \in {"SEND", "RECV"}
<1>1. loc[k].op \in {1, 2}
  BY NodeFields, PassFields
<1>2. QED
  BY <1>1 DEF CurrentOp, NodeIoOrder

\* Before a receive of position pos the next arrival has a place.
LEMMA AwaitedIsZone ==
  ASSUME TypeInv, NEW k \in Nodes, AwaitsArrival(k)
  PROVE  loc[k].arrived \in Zones /\ pc[k] = "io" /\ ~Received(k)
<1>1. loc[k].arrived \in Nat /\ loc[k].pos \in Zones
  BY NodeFields, PassFields, RingFacts
<1>2. LastNeeded(loc[k].pos) <= N - 1
  BY <1>1, RingFacts DEF LastNeeded, Zones
<1>3. loc[k].arrived \in Zones
  <2>1. LastNeeded(loc[k].pos) \in Int
    BY <1>1, RingFacts DEF LastNeeded, Zones
  <2>2. QED
    BY <1>1, <1>2, <2>1, RingFacts DEF AwaitsArrival, Zones
<1>4. QED
  BY <1>3 DEF AwaitsArrival, Received

LEMMA ArriveEffect ==
  ASSUME TypeInv, NEW k \in Nodes, AwaitsArrival(k), NEW s \in SlotIds,
         NEW fsm \in ZoneRecords, NEW lam \in Lambdas, NEW dt \in TimeSteps,
         Arrive(k, s, fsm, lam, dt), UNCHANGED <<pc, pass>>
  PROVE  /\ NodeTypes' /\ \A n \in Nodes : SlotsHeld(n)' /\ Progress(n)'
         /\ \A n \in Nodes \ {k} : loc'[n] = loc[n]
         /\ loc'[k].arrived = loc[k].arrived + 1
         /\ loc'[k].pos = loc[k].pos /\ loc'[k].op = loc[k].op
         /\ loc'[k].outq = loc[k].outq /\ loc'[k].sent = loc[k].sent
         /\ loc'[k].agg = loc[k].agg /\ loc'[k].synced = loc[k].synced
         /\ loc'[k].ended = loc[k].ended
         /\ loc'[k].dt = IF loc[k].arrived = 0 THEN dt ELSE loc[k].dt
         /\ loc'[k].rbuf = IF loc[k].arrived = ForecastPosition THEN lam ELSE loc[k].rbuf
         /\ \A j \in Zones : j # loc[k].arrived => loc'[k].slot[j] = loc[k].slot[j]
         /\ loc'[k].slot[loc[k].arrived].zone = ZoneAt(pass[k], loc[k].arrived)
         /\ loc'[k].slot[loc[k].arrived].lam = lam
         /\ loc'[k].slot[loc[k].arrived].fsm = fsm
         /\ loc'[k].slot[loc[k].arrived].computed = FALSE
         /\ loc'[k].slot[loc[k].arrived].drifted = FALSE
         /\ loc'[k].dst = loc[k].dst /\ loc'[k] \in PassStates
<1> DEFINE p == loc[k]
           a == p.arrived
           new == [EmptySlot EXCEPT !.zone = ZoneAt(pass[k], a), !.fsm = fsm,
                                    !.dev = s, !.lam = lam]
           dtNew == IF a = 0 THEN dt ELSE p.dt
           rbufNew == IF a = ForecastPosition THEN lam ELSE p.rbuf
<1>1. p \in PassStates /\ a \in Zones /\ a \in Nat /\ pass[k] \in Nat
  BY NodeFields, AwaitedIsZone, RingFacts DEF Zones
<1>2. /\ new \in PassSlots /\ new.dev = s /\ new.zone = ZoneAt(pass[k], a) /\ new.lam = lam
      /\ new.fsm = fsm /\ new.computed = FALSE /\ new.drifted = FALSE
  <2>1. ZoneAt(pass[k], a) \in Zones
    BY <1>1, ZoneAtType
  <2>2. EmptySlot.computed = FALSE /\ EmptySlot.drifted = FALSE
    BY DEF EmptySlot
  <2>3. QED
    BY <2>1, <2>2, EmptySlotType DEF PassSlots
<1>3. dtNew \in TimeSteps /\ rbufNew \in Lambdas
  BY <1>1, PassFields
<1> DEFINE slotNew == [p.slot EXCEPT ![a] = new]
<1>4. /\ slotNew \in [Zones -> PassSlots] /\ slotNew[a].dev = s
      /\ slotNew[a].zone = ZoneAt(pass[k], a) /\ slotNew[a].lam = lam
      /\ slotNew[a].fsm = fsm
      /\ slotNew[a].computed = FALSE /\ slotNew[a].drifted = FALSE
      /\ \A j \in Zones : j # a => slotNew[j] = p.slot[j]
  BY <1>1, <1>2, PassFields
<1>5. a + 1 \in 0 .. N
  BY <1>1, RingFacts DEF Zones
<1>6. loc' = [loc EXCEPT ![k] = [p EXCEPT !.slot = slotNew, !.dt = dtNew,
                                          !.rbuf = rbufNew, !.arrived = a + 1]]
  <2>1. loc' = [loc EXCEPT ![k].slot[a] = new, ![k].dt = IF a = 0 THEN dt ELSE @,
                           ![k].rbuf = IF a = ForecastPosition THEN lam ELSE @,
                           ![k].arrived = a + 1]
    BY DEF Arrive
  <2>2. loc \in [Nodes -> PassStates]
    BY DEF TypeInv, NodeTypes
  <2> HIDE DEF new
  <2>3. QED
    BY <1>1, <2>1, <2>2 DEF PassStates
<1> DEFINE q == [p EXCEPT !.slot = slotNew, !.dt = dtNew, !.rbuf = rbufNew,
                          !.arrived = a + 1]
<1>7. /\ q \in PassStates /\ q.slot = slotNew /\ q.arrived = a + 1
      /\ q.pos = p.pos /\ q.op = p.op /\ q.outq = p.outq /\ q.sent = p.sent
      /\ q.agg = p.agg /\ q.synced = p.synced
      /\ q.ended = p.ended /\ q.dt = dtNew /\ q.rbuf = rbufNew /\ q.dst = p.dst
  <2> HIDE DEF slotNew, dtNew, rbufNew
  <2>1. q \in PassStates
    BY <1>1, <1>3, <1>4, <1>5 DEF PassStates
  <2>2. /\ q.slot = slotNew /\ q.arrived = a + 1
        /\ q.pos = p.pos /\ q.op = p.op /\ q.outq = p.outq /\ q.sent = p.sent
        /\ q.agg = p.agg /\ q.synced = p.synced
    BY <1>1 DEF PassStates
  <2>3. q.ended = p.ended /\ q.dt = dtNew /\ q.rbuf = rbufNew /\ q.dst = p.dst
    BY <1>1 DEF PassStates
  <2>4. QED
    BY <2>1, <2>2, <2>3
<1>8. loc' \in [Nodes -> PassStates] /\ loc'[k] = q /\ \A n \in Nodes \ {k} : loc'[n] = loc[n]
  <2>1. loc' = [loc EXCEPT ![k] = q]
    BY <1>6
  <2> HIDE DEF q
  <2>2. QED
    BY <1>7, <2>1 DEF TypeInv, NodeTypes
<1> HIDE DEF q, slotNew
<1>9. NodeTypes'
  BY <1>8 DEF TypeInv, NodeTypes
<1>10. SlotsHeld(k)'
  <2>1. ASSUME NEW j \in Zones, j < a + 1 PROVE slotNew[j].dev \in SlotIds
    <3>1. CASE j = a
      BY <1>4, <3>1
    <3>2. CASE j # a
      <4>1. j < a
        BY <1>1, <2>1, <3>2 DEF Zones
      <4>2. QED
        BY <1>4, <3>2, <4>1, NodeFields DEF SlotsHeld
    <3>3. QED
      BY <3>1, <3>2
  <2>2. ASSUME NEW i \in 1 .. Len(p.outq) PROVE p.outq[i] < a + 1
    <3>1. p.outq[i] < a
      BY NodeFields DEF SlotsHeld
    <3>2. p.outq[i] \in Int
      <4>1. p.outq \in Seq(Zones)
        BY <1>1, PassFields
      <4>2. p.outq[i] \in Zones
        BY <4>1
      <4>3. QED
        BY <4>2, RingFacts DEF Zones
    <3>3. QED
      BY <1>1, <3>1, <3>2
  <2>3. QED
    BY <1>7, <1>8, <2>1, <2>2 DEF SlotsHeld
<1>11. Progress(k)'
  BY <1>1, <1>7, <1>8, AwaitedIsZone, Zenon DEF Progress, Received, CurrentOp, AtTheEnd
<1>12. QED
  BY <1>4, <1>7, <1>8, <1>9, <1>10, <1>11, OthersKeep

LEMMA PlaceTypes ==
  ASSUME NEW k \in Nodes
  PROVE  /\ \A s \in SlotIds \cup {NoSlot} : <<k, s>> \in DevicePlaces
         /\ {<<k, InStage>>, <<k, OutStage>>, <<k, EndScalars>>} \subseteq DevicePlaces
         /\ InEvent(k) \in DeviceEvents
         /\ \A s \in SlotIds : FreeEvent(k, s) \in DeviceEvents /\ ArrivalEvent(k, s) \in DeviceEvents
<1>1. SlotCount \in Nat /\ SlotCount >= 1
  BY PoolFacts
<1>2. \A s \in (SlotIds \cup {NoSlot, InStage, OutStage, EndScalars}) : s \in EndScalars .. SlotCount - 1
  BY <1>1 DEF SlotIds, NoSlot, InStage, OutStage, EndScalars
<1>3. \A s \in (SlotIds \cup {NoSlot, InStage, OutStage, EndScalars}) : <<k, s>> \in DevicePlaces
  BY <1>2 DEF DevicePlaces
<1>4. InEvent(k) \in DeviceEvents
  BY DEF DeviceEvents, InEvent
<1>5. \A s \in SlotIds : FreeEvent(k, s) \in DeviceEvents /\ ArrivalEvent(k, s) \in DeviceEvents
  BY DEF DeviceEvents, FreeEvent, ArrivalEvent
<1>6. QED
  BY <1>3, <1>4, <1>5

LEMMA StartPassType ==
  ASSUME TypeInv, NEW k \in Nodes, StartPass(k)
  PROVE  /\ TypeInv'
         /\ loc'[k] = FreshPass(pass[k]) /\ pc'[k] = "io"
         /\ \A n \in Nodes \ {k} : pc'[n] = pc[n] /\ loc'[n] = loc[n]
<1> DEFINE q == FreshPass(pass[k])
<1>1. q \in PassStates
  BY FreshPassType, NodeFields
<1>2. /\ loc' = [loc EXCEPT ![k] = q] /\ Goto(k, "io")
      /\ UNCHANGED <<pass, laneVars, poolVars, dev, haltVars, linkVars, endVars, level>>
  BY DEF StartPass
<1>3. q.outq = <<>> /\ q.arrived = 0 /\ q.op = 1
  BY DEF FreshPass
<1> HIDE DEF q
<1>4. /\ NodeTypes' /\ loc'[k] = q /\ pc'[k] = "io"
      /\ \A n \in Nodes \ {k} : pc'[n] = pc[n] /\ loc'[n] = loc[n]
  BY <1>1, <1>2 DEF TypeInv, NodeTypes, Goto, NodePoints
<1>5. SlotsHeld(k)'
  <2>1. \A j \in Zones : ~(j < 0)
    BY RingFacts DEF Zones
  <2>2. QED
    BY <1>3, <1>4, <2>1 DEF SlotsHeld
<1>6. Progress(k)'
  BY <1>3, <1>4 DEF Progress, Received, AtTheEnd
<1>7. ClosingWell'
  BY <1>2, <1>4, ClosingKept DEF laneVars, haltVars
<1>8. TypeInv'
  BY <1>2, <1>4, <1>5, <1>6, <1>7, OthersKeep, Untouched DEF TypeInv
<1>9. QED
  BY <1>4, <1>8 DEF q

LEMMA TakePreloadType ==
  ASSUME TypeInv, NEW k \in Nodes, TakePreload(k)
  PROVE  TypeInv'
<1> DEFINE s == Head(reserve)
           i == ZoneAt(1, loc[k].arrived)
           fsm == [FreeZone EXCEPT !.type = InitialZoneType(1)]
<1>1. AwaitsArrival(k) /\ UNCHANGED <<pass, laneVars, bfree, linkVars, endVars, level>>
  BY DEF TakePreload
<1>2. CASE reserve = <<>>
  <2>1. SetHalt(k, "Logic") /\ UNCHANGED <<loc, reserve, dev>>
    BY <1>2 DEF TakePreload
  <2>2. NodeTypes' /\ HaltTypes' /\ ClosingWell' /\ \A n \in Nodes : SlotsHeld(n)' /\ Progress(n)'
    BY <1>1, <2>1, SetHaltType, HaltKindNames DEF laneVars
  <2>3. QED
    BY <1>1, <2>1, <2>2, Untouched DEF TypeInv, poolVars
<1>3. CASE reserve # <<>>
  <2>1. /\ Arrive(k, s, fsm, FullLambda(0), DtInitial) /\ reserve' = Tail(reserve)
        /\ dev' = Kernel(dev, k, {}, <<k, s>>, LAMBDA mem : T0Image(i))
        /\ UNCHANGED <<pc, haltVars>>
    BY <1>3 DEF TakePreload
  <2>2. s \in SlotIds /\ Tail(reserve) \in Seq(SlotIds)
    BY <1>3 DEF TypeInv, PoolTypes
  <2>3. fsm \in ZoneRecords
    BY FreeZoneType DEF InitialZoneType, ZoneRecords, ZoneTypes
  <2>4. NodeTypes' /\ \A n \in Nodes : SlotsHeld(n)' /\ Progress(n)'
    <3> HIDE DEF s, fsm
    <3>1. QED
      BY <1>1, <2>1, <2>2, <2>3, LambdaTypes, ArriveEffect
  <2>5. dev' \in Devices
    <3>1. dev' = [Access(dev, k, {}, {<<k, s>>}) EXCEPT !.mem[<<k, s>>] = T0Image(i)]
      BY <2>1 DEF Kernel
    <3>2. i \in Zones
      <4>1. loc[k].arrived \in Zones
        BY <1>1, AwaitedIsZone
      <4>2. loc[k].arrived \in Nat
        BY <4>1, RingFacts DEF Zones
      <4>3. QED
        BY <4>2, ZoneAtType
    <3>3. T0Image(i) \in ZoneImages /\ <<k, s>> \in DevicePlaces
      BY <2>2, <3>2, ImageTypes, PlaceTypes
    <3>4. dev \in Devices
      BY DEF TypeInv
    <3> HIDE DEF s, i
    <3>5. [Access(dev, k, {}, {<<k, s>>}) EXCEPT !.mem[<<k, s>>] = T0Image(i)] \in Devices
      BY <3>3, <3>4, KernelIs
    <3>6. QED
      BY <3>1, <3>5
  <2>6. PoolTypes'
    BY <1>1, <2>1, <2>2 DEF TypeInv, PoolTypes
  <2>7. ClosingWell'
    BY <1>1, <2>1, ClosingKept DEF laneVars, haltVars
  <2>8. QED
    BY <1>1, <2>1, <2>4, <2>5, <2>6, <2>7, Untouched DEF TypeInv
<1>4. QED
  BY <1>2, <1>3

LEMMA HeadersArrive ==
  ASSUME TypeInv, NEW e \in Nodes, chan[e] # <<>>
  PROVE  /\ Head(chan[e]) \in Headers /\ Head(chan[e]).slot \in SlotIds
         /\ Head(chan[e]).lam \in Lambdas /\ Head(chan[e]).dt \in TimeSteps
         /\ [chan EXCEPT ![e] = Tail(@)] \in [Nodes -> Seq(Headers)]
<1>1. chan[e] \in Seq(Headers)
  BY DEF TypeInv, LaneTypes
<1>2. Head(chan[e]) \in Headers /\ Tail(chan[e]) \in Seq(Headers)
  BY <1>1
<1>3. QED
  BY <1>2 DEF Headers, TypeInv, LaneTypes

LEMMA RecvZoneType ==
  ASSUME TypeInv, NEW k \in Nodes, RecvZone(k)
  PROVE  TypeInv'
<1> DEFINE e == InEdge(k)
           m == Head(chan[e])
           fsm == Apply(FreeZone, "RECV")
<1>1. /\ AwaitsArrival(k) /\ chan[e] # <<>> /\ chan' = [chan EXCEPT ![e] = Tail(@)]
      /\ UNCHANGED <<pass, credits, closed, poolVars, linkVars, endVars, level>>
  BY DEF RecvZone
<1>2. e \in Nodes
  BY EdgesAreNodes
<1>3. m.slot \in SlotIds /\ m.lam \in Lambdas /\ m.dt \in TimeSteps
  BY <1>1, <1>2, HeadersArrive
<1>4. LaneTypes'
  BY <1>1, <1>2, HeadersArrive DEF TypeInv, LaneTypes
<1>5. CASE InOrder(k, m)
  <2>1. /\ Arrive(k, m.slot, fsm, m.lam, m.dt)
        /\ dev' = WaitEvent(dev, k, ArrivalEvent(k, m.slot))
        /\ UNCHANGED <<pc, haltVars>>
    BY <1>5 DEF RecvZone
  <2>2. fsm \in ZoneRecords
    BY ApplyType, FreeZoneType DEF ZoneEvents
  <2>3. NodeTypes' /\ \A n \in Nodes : SlotsHeld(n)' /\ Progress(n)'
    <3> HIDE DEF m, fsm
    <3>1. QED
      BY <1>1, <1>3, <2>1, <2>2, ArriveEffect
  <2>4. dev' \in Devices
    <3>1. dev \in Devices /\ ArrivalEvent(k, m.slot) \in DeviceEvents
      BY <1>3, PlaceTypes DEF TypeInv
    <3> HIDE DEF m
    <3>2. QED
      BY <2>1, <3>1, WaitEventType
  <2>5. ClosingWell'
    BY <1>1, <2>1, ClosingKept DEF haltVars
  <2>6. QED
    BY <1>1, <1>4, <2>1, <2>3, <2>4, <2>5, Untouched DEF TypeInv
<1>6. CASE ~InOrder(k, m)
  <2>1. SetHalt(k, "Logic") /\ UNCHANGED <<loc, dev>>
    BY <1>6 DEF RecvZone
  <2>2. NodeTypes' /\ HaltTypes' /\ ClosingWell' /\ \A n \in Nodes : SlotsHeld(n)' /\ Progress(n)'
    BY <1>1, <2>1, SetHaltType, HaltKindNames
  <2>3. QED
    BY <1>1, <1>4, <2>1, <2>2, Untouched DEF TypeInv
<1>7. QED
  BY <1>5, <1>6

LEMMA LinkHead ==
  ASSUME TypeInv, NEW r \in Heads, HasZone(r)
  PROVE  /\ Head(link[r]) \in WireMessages
         /\ [link EXCEPT ![r] = Tail(@)] \in [Heads -> Seq(WireMessages)]
<1>1. link[r] \in Seq(WireMessages) /\ link[r] # <<>>
  BY DEF TypeInv, LinkTypes, HasZone
<1>2. Head(link[r]) \in WireMessages /\ Tail(link[r]) \in Seq(WireMessages)
  BY <1>1
<1>3. QED
  BY <1>2 DEF TypeInv, LinkTypes

LEMMA StageType ==
  ASSUME NEW k \in Nodes, NEW m \in WireMessages, dev \in Devices
  PROVE  Stage(k, m) \in Devices
<1>1. EventSync(dev, k, InEvent(k)) \in Devices
  BY SyncType, PlaceTypes
<1>2. WireImage(m) \in ZoneImages
  BY ImageTypes
<1>3. QED
  BY <1>1, <1>2, HostType DEF Stage

LEMMA UnstageType ==
  ASSUME NEW d \in Devices, NEW k \in Nodes, NEW s \in SlotIds
  PROVE  Unstage(d, k, s) \in Devices
<1> DEFINE image == d.mem[<<k, InStage>>]
           p == <<k, s>>
           R == {<<k, InStage>>}
           e == [Access(d, k, R, {p}) EXCEPT !.mem[p] = image]
<1>1. Kernel(d, k, R, p, LAMBDA mem : mem[<<k, InStage>>]) = e
  BY DEF Kernel
<1>2. image \in ZoneImages /\ p \in DevicePlaces
  BY PlaceTypes DEF Devices
<1>3. e \in Devices
  <2> HIDE DEF image, p, R
  <2>1. QED
    BY <1>2, KernelIs
<1>4. Unstage(d, k, s) = Record(e, k, InEvent(k))
  BY <1>1, Zenon DEF Unstage
<1> HIDE DEF e
<1>5. QED
  BY <1>3, <1>4, RecordType

LEMMA RecvBoundaryType ==
  ASSUME TypeInv, NEW k \in Nodes, RecvBoundary(k)
  PROVE  TypeInv'
<1> DEFINE r == RankOf(k)
           m == Head(link[r])
           s == Head(bfree[k])
           fsm == Apply(FreeZone, "RECV")
<1>1. /\ AwaitsArrival(k) /\ EdgeRecv(r)
      /\ UNCHANGED <<pass, laneVars, reserve, endVars, level>>
  BY DEF RecvBoundary
<1>2. r \in Heads
  BY RankFacts
<1>3. HasZone(r) /\ link' = [link EXCEPT ![r] = Tail(@)]
      /\ UNCHANGED <<poisoned, poisonSent, nextBuf>>
  BY <1>1 DEF EdgeRecv
<1>4. m \in WireMessages /\ m.lam \in Lambdas /\ m.dt \in TimeSteps
  <2>1. m \in WireMessages
    BY <1>2, <1>3, LinkHead
  <2>2. QED
    BY <2>1 DEF WireMessages
<1>5. LinkTypes'
  BY <1>2, <1>3, LinkHead DEF TypeInv, LinkTypes
<1>6. CASE InOrder(k, m) /\ bfree[k] # <<>>
  <2>1. /\ Arrive(k, s, fsm, m.lam, m.dt) /\ bfree' = [bfree EXCEPT ![k] = Tail(@)]
        /\ dev' = Unstage(Stage(k, m), k, s)
        /\ UNCHANGED <<pc, haltVars>>
    BY <1>6 DEF RecvBoundary
  <2>2. fsm \in ZoneRecords
    BY ApplyType, FreeZoneType DEF ZoneEvents
  <2>3. s \in SlotIds /\ PoolTypes'
    <3>1. bfree[k] \in Seq(SlotIds)
      BY DEF TypeInv, PoolTypes
    <3>2. s \in SlotIds /\ Tail(bfree[k]) \in Seq(SlotIds)
      BY <1>6, <3>1
    <3>3. QED
      BY <1>1, <2>1, <3>2 DEF TypeInv, PoolTypes
  <2>4. NodeTypes' /\ \A n \in Nodes : SlotsHeld(n)' /\ Progress(n)'
    <3> HIDE DEF m, fsm, s
    <3>1. QED
      BY <1>1, <1>4, <2>1, <2>2, <2>3, ArriveEffect
  <2>5. dev' \in Devices
    <3>1. dev \in Devices
      BY DEF TypeInv
    <3> HIDE DEF m, s
    <3>2. QED
      BY <1>4, <2>1, <2>3, <3>1, StageType, UnstageType
  <2>6. ClosingWell'
    BY <1>1, <2>1, ClosingKept DEF haltVars, laneVars
  <2>7. QED
    BY <1>1, <1>5, <2>1, <2>3, <2>4, <2>5, <2>6, Untouched DEF TypeInv
<1>7. CASE ~(InOrder(k, m) /\ bfree[k] # <<>>)
  <2>1. SetHalt(k, "Logic") /\ UNCHANGED <<loc, bfree, dev>>
    BY <1>7 DEF RecvBoundary
  <2>2. NodeTypes' /\ HaltTypes' /\ ClosingWell' /\ \A n \in Nodes : SlotsHeld(n)' /\ Progress(n)'
    BY <1>1, <2>1, SetHaltType, HaltKindNames DEF laneVars
  <2>3. QED
    BY <1>1, <1>5, <2>1, <2>2, Untouched DEF TypeInv, poolVars
<1>8. QED
  BY <1>6, <1>7

\* The end of one transfer of a position.
LEMMA OpDoneType ==
  ASSUME TypeInv, NEW k \in Nodes, pc[k] = "io", Goto(k, NextOp(k)),
         CurrentOp(k) = "SEND" \/ loc[k].arrived > LastNeeded(loc[k].pos),
         loc' = [loc EXCEPT ![k].op = 2],
         UNCHANGED <<pass, laneVars, poolVars, dev, haltVars, linkVars, endVars, level>>
  PROVE  /\ TypeInv' /\ pc'[k] \in {"io", "compute"}
         /\ loc'[k] = [loc[k] EXCEPT !.op = 2]
         /\ \A n \in Nodes \ {k} : pc'[n] = pc[n] /\ loc'[n] = loc[n]
<1> DEFINE p == loc[k]
           q == [p EXCEPT !.op = 2]
<1>1. p \in PassStates /\ p.op \in {1, 2}
  BY NodeFields, PassFields
<1>2. q \in PassStates /\ q.op = 2 /\ q.arrived = p.arrived /\ q.pos = p.pos
      /\ q.outq = p.outq /\ q.slot = p.slot
  BY <1>1 DEF PassStates
<1>3. loc' = [loc EXCEPT ![k] = q]
  OBVIOUS
<1> HIDE DEF q
<1>4. /\ NodeTypes' /\ loc'[k] = q /\ pc'[k] = NextOp(k) /\ NextOp(k) \in {"io", "compute"}
      /\ \A n \in Nodes \ {k} : pc'[n] = pc[n] /\ loc'[n] = loc[n]
  BY <1>2, <1>3 DEF TypeInv, NodeTypes, Goto, NodePoints, NextOp
<1>5. SlotsHeld(k)'
  BY <1>2, <1>4, NodeFields DEF SlotsHeld
<1>6. Progress(k)'
  <2>1. pc'[k] \notin AtTheEnd
    BY <1>4 DEF AtTheEnd
  <2>2. Received(k)' => p.arrived > LastNeeded(p.pos)
    <3>1. CASE p.op = 1 /\ CurrentOp(k) = "SEND"
      <4>1. pc'[k] = "io"
        BY <1>4, <3>1 DEF NextOp
      <4>2. NodeIoOrder(k + 1)[2] = "RECV"
        BY <3>1 DEF CurrentOp, NodeIoOrder
      <4>3. ~Received(k)'
        BY <1>2, <1>4, <4>1, <4>2 DEF Received, CurrentOp
      <4>4. QED
        BY <4>3
    <3>2. CASE p.op = 2 /\ CurrentOp(k) = "SEND"
      BY <3>2, NodeFields DEF Progress, Received
    <3>3. CASE CurrentOp(k) # "SEND"
      BY <3>3
    <3>4. QED
      BY <1>1, <3>1, <3>2, <3>3
  <2>3. QED
    BY <1>2, <1>4, <2>1, <2>2 DEF Progress
<1>7. ClosingWell'
  BY <1>4, ClosingKept DEF laneVars, haltVars
<1>8. TypeInv'
  BY <1>4, <1>5, <1>6, <1>7, OthersKeep, Untouched DEF TypeInv
<1>9. QED
  BY <1>4, <1>8 DEF q

LEMMA RecvDoneType ==
  ASSUME TypeInv, NEW k \in Nodes, RecvDone(k)
  PROVE  TypeInv'
BY OpDoneType DEF RecvDone

\* After the last flush all positions are done and all zones have arrived.
LEMMA FlushDoneType ==
  ASSUME TypeInv, NEW k \in Nodes, FlushDone(k)
  PROVE  TypeInv'
<1>1. CASE pc[k] = "flush"
  <2>1. /\ Goto(k, "finish") /\ loc' = loc
        /\ UNCHANGED <<pass, laneVars, poolVars, dev, haltVars, linkVars, endVars, level>>
    BY <1>1 DEF FlushDone
  <2>2. pc'[k] = "finish"
    BY <2>1 DEF Goto, TypeInv, NodeTypes
  <2>3. Progress(k)'
    BY <1>1, <2>1, <2>2, NodeFields DEF Progress, Received, AtTheEnd
  <2>4. ClosingWell'
    BY <2>1, ClosingKept DEF Goto, TypeInv, NodeTypes, laneVars, haltVars
  <2>5. "finish" \in NodePoints
    BY DEF NodePoints
  <2>6. QED
    BY <2>1, <2>3, <2>4, <2>5, MoveOnly, Untouched DEF TypeInv
<1>2. CASE pc[k] # "flush"
  BY <1>2, OpDoneType DEF FlushDone, Flushing
<1>3. QED
  BY <1>1, <1>2

-----------------------------------------------------------------------------
(* Computing and ending zones.                                               *)

LEMMA PlaceType ==
  ASSUME NEW k \in Nodes, NEW s \in PassSlots
  PROVE  Place(k, s) \in DevicePlaces
BY SlotFields, PlaceTypes DEF Place

LEMMA MemoryType ==
  ASSUME NEW d \in Devices, NEW p \in DevicePlaces
  PROVE  d.mem[p] \in ZoneImages
BY DEF Devices

LEMMA DriftType ==
  ASSUME NEW d \in Devices, NEW k \in Nodes, NEW s \in PassSlots
  PROVE  Drift(d, k, s) \in Devices
<1> DEFINE p == Place(k, s)
           image == Drifted(d.mem[p])
           e == [Access(d, k, {}, {p}) EXCEPT !.mem[p] = image]
<1>1. CASE s.drifted
  BY <1>1 DEF Drift
<1>2. CASE ~s.drifted
  <2>1. Kernel(d, k, {}, p, LAMBDA mem : Drifted(mem[p])) = e
    BY DEF Kernel
  <2>2. Drift(d, k, s) = e
    BY <1>2, <2>1 DEF Drift
  <2>3. p \in DevicePlaces /\ image \in ZoneImages
    BY PlaceType, MemoryType, ImageSteps
  <2> HIDE DEF p, image
  <2>4. e \in Devices
    BY <2>3, KernelIs
  <2>5. QED
    BY <2>2, <2>4
<1>3. QED
  BY <1>1, <1>2

LEMMA LaunchPairsType ==
  ASSUME NEW d \in Devices, NEW k \in Nodes, NEW a \in PassSlots, NEW b \in PassSlots
  PROVE  LaunchPairs(d, k, a, b) \in Devices
<1> DEFINE p == Place(k, a)
           r == Place(k, b)
           image == CountPairs(d.mem[p], d.mem[r])
           e == [Access(d, k, {r}, {p}) EXCEPT !.mem[p] = image]
<1>1. LaunchPairs(d, k, a, b) = e
  BY DEF LaunchPairs, Kernel
<1>2. p \in DevicePlaces /\ r \in DevicePlaces
  BY PlaceType
<1>3. image \in ZoneImages
  BY <1>2, MemoryType, ImageSteps
<1> HIDE DEF p, r, image
<1>4. e \in Devices
  BY <1>2, <1>3, KernelIs
<1>5. QED
  BY <1>1, <1>4

LEMMA MetByFacts ==
  ASSUME NEW j \in Zones
  PROVE  MetBy(j) \subseteq Zones /\ (MetBy(j) # {} => (CHOOSE q \in MetBy(j) : TRUE) \in Zones)
<1>1. MetBy(j) \subseteq Zones
  BY RingFacts DEF MetBy, Zones
<1>2. QED
  BY <1>1

LEMMA ComputedDeviceType ==
  ASSUME TypeInv, NEW k \in Nodes, NEW slot \in [Zones -> PassSlots], NEW j \in Zones
  PROVE  ComputedDevice(k, slot, j) \in Devices
<1> DEFINE drifted == DriftedDevice(k, slot, j)
           own == LaunchPairs(drifted, k, slot[j], slot[j])
           b == slot[CHOOSE q \in MetBy(j) : TRUE]
<1>1. dev \in Devices
  BY DEF TypeInv
<1>2. drifted \in Devices
  <2>1. Drift(dev, k, slot[j]) \in Devices
    BY <1>1, DriftType
  <2>2. CASE j + 1 < N
    <3>1. j + 1 \in Zones
      BY <2>2, RingFacts DEF Zones
    <3>2. Drift(Drift(dev, k, slot[j]), k, slot[j + 1]) \in Devices
      BY <2>1, <3>1, DriftType
    <3>3. QED
      BY <2>2, <3>2 DEF DriftedDevice
  <2>3. QED
    BY <2>1, <2>2 DEF DriftedDevice
<1> HIDE DEF drifted
<1>3. own \in Devices
  BY <1>2, LaunchPairsType
<1>4. ComputedDevice(k, slot, j) =
        IF MetBy(j) = {} THEN own
        ELSE LaunchPairs(LaunchPairs(own, k, slot[j], b), k, b, slot[j])
  BY DEF ComputedDevice, drifted
<1> HIDE DEF own
<1>5. CASE MetBy(j) # {}
  <2>1. b \in PassSlots
    BY <1>5, MetByFacts
  <2> HIDE DEF b
  <2>2. LaunchPairs(own, k, slot[j], b) \in Devices
    BY <1>3, <2>1, LaunchPairsType
  <2>3. LaunchPairs(LaunchPairs(own, k, slot[j], b), k, b, slot[j]) \in Devices
    BY <2>1, <2>2, LaunchPairsType
  <2>4. QED
    BY <1>4, <1>5, <2>3
<1>6. QED
  BY <1>3, <1>4, <1>5

LEMMA EndedDeviceType ==
  ASSUME NEW d \in Devices, NEW k \in Nodes, NEW s \in PassSlots
  PROVE  EndedDevice(d, k, s) \in Devices
<1> DEFINE p == Place(k, s)
           image == [d.mem[p] EXCEPT !.body = Kicked(@, d.mem[p].acc)]
           kicked == [Access(d, k, {}, {p}) EXCEPT !.mem[p] = image]
           out == <<k, EndScalars>>
           e == [Access(kicked, k, {p}, {out}) EXCEPT !.mem[out] = BlankImage]
<1>1. EndedDevice(d, k, s) = e
  BY DEF EndedDevice, Kernel
<1>2. p \in DevicePlaces /\ out \in DevicePlaces /\ BlankImage \in ZoneImages
  BY PlaceType, PlaceTypes, ImageTypes
<1>3. image \in ZoneImages
  BY <1>2, MemoryType, ImageSteps
<1> HIDE DEF p, image, out
<1>4. kicked \in Devices
  BY <1>2, <1>3, KernelIs
<1> HIDE DEF kicked
<1>5. e \in Devices
  BY <1>2, <1>4, KernelIs
<1>6. QED
  BY <1>1, <1>5, SMTT(30)

\* What is carried into a pass stays as it came: the time step, the aggregate of
\* the forecast, the zones and their aggregates.
SameData(u, p) ==
  /\ u.dt = p.dt /\ u.rbuf = p.rbuf
  /\ \A q \in Zones : u.slot[q].zone = p.slot[q].zone /\ u.slot[q].lam = p.slot[q].lam

LEMMA ComputedSlotsType ==
  ASSUME NEW slot \in [Zones -> PassSlots], NEW j \in Zones
  PROVE  /\ ComputedSlots(slot, j) \in [Zones -> PassSlots]
         /\ \A q \in Zones : ComputedSlots(slot, j)[q].dev = slot[q].dev
                             /\ ComputedSlots(slot, j)[q].zone = slot[q].zone
                             /\ ComputedSlots(slot, j)[q].lam = slot[q].lam
<1>1. ASSUME NEW q \in Zones
      PROVE  /\ Started(slot[q], q) \in PassSlots /\ Met(slot[q], q) \in PassSlots
             /\ Started(slot[q], q).dev = slot[q].dev /\ Met(slot[q], q).dev = slot[q].dev
             /\ Started(slot[q], q).zone = slot[q].zone /\ Met(slot[q], q).zone = slot[q].zone
             /\ Started(slot[q], q).lam = slot[q].lam /\ Met(slot[q], q).lam = slot[q].lam
  <2> DEFINE s == slot[q]
             seeded == IF q = 0 THEN SeedFirstZone(s.fsm) ELSE s.fsm
  <2>1. s \in PassSlots /\ s.fsm \in ZoneRecords
    BY SlotFields
  <2>2. Apply(seeded, "START") \in ZoneRecords
    BY <2>1, ApplyType DEF SeedFirstZone, ZoneEvents
  <2>3. /\ Contribute(s.fsm, "closure") \in ZoneRecords
        /\ Contribute(Apply(s.fsm, "SPHERE"), "prev") \in ZoneRecords
    BY <2>1, ApplyType, ContributeType DEF ZoneEvents, Contributors
  <2>4. Started(s, q) = [s EXCEPT !.drifted = TRUE, !.computed = TRUE,
                                  !.fsm = Apply(seeded, "START")]
    BY DEF Started
  <2>5. Met(s, q) =
          IF q = 0 THEN [s EXCEPT !.fsm = Contribute(s.fsm, "closure")]
          ELSE [s EXCEPT !.drifted = TRUE,
                         !.fsm = Contribute(Apply(s.fsm, "SPHERE"), "prev")]
    BY DEF Met
  <2> HIDE DEF s, seeded
  <2>6. /\ Started(s, q) \in PassSlots /\ Started(s, q).dev = s.dev
        /\ Started(s, q).zone = s.zone /\ Started(s, q).lam = s.lam
    BY <2>1, <2>2, <2>4 DEF PassSlots
  <2>7. /\ Met(s, q) \in PassSlots /\ Met(s, q).dev = s.dev
        /\ Met(s, q).zone = s.zone /\ Met(s, q).lam = s.lam
    BY <2>1, <2>3, <2>5 DEF PassSlots
  <2>8. QED
    BY <2>6, <2>7 DEF s
<1>2. ComputedSlots(slot, j) =
        [q \in Zones |-> IF q = j THEN Started(slot[q], q)
                         ELSE IF q \in MetBy(j) THEN Met(slot[q], q) ELSE slot[q]]
  BY DEF ComputedSlots
<1>3. QED
  BY <1>1, <1>2

LEMMA EndedPassIs ==
  ASSUME NEW p \in PassStates, NEW j \in Zones
  PROVE  /\ EndedPass(p, j) \in PassStates
         /\ EndedPass(p, j).outq = Append(p.outq, j)
         /\ EndedPass(p, j).pos = p.pos /\ EndedPass(p, j).sent = p.sent
         /\ EndedPass(p, j).arrived = p.arrived /\ EndedPass(p, j).agg = p.agg
         /\ EndedPass(p, j).synced = p.synced /\ EndedPass(p, j).op = p.op
         /\ \A q \in Zones : EndedPass(p, j).slot[q].dev = p.slot[q].dev
         /\ SameData(EndedPass(p, j), p) /\ EndedPass(p, j).ended = p.ended \cup {j}
         /\ EndedPass(p, j).slot = [p.slot EXCEPT ![j].fsm = Apply(@, "END")]
         /\ EndedPass(p, j).dst = p.dst
<1> DEFINE fsm == Apply(p.slot[j].fsm, "END")
           new == [p.slot[j] EXCEPT !.fsm = fsm]
           slotNew == [p.slot EXCEPT ![j] = new]
           ended == p.ended \cup {j}
           outq == Append(p.outq, j)
<1>1. p.slot \in [Zones -> PassSlots] /\ p.slot[j] \in PassSlots /\ p.slot[j].fsm \in ZoneRecords
  BY PassFields, SlotFields
<1>2. fsm \in ZoneRecords
  BY <1>1, ApplyType DEF ZoneEvents
<1>3. EndedPass(p, j) = [p EXCEPT !.slot = slotNew, !.outq = outq, !.ended = ended]
  BY <1>1 DEF EndedPass, PassStates, PassSlots
<1>10. slotNew = [p.slot EXCEPT ![j].fsm = Apply(@, "END")]
  BY <1>1 DEF PassSlots
<1> HIDE DEF fsm
<1>4. /\ new \in PassSlots /\ new.dev = p.slot[j].dev
      /\ new.zone = p.slot[j].zone /\ new.lam = p.slot[j].lam
  BY <1>1, <1>2 DEF PassSlots
<1> HIDE DEF new
<1>5. /\ slotNew \in [Zones -> PassSlots]
      /\ \A q \in Zones : slotNew[q].dev = p.slot[q].dev
      /\ \A q \in Zones : slotNew[q].zone = p.slot[q].zone /\ slotNew[q].lam = p.slot[q].lam
  BY <1>1, <1>4
<1>6. outq \in Seq(Zones) /\ ended \in SUBSET Zones
  BY PassFields
<1> HIDE DEF slotNew, outq, ended
<1>7. /\ EndedPass(p, j) \in PassStates /\ EndedPass(p, j).slot = slotNew
      /\ EndedPass(p, j).outq = outq
      /\ EndedPass(p, j).pos = p.pos /\ EndedPass(p, j).sent = p.sent
      /\ EndedPass(p, j).arrived = p.arrived /\ EndedPass(p, j).agg = p.agg
      /\ EndedPass(p, j).synced = p.synced /\ EndedPass(p, j).op = p.op
  BY <1>3, <1>5, <1>6 DEF PassStates
<1>8. /\ EndedPass(p, j).dt = p.dt /\ EndedPass(p, j).rbuf = p.rbuf
      /\ EndedPass(p, j).ended = ended /\ EndedPass(p, j).dst = p.dst
  BY <1>3 DEF PassStates
<1>9. QED
  BY <1>5, <1>7, <1>8, <1>10 DEF outq, ended, SameData

LEMMA NextPositionIs ==
  ASSUME NEW p \in PassStates
  PROVE  /\ NextPosition(p) \in PassStates
         /\ NextPosition(p).pos = IF p.pos + 1 < N THEN p.pos + 1 ELSE p.pos
         /\ p.pos + 1 < N => NextPosition(p).op = 1
         /\ NextPosition(p).outq = p.outq /\ NextPosition(p).sent = p.sent
         /\ NextPosition(p).arrived = p.arrived /\ NextPosition(p).agg = p.agg
         /\ NextPosition(p).synced = p.synced /\ NextPosition(p).slot = p.slot
         /\ SameData(NextPosition(p), p) /\ NextPosition(p).ended = p.ended
         /\ NextPosition(p).dst = p.dst
<1>1. p.pos \in Zones
  BY PassFields
<1>2. CASE p.pos + 1 < N
  <2> DEFINE next == p.pos + 1
             q == [p EXCEPT !.pos = next, !.op = 1]
  <2>1. next \in Zones
    BY <1>1, <1>2, RingFacts DEF Zones
  <2>2. NextPosition(p) = q
    BY <1>2 DEF NextPosition
  <2> HIDE DEF next
  <2>3. /\ q \in PassStates /\ q.pos = next /\ q.op = 1 /\ q.outq = p.outq
        /\ q.sent = p.sent /\ q.arrived = p.arrived /\ q.agg = p.agg
        /\ q.synced = p.synced /\ q.slot = p.slot
    <3>1. 1 \in 1 .. 2
      OBVIOUS
    <3>2. q \in PassStates
      BY <2>1, <3>1 DEF PassStates
    <3>3. /\ q.pos = next /\ q.op = 1 /\ q.outq = p.outq
          /\ q.sent = p.sent /\ q.arrived = p.arrived /\ q.agg = p.agg
          /\ q.synced = p.synced /\ q.slot = p.slot
      BY DEF PassStates
    <3>4. QED
      BY <3>2, <3>3
  <2>5. q.dt = p.dt /\ q.rbuf = p.rbuf /\ q.ended = p.ended /\ q.dst = p.dst
    BY DEF PassStates
  <2> HIDE DEF q
  <2>4. QED
    BY <1>2, <2>2, <2>3, <2>5 DEF next, SameData
<1>3. CASE ~(p.pos + 1 < N)
  BY <1>3 DEF NextPosition, SameData
<1>4. QED
  BY <1>2, <1>3

\* The slots after the computation of position j and, unless it is held back,
\* its end.
EndedSlots(slot, j) ==
  [i \in Zones |->
     IF i = j /\ ~HeldBack(j)
       THEN [ComputedSlots(slot, j)[i] EXCEPT !.fsm = Apply(@, "END")]
     ELSE ComputedSlots(slot, j)[i]]

\* What a computation leaves of the pass, for the types and for the counts.
LEMMA ComputeEffect ==
  ASSUME TypeInv, NEW k \in Nodes, ComputeZone(k)
  PROVE  /\ TypeInv'
         /\ \/ /\ SetHalt(k, "Logic") /\ UNCHANGED <<loc, level>>
               /\ ComputeLegal(loc[k].slot, loc[k].pos) =>
                    /\ ~HeldBack(loc[k].pos)
                    /\ ~EndLegal(ComputedSlots(loc[k].slot, loc[k].pos)[loc[k].pos].fsm,
                                 loc[k].pos)
            \/ /\ UNCHANGED haltVars
               /\ \A n \in Nodes \ {k} : pc'[n] = pc[n] /\ loc'[n] = loc[n]
               /\ SameData(loc'[k], loc[k])
               /\ loc'[k].slot = EndedSlots(loc[k].slot, loc[k].pos)
               /\ loc'[k].dst = loc[k].dst /\ loc'[k] \in PassStates
               /\ loc[k].pos + 1 < N => loc'[k].op = 1
               /\ loc'[k].ended = IF HeldBack(loc[k].pos) THEN loc[k].ended
                                  ELSE loc[k].ended \cup {loc[k].pos}
               /\ level' = IF HeldBack(loc[k].pos) THEN level
                           ELSE [level EXCEPT ![loc[k].slot[loc[k].pos].zone] = pass[k]]
               /\ loc'[k].sent = loc[k].sent /\ loc'[k].agg = loc[k].agg
               /\ loc'[k].arrived = loc[k].arrived /\ loc'[k].synced = loc[k].synced
               /\ loc'[k].pos = IF loc[k].pos + 1 < N THEN loc[k].pos + 1 ELSE loc[k].pos
               /\ loc'[k].outq = IF HeldBack(loc[k].pos) THEN loc[k].outq
                                 ELSE Append(loc[k].outq, loc[k].pos)
               /\ pc'[k] = IF IsTail(loc[k].pos) /\ ~HeldBack(loc[k].pos) THEN "endhead"
                           ELSE AfterPosition(loc[k])
<1> DEFINE old == loc[k]
           j == old.pos
           slot == old.slot
           slots == ComputedSlots(slot, j)
           p == [old EXCEPT !.slot = slots]
           d == ComputedDevice(k, slot, j)
           q == NextPosition(IF HeldBack(j) THEN p ELSE EndedPass(p, j))
           point == IF IsTail(j) /\ ~HeldBack(j) THEN "endhead" ELSE AfterPosition(p)
<1>1. /\ pc[k] = "compute" /\ ~HaltOn(RankOf(k))
      /\ UNCHANGED <<pass, laneVars, poolVars, linkVars, endVars>>
  BY DEF ComputeZone
<1>2. old \in PassStates /\ j \in Zones /\ slot \in [Zones -> PassSlots]
  BY NodeFields, PassFields
<1>3. /\ slots \in [Zones -> PassSlots]
      /\ \A i \in Zones : slots[i].dev = slot[i].dev
      /\ \A i \in Zones : slots[i].zone = slot[i].zone /\ slots[i].lam = slot[i].lam
  BY <1>2, ComputedSlotsType
<1>4. /\ p \in PassStates /\ p.slot = slots /\ p.pos = j /\ p.outq = old.outq
      /\ p.sent = old.sent /\ p.arrived = old.arrived /\ p.agg = old.agg
      /\ p.synced = old.synced
      /\ SameData(p, old) /\ p.ended = old.ended /\ p.dst = old.dst
  <2> HIDE DEF slots
  <2>1. /\ p \in PassStates /\ p.slot = slots /\ p.pos = j /\ p.outq = old.outq
        /\ p.sent = old.sent /\ p.arrived = old.arrived /\ p.agg = old.agg
        /\ p.synced = old.synced
    BY <1>2, <1>3 DEF PassStates
  <2>2. p.ended = old.ended /\ p.dt = old.dt /\ p.rbuf = old.rbuf /\ p.dst = old.dst
    BY <1>2 DEF PassStates
  <2> HIDE DEF p
  <2>3. QED
    BY <1>3, <2>1, <2>2 DEF SameData
<1>5. d \in Devices
  BY <1>2, ComputedDeviceType
<1>6. CASE ~ComputeLegal(slot, j) \/ (~HeldBack(j) /\ ~EndLegal(p.slot[j].fsm, j))
  <2>1. SetHalt(k, "Logic") /\ UNCHANGED <<loc, dev, level>>
    BY <1>6 DEF ComputeZone
  <2>2. NodeTypes' /\ HaltTypes' /\ ClosingWell' /\ \A n \in Nodes : SlotsHeld(n)' /\ Progress(n)'
    BY <1>1, <2>1, SetHaltType, HaltKindNames DEF laneVars
  <2>3. TypeInv'
    BY <1>1, <2>1, <2>2, Untouched DEF TypeInv
  <2> HIDE DEF p, slots
  <2>4. QED
    BY <1>4, <1>6, <2>1, <2>3 DEF slots
<1>7. CASE ~(~ComputeLegal(slot, j) \/ (~HeldBack(j) /\ ~EndLegal(p.slot[j].fsm, j)))
  <2>1. /\ loc' = [loc EXCEPT ![k] = q] /\ Goto(k, point) /\ UNCHANGED haltVars
        /\ dev' = IF HeldBack(j) THEN d ELSE EndedDevice(d, k, slot[j])
        /\ level' = IF HeldBack(j) THEN level ELSE [level EXCEPT ![slot[j].zone] = pass[k]]
    <3>1. CASE HeldBack(j)
      BY <1>7, <3>1 DEF ComputeZone
    <3>2. CASE ~HeldBack(j)
      BY <1>7, <3>2 DEF ComputeZone
    <3>3. QED
      BY <3>1, <3>2
  <2>2. /\ q \in PassStates /\ q.sent = old.sent /\ q.arrived = old.arrived
        /\ q.agg = old.agg /\ q.synced = old.synced
        /\ q.pos = IF j + 1 < N THEN j + 1 ELSE j
        /\ q.outq = IF HeldBack(j) THEN old.outq ELSE Append(old.outq, j)
        /\ \A i \in Zones : q.slot[i].dev = slot[i].dev
        /\ j + 1 < N => q.op = 1
        /\ SameData(q, old)
        /\ q.ended = IF HeldBack(j) THEN old.ended ELSE old.ended \cup {j}
        /\ q.dst = old.dst
        /\ q.slot = IF HeldBack(j) THEN slots ELSE [slots EXCEPT ![j].fsm = Apply(@, "END")]
    <3> HIDE DEF p, j, slots
    <3>1. CASE HeldBack(j)
      <4>1. q = NextPosition(p)
        BY <3>1
      <4> HIDE DEF q
      <4>2. SameData(q, p) /\ q.ended = p.ended
        BY <1>4, <4>1, NextPositionIs
      <4>3. SameData(q, old)
        BY <1>4, <4>2 DEF SameData
      <4>4. QED
        BY <1>3, <1>4, <3>1, <4>1, <4>2, <4>3, NextPositionIs
    <3>2. CASE ~HeldBack(j)
      <4> DEFINE e == EndedPass(p, j)
      <4>1. q = NextPosition(e)
        BY <3>2
      <4>2. /\ e \in PassStates /\ e.outq = Append(old.outq, j) /\ e.pos = j
            /\ e.sent = old.sent /\ e.arrived = old.arrived /\ e.agg = old.agg
            /\ e.synced = old.synced
            /\ \A i \in Zones : e.slot[i].dev = slot[i].dev
            /\ SameData(e, p) /\ e.ended = p.ended \cup {j} /\ e.dst = old.dst
            /\ e.slot = [slots EXCEPT ![j].fsm = Apply(@, "END")]
        <5>1. /\ e \in PassStates /\ e.outq = Append(p.outq, j) /\ e.pos = p.pos
              /\ e.sent = p.sent /\ e.arrived = p.arrived /\ e.agg = p.agg
              /\ e.synced = p.synced
              /\ \A i \in Zones : e.slot[i].dev = p.slot[i].dev
              /\ SameData(e, p) /\ e.ended = p.ended \cup {j} /\ e.dst = p.dst
              /\ e.slot = [p.slot EXCEPT ![j].fsm = Apply(@, "END")]
          BY <1>2, <1>4, EndedPassIs
        <5> HIDE DEF e, old, slot
        <5>2. QED
          BY <1>3, <1>4, <5>1
      <4> HIDE DEF q, e
      <4>4. SameData(q, e) /\ q.ended = e.ended
        BY <4>1, <4>2, NextPositionIs
      <4>5. SameData(q, old)
        BY <1>4, <4>2, <4>4 DEF SameData
      <4>6. /\ q \in PassStates /\ q.pos = IF j + 1 < N THEN j + 1 ELSE j
            /\ j + 1 < N => q.op = 1
            /\ q.outq = e.outq /\ q.sent = e.sent /\ q.arrived = e.arrived
            /\ q.agg = e.agg /\ q.synced = e.synced /\ q.slot = e.slot /\ q.dst = e.dst
        BY <4>1, <4>2, NextPositionIs
      <4> HIDE DEF old, slot
      <4>3. QED
        BY <1>4, <3>2, <4>2, <4>4, <4>5, <4>6
    <3>3. QED
      BY <3>1, <3>2
  <2>3. point \in NodePoints /\ point \in {"io", "flush", "endhead"}
        /\ (point = "io" => j + 1 < N) /\ (point # "io" => j = N - 1)
        /\ point = IF IsTail(j) /\ ~HeldBack(j) THEN "endhead" ELSE AfterPosition(old)
    <3>1. point = "io" => j + 1 < N
      BY <1>4 DEF AfterPosition
    <3>2. point # "io" => j = N - 1
      BY <1>2, <1>4, RingFacts DEF AfterPosition, IsTail, Zones
    <3>3. QED
      BY <1>4, <3>1, <3>2 DEF AfterPosition, NodePoints
  <2> HIDE DEF q, point, d, p
  <2>4. /\ NodeTypes' /\ loc'[k] = q /\ pc'[k] = point
        /\ \A n \in Nodes \ {k} : pc'[n] = pc[n] /\ loc'[n] = loc[n]
    BY <1>1, <2>1, <2>2, <2>3 DEF TypeInv, NodeTypes, Goto
  <2>5. old.arrived > LastNeeded(j) /\ old.arrived \in 0 .. N
    BY <1>1, <1>2, NodeFields, PassFields DEF Progress, Received
  <2>6. j < old.arrived
    BY <1>2, <2>5, RingFacts DEF LastNeeded, Zones
  <2>7. SlotsHeld(k)'
    <3>1. SlotsHeld(k)
      BY NodeFields
    <3>2. \A i \in Zones : i < q.arrived => q.slot[i].dev \in SlotIds
      BY <2>2, <3>1 DEF SlotsHeld
    <3>3. ASSUME NEW i \in 1 .. Len(q.outq) PROVE q.outq[i] < q.arrived
      <4>1. CASE HeldBack(j)
        BY <2>2, <3>1, <3>3, <4>1 DEF SlotsHeld
      <4>2. CASE ~HeldBack(j)
        <5>1. old.outq \in Seq(Zones) /\ q.outq = Append(old.outq, j)
          BY <1>2, <2>2, <4>2, PassFields
        <5>2. CASE i = Len(old.outq) + 1
          BY <1>2, <2>2, <2>6, <5>1, <5>2
        <5>3. CASE i # Len(old.outq) + 1
          <6>1. i \in 1 .. Len(old.outq) /\ q.outq[i] = old.outq[i]
            BY <1>2, <3>3, <5>1, <5>3
          <6>2. QED
            BY <2>2, <3>1, <6>1 DEF SlotsHeld
        <5>4. QED
          BY <5>2, <5>3
      <4>3. QED
        BY <4>1, <4>2
    <3>4. QED
      BY <2>4, <3>2, <3>3 DEF SlotsHeld
  <2>8. Progress(k)'
    <3>1. CASE point = "io"
      BY <2>2, <2>3, <2>4, <3>1 DEF Progress, Received, AtTheEnd
    <3>2. CASE point # "io"
      <4>1. j = N - 1 /\ old.arrived = N /\ q.pos = N - 1
        BY <1>2, <2>2, <2>3, <2>5, <3>2, RingFacts DEF LastNeeded
      <4>2. QED
        BY <2>2, <2>3, <2>4, <3>2, <4>1 DEF Progress, Received, AtTheEnd
    <3>3. QED
      BY <3>1, <3>2
  <2>9. dev' \in Devices
    BY <1>2, <1>5, <2>1, EndedDeviceType
  <2>10. LevelType'
    BY <1>2, <2>1, NodeFields DEF TypeInv, LevelType
  <2>11. ClosingWell'
    BY <1>1, <2>1, <2>3, <2>4, ClosingKept DEF laneVars, haltVars
  <2>12. TypeInv'
    BY <1>1, <2>1, <2>4, <2>7, <2>8, <2>9, <2>10, <2>11, OthersKeep, Untouched DEF TypeInv
  <2>13. q.slot = EndedSlots(slot, j)
    <3> HIDE DEF slots
    <3>1. q.slot = [i \in Zones |-> IF i = j /\ ~HeldBack(j)
                                     THEN [slots[i] EXCEPT !.fsm = Apply(@, "END")]
                                   ELSE slots[i]]
      BY <1>3, <2>2
    <3>2. QED
      BY <3>1 DEF EndedSlots, slots
  <2>14. QED
    BY <2>1, <2>2, <2>3, <2>4, <2>12, <2>13
<1>8. QED
  BY <1>6, <1>7

LEMMA EndHeadEffect ==
  ASSUME TypeInv, NEW k \in Nodes, EndHead(k)
  PROVE  /\ TypeInv'
         /\ \/ /\ SetHalt(k, "Logic") /\ UNCHANGED <<loc, level>>
               /\ ~EndLegal(loc[k].slot[0].fsm, 0)
            \/ /\ UNCHANGED haltVars
               /\ \A n \in Nodes \ {k} : pc'[n] = pc[n] /\ loc'[n] = loc[n]
               /\ loc'[k].slot = [loc[k].slot EXCEPT ![0].fsm = Apply(@, "END")]
               /\ loc'[k].dst = loc[k].dst /\ loc'[k] \in PassStates
               /\ SameData(loc'[k], loc[k]) /\ loc'[k].ended = loc[k].ended \cup {0}
               /\ level' = [level EXCEPT ![loc[k].slot[0].zone] = pass[k]]
               /\ loc'[k].sent = loc[k].sent /\ loc'[k].agg = loc[k].agg
               /\ loc'[k].arrived = loc[k].arrived /\ loc'[k].synced = loc[k].synced
               /\ loc'[k].pos = loc[k].pos /\ loc'[k].outq = Append(loc[k].outq, 0)
               /\ pc'[k] = "flush"
<1> DEFINE p == loc[k]
           s == p.slot[0]
           q == EndedPass(p, 0)
<1>1. /\ pc[k] = "endhead" /\ UNCHANGED <<pass, laneVars, poolVars, linkVars, endVars>>
  BY DEF EndHead
<1>2. p \in PassStates /\ s \in PassSlots /\ p.slot \in [Zones -> PassSlots] /\ 0 \in Zones
  BY NodeFields, PassFields, RingFacts
<1>3. CASE ~EndLegal(s.fsm, 0)
  <2>1. SetHalt(k, "Logic") /\ UNCHANGED <<loc, dev, level>>
    BY <1>3 DEF EndHead
  <2>2. NodeTypes' /\ HaltTypes' /\ ClosingWell' /\ \A n \in Nodes : SlotsHeld(n)' /\ Progress(n)'
    BY <1>1, <2>1, SetHaltType, HaltKindNames DEF laneVars
  <2>3. TypeInv'
    BY <1>1, <2>1, <2>2, Untouched DEF TypeInv
  <2>4. QED
    BY <1>3, <2>1, <2>3
<1>4. CASE EndLegal(s.fsm, 0)
  <2>1. /\ loc' = [loc EXCEPT ![k] = q] /\ dev' = EndedDevice(dev, k, s)
        /\ level' = [level EXCEPT ![s.zone] = pass[k]] /\ Goto(k, "flush")
        /\ UNCHANGED haltVars
    BY <1>4 DEF EndHead
  <2>2. /\ q \in PassStates /\ q.outq = Append(p.outq, 0) /\ q.pos = p.pos
        /\ q.sent = p.sent /\ q.arrived = p.arrived /\ q.agg = p.agg
        /\ q.synced = p.synced
        /\ \A i \in Zones : q.slot[i].dev = p.slot[i].dev
        /\ SameData(q, p) /\ q.ended = p.ended \cup {0} /\ q.dst = p.dst
        /\ q.slot = [p.slot EXCEPT ![0].fsm = Apply(@, "END")]
    BY <1>2, EndedPassIs
  <2> HIDE DEF q
  <2>3. /\ NodeTypes' /\ loc'[k] = q /\ pc'[k] = "flush"
        /\ \A n \in Nodes \ {k} : pc'[n] = pc[n] /\ loc'[n] = loc[n]
    BY <1>1, <2>1, <2>2 DEF TypeInv, NodeTypes, NodePoints, Goto
  <2>4. p.pos = N - 1 /\ p.arrived = N
    BY <1>1, NodeFields DEF Progress, AtTheEnd
  <2>5. SlotsHeld(k)'
    <3>1. SlotsHeld(k) /\ p.outq \in Seq(Zones)
      BY <1>2, NodeFields, PassFields
    <3>2. \A i \in Zones : i < q.arrived => q.slot[i].dev \in SlotIds
      BY <2>2, <3>1 DEF SlotsHeld
    <3>3. ASSUME NEW i \in 1 .. Len(q.outq) PROVE q.outq[i] < q.arrived
      <4>1. CASE i = Len(p.outq) + 1
        BY <1>2, <2>2, <2>4, <3>1, <4>1, RingFacts
      <4>2. CASE i # Len(p.outq) + 1
        <5>1. i \in 1 .. Len(p.outq) /\ q.outq[i] = p.outq[i]
          BY <1>2, <2>2, <3>1, <3>3, <4>2
        <5>2. QED
          BY <2>2, <3>1, <5>1 DEF SlotsHeld
      <4>3. QED
        BY <4>1, <4>2
    <3>4. QED
      BY <2>3, <3>2, <3>3 DEF SlotsHeld
  <2>6. Progress(k)'
    BY <2>2, <2>3, <2>4 DEF Progress, Received, AtTheEnd
  <2>7. dev' \in Devices
    <3>1. dev \in Devices
      BY DEF TypeInv
    <3>2. QED
      BY <1>2, <2>1, <3>1, EndedDeviceType
  <2>8. LevelType'
    BY <1>2, <2>1, NodeFields DEF TypeInv, LevelType
  <2>9. ClosingWell'
    BY <1>1, <2>1, <2>3, ClosingKept DEF laneVars, haltVars
  <2>10. TypeInv'
    BY <1>1, <2>1, <2>3, <2>5, <2>6, <2>7, <2>8, <2>9, OthersKeep, Untouched DEF TypeInv
  <2>11. QED
    BY <2>1, <2>2, <2>3, <2>10
<1>5. QED
  BY <1>3, <1>4

-----------------------------------------------------------------------------
(* Flushing.                                                                 *)

LEMMA OutgoingFacts ==
  ASSUME TypeInv, NEW k \in Nodes, loc[k].outq # <<>>
  PROVE  /\ Head(loc[k].outq) \in Zones /\ Tail(loc[k].outq) \in Seq(Zones)
         /\ Head(loc[k].outq) = loc[k].outq[1] /\ Head(loc[k].outq) < loc[k].arrived
         /\ Outgoing(k) \in PassSlots /\ Outgoing(k).dev \in SlotIds
         /\ Outgoing(k).zone \in Zones /\ Outgoing(k).fsm \in ZoneRecords
         /\ SourceOf(k) \in DevicePlaces
         /\ Len(loc[k].outq) \in Nat \ {0} /\ Len(Tail(loc[k].outq)) = Len(loc[k].outq) - 1
         /\ \A i \in 1 .. Len(Tail(loc[k].outq)) : Tail(loc[k].outq)[i] < loc[k].arrived
<1> DEFINE p == loc[k]
<1>1. p \in PassStates /\ SlotsHeld(k)
  BY NodeFields
<1>2. p.outq \in Seq(Zones) /\ p.slot \in [Zones -> PassSlots]
  BY <1>1, PassFields
<1>3. /\ Head(p.outq) \in Zones /\ Tail(p.outq) \in Seq(Zones) /\ Head(p.outq) = p.outq[1]
      /\ Len(p.outq) \in Nat \ {0} /\ Len(Tail(p.outq)) = Len(p.outq) - 1
      /\ \A i \in 1 .. Len(Tail(p.outq)) : Tail(p.outq)[i] = p.outq[i + 1]
  BY <1>2
<1>4. Head(p.outq) < p.arrived
  BY <1>1, <1>3 DEF SlotsHeld
<1>5. Outgoing(k) \in PassSlots /\ Outgoing(k).dev \in SlotIds
  BY <1>1, <1>2, <1>3, <1>4 DEF Outgoing, SlotsHeld
<1>6. Outgoing(k).zone \in Zones /\ Outgoing(k).fsm \in ZoneRecords
  BY <1>5, SlotFields
<1>7. SourceOf(k) \in DevicePlaces
  BY <1>5, PlaceTypes DEF SourceOf
<1>8. \A i \in 1 .. Len(Tail(p.outq)) : Tail(p.outq)[i] < p.arrived
  <2>1. \A i \in 1 .. Len(Tail(p.outq)) : i + 1 \in 1 .. Len(p.outq)
    BY <1>3
  <2>2. QED
    BY <1>1, <1>3, <2>1 DEF SlotsHeld
<1>9. QED
  BY <1>3, <1>4, <1>5, <1>6, <1>7, <1>8

LEMMA FreeSourceType ==
  ASSUME TypeInv, NEW k \in Nodes, loc[k].outq # <<>>,
         NEW d \in Devices, NEW lane \in [Nodes -> Seq(SlotIds)],
         FreeSource(k, d, lane)
  PROVE  PoolTypes' /\ credits' \in [Nodes -> Seq(SlotIds)] /\ dev' \in Devices
<1> DEFINE s == Outgoing(k).dev
           e == InEdge(k)
<1>1. s \in SlotIds /\ e \in Nodes
  BY OutgoingFacts, EdgesAreNodes
<1>2. /\ reserve \in Seq(SlotIds) /\ bfree \in [Nodes -> Seq(SlotIds)]
  BY DEF TypeInv, PoolTypes
<1> HIDE DEF s, e
<1>3. /\ Append(reserve, s) \in Seq(SlotIds)
      /\ [bfree EXCEPT ![k] = Append(@, s)] \in [Nodes -> Seq(SlotIds)]
      /\ [lane EXCEPT ![e] = Append(@, s)] \in [Nodes -> Seq(SlotIds)]
  BY <1>1, <1>2
<1>4. CASE pass[k] = 1 \/ SelfLoop
  <2>1. reserve' = Append(reserve, s) /\ credits' = lane /\ dev' = d /\ bfree' = bfree
    BY <1>4 DEF FreeSource, s
  <2>2. QED
    BY <1>2, <1>3, <2>1 DEF PoolTypes
<1>5. CASE ~(pass[k] = 1 \/ SelfLoop) /\ BoundaryIn(k)
  <2>1. /\ bfree' = [bfree EXCEPT ![k] = Append(@, s)] /\ credits' = lane /\ dev' = d
        /\ reserve' = reserve
    BY <1>5 DEF FreeSource, s
  <2>2. QED
    BY <1>2, <1>3, <2>1 DEF PoolTypes
<1>6. CASE ~(pass[k] = 1 \/ SelfLoop) /\ ~BoundaryIn(k)
  <2>1. /\ credits' = GiveCredit(lane, k, s) /\ dev' = Record(d, k, FreeEvent(k, s))
        /\ UNCHANGED poolVars
    BY <1>6 DEF FreeSource, s
  <2>2. GiveCredit(lane, k, s) \in [Nodes -> Seq(SlotIds)]
    BY <1>3 DEF GiveCredit, e
  <2>3. QED
    BY <2>1, <2>2, RecordType, Untouched
<1>7. QED
  BY <1>4, <1>5, <1>6

LEMMA SyncedIs ==
  ASSUME NEW p \in PassStates
  PROVE  /\ Synced(p) \in PassStates /\ Synced(p).synced = TRUE
         /\ Synced(p).outq = p.outq /\ Synced(p).slot = p.slot /\ Synced(p).pos = p.pos
         /\ Synced(p).op = p.op /\ Synced(p).sent = p.sent
         /\ Synced(p).arrived = p.arrived /\ Synced(p).dst = p.dst
         /\ Synced(p).agg.pass = p.agg.pass
         /\ Synced(p).agg.zones = {p.slot[j].zone : j \in p.ended}
         /\ Synced(p).dt = p.dt /\ Synced(p).rbuf = p.rbuf /\ Synced(p).ended = p.ended
<1> DEFINE zones == {p.slot[j].zone : j \in p.ended}
           agg == [p.agg EXCEPT !.zones = zones]
<1>1. p.slot \in [Zones -> PassSlots] /\ p.ended \in SUBSET Zones /\ p.agg \in Lambdas
  BY PassFields
<1>2. zones \in SUBSET Zones
  BY <1>1, SlotFields
<1>3. Synced(p) = [p EXCEPT !.synced = TRUE, !.agg = agg]
  BY <1>1 DEF Synced, PassStates
<1> HIDE DEF zones
<1>4. agg \in Lambdas /\ agg.pass = p.agg.pass /\ agg.zones = zones
  BY <1>1, <1>2 DEF Lambdas
<1> HIDE DEF agg
<1>5. [p EXCEPT !.synced = TRUE, !.agg = agg] \in PassStates
  BY <1>4 DEF PassStates
<1>6. /\ Synced(p).synced = TRUE /\ Synced(p).agg = agg
      /\ Synced(p).outq = p.outq /\ Synced(p).slot = p.slot /\ Synced(p).pos = p.pos
      /\ Synced(p).op = p.op /\ Synced(p).sent = p.sent
      /\ Synced(p).arrived = p.arrived /\ Synced(p).dst = p.dst
  BY <1>3 DEF PassStates
<1>7. Synced(p).dt = p.dt /\ Synced(p).rbuf = p.rbuf /\ Synced(p).ended = p.ended
  BY <1>3 DEF PassStates
<1>8. QED
  BY <1>3, <1>4, <1>5, <1>6, <1>7 DEF zones

LEMMA ReadyIs ==
  ASSUME NEW p \in PassStates
  PROVE  /\ ReadyToSend(p) \in PassStates
         /\ ReadyToSend(p).outq = p.outq /\ ReadyToSend(p).slot = p.slot
         /\ ReadyToSend(p).pos = p.pos /\ ReadyToSend(p).op = p.op
         /\ ReadyToSend(p).sent = p.sent /\ ReadyToSend(p).arrived = p.arrived
         /\ ReadyToSend(p).dst = p.dst /\ ReadyToSend(p).agg.pass = p.agg.pass
         /\ LastOfPass(p) => ReadyToSend(p).synced = TRUE
         /\ ~LastOfPass(p) => ReadyToSend(p).synced = p.synced
         /\ ReadyToSend(p).dt = p.dt /\ ReadyToSend(p).rbuf = p.rbuf
         /\ ReadyToSend(p).ended = p.ended
<1>1. CASE LastOfPass(p)
  BY <1>1, SyncedIs DEF ReadyToSend
<1>2. CASE ~LastOfPass(p)
  BY <1>2 DEF ReadyToSend
<1>3. QED
  BY <1>1, <1>2

LEMMA SentPassIs ==
  ASSUME NEW p \in PassStates, p.outq # <<>>
  PROVE  /\ SentPass(p) \in PassStates
         /\ SentPass(p).outq = Tail(p.outq) /\ SentPass(p).sent = p.sent + 1
         /\ SentPass(p).pos = p.pos /\ SentPass(p).op = p.op
         /\ SentPass(p).arrived = p.arrived /\ SentPass(p).agg = p.agg
         /\ SentPass(p).synced = p.synced
         /\ \A j \in Zones : SentPass(p).slot[j].dev = p.slot[j].dev
         /\ SameData(SentPass(p), p) /\ SentPass(p).ended = p.ended
         /\ SentPass(p).dst = NoSlot
         /\ \A j \in Zones : j # Head(p.outq) => SentPass(p).slot[j] = p.slot[j]
         /\ \A j \in Zones : /\ SentPass(p).slot[j].computed = p.slot[j].computed
                             /\ SentPass(p).slot[j].drifted = p.slot[j].drifted
<1> DEFINE i == Head(p.outq)
           fsm == Apply(p.slot[i].fsm, "SEND")
           new == [p.slot[i] EXCEPT !.fsm = fsm]
           slotNew == [p.slot EXCEPT ![i] = new]
           outq == Tail(p.outq)
           sent == p.sent + 1
<1>1. p.outq \in Seq(Zones) /\ p.slot \in [Zones -> PassSlots] /\ p.sent \in Nat
  BY PassFields
<1>2. i \in Zones /\ outq \in Seq(Zones)
  BY <1>1
<1>3. p.slot[i] \in PassSlots /\ fsm \in ZoneRecords
  BY <1>1, <1>2, SlotFields, ApplyType DEF ZoneEvents
<1> HIDE DEF i
<1>4. SentPass(p) = [p EXCEPT !.slot = slotNew, !.outq = outq, !.sent = sent, !.dst = NoSlot]
  BY <1>1, <1>2 DEF SentPass, PassStates, PassSlots, i
<1> HIDE DEF fsm
<1>5. /\ new \in PassSlots /\ new.dev = p.slot[i].dev
      /\ new.zone = p.slot[i].zone /\ new.lam = p.slot[i].lam
      /\ new.computed = p.slot[i].computed /\ new.drifted = p.slot[i].drifted
  BY <1>3 DEF PassSlots
<1> HIDE DEF new
<1>6. /\ slotNew \in [Zones -> PassSlots] /\ \A j \in Zones : slotNew[j].dev = p.slot[j].dev
      /\ \A j \in Zones : slotNew[j].zone = p.slot[j].zone /\ slotNew[j].lam = p.slot[j].lam
      /\ \A j \in Zones : j # i => slotNew[j] = p.slot[j]
      /\ \A j \in Zones : /\ slotNew[j].computed = p.slot[j].computed
                          /\ slotNew[j].drifted = p.slot[j].drifted
  BY <1>1, <1>2, <1>5
<1>7. sent \in Nat
  BY <1>1
<1> HIDE DEF slotNew, outq, sent
<1>8. SentPass(p) \in PassStates
  BY <1>2, <1>4, <1>6, <1>7 DEF PassStates
<1>9. /\ SentPass(p).slot = slotNew /\ SentPass(p).outq = outq /\ SentPass(p).sent = sent
      /\ SentPass(p).pos = p.pos /\ SentPass(p).op = p.op
      /\ SentPass(p).arrived = p.arrived /\ SentPass(p).agg = p.agg
      /\ SentPass(p).synced = p.synced
  BY <1>4 DEF PassStates
<1>10. /\ SentPass(p).dt = p.dt /\ SentPass(p).rbuf = p.rbuf /\ SentPass(p).ended = p.ended
       /\ SentPass(p).dst = NoSlot
  BY <1>4 DEF PassStates
<1>11. QED
  BY <1>6, <1>8, <1>9, <1>10 DEF outq, sent, SameData, i

\* A step of flush_sends: the control point stays, the queue keeps or loses its
\* head.
LEMMA QueueStep ==
  ASSUME TypeInv, NEW k \in Nodes, UNCHANGED <<pc, pass>>,
         loc' \in [Nodes -> PassStates], \A n \in Nodes \ {k} : loc'[n] = loc[n],
         loc'[k].pos = loc[k].pos, loc'[k].op = loc[k].op,
         loc'[k].arrived = loc[k].arrived,
         \A j \in Zones : loc'[k].slot[j].dev = loc[k].slot[j].dev,
         \/ loc'[k].outq = loc[k].outq
         \/ loc[k].outq # <<>> /\ loc'[k].outq = Tail(loc[k].outq)
  PROVE  NodeTypes' /\ \A n \in Nodes : SlotsHeld(n)' /\ Progress(n)'
<1>1. NodeTypes'
  BY DEF TypeInv, NodeTypes
<1>2. SlotsHeld(k) /\ Progress(k)
  BY NodeFields
<1>3. SlotsHeld(k)'
  <2>1. \A j \in Zones : j < loc'[k].arrived => loc'[k].slot[j].dev \in SlotIds
    BY <1>2 DEF SlotsHeld
  <2>2. \A i \in 1 .. Len(loc'[k].outq) : loc'[k].outq[i] < loc'[k].arrived
    <3>1. CASE loc'[k].outq = loc[k].outq
      BY <1>2, <3>1 DEF SlotsHeld
    <3>2. CASE loc[k].outq # <<>> /\ loc'[k].outq = Tail(loc[k].outq)
      BY <3>2, OutgoingFacts
    <3>3. QED
      BY <3>1, <3>2
  <2>3. QED
    BY <2>1, <2>2 DEF SlotsHeld
<1>4. Progress(k)'
  BY <1>2 DEF Progress, Received, CurrentOp
<1>5. QED
  BY <1>1, <1>3, <1>4, OthersKeep

LEMMA CollectZoneType ==
  ASSUME TypeInv, NEW k \in Nodes, CollectZone(k)
  PROVE  /\ TypeInv' /\ loc'[k].sent = loc[k].sent /\ loc'[k].agg = loc[k].agg
         /\ loc'[k].arrived = loc[k].arrived /\ loc'[k].synced = loc[k].synced
         /\ loc'[k] = [loc[k] EXCEPT !.outq = Tail(@)] /\ loc'[k] \in PassStates
         /\ \A n \in Nodes \ {k} : loc'[n] = loc[n]
<1> DEFINE p == loc[k]
           zone == Outgoing(k).zone
           q == [p EXCEPT !.outq = Tail(@)]
           d == StreamSync(Reading(dev, k, {SourceOf(k)}), k)
<1>1. /\ p.outq # <<>> /\ final' = [final EXCEPT ![zone] = dev.mem[SourceOf(k)].body]
      /\ loc' = [loc EXCEPT ![k].outq = Tail(@)] /\ FreeSource(k, d, credits)
      /\ UNCHANGED <<pc, pass, chan, closed, haltVars, linkVars, stats, result, level>>
  BY DEF CollectZone
<1>2. p \in PassStates /\ Tail(p.outq) \in Seq(Zones) /\ SourceOf(k) \in DevicePlaces
      /\ dev \in Devices /\ zone \in Zones
  BY <1>1, NodeFields, OutgoingFacts DEF TypeInv
<1>3. /\ q \in PassStates /\ q.outq = Tail(p.outq) /\ q.slot = p.slot /\ q.pos = p.pos
      /\ q.op = p.op /\ q.sent = p.sent /\ q.agg = p.agg /\ q.arrived = p.arrived
      /\ q.synced = p.synced
  BY <1>2 DEF PassStates
<1>4. loc' = [loc EXCEPT ![k] = q]
  BY <1>1
<1> HIDE DEF q
<1>5. loc' \in [Nodes -> PassStates] /\ loc'[k] = q /\ \A n \in Nodes \ {k} : loc'[n] = loc[n]
  BY <1>3, <1>4 DEF TypeInv, NodeTypes
<1>6. NodeTypes' /\ \A n \in Nodes : SlotsHeld(n)' /\ Progress(n)'
  BY <1>1, <1>3, <1>5, QueueStep
<1>7. d \in Devices
  <2>1. Reading(dev, k, {SourceOf(k)}) \in Devices
    BY <1>2, AccessType DEF Reading
  <2>2. QED
    BY <2>1, SyncType
<1>8. credits \in [Nodes -> Seq(SlotIds)]
  BY DEF TypeInv, LaneTypes
<1> HIDE DEF d
<1>9. PoolTypes' /\ credits' \in [Nodes -> Seq(SlotIds)] /\ dev' \in Devices
  BY <1>1, <1>7, <1>8, FreeSourceType
<1>10. LaneTypes'
  BY <1>1, <1>9 DEF TypeInv, LaneTypes
<1>11. EndTypes'
  <2>1. dev.mem[SourceOf(k)].body \in Bodies
    BY <1>2, MemoryType DEF ZoneImages
  <2>2. QED
    BY <1>1, <1>2, <2>1 DEF TypeInv, EndTypes
<1>12. ClosingWell'
  BY <1>1, ClosingKept DEF haltVars
<1>13. TypeInv'
  BY <1>1, <1>6, <1>9, <1>10, <1>11, <1>12, Untouched DEF TypeInv
<1>14. QED
  BY <1>3, <1>5, <1>13 DEF q

LEMMA PayloadType ==
  ASSUME TypeInv, NEW k \in Nodes, loc[k].outq # <<>>, NEW s \in SlotIds
  PROVE  Payload(k, s) \in Devices
<1> DEFINE c == Consumer(k)
           free == WaitEvent(dev, k, FreeEvent(c, s))
           source == SourceOf(k)
           p == <<c, s>>
           image == free.mem[source]
           e == [Access(free, k, {source}, {p}) EXCEPT !.mem[p] = image]
<1>1. c \in Nodes /\ source \in DevicePlaces /\ dev \in Devices
  BY EdgesAreNodes, OutgoingFacts DEF TypeInv
<1>2. p \in DevicePlaces /\ FreeEvent(c, s) \in DeviceEvents
  <2> HIDE DEF c
  <2>1. QED
    BY <1>1, PlaceTypes
<1>3. free \in Devices
  BY <1>1, <1>2, WaitEventType
<1>4. Payload(k, s) = Record(e, k, ArrivalEvent(c, s))
  BY DEF Payload, Kernel
<1> HIDE DEF free, source, p, c
<1>5. image \in ZoneImages
  BY <1>1, <1>3, MemoryType
<1> HIDE DEF image
<1>6. e \in Devices
  BY <1>2, <1>3, <1>5, KernelIs
<1> HIDE DEF e
<1>7. QED
  BY <1>4, <1>6, RecordType

\* Setting the slot a copy went to.
LEMMA DstStep ==
  ASSUME TypeInv, NEW k \in Nodes, NEW s \in SlotIds, UNCHANGED <<pc, pass>>,
         loc' = [loc EXCEPT ![k].dst = s]
  PROVE  /\ NodeTypes' /\ \A n \in Nodes : SlotsHeld(n)' /\ Progress(n)'
         /\ loc'[k] = [loc[k] EXCEPT !.dst = s]
         /\ \A n \in Nodes \ {k} : loc'[n] = loc[n]
<1> DEFINE p == loc[k]
           q == [p EXCEPT !.dst = s]
<1>1. p \in PassStates
  BY NodeFields
<1>2. /\ q \in PassStates /\ q.outq = p.outq /\ q.slot = p.slot /\ q.pos = p.pos
      /\ q.op = p.op /\ q.arrived = p.arrived
  BY <1>1 DEF PassStates
<1>3. loc' = [loc EXCEPT ![k] = q]
  OBVIOUS
<1> HIDE DEF q
<1>4. loc' \in [Nodes -> PassStates] /\ loc'[k] = q /\ \A n \in Nodes \ {k} : loc'[n] = loc[n]
  BY <1>2, <1>3 DEF TypeInv, NodeTypes
<1>5. NodeTypes' /\ \A n \in Nodes : SlotsHeld(n)' /\ Progress(n)'
  BY <1>2, <1>4, QueueStep
<1>6. QED
  BY <1>4, <1>5 DEF q

LEMMA CopyZoneEffect ==
  ASSUME TypeInv, NEW k \in Nodes, CopyZone(k)
  PROVE  /\ TypeInv'
         /\ \/ SetHalt(k, "Logic") /\ UNCHANGED loc
            \/ /\ UNCHANGED <<pc, haltVars>>
               /\ \E s \in SlotIds : loc'[k] = [loc[k] EXCEPT !.dst = s]
               /\ \A n \in Nodes \ {k} : loc'[n] = loc[n]
<1>1. /\ loc[k].outq # <<>>
      /\ UNCHANGED <<pass, chan, closed, linkVars, endVars, level>>
  BY DEF CopyZone, Sending
<1>2. CASE SelfLoop /\ reserve = <<>>
  <2>1. SetHalt(k, "Logic") /\ UNCHANGED <<loc, reserve, dev, credits, bfree>>
    BY <1>2 DEF CopyZone, CopyToSelf
  <2>2. NodeTypes' /\ HaltTypes' /\ ClosingWell' /\ \A n \in Nodes : SlotsHeld(n)' /\ Progress(n)'
    BY <1>1, <2>1, SetHaltType, HaltKindNames
  <2>3. TypeInv'
    BY <1>1, <2>1, <2>2, Untouched DEF TypeInv, laneVars, poolVars
  <2>4. QED
    BY <2>1, <2>3
<1>3. CASE SelfLoop /\ reserve # <<>>
  <2> DEFINE s == Head(reserve)
             freed == Append(Tail(reserve), Outgoing(k).dev)
  <2>1. /\ dev' = Payload(k, s) /\ reserve' = freed
        /\ loc' = [loc EXCEPT ![k].dst = s]
        /\ UNCHANGED <<pc, haltVars, credits, bfree>>
    BY <1>3 DEF CopyZone, CopyToSelf
  <2>2. s \in SlotIds /\ freed \in Seq(SlotIds)
    <3>1. s \in SlotIds /\ Tail(reserve) \in Seq(SlotIds)
      BY <1>3 DEF TypeInv, PoolTypes
    <3>2. QED
      BY <1>1, <3>1, OutgoingFacts
  <2> HIDE DEF s, freed
  <2>3. dev' \in Devices
    BY <1>1, <2>1, <2>2, PayloadType
  <2>4. PoolTypes'
    BY <2>1, <2>2 DEF TypeInv, PoolTypes
  <2>5. /\ NodeTypes' /\ \A n \in Nodes : SlotsHeld(n)' /\ Progress(n)'
        /\ loc'[k] = [loc[k] EXCEPT !.dst = s] /\ \A n \in Nodes \ {k} : loc'[n] = loc[n]
    BY <1>1, <2>1, <2>2, DstStep
  <2>6. ClosingWell'
    BY <1>1, <2>1, ClosingKept DEF haltVars
  <2>7. TypeInv'
    BY <1>1, <2>1, <2>3, <2>4, <2>5, <2>6, Untouched DEF TypeInv, laneVars
  <2>8. QED
    BY <2>1, <2>2, <2>5, <2>7
<1>4. CASE ~SelfLoop
  <2> DEFINE s == Head(credits[k])
             lane == [credits EXCEPT ![k] = Tail(@)]
  <2>1. /\ credits[k] # <<>> /\ FreeSource(k, Payload(k, s), lane)
        /\ loc' = [loc EXCEPT ![k].dst = s] /\ UNCHANGED <<pc, haltVars>>
    BY <1>4 DEF CopyZone, CopyOnCredit
  <2>2. s \in SlotIds /\ lane \in [Nodes -> Seq(SlotIds)]
    <3>1. credits \in [Nodes -> Seq(SlotIds)] /\ credits[k] \in Seq(SlotIds)
      BY DEF TypeInv, LaneTypes
    <3>2. s \in SlotIds /\ Tail(credits[k]) \in Seq(SlotIds)
      BY <2>1, <3>1
    <3>3. QED
      BY <3>1, <3>2
  <2> HIDE DEF s, lane
  <2>3. Payload(k, s) \in Devices
    BY <1>1, <2>2, PayloadType
  <2>4. PoolTypes' /\ credits' \in [Nodes -> Seq(SlotIds)] /\ dev' \in Devices
    BY <1>1, <2>1, <2>2, <2>3, FreeSourceType
  <2>5. LaneTypes'
    BY <1>1, <2>4 DEF TypeInv, LaneTypes
  <2>6. /\ NodeTypes' /\ \A n \in Nodes : SlotsHeld(n)' /\ Progress(n)'
        /\ loc'[k] = [loc[k] EXCEPT !.dst = s] /\ \A n \in Nodes \ {k} : loc'[n] = loc[n]
    BY <1>1, <2>1, <2>2, DstStep
  <2>7. ClosingWell'
    BY <1>1, <2>1, ClosingKept DEF haltVars
  <2>8. TypeInv'
    BY <1>1, <2>1, <2>4, <2>5, <2>6, <2>7, Untouched DEF TypeInv
  <2>9. QED
    BY <2>1, <2>2, <2>6, <2>8
<1>5. QED
  BY <1>2, <1>3, <1>4

LEMMA SentStep ==
  ASSUME TypeInv, NEW k \in Nodes, loc[k].outq # <<>>, UNCHANGED <<pc, pass>>,
         loc' = [loc EXCEPT ![k] = SentPass(ReadyToSend(loc[k]))]
  PROVE  /\ NodeTypes' /\ \A n \in Nodes : SlotsHeld(n)' /\ Progress(n)'
         /\ \A n \in Nodes \ {k} : loc'[n] = loc[n]
         /\ loc'[k].outq = Tail(loc[k].outq) /\ loc'[k].sent = loc[k].sent + 1
         /\ loc'[k].pos = loc[k].pos /\ loc'[k].arrived = loc[k].arrived
         /\ loc'[k].agg.pass = loc[k].agg.pass
         /\ loc'[k].synced = TRUE \/ (loc'[k].synced = loc[k].synced /\ ~LastOfPass(loc[k]))
         /\ SameData(loc'[k], loc[k]) /\ loc'[k].ended = loc[k].ended
         /\ loc'[k].agg = ReadyToSend(loc[k]).agg
         /\ loc'[k].synced = ReadyToSend(loc[k]).synced
         /\ loc'[k].op = loc[k].op /\ loc'[k].dst = NoSlot /\ loc'[k] \in PassStates
         /\ \A j \in Zones : j # Head(loc[k].outq) => loc'[k].slot[j] = loc[k].slot[j]
         /\ \A j \in Zones : /\ loc'[k].slot[j].computed = loc[k].slot[j].computed
                             /\ loc'[k].slot[j].drifted = loc[k].slot[j].drifted
<1> DEFINE p == loc[k]
           r == ReadyToSend(p)
           q == SentPass(r)
<1>1. p \in PassStates
  BY NodeFields
<1>2. /\ r \in PassStates /\ r.outq = p.outq /\ r.slot = p.slot /\ r.pos = p.pos
      /\ r.op = p.op /\ r.sent = p.sent /\ r.arrived = p.arrived
      /\ r.agg.pass = p.agg.pass
      /\ LastOfPass(p) => r.synced = TRUE
      /\ ~LastOfPass(p) => r.synced = p.synced
      /\ r.dt = p.dt /\ r.rbuf = p.rbuf /\ r.ended = p.ended
  BY <1>1, ReadyIs
<1> HIDE DEF r
<1>3. /\ q \in PassStates /\ q.outq = Tail(r.outq) /\ q.sent = r.sent + 1
      /\ q.pos = r.pos /\ q.op = r.op /\ q.arrived = r.arrived /\ q.agg = r.agg
      /\ q.synced = r.synced /\ \A j \in Zones : q.slot[j].dev = r.slot[j].dev
      /\ SameData(q, r) /\ q.ended = r.ended /\ q.dst = NoSlot
      /\ \A j \in Zones : j # Head(r.outq) => q.slot[j] = r.slot[j]
      /\ \A j \in Zones : /\ q.slot[j].computed = r.slot[j].computed
                          /\ q.slot[j].drifted = r.slot[j].drifted
  BY <1>2, SentPassIs
<1>4. loc' = [loc EXCEPT ![k] = q]
  BY DEF r
<1> HIDE DEF q
<1>5. loc' \in [Nodes -> PassStates] /\ loc'[k] = q /\ \A n \in Nodes \ {k} : loc'[n] = loc[n]
  BY <1>3, <1>4 DEF TypeInv, NodeTypes
<1>6. NodeTypes' /\ \A n \in Nodes : SlotsHeld(n)' /\ Progress(n)'
  BY <1>2, <1>3, <1>5, QueueStep
<1>7. SameData(q, p) /\ q.ended = p.ended
  BY <1>2, <1>3 DEF SameData
<1>8. QED
  BY <1>2, <1>3, <1>5, <1>6, <1>7 DEF r

LEMMA OutType ==
  ASSUME NEW p \in PassStates
  PROVE  LambdaOut(p) \in Lambdas /\ DtOut(p) \in TimeSteps
<1>1. p.sent \in Nat /\ p.slot \in [Zones -> PassSlots] /\ p.agg \in Lambdas /\ p.dt \in TimeSteps
  BY PassFields
<1>2. LambdaOut(p) \in Lambdas
  <2>1. CASE p.sent + 1 < N
    <3>1. p.sent + 1 \in Zones
      BY <1>1, <2>1, RingFacts DEF Zones
    <3>2. QED
      BY <1>1, <2>1, <3>1, SlotFields DEF LambdaOut
  <2>2. QED
    BY <1>1, <2>1 DEF LambdaOut
<1>3. QED
  BY <1>1, <1>2, LambdaTypes DEF DtOut

LEMMA SyncedDeviceType ==
  ASSUME TypeInv, NEW k \in Nodes
  PROVE  SyncedDevice(k) \in Devices /\ ReadyDevice(k) \in Devices
<1>1. dev \in Devices
  BY DEF TypeInv
<1>2. StreamSync(dev, k) \in Devices
  BY <1>1, SyncType
<1>3. HostUse(StreamSync(dev, k), k, <<k, EndScalars>>) \in Devices
  BY <1>2, HostType
<1>4. QED
  BY <1>1, <1>3 DEF SyncedDevice, ReadyDevice

LEMMA SendHeaderEffect ==
  ASSUME TypeInv, NEW k \in Nodes, SendHeader(k)
  PROVE  /\ TypeInv'
         /\ \/ /\ SetHalt(k, "Logic") /\ UNCHANGED <<chan, loc>>
               /\ ~Allowed(Outgoing(k).fsm.type, "SEND")
            \/ /\ UNCHANGED <<pc, haltVars>>
               /\ loc' = [loc EXCEPT ![k] = SentPass(ReadyToSend(loc[k]))]
               /\ \/ EdgeDown(k) /\ UNCHANGED chan
                  \/ /\ ~EdgeDown(k)
                     /\ \E m \in Headers :
                          /\ m.step = pass[k] /\ m.pos = loc[k].sent
                          /\ m.lam = LambdaOut(ReadyToSend(loc[k]))
                          /\ m.dt = DtOut(ReadyToSend(loc[k]))
                          /\ m.zone = Outgoing(k).zone /\ m.slot = loc[k].dst
                          /\ chan' = [chan EXCEPT ![k] = Append(@, m)]
<1> DEFINE p == ReadyToSend(loc[k])
           m == Header(p, pass[k])
<1>1. /\ loc[k].outq # <<>> /\ loc[k].dst # NoSlot
      /\ UNCHANGED <<pass, credits, closed, poolVars, linkVars, endVars, level>>
  BY DEF SendHeader, Sending
<1>2. CASE ~Allowed(Outgoing(k).fsm.type, "SEND")
  <2>1. SetHalt(k, "Logic") /\ UNCHANGED <<chan, loc, dev>>
    BY <1>2 DEF SendHeader
  <2>2. NodeTypes' /\ HaltTypes' /\ ClosingWell' /\ \A n \in Nodes : SlotsHeld(n)' /\ Progress(n)'
    BY <1>1, <2>1, SetHaltType, HaltKindNames
  <2>3. TypeInv'
    BY <1>1, <2>1, <2>2, Untouched DEF TypeInv, laneVars
  <2>4. QED
    BY <1>2, <2>1, <2>3
<1>3. CASE Allowed(Outgoing(k).fsm.type, "SEND")
  <2>1. /\ loc' = [loc EXCEPT ![k] = SentPass(p)] /\ dev' = ReadyDevice(k)
        /\ chan' = IF EdgeDown(k) THEN chan ELSE [chan EXCEPT ![k] = Append(@, m)]
        /\ UNCHANGED <<pc, haltVars>>
    BY <1>3 DEF SendHeader
  <2>2. loc[k] \in PassStates /\ pass[k] \in Nat
    BY NodeFields
  <2>3. p \in PassStates /\ p.outq = loc[k].outq /\ p.dst = loc[k].dst /\ p.sent = loc[k].sent
        /\ p.slot = loc[k].slot
    BY <2>2, ReadyIs
  <2>4. /\ m \in Headers /\ m.step = pass[k] /\ m.pos = loc[k].sent
        /\ m.lam = LambdaOut(p) /\ m.dt = DtOut(p)
        /\ m.zone = Outgoing(k).zone /\ m.slot = loc[k].dst
    <3> HIDE DEF p
    <3>1. LambdaOut(p) \in Lambdas /\ DtOut(p) \in TimeSteps
      BY <2>3, OutType
    <3>2. p.dst \in SlotIds /\ p.sent \in Nat
      BY <1>1, <2>3, PassFields
    <3>3. p.slot[Head(p.outq)].zone \in Zones
      BY <1>1, <2>3, OutgoingFacts DEF Outgoing
    <3>4. QED
      BY <2>2, <2>3, <3>1, <3>2, <3>3 DEF Header, Headers, Outgoing
  <2>5. /\ NodeTypes' /\ \A n \in Nodes : SlotsHeld(n)' /\ Progress(n)'
    BY <1>1, <2>1, SentStep
  <2>6. LaneTypes'
    <3> HIDE DEF m
    <3>1. Append(chan[k], m) \in Seq(Headers)
      BY <2>4 DEF TypeInv, LaneTypes
    <3>2. QED
      BY <1>1, <2>1, <3>1 DEF TypeInv, LaneTypes
  <2>7. dev' \in Devices
    BY <2>1, SyncedDeviceType
  <2>8. ClosingWell'
    BY <1>1, <2>1, ClosingKept DEF haltVars
  <2>9. TypeInv'
    BY <1>1, <2>1, <2>5, <2>6, <2>7, <2>8, Untouched DEF TypeInv
  <2> HIDE DEF m
  <2>10. QED
    BY <2>1, <2>4, <2>9
<1>4. QED
  BY <1>2, <1>3

LEMMA OutStagedType ==
  ASSUME TypeInv, NEW k \in Nodes, loc[k].outq # <<>>
  PROVE  OutStaged(k) \in Devices
<1> DEFINE ready == ReadyDevice(k)
           source == SourceOf(k)
           p == <<k, OutStage>>
           image == ready.mem[source]
           e == [Access(ready, k, {source}, {p}) EXCEPT !.mem[p] = image]
<1>1. ready \in Devices /\ source \in DevicePlaces /\ p \in DevicePlaces
  BY SyncedDeviceType, OutgoingFacts, PlaceTypes
<1>2. OutStaged(k) = HostUse(StreamSync(e, k), k, p)
  BY DEF OutStaged, Kernel
<1> HIDE DEF ready, source, p
<1>3. image \in ZoneImages
  BY <1>1, MemoryType
<1> HIDE DEF image
<1>4. e \in Devices
  BY <1>1, <1>3, KernelIs
<1> HIDE DEF e
<1>5. StreamSync(e, k) \in Devices
  BY <1>4, SyncType
<1>6. QED
  BY <1>2, <1>5, HostType

LEMMA EdgeSendType ==
  ASSUME TypeInv, NEW r \in Heads, NEW m \in WireMessages, EdgeSend(r, m)
  PROVE  /\ LinkTypes'
         /\ \/ poisoned[r] /\ UNCHANGED linkVars
            \/ /\ ~poisoned[r] /\ UNCHANGED poisoned /\ nextBuf[r] \in Nat
               /\ link' = [link EXCEPT ![NextRank(r)] =
                             Append(@, [m EXCEPT !.buf = nextBuf[r]])]
               /\ nextBuf' = [nextBuf EXCEPT ![r] = (@ + 1) % PoolSize]
<1>1. NextRank(r) \in Heads
  BY NextRankType
<1>2. CASE poisoned[r]
  BY <1>2, Untouched DEF EdgeSend
<1>3. CASE ~poisoned[r]
  <2>0. UNCHANGED poisoned
    BY <1>3 DEF EdgeSend
  <2> DEFINE b == nextBuf[r]
             n == [m EXCEPT !.buf = b]
  <2>1. /\ link' = [link EXCEPT ![NextRank(r)] = Append(@, n)]
        /\ nextBuf' = [nextBuf EXCEPT ![r] = (@ + 1) % PoolSize]
        /\ UNCHANGED <<poisoned, poisonSent>>
    BY <1>3 DEF EdgeSend
  <2>2. PoolSize \in Nat \ {0}
    BY RanksAssumption DEF RanksAssumption, PoolSize
  <2>3. nextBuf \in [Heads -> 0 .. PoolSize - 1] /\ b \in 0 .. PoolSize - 1
    BY DEF TypeInv, LinkTypes
  <2>4. b \in Nat /\ (b + 1) % PoolSize \in 0 .. PoolSize - 1
    BY <2>2, <2>3
  <2>5. nextBuf' \in [Heads -> 0 .. PoolSize - 1]
    BY <2>1, <2>3, <2>4
  <2> HIDE DEF b
  <2>6. n \in WireMessages
    BY <2>4 DEF WireMessages
  <2> HIDE DEF n
  <2>7. \A h \in Heads : Append(link[h], n) \in Seq(WireMessages)
    BY <2>6 DEF TypeInv, LinkTypes
  <2>8. link' \in [Heads -> Seq(WireMessages)]
    BY <1>1, <2>1, <2>7 DEF TypeInv, LinkTypes
  <2>9. LinkTypes'
    BY <2>1, <2>5, <2>8 DEF TypeInv, LinkTypes
  <2>10. QED
    BY <1>3, <2>0, <2>1, <2>4, <2>9 DEF n, b
<1>4. QED
  BY <1>2, <1>3

LEMMA SendBoundaryEffect ==
  ASSUME TypeInv, NEW k \in Nodes, SendBoundary(k)
  PROVE  /\ TypeInv'
         /\ \/ /\ SetHalt(k, "Logic") /\ UNCHANGED <<link, loc>>
               /\ ~Allowed(Outgoing(k).fsm.type, "SEND")
            \/ /\ UNCHANGED <<pc, haltVars>>
               /\ loc' = [loc EXCEPT ![k] = SentPass(ReadyToSend(loc[k]))]
               /\ \/ poisoned[RankOf(k)] /\ UNCHANGED linkVars
                  \/ /\ ~poisoned[RankOf(k)] /\ UNCHANGED poisoned
                     /\ nextBuf' = [nextBuf EXCEPT ![RankOf(k)] = (@ + 1) % PoolSize]
                     /\ \E m \in WireMessages :
                          /\ m.step = pass[k] /\ m.pos = loc[k].sent
                          /\ m.lam = LambdaOut(ReadyToSend(loc[k]))
                          /\ m.dt = DtOut(ReadyToSend(loc[k]))
                          /\ m.buf = nextBuf[RankOf(k)] /\ m.zone = Outgoing(k).zone
                          /\ m.body = OutStaged(k).mem[<<k, OutStage>>].body
                          /\ link' = [link EXCEPT ![NextRank(RankOf(k))] = Append(@, m)]
<1> DEFINE p == ReadyToSend(loc[k])
           d == OutStaged(k)
           m == WireMessage(p, pass[k], d.mem[<<k, OutStage>>])
<1>1. /\ loc[k].outq # <<>> /\ UNCHANGED <<pass, chan, closed, endVars, level>>
  BY DEF SendBoundary, Sending
<1>2. CASE ~Allowed(Outgoing(k).fsm.type, "SEND")
  <2>1. SetHalt(k, "Logic") /\ UNCHANGED <<loc, credits, poolVars, dev, linkVars>>
    BY <1>2 DEF SendBoundary
  <2>2. NodeTypes' /\ HaltTypes' /\ ClosingWell' /\ \A n \in Nodes : SlotsHeld(n)' /\ Progress(n)'
    BY <1>1, <2>1, SetHaltType, HaltKindNames
  <2>3. TypeInv'
    BY <1>1, <2>1, <2>2, Untouched DEF TypeInv, laneVars
  <2>4. QED
    BY <1>2, <2>1, <2>3 DEF linkVars
<1>3. CASE Allowed(Outgoing(k).fsm.type, "SEND")
  <2>1. /\ EdgeSend(RankOf(k), m) /\ FreeSource(k, d, credits)
        /\ loc' = [loc EXCEPT ![k] = SentPass(p)] /\ UNCHANGED <<pc, haltVars>>
    BY <1>3 DEF SendBoundary
  <2>2. loc[k] \in PassStates /\ pass[k] \in Nat
    BY NodeFields
  <2>3. p \in PassStates /\ p.outq = loc[k].outq /\ p.sent = loc[k].sent /\ p.slot = loc[k].slot
    BY <2>2, ReadyIs
  <2>4. d \in Devices
    BY <1>1, OutStagedType
  <2>5. /\ m \in WireMessages /\ m.step = pass[k] /\ m.pos = loc[k].sent
        /\ m.lam = LambdaOut(p) /\ m.dt = DtOut(p)
        /\ m.zone = Outgoing(k).zone /\ m.body = d.mem[<<k, OutStage>>].body
    <3> HIDE DEF p, d
    <3>1. LambdaOut(p) \in Lambdas /\ DtOut(p) \in TimeSteps
      BY <2>3, OutType
    <3>2. p.sent \in Nat
      BY <2>3, PassFields
    <3>3. p.slot[Head(p.outq)].zone \in Zones
      BY <1>1, <2>3, OutgoingFacts DEF Outgoing
    <3>4. d.mem[<<k, OutStage>>].body \in Bodies
      BY <2>4, PlaceTypes, MemoryType DEF ZoneImages
    <3>5. QED
      BY <2>2, <2>3, <3>1, <3>2, <3>3, <3>4 DEF WireMessage, WireMessages, Outgoing
  <2>6. NodeTypes' /\ \A n \in Nodes : SlotsHeld(n)' /\ Progress(n)'
    BY <1>1, <2>1, SentStep
  <2> HIDE DEF d, m
  <2>7. credits \in [Nodes -> Seq(SlotIds)]
    BY DEF TypeInv, LaneTypes
  <2>8. PoolTypes' /\ credits' \in [Nodes -> Seq(SlotIds)] /\ dev' \in Devices
    BY <1>1, <2>1, <2>4, <2>7, FreeSourceType
  <2>9. LaneTypes'
    BY <1>1, <2>8 DEF TypeInv, LaneTypes
  <2>10. /\ LinkTypes'
         /\ \/ poisoned[RankOf(k)] /\ UNCHANGED linkVars
            \/ /\ ~poisoned[RankOf(k)] /\ UNCHANGED poisoned /\ nextBuf[RankOf(k)] \in Nat
               /\ link' = [link EXCEPT ![NextRank(RankOf(k))] =
                             Append(@, [m EXCEPT !.buf = nextBuf[RankOf(k)]])]
               /\ nextBuf' = [nextBuf EXCEPT ![RankOf(k)] = (@ + 1) % PoolSize]
    BY <2>1, <2>5, RankFacts, EdgeSendType
  <2>11. ClosingWell'
    BY <1>1, <2>1, ClosingKept DEF haltVars
  <2>12. TypeInv'
    BY <1>1, <2>1, <2>6, <2>8, <2>9, <2>10, <2>11, Untouched DEF TypeInv
  <2>13. ASSUME ~poisoned[RankOf(k)],
                NEW b \in Nat, b = nextBuf[RankOf(k)],
                link' = [link EXCEPT ![NextRank(RankOf(k))] = Append(@, [m EXCEPT !.buf = b])]
         PROVE  \E n \in WireMessages :
                  /\ n.step = pass[k] /\ n.pos = loc[k].sent
                  /\ n.lam = LambdaOut(p) /\ n.dt = DtOut(p)
                  /\ n.buf = nextBuf[RankOf(k)] /\ n.zone = Outgoing(k).zone
                  /\ n.body = OutStaged(k).mem[<<k, OutStage>>].body
                  /\ link' = [link EXCEPT ![NextRank(RankOf(k))] = Append(@, n)]
    <3> DEFINE n == [m EXCEPT !.buf = b]
    <3>1. /\ n \in WireMessages /\ n.step = m.step /\ n.pos = m.pos
          /\ n.lam = m.lam /\ n.dt = m.dt /\ n.buf = b
          /\ n.zone = m.zone /\ n.body = m.body
      BY <2>5 DEF WireMessages
    <3>2. link' = [link EXCEPT ![NextRank(RankOf(k))] = Append(@, n)]
      BY <2>13
    <3> HIDE DEF n, p
    <3>3. QED
      BY <2>5, <2>13, <3>1, <3>2 DEF d
  <2>14. QED
    BY <2>1, <2>10, <2>12, <2>13
<1>4. QED
  BY <1>2, <1>3

-----------------------------------------------------------------------------
(* The end of a pass and the end of a rank.                                  *)

LEMMA DrainReserveType ==
  ASSUME TypeInv, NEW k \in Nodes, NEW d \in Devices, DrainReserve(k, d)
  PROVE  PoolTypes' /\ credits' \in [Nodes -> Seq(SlotIds)] /\ dev' \in Devices
<1>1. /\ reserve \in Seq(SlotIds) /\ bfree \in [Nodes -> Seq(SlotIds)]
      /\ credits \in [Nodes -> Seq(SlotIds)]
  BY DEF TypeInv, PoolTypes, LaneTypes
<1>2. CASE pass[k] # 1 \/ SelfLoop
  BY <1>1, <1>2, Untouched DEF DrainReserve
<1>3. CASE ~(pass[k] # 1 \/ SelfLoop) /\ BoundaryIn(k)
  <2>1. /\ reserve' = <<>> /\ bfree' = [bfree EXCEPT ![k] = @ \o reserve]
        /\ dev' = d /\ UNCHANGED credits
    BY <1>3 DEF DrainReserve
  <2>2. bfree[k] \o reserve \in Seq(SlotIds)
    BY <1>1
  <2>3. bfree' \in [Nodes -> Seq(SlotIds)]
    BY <1>1, <2>1, <2>2
  <2>4. QED
    BY <1>1, <2>1, <2>3, EmptySeq DEF PoolTypes
<1>4. CASE ~(pass[k] # 1 \/ SelfLoop) /\ ~BoundaryIn(k)
  <2> DEFINE events == [e \in DeviceEvents |->
                          IF \E q \in 1 .. Len(reserve) : e = FreeEvent(k, reserve[q])
                            THEN d.clock[k] ELSE d.event[e]]
             f == InEdge(k)
  <2>1. /\ reserve' = <<>> /\ UNCHANGED bfree
        /\ credits' = IF EdgeDown(f) THEN credits ELSE [credits EXCEPT ![f] = @ \o reserve]
        /\ dev' = [d EXCEPT !.event = events]
    BY <1>4 DEF DrainReserve
  <2>2. events \in [DeviceEvents -> Clocks]
    <3>1. d.clock[k] \in Clocks /\ \A e \in DeviceEvents : d.event[e] \in Clocks
      BY DEF Devices
    <3>2. QED
      BY <3>1
  <2> HIDE DEF events
  <2>3. dev' \in Devices
    BY <2>1, <2>2 DEF Devices
  <2>4. f \in Nodes
    BY EdgesAreNodes
  <2> HIDE DEF f
  <2>5. credits[f] \o reserve \in Seq(SlotIds)
    BY <1>1, <2>4
  <2>6. credits' \in [Nodes -> Seq(SlotIds)]
    BY <1>1, <2>1, <2>4, <2>5
  <2>7. QED
    BY <1>1, <2>1, <2>3, <2>6, EmptySeq DEF PoolTypes
<1>5. QED
  BY <1>2, <1>3, <1>4

LEMMA FinishPassEffect ==
  ASSUME TypeInv, NEW k \in Nodes, FinishPass(k)
  PROVE  /\ TypeInv' /\ pc'[k] = "record"
         /\ \A n \in Nodes \ {k} : pc'[n] = pc[n] /\ loc'[n] = loc[n]
         /\ loc'[k].outq = loc[k].outq /\ loc'[k].sent = loc[k].sent
         /\ loc'[k].pos = loc[k].pos /\ loc'[k].arrived = loc[k].arrived
         /\ loc'[k].agg.pass = loc[k].agg.pass /\ loc'[k].synced = TRUE
         /\ loc'[k] = Synced(loc[k])
<1> DEFINE p == loc[k]
           q == Synced(p)
           d == SyncedDevice(k)
<1>1. /\ pc[k] = "finish" /\ Goto(k, "record") /\ loc' = [loc EXCEPT ![k] = q]
      /\ DrainReserve(k, d)
      /\ UNCHANGED <<pass, chan, closed, haltVars, linkVars, endVars, level>>
  BY DEF FinishPass
<1>2. p \in PassStates /\ SlotsHeld(k) /\ p.pos = N - 1 /\ p.arrived = N
  BY <1>1, NodeFields DEF Progress, AtTheEnd
<1>3. /\ q \in PassStates /\ q.synced = TRUE /\ q.outq = p.outq /\ q.slot = p.slot
      /\ q.pos = p.pos /\ q.sent = p.sent /\ q.arrived = p.arrived
      /\ q.agg.pass = p.agg.pass
  BY <1>2, SyncedIs
<1>4. d \in Devices
  BY SyncedDeviceType
<1> HIDE DEF q, d
<1>5. PoolTypes' /\ credits' \in [Nodes -> Seq(SlotIds)] /\ dev' \in Devices
  BY <1>1, <1>4, DrainReserveType
<1>6. LaneTypes'
  BY <1>1, <1>5 DEF TypeInv, LaneTypes
<1>7. /\ NodeTypes' /\ loc'[k] = q /\ pc'[k] = "record"
      /\ \A n \in Nodes \ {k} : pc'[n] = pc[n] /\ loc'[n] = loc[n]
  BY <1>1, <1>3 DEF TypeInv, NodeTypes, NodePoints, Goto
<1>8. SlotsHeld(k)' /\ Progress(k)'
  BY <1>2, <1>3, <1>7 DEF SlotsHeld, Progress, Received, AtTheEnd
<1>9. ClosingWell'
  BY <1>1, <1>7, ClosingKept DEF haltVars
<1>10. TypeInv'
  BY <1>1, <1>5, <1>6, <1>7, <1>8, <1>9, OthersKeep, Untouched DEF TypeInv
<1>11. QED
  BY <1>3, <1>7, <1>10 DEF q

LEMMA RecordPassType ==
  ASSUME TypeInv, NEW k \in Nodes, RecordPass(k)
  PROVE  TypeInv'
<1> DEFINE record == [dt |-> loc[k].dt, agg |-> loc[k].agg]
<1>1. /\ pc[k] = "record" /\ stats' = [stats EXCEPT ![pass[k]] = record]
      /\ pass' = [pass EXCEPT ![k] = @ + Z] /\ Goto(k, "loop")
      /\ UNCHANGED <<loc, laneVars, poolVars, dev, haltVars, linkVars, final,
                     result, level>>
  BY DEF RecordPass
<1>2. record \in PassRecords
  BY NodeFields, PassFields DEF PassRecords
<1> HIDE DEF record
<1>3. EndTypes'
  BY <1>1, <1>2 DEF TypeInv, EndTypes
<1>4. pass[k] + Z \in Nat
  BY NodeFields, RingFacts
<1>5. /\ NodeTypes' /\ pc'[k] = "loop"
      /\ \A n \in Nodes \ {k} : pc'[n] = pc[n] /\ loc'[n] = loc[n]
  BY <1>1, <1>4 DEF TypeInv, NodeTypes, NodePoints, Goto
<1>6. SlotsHeld(k)' /\ Progress(k)'
  <2>1. SlotsHeld(k) /\ loc'[k] = loc[k]
    BY <1>1, NodeFields
  <2>2. QED
    BY <1>5, <2>1 DEF SlotsHeld, Progress, Received, AtTheEnd
<1>7. ClosingWell'
  BY <1>1, <1>5, ClosingKept DEF laneVars, haltVars
<1>8. QED
  BY <1>1, <1>3, <1>5, <1>6, <1>7, OthersKeep, Untouched DEF TypeInv

\* The steps a rank reports are a prefix of passes it counted.
LEMMA StepsDoneIs ==
  ASSUME NEW r
  PROVE  /\ StepsDone(r) \in 0 .. Steps
         /\ \A h \in 1 .. StepsDone(r) : Counted(r, h)
<1> DEFINE Done(d) == /\ \A h \in 1 .. d : Counted(r, h)
                      /\ d < Steps => ~Counted(r, d + 1)
           missing == {h \in Passes : ~Counted(r, h)}
<1>1. Steps \in Nat
  BY RingFacts
<1>2. \E d \in 0 .. Steps : Done(d)
  <2>1. CASE missing = {}
    <3>1. Done(Steps)
      BY <1>1, <2>1 DEF Passes
    <3>2. QED
      BY <1>1, <3>1
  <2>2. CASE missing # {}
    <3> DEFINE m == Min(missing)
    <3>1. missing \in SUBSET Nat
      BY <1>1 DEF Passes
    <3>2. m \in missing /\ \A y \in missing : m =< y
      <4> HIDE DEF missing
      <4>1. QED
        BY <2>2, <3>1, MinExists
    <3>3. m \in 1 .. Steps /\ ~Counted(r, m)
      BY <3>2 DEF Passes
    <3>4. \A h \in 1 .. m - 1 : Counted(r, h)
      <4>1. SUFFICES ASSUME NEW h \in 1 .. m - 1, ~Counted(r, h) PROVE FALSE
        OBVIOUS
      <4>2. h \in Passes /\ h < m
        BY <1>1, <3>3 DEF Passes
      <4>3. m =< h
        BY <3>2, <4>1, <4>2
      <4>4. QED
        BY <1>1, <3>3, <4>2, <4>3
    <3> HIDE DEF m
    <3>5. m - 1 \in 0 .. Steps /\ m - 1 + 1 = m
      BY <1>1, <3>3
    <3>6. Done(m - 1)
      BY <3>3, <3>4, <3>5
    <3>7. QED
      BY <3>5, <3>6
  <2>3. QED
    BY <2>1, <2>2
<1>3. StepsDone(r) = CHOOSE d \in 0 .. Steps : Done(d)
  BY DEF StepsDone
<1> HIDE DEF Done
<1>4. StepsDone(r) \in 0 .. Steps /\ Done(StepsDone(r))
  BY <1>2, <1>3
<1>5. QED
  BY <1>4 DEF Done

LEMMA JoinType ==
  ASSUME TypeInv, NEW r \in Heads, Join(r)
  PROVE  TypeInv'
<1> DEFINE report == [halt |-> haltKind[r],
                      steps_done |-> IF HaltOn(r) THEN StepsDone(r) ELSE Steps,
                      has_final |-> ~HaltOn(r) /\ (\E i \in Zones : final[i] # NoBody)
                                    /\ OwnPass(r, Steps)]
<1>1. /\ result' = [result EXCEPT ![r] = report]
      /\ UNCHANGED <<nodeVars, laneVars, poolVars, dev, haltVars, linkVars, stats,
                     final, level>>
  BY DEF Join
<1>2. report \in Results
  <2> DEFINE has == ~HaltOn(r) /\ (\E i \in Zones : final[i] # NoBody) /\ OwnPass(r, Steps)
             done == IF HaltOn(r) THEN StepsDone(r) ELSE Steps
  <2>1. has \in BOOLEAN
    OBVIOUS
  <2>2. done \in 0 .. Steps
    BY StepsDoneIs, RingFacts
  <2>3. haltKind[r] \in HaltKinds
    BY DEF TypeInv, HaltTypes
  <2>4. report = [halt |-> haltKind[r], steps_done |-> done, has_final |-> has]
    OBVIOUS
  <2> HIDE DEF has, done, report
  <2>5. QED
    BY <2>1, <2>2, <2>3, <2>4, Zenon DEF Results
<1> HIDE DEF report
<1>3. EndTypes'
  BY <1>1, <1>2 DEF TypeInv, EndTypes
<1>4. NodeTypes' /\ ClosingWell' /\ \A n \in Nodes : SlotsHeld(n)' /\ Progress(n)'
  <2>1. NodeTypes'
    BY <1>1 DEF TypeInv, NodeTypes, nodeVars
  <2>2. ClosingWell'
    BY <1>1, ClosingKept DEF nodeVars, laneVars, haltVars
  <2>3. \A n \in Nodes : SlotsHeld(n)' /\ Progress(n)'
    BY <1>1 DEF TypeInv, nodeVars, SlotsHeld, Progress, Received, CurrentOp
  <2>4. QED
    BY <2>1, <2>2, <2>3
<1>5. QED
  BY <1>1, <1>3, <1>4, Untouched DEF TypeInv

LEMMA InitType == Init => TypeInv
<1> SUFFICES ASSUME Init PROVE TypeInv
  OBVIOUS
<1>1. NodeTypes
  <2>1. FreshPass(0) \in PassStates
    BY FreshPassType
  <2>2. \A k \in Nodes : k + 1 \in Nat
    BY RingFacts DEF Nodes
  <2>3. QED
    BY <2>1, <2>2 DEF Init, NodeTypes, NodePoints
<1>2. \A k \in Nodes : SlotRange(0, Circulating(k)) \in Seq(SlotIds)
  <2>1. SUFFICES ASSUME NEW k \in Nodes PROVE SlotRange(0, Circulating(k)) \in Seq(SlotIds)
    OBVIOUS
  <2>2. Circulating(k) \in 0 .. SlotCount /\ SlotCount \in Nat
    BY PoolFacts
  <2>3. QED
    BY <2>2, SlotRangeType
<1>3. SlotRange(Circulating(0), SlotCount) \in Seq(SlotIds)
  <2>1. Circulating(0) \in 0 .. SlotCount /\ SlotCount \in Nat
    BY PoolFacts, RingFacts
  <2>2. QED
    BY <2>1, SlotRangeType
<1>4. LaneTypes
  BY <1>2, EdgesAreNodes, EmptySeq DEF Init, LaneTypes
<1>5. PoolTypes
  BY <1>2, <1>3, EmptySeq DEF Init, PoolTypes
<1>6. HaltTypes
  BY DEF Init, HaltTypes, HaltKinds
<1>7. LinkTypes
  <2>1. 0 \in 0 .. PoolSize - 1
    BY RanksAssumption DEF RanksAssumption, PoolSize
  <2>2. QED
    BY <2>1, EmptySeq DEF Init, InitLinks, LinkTypes
<1>8. EndTypes
  <2>1. NoStats \in PassRecords
    BY LambdaTypes DEF NoStats, PassRecords
  <2>2. NoResult \in Results
    <3>1. 0 \in 0 .. Steps /\ "None" \in HaltKinds /\ FALSE \in BOOLEAN
      BY RingFacts DEF HaltKinds
    <3>2. QED
      BY <3>1, Zenon DEF NoResult, Results
  <2>3. QED
    BY <2>1, <2>2, BodyTypes DEF Init, EndTypes
<1>9. LevelType
  BY DEF Init, LevelType
<1>10. dev \in Devices
  <2>1. Never \in Clocks
    BY DEF Never, Clocks
  <2>2. dev = IdleDevice
    BY DEF Init
  <2>3. IdleDevice \in Devices
    BY <2>1, ImageTypes DEF IdleDevice, Devices
  <2>4. QED
    BY <2>2, <2>3
<1>11. ClosingWell
  BY DEF Init, ClosingWell
<1>12. ASSUME NEW k \in Nodes PROVE SlotsHeld(k) /\ Progress(k)
  <2>1. loc[k] = FreshPass(0) /\ pc[k] = "loop"
    BY DEF Init
  <2>2. loc[k].arrived = 0 /\ loc[k].outq = <<>>
    BY <2>1 DEF FreshPass
  <2>3. \A j \in Zones : ~(j < 0)
    BY RingFacts DEF Zones
  <2>4. QED
    BY <2>1, <2>2, <2>3 DEF SlotsHeld, Progress, Received, AtTheEnd
<1>13. QED
  BY <1>1, <1>4, <1>5, <1>6, <1>7, <1>8, <1>9, <1>10, <1>11, <1>12 DEF TypeInv

LEMMA NodeStepType ==
  ASSUME TypeInv, NEW k \in Nodes, NodeStep(k)
  PROVE  TypeInv'
<1>1. CASE NodeReturns(k) \/ RecvShutDown(k) \/ CreditShutDown(k) \/ FlushSeesHalt(k) \/ HaltCheck(k)
  BY <1>1, LeaveType DEF NodeReturns, RecvShutDown, CreditShutDown, FlushSeesHalt, HaltCheck
<1>2. CASE StartPass(k) \/ TakePreload(k) \/ RecvZone(k) \/ RecvBoundary(k)
  BY <1>2, StartPassType, TakePreloadType, RecvZoneType, RecvBoundaryType
<1>3. CASE RecvPoison(k) \/ RecvDone(k) \/ FlushDone(k) \/ CollectZone(k)
  BY <1>3, RecvPoisonType, RecvDoneType, FlushDoneType, CollectZoneType
<1>4. CASE CopyZone(k) \/ SendHeader(k) \/ SendBoundary(k)
  BY <1>4, CopyZoneEffect, SendHeaderEffect, SendBoundaryEffect
<1>5. CASE ComputeZone(k) \/ EndHead(k) \/ FinishPass(k) \/ RecordPass(k)
  BY <1>5, ComputeEffect, EndHeadEffect, FinishPassEffect, RecordPassType
<1>6. CASE CloseEdge(k) \/ PoisonRing(k)
  BY <1>6, CloseEdgeType, PoisonRingType
<1>7. QED
  BY <1>1, <1>2, <1>3, <1>4, <1>5, <1>6 DEF NodeStep

LEMMA NextType ==
  ASSUME TypeInv, [Next]_vars
  PROVE  TypeInv'
<1>1. CASE UNCHANGED vars
  <2>1. NodeTypes' /\ ClosingWell' /\ \A n \in Nodes : SlotsHeld(n)' /\ Progress(n)'
    <3>1. UNCHANGED <<nodeVars, laneVars, haltVars>>
      BY <1>1 DEF vars
    <3>2. NodeTypes'
      BY <3>1 DEF TypeInv, NodeTypes, nodeVars
    <3>3. ClosingWell'
      BY <3>1, ClosingKept DEF nodeVars, laneVars, haltVars
    <3>4. \A n \in Nodes : SlotsHeld(n)' /\ Progress(n)'
      BY <3>1 DEF TypeInv, nodeVars, SlotsHeld, Progress, Received, CurrentOp
    <3>5. QED
      BY <3>2, <3>3, <3>4
  <2>2. QED
    BY <1>1, <2>1, Untouched DEF TypeInv, vars
<1>2. ASSUME NEW k \in Nodes, NodeStep(k) PROVE TypeInv'
  BY <1>2, NodeStepType
<1>3. ASSUME NEW k \in Nodes, NodeFault(k) PROVE TypeInv'
  BY <1>3, NodeFaultType
<1>4. ASSUME NEW r \in Heads, Join(r) PROVE TypeInv'
  BY <1>4, JoinType
<1>5. QED
  BY <1>1, <1>2, <1>3, <1>4 DEF Next, AllReturned

\* Every variable keeps its type, the device its shape, and the slot an ended
\* zone gives back is a slot: whatever fails and however many ranks there are.
THEOREM GpuTypeCorrect == Spec => []TypeOK
<1>1. TypeInv /\ [Next]_vars => TypeInv'
  BY NextType
<1>2. QED
  BY InitType, <1>1, TypesOK, PTL DEF Spec

LEMMA AlwaysTyped == Spec => []TypeInv
<1>1. TypeInv /\ [Next]_vars => TypeInv'
  BY NextType
<1>2. QED
  BY InitType, <1>1, PTL DEF Spec
-----------------------------------------------------------------------------
(* How many zones of a pass have left its node.  A pass that ended counts as *)
(* complete, the last one included although it keeps its zones.              *)

Owner(h) == (h - 1) % Z
AtWork == {"io", "compute", "endhead", "flush", "finish", "record"}
Stopped == {"closing", "poison", "done"}

SentOf(h) ==
  IF pass[Owner(h)] > h THEN N
  ELSE IF pass[Owner(h)] = h /\ loc[Owner(h)].agg.pass = h THEN loc[Owner(h)].sent
  ELSE 0

\* The zones of the pass of node k that have ended.
EndedCount(k) ==
  IF pc[k] \in {"io", "compute"}
    THEN IF DeferHead /\ loc[k].pos > 0 THEN loc[k].pos - 1 ELSE loc[k].pos
  ELSE IF pc[k] = "endhead" THEN N - 1 ELSE N

PassOfNode(k) ==
  /\ pass[k] \in Nat \ {0} /\ Owner(pass[k]) = k
  /\ loc[k].agg.pass <= pass[k]
  /\ pc[k] = "loop" => loc[k].agg.pass < pass[k]
  /\ pc[k] \in AtWork => pass[k] <= Steps /\ loc[k].agg.pass = pass[k]

Counts(k) ==
  /\ loc[k].sent <= N
  /\ loc[k].agg.pass = Steps => loc[k].sent = 0
  /\ loc[k].sent = N => loc[k].synced
  /\ pc[k] \in AtWork /\ pass[k] # Steps =>
       loc[k].sent + Len(loc[k].outq) = EndedCount(k)
  /\ pc[k] \in {"finish", "record"} => loc[k].outq = <<>>

\* A zone that travels has left its node, one that arrived too; so a pass with
\* all its zones gone follows only such passes.
Announced(m) == \E h \in Passes : m.step = h /\ m.pos < SentOf(h)
InFlight ==
  /\ \A e \in Nodes : \A q \in 1 .. Len(chan[e]) : Announced(chan[e][q])
  /\ \A r \in Heads : \A q \in 1 .. Len(link[r]) :
       ~IsPoison(link[r][q]) => Announced(link[r][q])
Arrived(k) ==
  loc[k].agg.pass > 1 => loc[k].arrived <= SentOf(loc[k].agg.pass - 1)
CompleteDown ==
  \A g, h \in Passes : g < h /\ SentOf(h) = N => SentOf(g) = N

RecordedIsOver == \A h \in Passes : Recorded(h) => pass[Owner(h)] > h

\* The node whose halt was the first of its rank has stopped in its pass; if a
\* check failed, before the last zone left.
HaltHolder(r) ==
  LET h == haltPass[r]
      k == Owner(h)
  IN  h # 0 =>
        /\ h \in Passes /\ pass[k] = h /\ pc[k] \in Stopped /\ RankOf(k) = r
        /\ haltKind[r] \in SyncKinds => loc[k].agg.pass = h /\ loc[k].sent < N
HaltsHeld ==
  \A r \in Heads :
    /\ HaltHolder(r)
    /\ haltKind[r] = "None" => haltPass[r] = 0
    /\ haltKind[r] \in SyncKinds => haltPass[r] # 0
    /\ Returned(r) => \A k \in Nodes : RankOf(k) = r => pc[k] = "done"
    /\ haltPass[r] # 0 => result[r].steps_done < haltPass[r]

FlowInv ==
  /\ \A k \in Nodes : PassOfNode(k) /\ Counts(k) /\ Arrived(k)
  /\ InFlight /\ CompleteDown /\ RecordedIsOver /\ HaltsHeld

LEMMA OwnerFacts ==
  /\ \A h \in Nat \ {0} : Owner(h) \in Nodes /\ Owner(h + Z) = Owner(h)
  /\ \A k \in Nodes : Owner(k + 1) = k
<1> SUFFICES ASSUME NEW h \in Nat \ {0}
             PROVE  Owner(h) \in Nodes /\ Owner(h + Z) = Owner(h)
  <2>1. ASSUME NEW k \in Nodes PROVE Owner(k + 1) = k
    <3>1. Z \in Nat \ {0} /\ k \in 0 .. Z - 1
      BY RingFacts DEF Nodes
    <3>2. (k + 1) - 1 = k /\ k % Z = k
      BY <3>1
    <3>3. QED
      BY <3>2 DEF Owner
  <2>2. QED
    BY <2>1
<1>1. Z \in Nat \ {0} /\ h - 1 \in Nat
  BY RingFacts
<1>2. \A y \in Nat : /\ y % Z \in 0 .. Z - 1 /\ y \div Z \in Int
                     /\ y = Z * (y \div Z) + (y % Z)
  <2> TAKE y \in Nat
  <2>1. y % Z \in 0 .. Z - 1
    BY <1>1
  <2>2. y = Z * (y \div Z) + (y % Z) /\ y \div Z \in Int
    BY <1>1
  <2>3. QED
    BY <2>1, <2>2
<1> DEFINE x == h - 1
           q == x \div Z
           r == x % Z
           u == (x + Z) \div Z
           t == (x + Z) % Z
<1>3. /\ q \in Int /\ u \in Int /\ r \in 0 .. Z - 1 /\ t \in 0 .. Z - 1
      /\ x = Z * q + r /\ x + Z = Z * u + t /\ x \in Nat
  <2> HIDE DEF x
  <2>1. x \in Nat /\ x + Z \in Nat
    BY <1>1 DEF x
  <2>2. QED
    BY <1>2, <2>1
<1>4. (h + Z) - 1 = x + Z
  BY <1>1
<1> HIDE DEF q, r, u, t, x
<1>5. Z * (u - q) = Z + r - t
  BY <1>1, <1>3
<1>6. u - q = 1
  <2>1. u - q >= 2 => Z * (u - q) >= 2 * Z
    BY <1>1, <1>3
  <2>2. u - q <= 0 => Z * (u - q) <= 0
    BY <1>1, <1>3
  <2>3. QED
    BY <1>1, <1>3, <1>5, <2>1, <2>2
<1>7. t = r
  BY <1>1, <1>3, <1>5, <1>6
<1>8. Owner(h) = r /\ Owner(h + Z) = t
  <2>1. Owner(h) = x % Z
    BY DEF Owner, x
  <2> DEFINE y == (h + Z) - 1
  <2>3. Owner(h + Z) = y % Z
    BY DEF Owner
  <2>5. y = x + Z
    BY <1>4
  <2> HIDE DEF y
  <2>4. Owner(h + Z) = (x + Z) % Z
    BY <2>3, <2>5, Zenon
  <2>2. QED
    BY <2>1, <2>4 DEF r, t
<1>9. QED
  BY <1>3, <1>7, <1>8 DEF Nodes

LEMMA SentOfType ==
  ASSUME TypeInv, FlowInv, NEW h \in Nat \ {0}
  PROVE  Owner(h) \in Nodes /\ SentOf(h) \in 0 .. N
<1>1. Owner(h) \in Nodes
  BY OwnerFacts
<1>2. loc[Owner(h)].sent \in 0 .. N
  <2>1. loc[Owner(h)] \in PassStates /\ Counts(Owner(h))
    BY <1>1, NodeFields DEF FlowInv
  <2> DEFINE p == loc[Owner(h)]
  <2> HIDE DEF p
  <2>2. p.sent \in Nat
    BY <2>1, PassFields DEF p
  <2>3. p.sent <= N
    BY <2>1 DEF Counts, p
  <2>4. QED
    BY <2>2, <2>3, RingFacts DEF p
<1>3. QED
  BY <1>1, <1>2, RingFacts DEF SentOf

LEMMA NodeFlow ==
  ASSUME FlowInv, NEW k \in Nodes
  PROVE  PassOfNode(k) /\ Counts(k) /\ Arrived(k)
BY DEF FlowInv

\* What each step may do to the counts of a node: never back.
Onward(k) ==
  \/ /\ pass'[k] = pass[k] /\ loc'[k].agg.pass = loc[k].agg.pass
     /\ loc'[k].sent >= loc[k].sent
  \/ pass'[k] = pass[k] /\ loc[k].agg.pass < pass[k]
  \/ pass'[k] > pass[k]

LEMMA SentGrows ==
  ASSUME TypeInv, TypeInv', FlowInv, \A k \in Nodes : Onward(k)
  PROVE  \A h \in Nat \ {0} : SentOf(h)' \in Nat /\ SentOf(h)' >= SentOf(h)
<1> SUFFICES ASSUME NEW h \in Nat \ {0}
             PROVE  SentOf(h)' \in Nat /\ SentOf(h)' >= SentOf(h)
  OBVIOUS
<1> DEFINE k == Owner(h)
<1>1. k \in Nodes /\ SentOf(h) \in 0 .. N
  BY SentOfType
<1>2. /\ pass[k] \in Nat /\ pass'[k] \in Nat /\ loc[k].agg.pass \in Nat
      /\ loc'[k].sent \in Nat /\ loc[k].sent \in Nat /\ N \in Nat
  <2>1. loc[k] \in PassStates /\ loc'[k] \in PassStates /\ pass[k] \in Nat /\ pass'[k] \in Nat
    BY <1>1 DEF TypeInv, NodeTypes
  <2>2. QED
    BY <2>1, PassFields, RingFacts
<1>3. SentOf(h) = IF pass[k] > h THEN N
                  ELSE IF pass[k] = h /\ loc[k].agg.pass = h THEN loc[k].sent ELSE 0
  BY DEF SentOf
<1>4. SentOf(h)' = IF pass'[k] > h THEN N
                   ELSE IF pass'[k] = h /\ loc'[k].agg.pass = h THEN loc'[k].sent ELSE 0
  BY DEF SentOf, Owner
<1>5. Onward(k)
  BY <1>1
<1>6. QED
  BY <1>1, <1>2, <1>3, <1>4, <1>5 DEF Onward

\* A pass all whose zones arrived follows only complete passes.
LEMMA BelowComplete ==
  ASSUME TypeInv, FlowInv, NEW k \in Nodes,
         loc[k].agg.pass = pass[k], loc[k].arrived = N, pass[k] <= Steps
  PROVE  \A g \in Passes : g < pass[k] => SentOf(g) = N
<1> SUFFICES ASSUME NEW g \in Passes, g < pass[k] PROVE SentOf(g) = N
  OBVIOUS
<1> DEFINE h == pass[k] - 1
<1>1. h \in Passes /\ g <= h /\ pass[k] > 1 /\ g \in Int
  BY NodeFields, RingFacts DEF Passes
<1>2. SentOf(h) \in 0 .. N /\ N <= SentOf(h)
  BY <1>1, SentOfType, NodeFlow DEF Arrived, Passes
<1> HIDE DEF h
<1>3. SentOf(h) = N
  BY <1>2, RingFacts
<1>4. CASE g = h
  BY <1>3, <1>4
<1>5. CASE g < h
  BY <1>1, <1>3, <1>5 DEF FlowInv, CompleteDown
<1>6. QED
  BY <1>1, <1>4, <1>5, RingFacts DEF Passes

-----------------------------------------------------------------------------
(* What a step must show about the counts of each node, and about messages.  *)

ArrivedNow(k) ==
  loc'[k].agg.pass > 1 => loc'[k].arrived <= SentOf(loc'[k].agg.pass - 1)
FlowOf(k) == PassOfNode(k)' /\ Counts(k)' /\ Onward(k) /\ ArrivedNow(k)

\* Every message was there before, or announces a zone that has left.
Leaving(m) == \E h \in Passes : m.step = h /\ m.pos < SentOf(h)'
MessagesFrom ==
  /\ \A e \in Nodes : \A q \in 1 .. Len(chan'[e]) :
       (\E i \in 1 .. Len(chan[e]) : chan'[e][q] = chan[e][i]) \/ Leaving(chan'[e][q])
  /\ \A r \in Heads : \A q \in 1 .. Len(link'[r]) :
       \/ IsPoison(link'[r][q])
       \/ \E i \in 1 .. Len(link[r]) : link'[r][q] = link[r][i]
       \/ Leaving(link'[r][q])

LEMMA AnnouncedStays ==
  ASSUME TypeInv, TypeInv', FlowInv, \A k \in Nodes : Onward(k),
         NEW m, m.pos \in Int, Announced(m)
  PROVE  Leaving(m)
<1>1. PICK h \in Passes : m.step = h /\ m.pos < SentOf(h)
  BY DEF Announced
<1>2. h \in Nat \ {0}
  BY RingFacts DEF Passes
<1>3. SentOf(h) \in Nat /\ SentOf(h)' \in Nat /\ SentOf(h)' >= SentOf(h)
  BY <1>2, SentOfType, SentGrows, RingFacts
<1>4. m.pos < SentOf(h)'
  BY <1>1, <1>3
<1>5. QED
  BY <1>1, <1>4 DEF Leaving

LEMMA FlowStep ==
  ASSUME TypeInv, TypeInv', FlowInv, \A k \in Nodes : FlowOf(k), MessagesFrom,
         \A h \in Passes : SentOf(h)' = N =>
           SentOf(h) = N \/ \A g \in Passes : g < h => SentOf(g) = N,
         UNCHANGED stats \/ RecordedIsOver', HaltsHeld'
  PROVE  FlowInv'
<1>1. \A k \in Nodes : Onward(k) /\ PassOfNode(k)' /\ Counts(k)'
  BY DEF FlowOf
<1>2. \A h \in Nat \ {0} : SentOf(h)' \in Nat /\ SentOf(h)' >= SentOf(h) /\ SentOf(h) \in 0 .. N
  BY <1>1, SentGrows, SentOfType
<1>3. ASSUME NEW k \in Nodes PROVE Arrived(k)'
  <2>1. SUFFICES ASSUME loc'[k].agg.pass > 1
                 PROVE  loc'[k].arrived <= SentOf(loc[k].agg.pass - 1)'
    BY DEF Arrived
  <2>2. loc'[k].agg.pass \in Nat /\ loc'[k].arrived \in Nat
    <3>1. loc'[k] \in PassStates
      BY DEF TypeInv, NodeTypes
    <3>2. QED
      BY <3>1, PassFields, RingFacts
  <2>3. PICK h \in Nat \ {0} : h = loc'[k].agg.pass - 1
    BY <2>1, <2>2
  <2>4. loc'[k].arrived <= SentOf(h)
    BY <2>1, <2>3 DEF FlowOf, ArrivedNow
  <2>5. loc'[k].arrived <= SentOf(h)'
    BY <1>2, <2>2, <2>4, RingFacts
  <2>6. SentOf(loc[k].agg.pass - 1)' = SentOf(h)'
    BY <2>3 DEF SentOf, Owner
  <2>7. QED
    BY <2>5, <2>6
<1>4. InFlight'
  <2>1. ASSUME NEW e \in Nodes, NEW q \in 1 .. Len(chan'[e])
        PROVE  Announced(chan[e][q])'
    <3>1. Leaving(chan'[e][q])
      <4>1. CASE \E i \in 1 .. Len(chan[e]) : chan'[e][q] = chan[e][i]
        <5>1. PICK i \in 1 .. Len(chan[e]) : chan'[e][q] = chan[e][i]
          BY <4>1
        <5>2. Announced(chan[e][i]) /\ chan[e][i] \in Headers
          BY DEF FlowInv, InFlight, TypeInv, LaneTypes
        <5>3. chan[e][i].pos \in Int
          BY <5>2 DEF Headers
        <5>4. QED
          BY <1>1, <5>1, <5>2, <5>3, AnnouncedStays
      <4>2. QED
        BY <4>1 DEF MessagesFrom
    <3>2. QED
      BY <3>1 DEF Leaving, Announced
  <2>2. ASSUME NEW r \in Heads, NEW q \in 1 .. Len(link'[r]), ~IsPoison(link'[r][q])
        PROVE  Announced(link[r][q])'
    <3>1. Leaving(link'[r][q])
      <4>1. CASE \E i \in 1 .. Len(link[r]) : link'[r][q] = link[r][i]
        <5>1. PICK i \in 1 .. Len(link[r]) : link'[r][q] = link[r][i]
          BY <4>1
        <5>2. Announced(link[r][i]) /\ link[r][i] \in WireMessages
          <6>1. link[r][i] \in WireMessages
            BY DEF TypeInv, LinkTypes
          <6>2. ~IsPoison(link[r][i])
            BY <2>2, <5>1 DEF IsPoison
          <6>3. QED
            BY <6>1, <6>2 DEF FlowInv, InFlight
        <5>3. link[r][i].pos \in Int
          BY <5>2 DEF WireMessages
        <5>4. QED
          BY <1>1, <5>1, <5>2, <5>3, AnnouncedStays
      <4>2. QED
        BY <2>2, <4>1 DEF MessagesFrom
    <3>2. QED
      BY <3>1 DEF Leaving, Announced
  <2>3. QED
    BY <2>1, <2>2 DEF InFlight, IsPoison
<1>5. CompleteDown'
  <2>1. ASSUME NEW g \in Passes, NEW h \in Passes, g < h, SentOf(h)' = N
        PROVE  SentOf(g)' = N
    <3>1. SentOf(g) = N
      BY <2>1 DEF FlowInv, CompleteDown
    <3>2. g \in Nat \ {0}
      BY RingFacts DEF Passes
    <3>3. SentOf(g)' \in Nat /\ SentOf(g)' >= N /\ SentOf(g)' <= N
      <4>1. Owner(g) \in Nodes
        BY <3>2, OwnerFacts
      <4>2. SentOf(g)' = IF pass'[Owner(g)] > g THEN N
                         ELSE IF pass'[Owner(g)] = g /\ loc'[Owner(g)].agg.pass = g
                           THEN loc'[Owner(g)].sent ELSE 0
        BY DEF SentOf, Owner
      <4>3. loc'[Owner(g)].sent <= N
        BY <1>1, <4>1 DEF Counts
      <4>4. QED
        BY <1>2, <3>1, <3>2, <4>2, <4>3, RingFacts
    <3>4. QED
      BY <3>3, RingFacts
  <2>2. QED
    BY <2>1 DEF CompleteDown
<1>6. RecordedIsOver'
  <2>1. CASE UNCHANGED stats
    <3>1. ASSUME NEW h \in Passes, Recorded(h)' PROVE pass'[Owner(h)] > h
      <4>1. h \in Nat \ {0} /\ Owner(h) \in Nodes
        BY RingFacts, OwnerFacts DEF Passes
      <4>2. pass[Owner(h)] > h
        BY <2>1, <3>1 DEF Recorded, FlowInv, RecordedIsOver
      <4>3. pass'[Owner(h)] >= pass[Owner(h)] /\ pass[Owner(h)] \in Nat /\ pass'[Owner(h)] \in Nat
        BY <1>1, <4>1 DEF Onward, TypeInv, NodeTypes
      <4>4. QED
        BY <4>1, <4>2, <4>3
    <3>2. QED
      BY <3>1 DEF RecordedIsOver, Owner
  <2>2. QED
    BY <2>1
<1>7. QED
  BY <1>1, <1>3, <1>4, <1>5, <1>6 DEF FlowInv

\* A node that a step leaves alone, or stops in its pass.
LEMMA NodeStays ==
  ASSUME TypeInv, FlowInv, NEW k \in Nodes,
         pc'[k] = pc[k], pass'[k] = pass[k], loc'[k] = loc[k]
  PROVE  FlowOf(k)
<1>1. loc[k].sent \in Nat
  BY NodeFields, PassFields
<1>2. Onward(k) /\ ArrivedNow(k)
  BY <1>1, NodeFlow DEF Onward, ArrivedNow, Arrived
<1>3. PassOfNode(k)' /\ Counts(k)'
  BY NodeFlow DEF PassOfNode, Owner, Counts, EndedCount
<1>4. QED
  BY <1>2, <1>3 DEF FlowOf

LEMMA NodeStops ==
  ASSUME TypeInv, FlowInv, NEW k \in Nodes,
         pc'[k] \in Stopped, pass'[k] = pass[k], loc'[k] = loc[k]
  PROVE  FlowOf(k)
<1>1. loc[k].sent \in Nat
  BY NodeFields, PassFields
<1>2. Onward(k) /\ ArrivedNow(k)
  BY <1>1, NodeFlow DEF Onward, ArrivedNow, Arrived
<1>3. PassOfNode(k)' /\ Counts(k)'
  BY NodeFlow DEF PassOfNode, Owner, Counts, Stopped, AtWork
<1>4. QED
  BY <1>2, <1>3 DEF FlowOf

\* If no count changes, no pass becomes complete.
LEMMA SentSame ==
  ASSUME \A k \in Nodes : /\ pass'[k] = pass[k] /\ loc'[k].agg.pass = loc[k].agg.pass
                          /\ loc'[k].sent = loc[k].sent
  PROVE  \A h \in Passes : SentOf(h)' = SentOf(h)
<1> SUFFICES ASSUME NEW h \in Passes PROVE SentOf(h)' = SentOf(h)
  OBVIOUS
<1>1. Owner(h) \in Nodes
  BY OwnerFacts, RingFacts DEF Passes
<1>2. QED
  BY <1>1 DEF SentOf, Owner

\* The halts of a step that sets none: the node that moves had not stopped, or
\* goes on stopping.
LEMMA HaltsKept ==
  ASSUME TypeInv, FlowInv, NEW k \in Nodes, UNCHANGED <<haltVars, result>>,
         \/ pc[k] \notin Stopped
         \/ /\ pc[k] # "done" /\ pc'[k] \in Stopped
            /\ pass'[k] = pass[k] /\ loc'[k] = loc[k],
         \A n \in Nodes \ {k} : pc'[n] = pc[n] /\ pass'[n] = pass[n] /\ loc'[n] = loc[n]
  PROVE  HaltsHeld'
<1> SUFFICES ASSUME NEW r \in Heads
             PROVE  /\ HaltHolder(r)'
                    /\ haltKind'[r] = "None" => haltPass'[r] = 0
                    /\ haltKind'[r] \in SyncKinds => haltPass'[r] # 0
                    /\ Returned(r)' => \A n \in Nodes : RankOf(n) = r => pc'[n] = "done"
                    /\ haltPass'[r] # 0 => result'[r].steps_done < haltPass'[r]
  BY DEF HaltsHeld
<1>1. haltKind' = haltKind /\ haltPass' = haltPass /\ result' = result
  BY DEF haltVars
<1>2. /\ HaltHolder(r)
      /\ haltKind[r] = "None" => haltPass[r] = 0
      /\ haltKind[r] \in SyncKinds => haltPass[r] # 0
      /\ Returned(r) => \A n \in Nodes : RankOf(n) = r => pc[n] = "done"
      /\ haltPass[r] # 0 => result[r].steps_done < haltPass[r]
  BY DEF FlowInv, HaltsHeld
<1>3. HaltHolder(r)'
  <2>1. SUFFICES ASSUME haltPass[r] # 0
        PROVE  LET h == haltPass[r]
                   n == Owner(h)
               IN  /\ h \in Passes /\ pass'[n] = h /\ pc'[n] \in Stopped /\ RankOf(n) = r
                   /\ haltKind[r] \in SyncKinds => loc'[n].agg.pass = h /\ loc'[n].sent < N
    BY <1>1 DEF HaltHolder, Owner
  <2> DEFINE h == haltPass[r]
             n == Owner(h)
  <2>2. /\ h \in Passes /\ pass[n] = h /\ pc[n] \in Stopped /\ RankOf(n) = r
        /\ haltKind[r] \in SyncKinds => loc[n].agg.pass = h /\ loc[n].sent < N
    BY <1>2, <2>1 DEF HaltHolder
  <2>3. n \in Nodes
    BY <2>2, OwnerFacts, RingFacts DEF Passes
  <2>4. CASE n = k
    BY <2>2, <2>4
  <2>5. CASE n # k
    BY <2>2, <2>3, <2>5
  <2>6. QED
    BY <2>4, <2>5
<1>4. Returned(r)' => \A n \in Nodes : RankOf(n) = r => pc'[n] = "done"
  <2>1. SUFFICES ASSUME Returned(r), NEW n \in Nodes, RankOf(n) = r
                 PROVE  pc'[n] = "done"
    BY <1>1 DEF Returned
  <2>2. pc[n] = "done"
    BY <1>2, <2>1
  <2>3. n # k
    BY <2>2 DEF Stopped
  <2>4. QED
    BY <2>2, <2>3
<1>5. QED
  BY <1>1, <1>2, <1>3, <1>4

\* A node at work stops; if no halt of its rank came before, this is the first.
LEMMA HaltsSet ==
  ASSUME TypeInv, FlowInv, NEW k \in Nodes, NEW kind \in HaltKinds \ {"None"},
         SetHalt(k, kind), pc[k] \in AtWork, UNCHANGED <<pass, loc, result>>,
         kind \in SyncKinds => loc[k].sent < N
  PROVE  HaltsHeld' /\ \A n \in Nodes : FlowOf(n)
<1>0. /\ pc[k] \notin Stopped /\ pass[k] \in Passes /\ Owner(pass[k]) = k
      /\ loc[k].agg.pass = pass[k] /\ RankOf(k) \in Heads
  <2>1. PassOfNode(k) /\ pass[k] \in Nat \ {0}
    BY NodeFlow DEF PassOfNode
  <2>2. QED
    BY <2>1, RankFacts, RingFacts DEF PassOfNode, AtWork, Stopped, Passes
<1>1. /\ \A n \in Nodes \ {k} : pc'[n] = pc[n]
      /\ pc'[k] = IF HaltOn(RankOf(k)) THEN "done" ELSE "closing"
  BY DEF SetHalt, Goto, TypeInv, NodeTypes
<1>2. \A n \in Nodes : FlowOf(n)
  <2>1. pc'[k] \in Stopped
    BY <1>1 DEF Stopped
  <2>2. FlowOf(k)
    BY <2>1, NodeStops
  <2>3. QED
    BY <1>1, <2>2, NodeStays
<1>3. HaltsHeld'
  <2>1. CASE HaltOn(RankOf(k))
    <3>1. UNCHANGED haltVars
      BY <2>1 DEF SetHalt
    <3>2. QED
      BY <1>0, <1>1, <3>1, HaltsKept
  <2>2. CASE ~HaltOn(RankOf(k))
    <3> SUFFICES ASSUME NEW r \in Heads
                 PROVE  /\ HaltHolder(r)'
                        /\ haltKind'[r] = "None" => haltPass'[r] = 0
                        /\ haltKind'[r] \in SyncKinds => haltPass'[r] # 0
                        /\ Returned(r)' => \A n \in Nodes : RankOf(n) = r => pc'[n] = "done"
                        /\ haltPass'[r] # 0 => result'[r].steps_done < haltPass'[r]
      BY DEF HaltsHeld
    <3>1. /\ HaltHolder(r)
          /\ haltKind[r] = "None" => haltPass[r] = 0
          /\ haltKind[r] \in SyncKinds => haltPass[r] # 0
          /\ Returned(r) => \A n \in Nodes : RankOf(n) = r => pc[n] = "done"
          /\ haltPass[r] # 0 => result[r].steps_done < haltPass[r]
      BY DEF FlowInv, HaltsHeld
    <3>2. /\ haltKind' = [haltKind EXCEPT ![RankOf(k)] = kind]
          /\ haltPass' = [haltPass EXCEPT ![RankOf(k)] = pass[k]]
      BY <2>2 DEF SetHalt
    <3>3. CASE r = RankOf(k)
      <4>1. haltKind'[r] = kind /\ haltPass'[r] = pass[k] /\ pc'[k] = "closing"
        BY <1>1, <2>2, <3>2, <3>3 DEF TypeInv, HaltTypes
      <4>2. result[r] = NoResult
        BY <1>0, <3>1, <3>3 DEF Returned, Stopped
      <4>3. result'[r].steps_done = 0 /\ ~Returned(r)' /\ pass[k] > 0 /\ pass[k] # 0
        BY <1>0, <4>2, RingFacts DEF Returned, NoResult, Passes
      <4>4. HaltHolder(r)'
        <5>1. /\ haltPass'[r] \in Passes /\ pass'[Owner(haltPass'[r])] = haltPass'[r]
              /\ pc'[Owner(haltPass'[r])] \in Stopped /\ RankOf(Owner(haltPass'[r])) = r
          BY <1>0, <3>3, <4>1 DEF Stopped
        <5>2. haltKind'[r] \in SyncKinds =>
                /\ loc'[Owner(haltPass'[r])].agg.pass = haltPass'[r]
                /\ loc'[Owner(haltPass'[r])].sent < N
          BY <1>0, <4>1
        <5>3. QED
          BY <5>1, <5>2 DEF HaltHolder, Owner
      <4>5. QED
        BY <4>1, <4>3, <4>4
    <3>4. CASE r # RankOf(k)
      <4>1. haltKind'[r] = haltKind[r] /\ haltPass'[r] = haltPass[r] /\ result'[r] = result[r]
        BY <3>2, <3>4 DEF TypeInv, HaltTypes
      <4>2. HaltHolder(r)'
        <5> DEFINE h == haltPass[r]
                   n == Owner(h)
        <5>1. SUFFICES ASSUME h # 0
              PROVE  /\ h \in Passes /\ pass'[n] = h /\ pc'[n] \in Stopped /\ RankOf(n) = r
                     /\ haltKind[r] \in SyncKinds => loc'[n].agg.pass = h /\ loc'[n].sent < N
          BY <4>1 DEF HaltHolder, Owner
        <5>2. /\ h \in Passes /\ pass[n] = h /\ pc[n] \in Stopped /\ RankOf(n) = r
              /\ haltKind[r] \in SyncKinds => loc[n].agg.pass = h /\ loc[n].sent < N
          BY <3>1, <5>1 DEF HaltHolder
        <5>3. n \in Nodes /\ n # k
          BY <3>4, <5>2, OwnerFacts, RingFacts DEF Passes
        <5>4. QED
          BY <1>1, <5>2, <5>3
      <4>3. Returned(r)' => \A n \in Nodes : RankOf(n) = r => pc'[n] = "done"
        BY <1>1, <3>1, <3>4, <4>1 DEF Returned
      <4>4. QED
        BY <3>1, <4>1, <4>2, <4>3
    <3>5. QED
      BY <3>3, <3>4
  <2>3. QED
    BY <2>1, <2>2
<1>4. QED
  BY <1>2, <1>3

\* The two kinds of step that send nothing and set no halt, and the halt itself.
LEMMA WorkFlow ==
  ASSUME TypeInv, TypeInv', FlowInv, NEW k \in Nodes, MessagesFrom,
         UNCHANGED <<pass, haltVars, result>>, UNCHANGED stats \/ RecordedIsOver',
         \A n \in Nodes \ {k} : pc'[n] = pc[n] /\ loc'[n] = loc[n],
         loc'[k].agg.pass = loc[k].agg.pass, loc'[k].sent = loc[k].sent,
         pc[k] \in AtWork, pc'[k] \in AtWork, Counts(k)', ArrivedNow(k)
  PROVE  FlowInv'
<1>1. PassOfNode(k)' /\ Onward(k)
  <2>1. loc[k].sent \in Nat
    BY NodeFields, PassFields
  <2>2. Onward(k)
    BY <2>1 DEF Onward
  <2>3. pc[k] # "loop" /\ pc'[k] # "loop"
    BY DEF AtWork
  <2>4. PassOfNode(k)'
    BY <2>3, NodeFlow DEF PassOfNode, Owner
  <2>5. QED
    BY <2>2, <2>4
<1>2. \A n \in Nodes : FlowOf(n)
  BY <1>1, NodeStays DEF FlowOf
<1>3. \A h \in Passes : SentOf(h)' = SentOf(h)
  BY SentSame
<1>4. pc[k] \notin Stopped
  BY DEF AtWork, Stopped
<1>5. HaltsHeld'
  BY <1>4, HaltsKept
<1>6. QED
  BY <1>2, <1>3, <1>5, FlowStep

LEMMA StopFlow ==
  ASSUME TypeInv, TypeInv', FlowInv, NEW k \in Nodes, MessagesFrom,
         UNCHANGED <<pass, loc, haltVars, result, stats>>,
         \A n \in Nodes \ {k} : pc'[n] = pc[n], pc[k] # "done", pc'[k] \in Stopped
  PROVE  FlowInv'
<1>1. \A n \in Nodes : FlowOf(n)
  BY NodeStays, NodeStops
<1>2. \A h \in Passes : SentOf(h)' = SentOf(h)
  BY SentSame
<1>3. HaltsHeld'
  BY HaltsKept
<1>4. QED
  BY <1>1, <1>2, <1>3, FlowStep

LEMMA HaltFlow ==
  ASSUME TypeInv, TypeInv', FlowInv, NEW k \in Nodes, MessagesFrom,
         NEW kind \in HaltKinds \ {"None"}, SetHalt(k, kind), pc[k] \in AtWork,
         UNCHANGED <<pass, loc, result, stats>>,
         kind \in SyncKinds => loc[k].sent < N
  PROVE  FlowInv'
<1>1. HaltsHeld' /\ \A n \in Nodes : FlowOf(n)
  BY HaltsSet
<1>2. \A h \in Passes : SentOf(h)' = SentOf(h)
  BY SentSame
<1>3. QED
  BY <1>1, <1>2, FlowStep

-----------------------------------------------------------------------------
(* The messages of a step.                                                   *)

LEMMA TailElements ==
  ASSUME NEW S, NEW s \in Seq(S), s # <<>>
  PROVE  \A q \in 1 .. Len(Tail(s)) : \E i \in 1 .. Len(s) : Tail(s)[q] = s[i]
<1>1. /\ Len(s) \in Nat \ {0} /\ Len(Tail(s)) = Len(s) - 1
      /\ \A q \in 1 .. Len(Tail(s)) : Tail(s)[q] = s[q + 1]
  BY HeadTailProperties, EmptySeq
<1>2. \A q \in 1 .. Len(Tail(s)) : q + 1 \in 1 .. Len(s)
  BY <1>1
<1>3. QED
  BY <1>1, <1>2

LEMMA AppendElements ==
  ASSUME NEW S, NEW s \in Seq(S), NEW m \in S
  PROVE  \A q \in 1 .. Len(Append(s, m)) :
           (\E i \in 1 .. Len(s) : Append(s, m)[q] = s[i]) \/ Append(s, m)[q] = m
<1>1. Len(s) \in Nat /\ Len(Append(s, m)) = Len(s) + 1
  BY AppendProperties, LenProperties
<1>2. /\ Append(s, m)[Len(s) + 1] = m
      /\ \A q \in 1 .. Len(s) : Append(s, m)[q] = s[q]
  BY AppendProperties
<1>3. \A q \in 1 .. Len(Append(s, m)) : q \in 1 .. Len(s) \/ q = Len(s) + 1
  BY <1>1
<1>4. QED
  BY <1>2, <1>3

ChanMessages ==
  \A e \in Nodes : \A q \in 1 .. Len(chan'[e]) :
    (\E i \in 1 .. Len(chan[e]) : chan'[e][q] = chan[e][i]) \/ Leaving(chan'[e][q])
LinkMessages ==
  \A r \in Heads : \A q \in 1 .. Len(link'[r]) :
    \/ IsPoison(link'[r][q])
    \/ \E i \in 1 .. Len(link[r]) : link'[r][q] = link[r][i]
    \/ Leaving(link'[r][q])

LEMMA SameMessages ==
  /\ UNCHANGED chan => ChanMessages
  /\ UNCHANGED link => LinkMessages
  /\ ChanMessages /\ LinkMessages => MessagesFrom
BY DEF ChanMessages, LinkMessages, MessagesFrom

LEMMA ChanTaken ==
  ASSUME TypeInv, NEW e \in Nodes, chan[e] # <<>>, chan' = [chan EXCEPT ![e] = Tail(@)]
  PROVE  ChanMessages
<1> SUFFICES ASSUME NEW n \in Nodes, NEW q \in 1 .. Len(chan'[n])
             PROVE  \E i \in 1 .. Len(chan[n]) : chan'[n][q] = chan[n][i]
  BY DEF ChanMessages
<1>1. chan \in [Nodes -> Seq(Headers)]
  BY DEF TypeInv, LaneTypes
<1>2. CASE n = e
  <2>1. chan'[n] = Tail(chan[e]) /\ chan[e] \in Seq(Headers)
    BY <1>1, <1>2
  <2>2. QED
    BY <1>2, <2>1, TailElements
<1>3. CASE n # e
  <2>1. chan'[n] = chan[n]
    BY <1>1, <1>3
  <2>2. QED
    BY <2>1
<1>4. QED
  BY <1>2, <1>3

LEMMA LinkTaken ==
  ASSUME TypeInv, NEW r \in Heads, link[r] # <<>>, link' = [link EXCEPT ![r] = Tail(@)]
  PROVE  LinkMessages
<1> SUFFICES ASSUME NEW n \in Heads, NEW q \in 1 .. Len(link'[n])
             PROVE  \E i \in 1 .. Len(link[n]) : link'[n][q] = link[n][i]
  BY DEF LinkMessages
<1>1. link \in [Heads -> Seq(WireMessages)]
  BY DEF TypeInv, LinkTypes
<1>2. CASE n = r
  <2>1. link'[n] = Tail(link[r]) /\ link[r] \in Seq(WireMessages)
    BY <1>1, <1>2
  <2>2. QED
    BY <1>2, <2>1, TailElements
<1>3. CASE n # r
  <2>1. link'[n] = link[n]
    BY <1>1, <1>3
  <2>2. QED
    BY <2>1
<1>4. QED
  BY <1>2, <1>3

LEMMA ChanGiven ==
  ASSUME TypeInv, NEW e \in Nodes, NEW m \in Headers, Leaving(m),
         chan' = [chan EXCEPT ![e] = Append(@, m)]
  PROVE  ChanMessages
<1> SUFFICES ASSUME NEW n \in Nodes, NEW q \in 1 .. Len(chan'[n])
             PROVE  (\E i \in 1 .. Len(chan[n]) : chan'[n][q] = chan[n][i])
                      \/ Leaving(chan'[n][q])
  BY DEF ChanMessages
<1>1. chan \in [Nodes -> Seq(Headers)]
  BY DEF TypeInv, LaneTypes
<1>2. CASE n = e
  <2>1. chan'[n] = Append(chan[e], m) /\ chan[e] \in Seq(Headers)
    BY <1>1, <1>2
  <2>2. (\E i \in 1 .. Len(chan[n]) : chan'[n][q] = chan[n][i]) \/ chan'[n][q] = m
    BY <1>2, <2>1, AppendElements
  <2>3. QED
    BY <2>2 DEF Leaving
<1>3. CASE n # e
  <2>1. chan'[n] = chan[n]
    BY <1>1, <1>3
  <2>2. QED
    BY <2>1
<1>4. QED
  BY <1>2, <1>3

LEMMA LinkGiven ==
  ASSUME TypeInv, NEW r \in Heads, NEW m \in WireMessages, Leaving(m) \/ IsPoison(m),
         link' = [link EXCEPT ![r] = Append(@, m)]
  PROVE  LinkMessages
<1> SUFFICES ASSUME NEW n \in Heads, NEW q \in 1 .. Len(link'[n])
             PROVE  \/ IsPoison(link'[n][q])
                    \/ \E i \in 1 .. Len(link[n]) : link'[n][q] = link[n][i]
                    \/ Leaving(link'[n][q])
  BY DEF LinkMessages
<1>1. link \in [Heads -> Seq(WireMessages)]
  BY DEF TypeInv, LinkTypes
<1>2. CASE n = r
  <2>1. link'[n] = Append(link[r], m) /\ link[r] \in Seq(WireMessages)
    BY <1>1, <1>2
  <2>2. (\E i \in 1 .. Len(link[n]) : link'[n][q] = link[n][i]) \/ link'[n][q] = m
    BY <1>2, <2>1, AppendElements
  <2>3. QED
    BY <2>2 DEF Leaving, IsPoison
<1>3. CASE n # r
  <2>1. link'[n] = link[n]
    BY <1>1, <1>3
  <2>2. QED
    BY <2>1
<1>4. QED
  BY <1>2, <1>3

-----------------------------------------------------------------------------
(* The actions, each with FlowInv kept.                                      *)

\* A node that leaves at a point of its pass.
LEMMA LeaveFlow ==
  ASSUME TypeInv, FlowInv, NEW k \in Nodes,
         NodeReturns(k) \/ RecvShutDown(k) \/ CreditShutDown(k) \/ FlushSeesHalt(k)
           \/ HaltCheck(k)
  PROVE  FlowInv'
<1>1. /\ Goto(k, "done") /\ pc[k] # "done"
      /\ UNCHANGED <<pass, loc, laneVars, poolVars, dev, haltVars, linkVars, endVars, level>>
  BY DEF NodeReturns, RecvShutDown, CreditShutDown, FlushSeesHalt, HaltCheck,
         AwaitsArrival, Sending, Flushing
<1>2. /\ UNCHANGED <<pass, loc, chan, link, haltVars, stats, result>>
  BY <1>1 DEF laneVars, linkVars, endVars
<1>3. /\ pc'[k] \in Stopped /\ \A n \in Nodes \ {k} : pc'[n] = pc[n]
  BY <1>1 DEF Goto, TypeInv, NodeTypes, Stopped
<1>4. MessagesFrom
  BY <1>2, SameMessages
<1>5. TypeInv'
  BY <1>1, LeaveType
<1>6. QED
  BY <1>1, <1>2, <1>3, <1>4, <1>5, StopFlow

LEMMA CloseEdgeFlow ==
  ASSUME TypeInv, FlowInv, NEW k \in Nodes, CloseEdge(k)
  PROVE  FlowInv'
<1>1. /\ \E point \in Stopped : Goto(k, point)
      /\ pc[k] = "closing"
      /\ UNCHANGED <<pass, loc, chan, haltVars, linkVars, endVars>>
  BY DEF CloseEdge, Stopped
<1>2. /\ UNCHANGED <<pass, loc, chan, link, haltVars, stats, result>>
  BY <1>1 DEF linkVars, endVars
<1>3. /\ pc'[k] \in Stopped /\ \A n \in Nodes \ {k} : pc'[n] = pc[n]
  BY <1>1 DEF Goto, TypeInv, NodeTypes, Stopped
<1>4. MessagesFrom
  BY <1>2, SameMessages
<1>5. QED
  BY <1>1, <1>2, <1>3, <1>4, CloseEdgeType, StopFlow

LEMMA PoisonIs ==
  ASSUME NEW m \in WireMessages, NEW ttl \in Nat
  PROVE  PoisonWith(m, ttl) \in WireMessages /\ IsPoison(PoisonWith(m, ttl))
<1>1. PoisonWith(m, ttl) \in WireMessages
  BY DEF PoisonWith, WireMessages
<1>2. PoisonWith(m, ttl).pos = -1
  BY DEF PoisonWith, WireMessages
<1>3. QED
  BY <1>1, <1>2 DEF IsPoison

LEMMA PoisonRingFlow ==
  ASSUME TypeInv, FlowInv, NEW k \in Nodes, PoisonRing(k)
  PROVE  FlowInv'
<1>1. /\ Goto(k, "done") /\ pc[k] = "poison" /\ EdgePoison(RankOf(k), BlankMessage)
      /\ UNCHANGED <<pass, loc, laneVars, haltVars, endVars>>
  BY DEF PoisonRing
<1>2. /\ UNCHANGED <<pass, loc, chan, haltVars, stats, result>>
  BY <1>1 DEF laneVars, endVars
<1>3. /\ pc'[k] \in Stopped /\ \A n \in Nodes \ {k} : pc'[n] = pc[n]
  BY <1>1 DEF Goto, TypeInv, NodeTypes, Stopped
<1>4. LinkMessages
  <2>1. CASE UNCHANGED linkVars
    BY <2>1, SameMessages DEF linkVars
  <2>2. CASE ~UNCHANGED linkVars
    <3> DEFINE m == PoisonWith(BlankMessage, Ranks - 1)
    <3>1. link' = [link EXCEPT ![NextRank(RankOf(k))] = Append(@, m)]
      BY <1>1, <2>2 DEF EdgePoison
    <3>2. m \in WireMessages /\ IsPoison(m)
      BY RanksType, BlankMessageType, PoisonIs
    <3>3. NextRank(RankOf(k)) \in Heads
      BY RankFacts, NextRankType
    <3> HIDE DEF m
    <3>4. QED
      BY <3>1, <3>2, <3>3, LinkGiven
  <2>3. QED
    BY <2>1, <2>2
<1>5. MessagesFrom
  BY <1>2, <1>4, SameMessages
<1>6. QED
  BY <1>1, <1>2, <1>3, <1>5, PoisonRingType, StopFlow

\* A poison that is taken is passed on, or is at its end.
LinkOnlyPoison ==
  \A r \in Heads : \A q \in 1 .. Len(link'[r]) :
    IsPoison(link'[r][q]) \/ \E i \in 1 .. Len(link[r]) : link'[r][q] = link[r][i]

LEMMA PoisonTaken ==
  ASSUME TypeInv, NEW r \in Heads, EdgeRecvPoison(r)
  PROVE  LinkOnlyPoison
<1> DEFINE m == Head(link[r])
           rest == [link EXCEPT ![r] = Tail(@)]
           onward == PoisonWith(m, m.step - 1)
<1>1. r \in Heads /\ NextRank(r) \in Heads
  BY NextRankType
<1>2. EdgeRecvPoison(r)
  OBVIOUS
<1>3. link[r] \in Seq(WireMessages) /\ link[r] # <<>> /\ IsPoison(m)
  BY <1>1, <1>2 DEF EdgeRecvPoison, HasPoison, TypeInv, LinkTypes
<1>4. m \in WireMessages
  BY <1>3
<1>5. LinkOnlyPoison
  <2>1. CASE m.step > 0
    <3>1. onward \in WireMessages /\ IsPoison(onward)
      <4>1. m.step - 1 \in Nat
        BY <1>4, <2>1 DEF WireMessages
      <4>2. QED
        BY <1>4, <4>1, PoisonIs
    <3> HIDE DEF onward
    <3>2. link' = [rest EXCEPT ![NextRank(r)] = Append(@, onward)]
      BY <1>2, <2>1 DEF EdgeRecvPoison, onward
    <3>3. /\ rest \in [Heads -> Seq(WireMessages)]
          /\ \A n \in Heads : rest[n] = IF n = r THEN Tail(link[n]) ELSE link[n]
      BY <1>1, <1>3 DEF TypeInv, LinkTypes
    <3> HIDE DEF rest
    <3>4. ASSUME NEW n \in Heads
          PROVE  \A q \in 1 .. Len(rest[n]) : \E i \in 1 .. Len(link[n]) : rest[n][q] = link[n][i]
      <4>1. CASE n = r
        <5>1. rest[n] = Tail(link[r])
          BY <3>3, <4>1
        <5>2. \A q \in 1 .. Len(Tail(link[r])) :
                \E i \in 1 .. Len(link[r]) : Tail(link[r])[q] = link[r][i]
          BY <1>3, TailElements
        <5>3. QED
          BY <4>1, <5>1, <5>2
      <4>2. CASE n # r
        BY <3>3, <4>2
      <4>3. QED
        BY <4>1, <4>2
    <3>5. ASSUME NEW n \in Heads, NEW q \in 1 .. Len(link'[n])
          PROVE  IsPoison(link'[n][q]) \/ \E i \in 1 .. Len(link[n]) : link'[n][q] = link[n][i]
      <4>1. CASE n = NextRank(r)
        <5>1. link'[n] = Append(rest[n], onward) /\ rest[n] \in Seq(WireMessages)
          BY <1>1, <3>2, <3>3, <4>1
        <5>2. (\E i \in 1 .. Len(rest[n]) : link'[n][q] = rest[n][i]) \/ link'[n][q] = onward
          BY <3>1, <5>1, AppendElements
        <5>3. QED
          BY <3>1, <3>4, <5>2 DEF IsPoison
      <4>2. CASE n # NextRank(r)
        <5>1. link'[n] = rest[n]
          BY <3>2, <3>3, <4>2
        <5>2. QED
          BY <3>4, <5>1
      <4>3. QED
        BY <4>1, <4>2
    <3>6. QED
      BY <3>5 DEF LinkOnlyPoison
  <2>2. CASE ~(m.step > 0)
    <3>1. link' = [link EXCEPT ![r] = Tail(@)]
      BY <1>2, <2>2 DEF EdgeRecvPoison
    <3>2. ASSUME NEW n \in Heads, NEW q \in 1 .. Len(link'[n])
          PROVE  \E i \in 1 .. Len(link[n]) : link'[n][q] = link[n][i]
      <4>1. CASE n = r
        <5>1. link'[n] = Tail(link[r])
          BY <1>1, <3>1, <4>1 DEF TypeInv, LinkTypes
        <5>2. QED
          BY <1>3, <4>1, <5>1, TailElements
      <4>2. CASE n # r
        <5>1. link'[n] = link[n]
          BY <3>1, <4>2 DEF TypeInv, LinkTypes
        <5>2. QED
          BY <5>1
      <4>3. QED
        BY <4>1, <4>2
    <3>3. QED
      BY <3>2 DEF LinkOnlyPoison
  <2>3. QED
    BY <2>1, <2>2
<1>6. QED
  BY <1>5

LEMMA RecvPoisonFlow ==
  ASSUME TypeInv, FlowInv, NEW k \in Nodes, RecvPoison(k)
  PROVE  FlowInv'
<1>1. /\ EdgeRecvPoison(RankOf(k)) /\ SetHalt(k, "Ring") /\ pc[k] \in AtWork
      /\ UNCHANGED <<pass, loc, chan, stats, result>>
  BY DEF RecvPoison, AwaitsArrival, AtWork, laneVars, endVars
<1>2. LinkMessages
  BY <1>1, RankFacts, PoisonTaken DEF LinkMessages, LinkOnlyPoison
<1>3. MessagesFrom
  BY <1>1, <1>2, SameMessages
<1>4. "Ring" \in HaltKinds \ {"None"} /\ "Ring" \notin SyncKinds
  BY HaltKindNames DEF SyncKinds
<1>5. QED
  BY <1>1, <1>3, <1>4, RecvPoisonType, HaltFlow

\* A thrown std::logic_error.
LEMMA LogicFlow ==
  ASSUME TypeInv, TypeInv', FlowInv, NEW k \in Nodes, MessagesFrom,
         SetHalt(k, "Logic"), pc[k] \in AtWork, UNCHANGED <<pass, loc, result, stats>>
  PROVE  FlowInv'
<1>1. "Logic" \in HaltKinds \ {"None"} /\ "Logic" \notin SyncKinds
  BY HaltKindNames DEF SyncKinds
<1>2. QED
  BY <1>1, HaltFlow

\* An arrival that follows a zone of the pass before.
LEMMA ArriveFlow ==
  ASSUME TypeInv, TypeInv', FlowInv, NEW k \in Nodes, MessagesFrom, AwaitsArrival(k),
         NEW s \in SlotIds, NEW fsm \in ZoneRecords, NEW lam \in Lambdas,
         NEW dt \in TimeSteps, Arrive(k, s, fsm, lam, dt),
         UNCHANGED <<pc, pass, haltVars, stats, result>>,
         pass[k] > 1 => loc[k].arrived < SentOf(pass[k] - 1)
  PROVE  FlowInv'
<1>1. /\ \A n \in Nodes \ {k} : loc'[n] = loc[n]
      /\ loc'[k].arrived = loc[k].arrived + 1
      /\ loc'[k].pos = loc[k].pos /\ loc'[k].outq = loc[k].outq
      /\ loc'[k].sent = loc[k].sent /\ loc'[k].agg = loc[k].agg
      /\ loc'[k].synced = loc[k].synced
  BY ArriveEffect
<1>2. pc[k] \in AtWork /\ loc[k].agg.pass = pass[k]
  BY NodeFlow DEF AwaitsArrival, AtWork, PassOfNode
<1>3. ArrivedNow(k)
  <2>1. loc[k].arrived \in Nat /\ pass[k] \in Nat
    BY AwaitedIsZone, NodeFields, RingFacts DEF Zones
  <2>2. pass[k] > 1 => SentOf(pass[k] - 1) \in Nat
    <3>1. SUFFICES ASSUME pass[k] > 1 PROVE SentOf(pass[k] - 1) \in Nat
      OBVIOUS
    <3> DEFINE h == pass[k] - 1
    <3>2. h \in Nat \ {0}
      BY <2>1, <3>1
    <3> HIDE DEF h
    <3>3. SentOf(h) \in 0 .. N
      BY <3>2, SentOfType
    <3>4. SentOf(h) \in Nat
      BY <3>3, RingFacts
    <3>5. QED
      BY <3>4 DEF h
  <2>3. pass[k] > 1 => loc[k].arrived + 1 <= SentOf(pass[k] - 1)
    BY <2>1, <2>2
  <2>4. QED
    BY <1>1, <1>2, <2>3 DEF ArrivedNow
<1>4. Counts(k)'
  BY <1>1, NodeFlow DEF Counts, EndedCount
<1>5. QED
  BY <1>1, <1>2, <1>3, <1>4, WorkFlow

LEMMA TakePreloadFlow ==
  ASSUME TypeInv, FlowInv, NEW k \in Nodes, TakePreload(k)
  PROVE  FlowInv'
<1>1. /\ AwaitsArrival(k) /\ pass[k] = 1 /\ pc[k] \in AtWork
      /\ UNCHANGED <<pass, chan, link, stats, result>>
  BY DEF TakePreload, Preloads, AwaitsArrival, AtWork, laneVars, linkVars, endVars
<1>2. TypeInv' /\ MessagesFrom
  BY <1>1, TakePreloadType, SameMessages
<1>3. CASE reserve = <<>>
  <2>1. SetHalt(k, "Logic") /\ UNCHANGED loc
    BY <1>3 DEF TakePreload
  <2>2. QED
    BY <1>1, <1>2, <2>1, LogicFlow
<1>4. CASE reserve # <<>>
  <2> DEFINE fsm == [FreeZone EXCEPT !.type = InitialZoneType(1)]
  <2>1. Head(reserve) \in SlotIds
    BY <1>4 DEF TypeInv, PoolTypes
  <2>2. fsm \in ZoneRecords
    BY FreeZoneType DEF InitialZoneType, ZoneRecords, ZoneTypes
  <2>3. FullLambda(0) \in Lambdas /\ DtInitial \in TimeSteps
    BY LambdaTypes
  <2>4. Arrive(k, Head(reserve), fsm, FullLambda(0), DtInitial) /\ UNCHANGED <<pc, haltVars>>
    BY <1>4 DEF TakePreload
  <2> HIDE DEF fsm
  <2>5. QED
    BY <1>1, <1>2, <2>1, <2>2, <2>3, <2>4, ArriveFlow
<1>5. QED
  BY <1>3, <1>4

\* What arrives in order follows a zone that left the pass before.
LEMMA InOrderFollows ==
  ASSUME TypeInv, NEW k \in Nodes, NEW m, InOrder(k, m), Announced(m)
  PROVE  pass[k] > 1 => loc[k].arrived < SentOf(pass[k] - 1)
<1>1. PICK h \in Passes : m.step = h /\ m.pos < SentOf(h)
  BY DEF Announced
<1>2. h = pass[k] - 1 /\ m.pos = loc[k].arrived
  BY <1>1 DEF InOrder
<1>3. QED
  BY <1>1, <1>2

LEMMA HeadElement ==
  ASSUME NEW S, NEW s \in Seq(S), s # <<>>
  PROVE  1 \in 1 .. Len(s) /\ Head(s) = s[1]
<1>1. Len(s) \in Nat \ {0} /\ Head(s) = s[1]
  BY HeadTailProperties, EmptySeq
<1>2. QED
  BY <1>1

LEMMA RecvZoneFlow ==
  ASSUME TypeInv, FlowInv, NEW k \in Nodes, RecvZone(k)
  PROVE  FlowInv'
<1> DEFINE e == InEdge(k)
           m == Head(chan[e])
           fsm == Apply(FreeZone, "RECV")
<1>0. e \in Nodes
  BY EdgesAreNodes
<1>1. /\ AwaitsArrival(k) /\ pc[k] \in AtWork /\ chan[e] # <<>>
      /\ chan' = [chan EXCEPT ![e] = Tail(@)]
      /\ UNCHANGED <<pass, link, stats, result>>
  BY DEF RecvZone, AwaitsArrival, AtWork, linkVars, endVars
<1> HIDE DEF e
<1>2. TypeInv' /\ MessagesFrom
  BY <1>0, <1>1, RecvZoneType, ChanTaken, SameMessages
<1>3. CASE ~InOrder(k, m)
  <2>1. SetHalt(k, "Logic") /\ UNCHANGED loc
    BY <1>3 DEF RecvZone, e
  <2>2. QED
    BY <1>1, <1>2, <2>1, LogicFlow
<1>4. CASE InOrder(k, m)
  <2>1. m.slot \in SlotIds /\ m.lam \in Lambdas /\ m.dt \in TimeSteps
    BY <1>0, <1>1, HeadersArrive
  <2>2. fsm \in ZoneRecords
    BY FreeZoneType, ApplyType DEF ZoneEvents
  <2>3. Arrive(k, m.slot, fsm, m.lam, m.dt) /\ UNCHANGED <<pc, haltVars>>
    BY <1>4 DEF RecvZone, e
  <2>4. Announced(m)
    <3>1. chan[e] \in Seq(Headers)
      BY <1>0 DEF TypeInv, LaneTypes
    <3>2. 1 \in 1 .. Len(chan[e]) /\ m = chan[e][1]
      BY <1>1, <3>1, HeadElement
    <3>3. Announced(chan[e][1])
      BY <1>0, <3>2 DEF FlowInv, InFlight
    <3> HIDE DEF m
    <3>4. QED
      BY <3>2, <3>3, Zenon
  <2> HIDE DEF fsm, m
  <2>5. pass[k] > 1 => loc[k].arrived < SentOf(pass[k] - 1)
    BY <1>4, <2>4, InOrderFollows
  <2> DEFINE s == m.slot
             lam == m.lam
             dt == m.dt
  <2>6. s \in SlotIds /\ lam \in Lambdas /\ dt \in TimeSteps /\ Arrive(k, s, fsm, lam, dt)
    BY <2>1, <2>3
  <2> HIDE DEF s, lam, dt
  <2>7. QED
    BY <1>1, <1>2, <2>2, <2>3, <2>5, <2>6, ArriveFlow
<1>5. QED
  BY <1>3, <1>4

LEMMA RecvBoundaryFlow ==
  ASSUME TypeInv, FlowInv, NEW k \in Nodes, RecvBoundary(k)
  PROVE  FlowInv'
<1> DEFINE r == RankOf(k)
           m == Head(link[r])
           fsm == Apply(FreeZone, "RECV")
<1>0. r \in Heads
  BY RankFacts
<1>1. /\ AwaitsArrival(k) /\ pc[k] \in AtWork /\ HasZone(r)
      /\ link' = [link EXCEPT ![r] = Tail(@)]
      /\ UNCHANGED <<pass, chan, stats, result>>
  BY DEF RecvBoundary, EdgeRecv, AwaitsArrival, AtWork, laneVars, endVars
<1> HIDE DEF r
<1>2. TypeInv' /\ MessagesFrom
  BY <1>0, <1>1, RecvBoundaryType, LinkTaken, SameMessages DEF HasZone
<1>3. CASE ~(InOrder(k, m) /\ bfree[k] # <<>>)
  <2>1. SetHalt(k, "Logic") /\ UNCHANGED loc
    BY <1>3 DEF RecvBoundary, r
  <2>2. QED
    BY <1>1, <1>2, <2>1, LogicFlow
<1>4. CASE InOrder(k, m) /\ bfree[k] # <<>>
  <2>1. m.lam \in Lambdas /\ m.dt \in TimeSteps /\ Head(bfree[k]) \in SlotIds
    <3>1. m \in WireMessages
      BY <1>0, <1>1, LinkHead
    <3>2. bfree[k] \in Seq(SlotIds)
      BY DEF TypeInv, PoolTypes
    <3>3. QED
      BY <1>4, <3>1, <3>2 DEF WireMessages
  <2>2. fsm \in ZoneRecords
    BY FreeZoneType, ApplyType DEF ZoneEvents
  <2>3. Arrive(k, Head(bfree[k]), fsm, m.lam, m.dt) /\ UNCHANGED <<pc, haltVars>>
    BY <1>4 DEF RecvBoundary, r
  <2>4. Announced(m)
    <3>1. link[r] \in Seq(WireMessages) /\ link[r] # <<>>
      BY <1>0, <1>1 DEF TypeInv, LinkTypes, HasZone
    <3>2. 1 \in 1 .. Len(link[r]) /\ m = link[r][1]
      BY <3>1, HeadElement
    <3>3. ~IsPoison(link[r][1])
      BY <1>1, <3>2 DEF HasZone, IsPoison
    <3>4. Announced(link[r][1])
      BY <1>0, <3>2, <3>3 DEF FlowInv, InFlight
    <3> HIDE DEF m
    <3>5. QED
      BY <3>2, <3>4, Zenon
  <2> HIDE DEF fsm, m
  <2>5. pass[k] > 1 => loc[k].arrived < SentOf(pass[k] - 1)
    BY <1>4, <2>4, InOrderFollows
  <2> DEFINE s == Head(bfree[k])
             lam == m.lam
             dt == m.dt
  <2>6. s \in SlotIds /\ lam \in Lambdas /\ dt \in TimeSteps /\ Arrive(k, s, fsm, lam, dt)
    BY <2>1, <2>3
  <2> HIDE DEF s, lam, dt
  <2>7. QED
    BY <1>1, <1>2, <2>2, <2>3, <2>5, <2>6, ArriveFlow
<1>5. QED
  BY <1>3, <1>4

LEMMA NextOpAtWork ==
  ASSUME NEW k
  PROVE  NextOp(k) \in {"io", "compute"} /\ NextOp(k) \in AtWork
BY DEF NextOp, AtWork

LEMMA OpDoneFlow ==
  ASSUME TypeInv, FlowInv, NEW k \in Nodes, pc[k] = "io", Goto(k, NextOp(k)),
         CurrentOp(k) = "SEND" \/ loc[k].arrived > LastNeeded(loc[k].pos),
         loc' = [loc EXCEPT ![k].op = 2],
         UNCHANGED <<pass, laneVars, poolVars, dev, haltVars, linkVars, endVars, level>>
  PROVE  FlowInv'
<1>1. /\ TypeInv' /\ pc'[k] \in {"io", "compute"}
      /\ loc'[k] = [loc[k] EXCEPT !.op = 2]
      /\ \A n \in Nodes \ {k} : pc'[n] = pc[n] /\ loc'[n] = loc[n]
  BY OpDoneType
<1>2. loc[k] \in PassStates
  BY NodeFields
<1>3. /\ loc'[k].pos = loc[k].pos /\ loc'[k].outq = loc[k].outq
      /\ loc'[k].sent = loc[k].sent /\ loc'[k].agg = loc[k].agg
      /\ loc'[k].synced = loc[k].synced /\ loc'[k].arrived = loc[k].arrived
  BY <1>1, <1>2 DEF PassStates
<1>4. UNCHANGED <<pass, chan, link, haltVars, stats, result>>
  BY DEF laneVars, linkVars, endVars
<1>5. MessagesFrom
  BY <1>4, SameMessages
<1>6. pc[k] \in AtWork /\ pc'[k] \in AtWork
  BY <1>1 DEF AtWork
<1>7. Counts(k)'
  <2>1. EndedCount(k)' = EndedCount(k)
    BY <1>1, <1>3 DEF EndedCount
  <2>2. Counts(k)
    BY NodeFlow
  <2>3. pc'[k] \notin {"finish", "record"}
    BY <1>1
  <2>4. QED
    BY <1>3, <1>4, <1>6, <2>1, <2>2, <2>3 DEF Counts
<1>8. ArrivedNow(k)
  BY <1>3, NodeFlow DEF Arrived, ArrivedNow
<1>9. QED
  BY <1>1, <1>3, <1>4, <1>5, <1>6, <1>7, <1>8, WorkFlow

LEMMA RecvDoneFlow ==
  ASSUME TypeInv, FlowInv, NEW k \in Nodes, RecvDone(k)
  PROVE  FlowInv'
BY OpDoneFlow DEF RecvDone

LEMMA FlushDoneFlow ==
  ASSUME TypeInv, FlowInv, NEW k \in Nodes, FlushDone(k)
  PROVE  FlowInv'
<1>1. /\ Flushing(k) /\ loc[k].outq = <<>>
      /\ UNCHANGED <<pass, laneVars, poolVars, dev, haltVars, linkVars, endVars, level>>
  BY DEF FlushDone
<1>2. CASE pc[k] = "flush"
  <2>1. /\ loc' = loc /\ pc'[k] = "finish" /\ \A n \in Nodes \ {k} : pc'[n] = pc[n]
        /\ UNCHANGED <<pass, chan, link, haltVars, stats, result>>
    BY <1>1, <1>2 DEF FlushDone, Goto, TypeInv, NodeTypes, laneVars, linkVars, endVars
  <2>2. TypeInv' /\ MessagesFrom
    BY <2>1, FlushDoneType, SameMessages
  <2>3. pc[k] \in AtWork /\ pc'[k] \in AtWork
    BY <1>2, <2>1 DEF AtWork
  <2>4. EndedCount(k)' = EndedCount(k)
    BY <1>2, <2>1 DEF EndedCount
  <2>5. Counts(k)'
    BY <1>1, <2>1, <2>3, <2>4, NodeFlow DEF Counts
  <2>6. ArrivedNow(k)
    BY <2>1, NodeFlow DEF Arrived, ArrivedNow
  <2>7. QED
    BY <2>1, <2>2, <2>3, <2>5, <2>6, WorkFlow
<1>3. CASE pc[k] # "flush"
  <2>1. pc[k] = "io" /\ CurrentOp(k) = "SEND" /\ Goto(k, NextOp(k)) /\ loc' = [loc EXCEPT ![k].op = 2]
    BY <1>1, <1>3 DEF FlushDone, Flushing
  <2>2. QED
    BY <1>1, <2>1, OpDoneFlow
<1>4. QED
  BY <1>2, <1>3

LEMMA AppendLen ==
  ASSUME NEW S, NEW s \in Seq(S), NEW m \in S
  PROVE  Len(s) \in Nat /\ Len(Append(s, m)) = Len(s) + 1
BY AppendProperties, LenProperties

\* A computation ends the zone of its position, except the head held back.
LEMMA ComputeFlow ==
  ASSUME TypeInv, FlowInv, NEW k \in Nodes, ComputeZone(k)
  PROVE  FlowInv'
<1> DEFINE j == loc[k].pos
<1>1. /\ pc[k] = "compute" /\ pc[k] \in AtWork
      /\ UNCHANGED <<pass, chan, link, stats, result>>
  BY DEF ComputeZone, AtWork, laneVars, linkVars, endVars
<1>2. TypeInv' /\ MessagesFrom
  BY <1>1, ComputeEffect, SameMessages
<1>3. CASE SetHalt(k, "Logic") /\ UNCHANGED loc
  BY <1>1, <1>2, <1>3, LogicFlow
<1>4. CASE ~(SetHalt(k, "Logic") /\ UNCHANGED loc)
  <2>1. /\ UNCHANGED haltVars
        /\ \A n \in Nodes \ {k} : pc'[n] = pc[n] /\ loc'[n] = loc[n]
        /\ loc'[k].sent = loc[k].sent /\ loc'[k].agg = loc[k].agg
        /\ loc'[k].arrived = loc[k].arrived /\ loc'[k].synced = loc[k].synced
        /\ loc'[k].pos = IF j + 1 < N THEN j + 1 ELSE j
        /\ loc'[k].outq = IF HeldBack(j) THEN loc[k].outq ELSE Append(loc[k].outq, j)
        /\ pc'[k] = IF IsTail(j) /\ ~HeldBack(j) THEN "endhead" ELSE AfterPosition(loc[k])
    BY <1>4, ComputeEffect
  <2>2. j \in 0 .. N - 1 /\ N \in Nat \ {0} /\ loc[k].outq \in Seq(Zones) /\ j \in Zones
        /\ loc[k].sent \in Nat
    BY NodeFields, PassFields, RingFacts DEF Zones
  <2> HIDE DEF j
  <2>3. AfterPosition(loc[k]) = IF j + 1 < N THEN "io" ELSE "flush"
    BY DEF AfterPosition, j
  <2>4. Counts(k)
    BY NodeFlow
  <2>5. EndedCount(k) = IF DeferHead /\ j > 0 THEN j - 1 ELSE j
    BY <1>1 DEF EndedCount, j
  <2>6. EndedCount(k)' = IF pc'[k] = "io"
                           THEN IF DeferHead /\ loc'[k].pos > 0 THEN loc'[k].pos - 1
                                ELSE loc'[k].pos
                         ELSE IF pc'[k] = "endhead" THEN N - 1 ELSE N
    BY <2>1, <2>3 DEF EndedCount
  <2>7. DeferHead => N > 1
    BY DEF DeferHead
  <2>8. pass[k] # Steps => loc[k].sent + Len(loc[k].outq) = EndedCount(k)
    BY <1>1, <2>4 DEF Counts
  <2>9. Len(loc[k].outq) \in Nat /\ Len(Append(loc[k].outq, j)) = Len(loc[k].outq) + 1
    BY <2>2, AppendLen
  <2>10. pass[k] # Steps => loc'[k].sent + Len(loc'[k].outq) = EndedCount(k)'
    <3> SUFFICES ASSUME pass[k] # Steps
                 PROVE  loc'[k].sent + Len(loc'[k].outq) = EndedCount(k)'
      OBVIOUS
    <3>0. loc[k].sent + Len(loc[k].outq) = EndedCount(k)
      BY <2>8
    <3>5. Len(loc[k].outq) \in Nat /\ loc[k].sent \in Nat
      BY <2>2, <2>9
    <3>1. CASE HeldBack(j)
      <4>1. j = 0 /\ DeferHead /\ N > 1
        BY <2>7, <3>1 DEF HeldBack
      <4>2. loc'[k].pos = 1 /\ pc'[k] = "io" /\ loc'[k].outq = loc[k].outq
        BY <2>1, <2>2, <2>3, <3>1, <4>1
      <4>3. EndedCount(k)' = 0 /\ EndedCount(k) = 0
        BY <2>5, <2>6, <4>1, <4>2
      <4>4. QED
        BY <2>1, <3>0, <4>2, <4>3
    <3>2. CASE ~HeldBack(j) /\ IsTail(j)
      <4>1. DeferHead /\ j = N - 1 /\ N > 1
        BY <2>7, <3>2 DEF IsTail
      <4>2. EndedCount(k)' = N - 1 /\ EndedCount(k) = N - 2
        BY <2>1, <2>2, <2>5, <2>6, <3>2, <4>1
      <4>3. loc'[k].sent = loc[k].sent /\ Len(loc'[k].outq) = Len(loc[k].outq) + 1
        BY <2>1, <2>9, <3>2
      <4>4. EndedCount(k)' = EndedCount(k) + 1
        BY <2>2, <4>2
      <4>5. EndedCount(k) \in Int
        BY <2>2, <4>2
      <4>6. QED
        BY <3>0, <3>5, <4>3, <4>4, <4>5
    <3>3. CASE ~HeldBack(j) /\ ~IsTail(j)
      <4>1. EndedCount(k)' = EndedCount(k) + 1
        <5>1. CASE j + 1 < N
          BY <2>1, <2>2, <2>3, <2>5, <2>6, <3>3, <5>1 DEF HeldBack
        <5>2. CASE ~(j + 1 < N)
          <6>1. j = N - 1 /\ ~DeferHead
            BY <2>2, <3>3, <5>2 DEF IsTail
          <6>2. pc'[k] = "flush"
            BY <2>1, <2>3, <3>3, <5>2
          <6>3. QED
            BY <2>2, <2>5, <2>6, <6>1, <6>2
        <5>3. QED
          BY <5>1, <5>2
      <4>2. EndedCount(k) \in Int
        BY <2>2, <2>5
      <4>3. loc'[k].sent = loc[k].sent /\ Len(loc'[k].outq) = Len(loc[k].outq) + 1
        BY <2>1, <2>9, <3>3
      <4>4. QED
        BY <3>0, <3>5, <4>1, <4>2, <4>3
    <3>4. QED
      BY <3>1, <3>2, <3>3
  <2>11. pc'[k] \in AtWork /\ pc'[k] \notin {"finish", "record"}
    BY <2>1, <2>3 DEF AtWork
  <2>12. Counts(k)'
    BY <1>1, <2>1, <2>4, <2>10, <2>11 DEF Counts
  <2>13. ArrivedNow(k)
    BY <2>1, NodeFlow DEF Arrived, ArrivedNow
  <2>14. QED
    BY <1>1, <1>2, <2>1, <2>11, <2>12, <2>13, WorkFlow
<1>5. QED
  BY <1>3, <1>4

LEMMA EndHeadFlow ==
  ASSUME TypeInv, FlowInv, NEW k \in Nodes, EndHead(k)
  PROVE  FlowInv'
<1>1. /\ pc[k] = "endhead" /\ pc[k] \in AtWork
      /\ UNCHANGED <<pass, chan, link, stats, result>>
  BY DEF EndHead, AtWork, laneVars, linkVars, endVars
<1>2. TypeInv' /\ MessagesFrom
  BY <1>1, EndHeadEffect, SameMessages
<1>3. CASE SetHalt(k, "Logic") /\ UNCHANGED loc
  BY <1>1, <1>2, <1>3, LogicFlow
<1>4. CASE ~(SetHalt(k, "Logic") /\ UNCHANGED loc)
  <2>1. /\ UNCHANGED haltVars
        /\ \A n \in Nodes \ {k} : pc'[n] = pc[n] /\ loc'[n] = loc[n]
        /\ loc'[k].sent = loc[k].sent /\ loc'[k].agg = loc[k].agg
        /\ loc'[k].arrived = loc[k].arrived /\ loc'[k].synced = loc[k].synced
        /\ loc'[k].outq = Append(loc[k].outq, 0) /\ pc'[k] = "flush"
    BY <1>4, EndHeadEffect
  <2>2. loc[k].outq \in Seq(Zones) /\ 0 \in Zones /\ loc[k].sent \in Nat /\ N \in Nat \ {0}
    BY NodeFields, PassFields, RingFacts
  <2>3. Len(loc[k].outq) \in Nat /\ Len(Append(loc[k].outq, 0)) = Len(loc[k].outq) + 1
    BY <2>2, AppendLen
  <2>4. EndedCount(k) = N - 1 /\ EndedCount(k)' = N
    BY <1>1, <2>1 DEF EndedCount
  <2>5. pass[k] # Steps => loc'[k].sent + Len(loc'[k].outq) = EndedCount(k)'
    <3>1. pass[k] # Steps => loc[k].sent + Len(loc[k].outq) = EndedCount(k)
      BY <1>1, NodeFlow DEF Counts
    <3>2. loc'[k].sent = loc[k].sent /\ Len(loc'[k].outq) = Len(loc[k].outq) + 1
      BY <2>1, <2>3
    <3>3. EndedCount(k)' = EndedCount(k) + 1 /\ EndedCount(k) \in Int
      BY <2>2, <2>4
    <3>4. QED
      BY <2>2, <2>3, <3>1, <3>2, <3>3
  <2>6. pc'[k] \in AtWork /\ pc'[k] \notin {"finish", "record"}
    BY <2>1 DEF AtWork
  <2>7. Counts(k)'
    BY <1>1, <2>1, <2>5, <2>6, NodeFlow DEF Counts
  <2>8. ArrivedNow(k)
    BY <2>1, NodeFlow DEF Arrived, ArrivedNow
  <2>9. QED
    BY <1>1, <1>2, <2>1, <2>6, <2>7, <2>8, WorkFlow
<1>5. QED
  BY <1>3, <1>4

\* The last pass keeps its zones.
LEMMA CollectFlow ==
  ASSUME TypeInv, FlowInv, NEW k \in Nodes, CollectZone(k)
  PROVE  FlowInv'
<1>1. /\ Flushing(k) /\ pass[k] = Steps
      /\ UNCHANGED <<pc, pass, chan, link, haltVars, stats, result>>
  BY DEF CollectZone, linkVars
<1>2. /\ TypeInv' /\ loc'[k].sent = loc[k].sent /\ loc'[k].agg = loc[k].agg
      /\ loc'[k].arrived = loc[k].arrived /\ loc'[k].synced = loc[k].synced
      /\ \A n \in Nodes \ {k} : loc'[n] = loc[n]
  BY CollectZoneType
<1>3. pc[k] \in AtWork /\ pc[k] \notin {"finish", "record"}
  BY <1>1 DEF Flushing, AtWork
<1>4. Counts(k)'
  BY <1>1, <1>2, <1>3, NodeFlow DEF Counts
<1>5. ArrivedNow(k)
  BY <1>2, NodeFlow DEF Arrived, ArrivedNow
<1>6. MessagesFrom
  BY <1>1, SameMessages
<1>7. QED
  BY <1>1, <1>2, <1>3, <1>4, <1>5, <1>6, WorkFlow

LEMMA CopyFlow ==
  ASSUME TypeInv, FlowInv, NEW k \in Nodes, CopyZone(k)
  PROVE  FlowInv'
<1>1. Sending(k) /\ UNCHANGED <<pass, chan, link, stats, result>>
  BY DEF CopyZone, linkVars, endVars
<1>2. pc[k] \in AtWork
  BY <1>1 DEF Sending, Flushing, AtWork
<1>3. TypeInv' /\ MessagesFrom
  BY <1>1, CopyZoneEffect, SameMessages
<1>4. CASE SetHalt(k, "Logic") /\ UNCHANGED loc
  BY <1>1, <1>2, <1>3, <1>4, LogicFlow
<1>5. CASE ~(SetHalt(k, "Logic") /\ UNCHANGED loc)
  <2>1. /\ UNCHANGED <<pc, haltVars>>
        /\ \E s \in SlotIds : loc'[k] = [loc[k] EXCEPT !.dst = s]
        /\ \A n \in Nodes \ {k} : loc'[n] = loc[n]
    BY <1>5, CopyZoneEffect
  <2>2. loc[k] \in PassStates
    BY NodeFields
  <2>3. /\ loc'[k].pos = loc[k].pos /\ loc'[k].outq = loc[k].outq
        /\ loc'[k].sent = loc[k].sent /\ loc'[k].agg = loc[k].agg
        /\ loc'[k].synced = loc[k].synced /\ loc'[k].arrived = loc[k].arrived
    BY <2>1, <2>2 DEF PassStates
  <2>4. Counts(k)'
    <3>1. EndedCount(k)' = EndedCount(k)
      BY <2>1, <2>3 DEF EndedCount
    <3>2. QED
      BY <1>1, <2>1, <2>3, <3>1, NodeFlow DEF Counts
  <2>5. ArrivedNow(k)
    BY <2>3, NodeFlow DEF Arrived, ArrivedNow
  <2>6. QED
    BY <1>1, <1>2, <1>3, <2>1, <2>3, <2>4, <2>5, WorkFlow
<1>6. QED
  BY <1>4, <1>5

LEMMA FinishFlow ==
  ASSUME TypeInv, FlowInv, NEW k \in Nodes, FinishPass(k)
  PROVE  FlowInv'
<1>1. pc[k] = "finish" /\ UNCHANGED <<pass, chan, link, haltVars, stats, result>>
  BY DEF FinishPass, linkVars, endVars
<1>2. /\ TypeInv' /\ pc'[k] = "record"
      /\ \A n \in Nodes \ {k} : pc'[n] = pc[n] /\ loc'[n] = loc[n]
      /\ loc'[k].outq = loc[k].outq /\ loc'[k].sent = loc[k].sent
      /\ loc'[k].arrived = loc[k].arrived
      /\ loc'[k].agg.pass = loc[k].agg.pass /\ loc'[k].synced = TRUE
  BY FinishPassEffect
<1>3. pc[k] \in AtWork /\ pc'[k] \in AtWork
  BY <1>1, <1>2 DEF AtWork
<1>4. EndedCount(k)' = EndedCount(k)
  BY <1>1, <1>2 DEF EndedCount
<1>5. Counts(k)'
  BY <1>1, <1>2, <1>3, <1>4, NodeFlow DEF Counts
<1>6. ArrivedNow(k)
  BY <1>2, NodeFlow DEF Arrived, ArrivedNow
<1>7. MessagesFrom
  BY <1>1, SameMessages
<1>8. QED
  BY <1>1, <1>2, <1>3, <1>5, <1>6, <1>7, WorkFlow

\* A zone leaves: after the last one all zones have arrived, so all passes
\* before are complete.
LEMMA SendFlow ==
  ASSUME TypeInv, TypeInv', FlowInv, NEW k \in Nodes, Sending(k), MessagesFrom,
         UNCHANGED <<pc, pass, haltVars, stats, result>>,
         loc' = [loc EXCEPT ![k] = SentPass(ReadyToSend(loc[k]))]
  PROVE  FlowInv'
<1>1. loc[k].outq # <<>> /\ pass[k] # Steps /\ Flushing(k)
  BY DEF Sending
<1>2. /\ \A n \in Nodes \ {k} : loc'[n] = loc[n]
      /\ loc'[k].outq = Tail(loc[k].outq) /\ loc'[k].sent = loc[k].sent + 1
      /\ loc'[k].pos = loc[k].pos /\ loc'[k].arrived = loc[k].arrived
      /\ loc'[k].agg.pass = loc[k].agg.pass
      /\ loc'[k].synced = TRUE \/ (loc'[k].synced = loc[k].synced /\ ~LastOfPass(loc[k]))
  BY <1>1, SentStep
<1>3. pc[k] \in {"io", "flush"} /\ pc[k] \in AtWork /\ pc[k] \notin Stopped
  BY <1>1 DEF Flushing, AtWork, Stopped
<1>4. /\ pass[k] \in Nat \ {0} /\ Owner(pass[k]) = k /\ pass[k] <= Steps
      /\ loc[k].agg.pass = pass[k]
  BY <1>3, NodeFlow DEF PassOfNode
<1>5. /\ Len(loc[k].outq) \in Nat \ {0} /\ Len(Tail(loc[k].outq)) = Len(loc[k].outq) - 1
      /\ loc[k].sent \in Nat /\ loc[k].pos \in 0 .. N - 1 /\ N \in Nat \ {0}
  BY <1>1, OutgoingFacts, NodeFields, PassFields, RingFacts DEF Zones
<1>6. loc[k].sent + Len(loc[k].outq) = EndedCount(k)
  BY <1>1, <1>3, NodeFlow DEF Counts
<1>7. /\ EndedCount(k) \in Int /\ EndedCount(k) <= N
      /\ EndedCount(k) = N => pc[k] = "flush"
  BY <1>3, <1>5 DEF EndedCount
<1>8. EndedCount(k)' = EndedCount(k)
  BY <1>2 DEF EndedCount
<1>9. Len(loc'[k].outq) = Len(loc[k].outq) - 1
  BY <1>2, <1>5
<1>10. loc[k].sent + 1 <= EndedCount(k)
  BY <1>5, <1>6
<1>11. Counts(k)'
  <2>1. loc'[k].sent <= N
    BY <1>2, <1>5, <1>7, <1>10
  <2>2. loc'[k].sent = N => loc'[k].synced
    <3>1. loc[k].sent + 1 = N => LastOfPass(loc[k])
      BY <1>5 DEF LastOfPass
    <3>2. QED
      BY <1>2, <3>1
  <2>3. loc'[k].sent + Len(loc'[k].outq) = EndedCount(k)'
    BY <1>2, <1>5, <1>6, <1>8, <1>9, SMTT(30)
  <2>4. loc'[k].agg.pass # Steps /\ pc'[k] \notin {"finish", "record"}
    BY <1>1, <1>2, <1>3, <1>4
  <2>5. QED
    BY <2>1, <2>2, <2>3, <2>4 DEF Counts
<1>12. \A n \in Nodes : FlowOf(n)
  <2>1. PassOfNode(k)'
    BY <1>2, <1>3, <1>4 DEF PassOfNode, Owner, AtWork
  <2>2. Onward(k)
    BY <1>2, <1>5 DEF Onward
  <2>3. ArrivedNow(k)
    BY <1>2, NodeFlow DEF Arrived, ArrivedNow
  <2>4. FlowOf(k)
    BY <1>11, <2>1, <2>2, <2>3 DEF FlowOf
  <2>5. QED
    BY <1>2, <2>4, NodeStays
<1>13. HaltsHeld'
  BY <1>2, <1>3, HaltsKept
<1>14. ASSUME NEW h \in Passes, SentOf(h)' = N
       PROVE  SentOf(h) = N \/ \A g \in Passes : g < h => SentOf(g) = N
  <2>1. Owner(h) \in Nodes /\ h \in Nat
    BY OwnerFacts, RingFacts DEF Passes
  <2>2. SentOf(h)' = IF pass'[Owner(h)] > h THEN N
                     ELSE IF pass'[Owner(h)] = h /\ loc'[Owner(h)].agg.pass = h
                       THEN loc'[Owner(h)].sent ELSE 0
    BY DEF SentOf, Owner
  <2>3. CASE Owner(h) # k
    <3>1. SentOf(h)' = SentOf(h)
      BY <1>2, <2>1, <2>2, <2>3 DEF SentOf
    <3>2. QED
      BY <1>14, <3>1
  <2>4. CASE pass[k] > h /\ Owner(h) = k
    BY <2>4 DEF SentOf
  <2>5. CASE ~(pass[k] > h) /\ Owner(h) = k
    <3>1. pass[k] = h /\ loc[k].sent + 1 = N
      BY <1>2, <1>5, <1>14, <2>2, <2>5
    <3>2. EndedCount(k) = N
      BY <1>5, <1>7, <1>10, <3>1
    <3>3. loc[k].arrived = N
      BY <1>7, <3>2, NodeFields DEF Progress, AtTheEnd
    <3>4. QED
      BY <1>4, <3>1, <3>3, BelowComplete
  <2>6. QED
    BY <2>3, <2>4, <2>5
<1>15. QED
  BY <1>12, <1>13, <1>14, FlowStep

\* What is sent is announced by the count that grows with it.
LEMMA SentLeaves ==
  ASSUME TypeInv, FlowInv, NEW k \in Nodes, Sending(k), UNCHANGED pass,
         loc' = [loc EXCEPT ![k] = SentPass(ReadyToSend(loc[k]))], UNCHANGED pc,
         NEW m, m.step = pass[k], m.pos = loc[k].sent
  PROVE  Leaving(m)
<1>1. loc[k].outq # <<>> /\ pc[k] \in AtWork
  BY DEF Sending, Flushing, AtWork
<1>2. loc'[k].sent = loc[k].sent + 1 /\ loc'[k].agg.pass = loc[k].agg.pass
  BY <1>1, SentStep
<1>3. /\ pass[k] \in Passes /\ Owner(pass[k]) = k /\ loc[k].agg.pass = pass[k]
      /\ loc[k].sent \in Nat
  BY <1>1, NodeFlow, NodeFields, PassFields, RingFacts DEF PassOfNode, Passes
<1>4. PICK h \in Passes : h = pass[k]
  BY <1>3
<1>5. SentOf(h)' = loc'[k].sent
  <2>1. Owner(h) = k
    BY <1>3, <1>4
  <2>2. SentOf(h)' = IF pass'[k] > h THEN N
                     ELSE IF pass'[k] = h /\ loc'[k].agg.pass = h
                       THEN loc'[k].sent ELSE 0
    BY <2>1 DEF SentOf, Owner
  <2>3. pass'[k] = h /\ loc'[k].agg.pass = h /\ h \in Nat
    BY <1>2, <1>3, <1>4, RingFacts DEF Passes
  <2>4. QED
    BY <2>2, <2>3
<1>6. m.pos < SentOf(h)'
  BY <1>2, <1>3, <1>5
<1>7. QED
  BY <1>4, <1>6 DEF Leaving

LEMMA SendHeaderFlow ==
  ASSUME TypeInv, FlowInv, NEW k \in Nodes, SendHeader(k)
  PROVE  FlowInv'
<1>1. Sending(k) /\ pc[k] \in AtWork /\ UNCHANGED <<pass, link, stats, result>>
  BY DEF SendHeader, Sending, Flushing, AtWork, linkVars, endVars
<1>2. TypeInv'
  BY SendHeaderEffect
<1>3. CASE SetHalt(k, "Logic") /\ UNCHANGED <<chan, loc>>
  <2>1. MessagesFrom
    BY <1>1, <1>3, SameMessages
  <2>2. QED
    BY <1>1, <1>2, <1>3, <2>1, LogicFlow
<1>4. CASE ~(SetHalt(k, "Logic") /\ UNCHANGED <<chan, loc>>)
  <2>1. /\ UNCHANGED <<pc, haltVars>>
        /\ loc' = [loc EXCEPT ![k] = SentPass(ReadyToSend(loc[k]))]
        /\ \/ UNCHANGED chan
           \/ \E m \in Headers :
                /\ m.step = pass[k] /\ m.pos = loc[k].sent
                /\ chan' = [chan EXCEPT ![k] = Append(@, m)]
    BY <1>4, SendHeaderEffect
  <2>2. ChanMessages
    <3>1. CASE UNCHANGED chan
      BY <3>1, SameMessages
    <3>2. CASE ~UNCHANGED chan
      <4>1. PICK m \in Headers :
              /\ m.step = pass[k] /\ m.pos = loc[k].sent
              /\ chan' = [chan EXCEPT ![k] = Append(@, m)]
        BY <2>1, <3>2
      <4>2. Leaving(m)
        BY <1>1, <2>1, <4>1, SentLeaves
      <4>3. QED
        BY <4>1, <4>2, ChanGiven
    <3>3. QED
      BY <3>1, <3>2
  <2>3. MessagesFrom
    BY <1>1, <2>2, SameMessages
  <2>4. QED
    BY <1>1, <1>2, <2>1, <2>3, SendFlow
<1>5. QED
  BY <1>3, <1>4

LEMMA SendBoundaryFlow ==
  ASSUME TypeInv, FlowInv, NEW k \in Nodes, SendBoundary(k)
  PROVE  FlowInv'
<1>1. Sending(k) /\ pc[k] \in AtWork /\ UNCHANGED <<pass, chan, stats, result>>
  BY DEF SendBoundary, Sending, Flushing, AtWork, endVars
<1>2. TypeInv' /\ NextRank(RankOf(k)) \in Heads
  BY SendBoundaryEffect, RankFacts, NextRankType
<1>3. CASE SetHalt(k, "Logic") /\ UNCHANGED <<link, loc>>
  <2>1. MessagesFrom
    BY <1>1, <1>3, SameMessages
  <2>2. QED
    BY <1>1, <1>2, <1>3, <2>1, LogicFlow
<1>4. CASE ~(SetHalt(k, "Logic") /\ UNCHANGED <<link, loc>>)
  <2>1. /\ UNCHANGED <<pc, haltVars>>
        /\ loc' = [loc EXCEPT ![k] = SentPass(ReadyToSend(loc[k]))]
        /\ \/ UNCHANGED link
           \/ \E m \in WireMessages :
                /\ m.step = pass[k] /\ m.pos = loc[k].sent
                /\ link' = [link EXCEPT ![NextRank(RankOf(k))] = Append(@, m)]
    BY <1>4, SendBoundaryEffect DEF linkVars
  <2>2. LinkMessages
    <3>1. CASE UNCHANGED link
      BY <3>1, SameMessages
    <3>2. CASE ~UNCHANGED link
      <4>1. PICK m \in WireMessages :
              /\ m.step = pass[k] /\ m.pos = loc[k].sent
              /\ link' = [link EXCEPT ![NextRank(RankOf(k))] = Append(@, m)]
        BY <2>1, <3>2
      <4>2. Leaving(m)
        BY <1>1, <2>1, <4>1, SentLeaves
      <4>3. QED
        BY <1>2, <4>1, <4>2, LinkGiven
    <3>3. QED
      BY <3>1, <3>2
  <2>3. MessagesFrom
    BY <1>1, <2>2, SameMessages
  <2>4. QED
    BY <1>1, <1>2, <2>1, <2>3, SendFlow
<1>5. QED
  BY <1>3, <1>4

LEMMA StartFlow ==
  ASSUME TypeInv, FlowInv, NEW k \in Nodes, StartPass(k)
  PROVE  FlowInv'
<1>1. /\ pc[k] = "loop" /\ pass[k] <= Steps
      /\ UNCHANGED <<pass, chan, link, haltVars, stats, result>>
  BY DEF StartPass, laneVars, linkVars, endVars
<1>2. /\ TypeInv' /\ loc'[k] = FreshPass(pass[k]) /\ pc'[k] = "io"
      /\ \A n \in Nodes \ {k} : pc'[n] = pc[n] /\ loc'[n] = loc[n]
  BY StartPassType
<1>3. /\ loc'[k].agg.pass = pass[k] /\ loc'[k].sent = 0 /\ loc'[k].pos = 0
      /\ loc'[k].arrived = 0 /\ loc'[k].outq = <<>>
  BY <1>2 DEF FreshPass
<1>4. /\ pass[k] \in Nat \ {0} /\ Owner(pass[k]) = k /\ loc[k].agg.pass < pass[k]
      /\ N \in Nat \ {0}
  BY <1>1, NodeFlow, RingFacts DEF PassOfNode
<1>5. FlowOf(k)
  <2>1. PassOfNode(k)'
    BY <1>1, <1>2, <1>3, <1>4 DEF PassOfNode, Owner
  <2>2. Counts(k)'
    <3>1. EndedCount(k)' = 0
      BY <1>2, <1>3 DEF EndedCount
    <3>2. QED
      BY <1>2, <1>3, <1>4, <3>1 DEF Counts
  <2>3. Onward(k)
    BY <1>1, <1>4 DEF Onward
  <2>4. ArrivedNow(k)
    <3> DEFINE h == pass[k] - 1
    <3>1. pass[k] > 1 => SentOf(h) >= 0
      <4> SUFFICES ASSUME pass[k] > 1 PROVE SentOf(h) >= 0
        OBVIOUS
      <4>1. h \in Nat \ {0}
        BY <1>4
      <4> HIDE DEF h
      <4>2. SentOf(h) \in 0 .. N
        BY <4>1, SentOfType
      <4>3. QED
        BY <1>4, <4>2
    <3>2. QED
      BY <1>3, <3>1 DEF ArrivedNow
  <2>5. QED
    BY <2>1, <2>2, <2>3, <2>4 DEF FlowOf
<1>6. \A n \in Nodes : FlowOf(n)
  BY <1>1, <1>2, <1>5, NodeStays
<1>7. HaltsHeld'
  BY <1>1, <1>2, HaltsKept DEF Stopped
<1>8. ASSUME NEW h \in Passes, SentOf(h)' = N PROVE SentOf(h) = N
  <2>1. Owner(h) \in Nodes
    BY OwnerFacts, RingFacts DEF Passes
  <2>2. SentOf(h)' = IF pass'[Owner(h)] > h THEN N
                     ELSE IF pass'[Owner(h)] = h /\ loc'[Owner(h)].agg.pass = h
                       THEN loc'[Owner(h)].sent ELSE 0
    BY DEF SentOf, Owner
  <2>3. QED
    BY <1>1, <1>2, <1>3, <1>4, <1>8, <2>1, <2>2 DEF SentOf
<1>9. MessagesFrom
  BY <1>1, SameMessages
<1>10. QED
  BY <1>1, <1>2, <1>6, <1>7, <1>8, <1>9, FlowStep

\* A node has every Z-th pass.
LEMMA OwnerGap ==
  ASSUME NEW g \in Nat \ {0}, NEW h \in Nat \ {0}, Owner(g) = Owner(h), g < h
  PROVE  g + Z <= h
<1>1. Z \in Nat \ {0}
  BY RingFacts
<1>2. \A y \in Nat : /\ y % Z \in 0 .. Z - 1 /\ y \div Z \in Int
                     /\ y = Z * (y \div Z) + (y % Z)
  <2> TAKE y \in Nat
  <2>1. y % Z \in 0 .. Z - 1
    BY <1>1
  <2>2. y = Z * (y \div Z) + (y % Z) /\ y \div Z \in Int
    BY <1>1
  <2>3. QED
    BY <2>1, <2>2
<1> DEFINE a == g - 1
           b == h - 1
           q == a \div Z
           u == b \div Z
           r == a % Z
           t == b % Z
<1>3. r = t
  BY DEF Owner
<1>4. /\ q \in Int /\ u \in Int /\ r \in Int /\ a \in Nat /\ b \in Nat /\ a < b
      /\ a = Z * q + r /\ b = Z * u + t
  <2>1. a \in Nat /\ b \in Nat /\ a < b
    OBVIOUS
  <2> HIDE DEF a, b
  <2>2. QED
    BY <1>1, <1>2, <2>1
<1> HIDE DEF q, u, r, t
<1>5. b - a = Z * (u - q)
  <2> HIDE DEF a, b
  <2>1. QED
    BY <1>1, <1>3, <1>4
<1>6. u - q >= 1
  <2>1. u - q <= 0 => Z * (u - q) <= 0
    BY <1>1, <1>4
  <2> HIDE DEF a, b
  <2>2. QED
    BY <1>4, <1>5, <2>1
<1>7. Z * (u - q) >= Z
  BY <1>1, <1>4, <1>6
<1>8. b - a >= Z
  <2> HIDE DEF a, b
  <2>1. QED
    BY <1>5, <1>7
<1>9. QED
  BY <1>1, <1>8

LEMMA RecordFlow ==
  ASSUME TypeInv, FlowInv, NEW k \in Nodes, RecordPass(k)
  PROVE  FlowInv'
<1>1. /\ pc[k] = "record" /\ UNCHANGED <<loc, chan, link, haltVars, result>>
      /\ stats' = [stats EXCEPT ![pass[k]] = [dt |-> loc[k].dt, agg |-> loc[k].agg]]
      /\ pass' = [pass EXCEPT ![k] = @ + Z] /\ Goto(k, "loop")
  BY DEF RecordPass, laneVars, linkVars
<1>2. /\ pc[k] \in AtWork /\ pc[k] \notin Stopped /\ pass'[k] = pass[k] + Z /\ pc'[k] = "loop"
      /\ \A n \in Nodes \ {k} : pc'[n] = pc[n] /\ pass'[n] = pass[n]
  BY <1>1 DEF AtWork, Stopped, Goto, TypeInv, NodeTypes
<1>3. /\ pass[k] \in Nat \ {0} /\ Owner(pass[k]) = k /\ pass[k] <= Steps
      /\ loc[k].agg.pass = pass[k] /\ Z \in Nat \ {0}
  BY <1>2, NodeFlow, RingFacts DEF PassOfNode
<1>4. FlowOf(k)
  <2>1. PassOfNode(k)'
    <3>1. Owner(pass'[k]) = k
      BY <1>2, <1>3, OwnerFacts
    <3>2. QED
      BY <1>1, <1>2, <1>3, <3>1 DEF PassOfNode, Owner, AtWork
  <2>2. Counts(k)'
    BY <1>1, <1>2, NodeFlow DEF Counts, AtWork
  <2>3. Onward(k)
    BY <1>2, <1>3 DEF Onward
  <2>4. ArrivedNow(k)
    BY <1>1, NodeFlow DEF Arrived, ArrivedNow
  <2>5. QED
    BY <2>1, <2>2, <2>3, <2>4 DEF FlowOf
<1>5. \A n \in Nodes : FlowOf(n)
  BY <1>1, <1>2, <1>4, NodeStays
<1>6. HaltsHeld'
  BY <1>1, <1>2, HaltsKept
<1>7. MessagesFrom
  BY <1>1, SameMessages
<1>8. ASSUME NEW h \in Passes, SentOf(h)' = N
      PROVE  SentOf(h) = N \/ \A g \in Passes : g < h => SentOf(g) = N
  <2>1. Owner(h) \in Nodes /\ h \in Nat \ {0}
    BY OwnerFacts, RingFacts DEF Passes
  <2>2. SentOf(h)' = IF pass'[Owner(h)] > h THEN N
                     ELSE IF pass'[Owner(h)] = h /\ loc[Owner(h)].agg.pass = h
                       THEN loc[Owner(h)].sent ELSE 0
    BY <1>1 DEF SentOf, Owner
  <2>3. CASE Owner(h) # k
    <3>1. SentOf(h)' = SentOf(h)
      BY <1>2, <2>1, <2>2, <2>3 DEF SentOf
    <3>2. QED
      BY <1>8, <3>1
  <2>4. CASE Owner(h) = k /\ pass[k] > h
    BY <2>4 DEF SentOf
  <2>5. CASE Owner(h) = k /\ pass[k] = h
    <3>1. loc[k].arrived = N
      BY <1>1, NodeFields DEF Progress, AtTheEnd
    <3>2. QED
      BY <1>3, <2>5, <3>1, BelowComplete
  <2>6. CASE Owner(h) = k /\ pass[k] < h
    <3>1. pass[k] + Z <= h
      BY <1>3, <2>1, <2>6, OwnerGap
    <3>2. ~(pass'[k] > h) /\ loc[k].agg.pass # h
      BY <1>2, <1>3, <2>1, <2>6, <3>1
    <3>3. SentOf(h)' = 0
      BY <2>2, <2>6, <3>2
    <3>4. QED
      BY <1>8, <3>3, RingFacts
  <2>7. QED
    BY <1>3, <2>1, <2>3, <2>4, <2>5, <2>6
<1>9. RecordedIsOver'
  <2>1. ASSUME NEW h \in Passes, Recorded(h)' PROVE pass'[Owner(h)] > h
    <3>1. h \in Nat \ {0} /\ Owner(h) \in Nodes
      BY OwnerFacts, RingFacts DEF Passes
    <3>2. CASE h = pass[k]
      BY <1>2, <1>3, <3>2
    <3>3. CASE h # pass[k]
      <4>1. stats'[h] = stats[h]
        BY <1>1, <3>3 DEF TypeInv, EndTypes
      <4>2. pass[Owner(h)] > h
        BY <2>1, <4>1 DEF Recorded, FlowInv, RecordedIsOver
      <4>3. QED
        BY <1>2, <1>3, <3>1, <4>2
    <3>4. QED
      BY <3>2, <3>3
  <2>2. QED
    BY <2>1 DEF RecordedIsOver, Owner
<1>10. QED
  BY <1>5, <1>6, <1>7, <1>8, <1>9, RecordPassType, FlowStep

\* A thread that cannot be created: the nodes it takes with it had not begun.
LEMMA SpawnFlow ==
  ASSUME TypeInv, TypeInv', FlowInv, NEW k \in Nodes, SpawnFails(k), NotYetCreated(k),
         UNCHANGED <<pass, loc, chan, link, stats, result>>
  PROVE  FlowInv'
<1> DEFINE s == RankOf(k)
<1>1. /\ \A n \in Missing(k) : pc[n] = "loop"
      /\ k \in Missing(k) /\ \A n \in Missing(k) : RankOf(n) = s /\ n \in Nodes
  <2>1. k >= k
    BY DEF Nodes
  <2>2. QED
    BY <2>1 DEF NotYetCreated, Missing
<1>2. /\ \A n \in Nodes \ Missing(k) : pc'[n] = pc[n]
      /\ \A n \in Missing(k) : pc'[n] \in Stopped
  BY <1>1 DEF SpawnFails, Stopped
<1>3. \A n \in Nodes : FlowOf(n)
  BY <1>1, <1>2, NodeStays, NodeStops
<1>4. \A h \in Passes : SentOf(h)' = SentOf(h)
  BY SentSame
<1>5. MessagesFrom
  BY SameMessages
<1>6. HaltsHeld'
  <2> SUFFICES ASSUME NEW r \in Heads
               PROVE  /\ HaltHolder(r)'
                      /\ haltKind'[r] = "None" => haltPass'[r] = 0
                      /\ haltKind'[r] \in SyncKinds => haltPass'[r] # 0
                      /\ Returned(r)' => \A n \in Nodes : RankOf(n) = r => pc'[n] = "done"
                      /\ haltPass'[r] # 0 => result'[r].steps_done < haltPass'[r]
    BY DEF HaltsHeld
  <2>1. /\ HaltHolder(r)
        /\ haltKind[r] = "None" => haltPass[r] = 0
        /\ haltKind[r] \in SyncKinds => haltPass[r] # 0
        /\ Returned(r) => \A n \in Nodes : RankOf(n) = r => pc[n] = "done"
        /\ haltPass[r] # 0 => result[r].steps_done < haltPass[r]
    BY DEF FlowInv, HaltsHeld
  <2>2. haltPass' = haltPass /\ result' = result
    BY DEF SpawnFails
  <2>3. haltKind'[r] = haltKind[r] \/ (haltKind[r] = "None" /\ haltKind'[r] = "Spawn")
    BY DEF SpawnFails, HaltOn, TypeInv, HaltTypes
  <2>4. "Spawn" \notin SyncKinds /\ "None" \notin SyncKinds /\ "Spawn" # "None"
    BY DEF SyncKinds
  <2>5. HaltHolder(r)'
    <3> DEFINE h == haltPass[r]
               n == Owner(h)
    <3>1. SUFFICES ASSUME h # 0
          PROVE  /\ h \in Passes /\ pass'[n] = h /\ pc'[n] \in Stopped /\ RankOf(n) = r
                 /\ haltKind'[r] \in SyncKinds => loc'[n].agg.pass = h /\ loc'[n].sent < N
      BY <2>2 DEF HaltHolder, Owner
    <3>2. /\ h \in Passes /\ pass[n] = h /\ pc[n] \in Stopped /\ RankOf(n) = r
          /\ haltKind[r] \in SyncKinds => loc[n].agg.pass = h /\ loc[n].sent < N
      BY <2>1, <3>1 DEF HaltHolder
    <3>3. n \in Nodes
      BY <3>2, OwnerFacts, RingFacts DEF Passes
    <3> HIDE DEF n, h
    <3>4. n \notin Missing(k)
      BY <1>1, <3>2 DEF Stopped
    <3>5. pc'[n] = pc[n]
      BY <1>2, <3>3, <3>4
    <3>6. QED
      BY <2>3, <2>4, <3>2, <3>5
  <2>6. ASSUME Returned(r)', NEW n \in Nodes, RankOf(n) = r PROVE pc'[n] = "done"
    <3>1. pc[n] = "done"
      BY <2>1, <2>2, <2>6 DEF Returned
    <3>2. n \notin Missing(k)
      BY <1>1, <3>1
    <3>3. QED
      BY <1>2, <3>1, <3>2
  <2>7. QED
    BY <2>1, <2>2, <2>3, <2>4, <2>5, <2>6
<1>7. QED
  BY <1>3, <1>4, <1>5, <1>6, FlowStep

\* A check fails only in a pass that has not been checked yet, and the last zone
\* leaves only a checked pass.
LEMMA FaultFlow ==
  ASSUME TypeInv, FlowInv, NEW k \in Nodes, NodeFault(k)
  PROVE  FlowInv'
<1>1. PICK kind \in FaultsAt(k) : Fail(k, kind)
  BY DEF NodeFault
<1>2. UNCHANGED <<pass, loc, chan, link, stats, result>>
  BY DEF NodeFault, laneVars, linkVars, endVars
<1>3. TypeInv' /\ MessagesFrom
  BY <1>2, NodeFaultType, SameMessages
<1>4. CASE kind = "Spawn"
  <2>1. NotYetCreated(k)
    BY <1>4 DEF FaultsAt, SyncKinds, RecordKinds
  <2>2. QED
    BY <1>1, <1>2, <1>3, <1>4, <2>1, SpawnFlow DEF Fail
<1>5. CASE kind # "Spawn"
  <2>1. SetHalt(k, kind)
    BY <1>1, <1>5 DEF Fail
  <2>2. kind \in HaltKinds \ {"None"}
    BY HaltKindNames, GpuAssumption DEF FaultsAt, GpuAssumption
  <2>3. \/ CheckDue(k)
        \/ kind \notin SyncKinds /\ (Enqueues(k) \/ pc[k] = "record")
    BY <1>5 DEF FaultsAt, SyncKinds, RecordKinds
  <2>4. pc[k] \in AtWork
    BY <2>3 DEF CheckDue, Enqueues, Sending, Flushing, AtWork
  <2>5. kind \in SyncKinds => loc[k].sent < N
    <3>1. SUFFICES ASSUME ~loc[k].synced PROVE loc[k].sent < N
      BY <2>3 DEF CheckDue
    <3>2. loc[k].sent <= N /\ loc[k].sent # N
      BY <3>1, NodeFlow DEF Counts
    <3>3. loc[k].sent \in Nat /\ N \in Nat
      BY NodeFields, PassFields, RingFacts
    <3>4. QED
      BY <3>2, <3>3
  <2>6. QED
    BY <1>2, <1>3, <2>1, <2>2, <2>4, <2>5, HaltFlow
<1>6. QED
  BY <1>4, <1>5

\* The steps a rank reports are recorded ones, and the pass it halted in is not.
LEMMA JoinFlow ==
  ASSUME TypeInv, FlowInv, NEW s \in Heads, Join(s)
  PROVE  FlowInv'
<1> DEFINE done == IF HaltOn(s) THEN StepsDone(s) ELSE Steps
<1>1. /\ ~Returned(s) /\ \A k \in Nodes : RankOf(k) = s => pc[k] = "done"
      /\ UNCHANGED <<pc, pass, loc, chan, link, haltVars, stats>>
  BY DEF Join, nodeVars, laneVars, linkVars
<1>2. /\ result'[s].steps_done = done
      /\ \A r \in Heads \ {s} : result'[r] = result[r]
  BY DEF Join, TypeInv, EndTypes
<1>3. \A n \in Nodes : FlowOf(n)
  BY <1>1, NodeStays
<1>4. \A h \in Passes : SentOf(h)' = SentOf(h)
  BY <1>1, SentSame
<1>5. TypeInv' /\ MessagesFrom
  BY <1>1, JoinType, SameMessages
<1>6. HaltsHeld'
  <2> SUFFICES ASSUME NEW r \in Heads
               PROVE  /\ HaltHolder(r)'
                      /\ haltKind'[r] = "None" => haltPass'[r] = 0
                      /\ haltKind'[r] \in SyncKinds => haltPass'[r] # 0
                      /\ Returned(r)' => \A n \in Nodes : RankOf(n) = r => pc'[n] = "done"
                      /\ haltPass'[r] # 0 => result'[r].steps_done < haltPass'[r]
    BY DEF HaltsHeld
  <2>1. /\ HaltHolder(r)
        /\ haltKind[r] = "None" => haltPass[r] = 0
        /\ haltKind[r] \in SyncKinds => haltPass[r] # 0
        /\ Returned(r) => \A n \in Nodes : RankOf(n) = r => pc[n] = "done"
        /\ haltPass[r] # 0 => result[r].steps_done < haltPass[r]
    BY DEF FlowInv, HaltsHeld
  <2>2. haltKind' = haltKind /\ haltPass' = haltPass
    BY <1>1 DEF haltVars
  <2>3. HaltHolder(r)'
    BY <1>1, <2>1, <2>2 DEF HaltHolder, Owner
  <2>4. Returned(r)' => \A n \in Nodes : RankOf(n) = r => pc'[n] = "done"
    BY <1>1, <1>2, <2>1 DEF Returned
  <2>5. haltPass'[r] # 0 => result'[r].steps_done < haltPass'[r]
    <3>1. CASE r # s
      BY <1>2, <2>1, <2>2, <3>1
    <3>2. CASE r = s
      <4> SUFFICES ASSUME haltPass[s] # 0 PROVE done < haltPass[s]
        BY <1>2, <2>2, <3>2
      <4>1. HaltOn(s)
        BY <2>1, <3>2 DEF HaltOn
      <4>2. /\ StepsDone(s) \in 0 .. Steps
            /\ \A h \in 1 .. StepsDone(s) : Recorded(h)
        BY StepsDoneIs DEF Counted
      <4>3. haltPass[s] \in Passes /\ pass[Owner(haltPass[s])] = haltPass[s]
        BY <2>1, <3>2 DEF HaltHolder
      <4>4. ~Recorded(haltPass[s])
        BY <4>3, RingFacts DEF FlowInv, RecordedIsOver, Passes
      <4>5. ~(haltPass[s] \in 1 .. StepsDone(s))
        BY <4>2, <4>4
      <4>6. StepsDone(s) < haltPass[s]
        BY <4>2, <4>3, <4>5, RingFacts DEF Passes
      <4>7. QED
        BY <4>1, <4>6
    <3>3. QED
      BY <3>1, <3>2
  <2>6. QED
    BY <2>1, <2>2, <2>3, <2>4, <2>5
<1>7. QED
  BY <1>1, <1>3, <1>4, <1>5, <1>6, FlowStep

LEMMA OwnerBelow ==
  ASSUME NEW h \in Nat \ {0}
  PROVE  Owner(h) + 1 <= h
<1> DEFINE x == h - 1
           q == x \div Z
           r == x % Z
<1>1. Z \in Nat \ {0} /\ x \in Nat
  BY RingFacts
<1>2. r \in 0 .. Z - 1 /\ q \in Int /\ x = Z * q + r
  <2> HIDE DEF x
  <2>1. r \in 0 .. Z - 1
    BY <1>1
  <2>2. x = Z * q + r /\ q \in Int
    BY <1>1
  <2>3. QED
    BY <2>1, <2>2
<1>3. Owner(h) = r
  BY DEF Owner
<1> HIDE DEF q, r, x
<1>4. r <= x
  <2>1. q <= -1 => Z * q <= -Z
    BY <1>1, <1>2
  <2>2. q >= 0
    BY <1>1, <1>2, <2>1
  <2>3. Z * q >= 0
    BY <1>1, <1>2, <2>2
  <2>4. QED
    BY <1>1, <1>2, <2>3
<1>5. r \in Int /\ r <= h - 1
  BY <1>1, <1>2, <1>4 DEF x
<1>6. QED
  BY <1>3, <1>5

LEMMA InitFlow == Init => FlowInv
<1> SUFFICES ASSUME Init PROVE FlowInv
  OBVIOUS
<1>1. \A k \in Nodes : /\ pc[k] = "loop" /\ pass[k] = k + 1 /\ loc[k].agg.pass = 0
                       /\ loc[k].sent = 0
  BY DEF Init, FreshPass
<1>2. \A k \in Nodes : k \in Nat /\ Owner(k + 1) = k
  BY OwnerFacts, RingFacts DEF Nodes
<1>3. ASSUME NEW h \in Passes
      PROVE  ~(pass[Owner(h)] > h) /\ SentOf(h) = 0 /\ h \in Nat \ {0}
  <2>1. h \in Nat \ {0} /\ Owner(h) \in Nodes
    BY OwnerFacts, RingFacts DEF Passes
  <2>2. Owner(h) \in Nat /\ Owner(h) + 1 <= h
    BY <1>2, <2>1, OwnerBelow
  <2>3. ~(pass[Owner(h)] > h)
    BY <1>1, <2>1, <2>2
  <2>4. QED
    BY <1>1, <2>1, <2>3 DEF SentOf
<1>4. ASSUME NEW k \in Nodes PROVE PassOfNode(k) /\ Counts(k) /\ Arrived(k)
  BY <1>1, <1>2, RingFacts DEF PassOfNode, Counts, Arrived, AtWork
<1>5. InFlight
  <2>1. \A e \in Nodes : Len(chan[e]) = 0
    BY DEF Init
  <2>2. \A r \in Heads : Len(link[r]) = 0
    BY DEF Init, InitLinks
  <2>3. QED
    BY <2>1, <2>2 DEF InFlight
<1>6. CompleteDown
  BY <1>3, RingFacts DEF CompleteDown
<1>7. RecordedIsOver
  BY DEF Init, Recorded, RecordedIsOver
<1>8. HaltsHeld
  <2>1. \A r \in Heads : haltKind[r] = "None" /\ haltPass[r] = 0 /\ result[r] = NoResult
    BY DEF Init
  <2>2. QED
    BY <2>1 DEF HaltsHeld, HaltHolder, Returned, SyncKinds
<1>9. QED
  BY <1>4, <1>5, <1>6, <1>7, <1>8 DEF FlowInv

LEMMA NodeStepFlow ==
  ASSUME TypeInv, FlowInv, NEW k \in Nodes, NodeStep(k)
  PROVE  FlowInv'
<1>1. CASE NodeReturns(k) \/ RecvShutDown(k) \/ CreditShutDown(k) \/ FlushSeesHalt(k) \/ HaltCheck(k)
  BY <1>1, LeaveFlow
<1>2. CASE StartPass(k) \/ TakePreload(k) \/ RecvZone(k) \/ RecvBoundary(k)
  BY <1>2, StartFlow, TakePreloadFlow, RecvZoneFlow, RecvBoundaryFlow
<1>3. CASE RecvPoison(k) \/ RecvDone(k) \/ FlushDone(k) \/ CollectZone(k)
  BY <1>3, RecvPoisonFlow, RecvDoneFlow, FlushDoneFlow, CollectFlow
<1>4. CASE CopyZone(k) \/ SendHeader(k) \/ SendBoundary(k)
  BY <1>4, CopyFlow, SendHeaderFlow, SendBoundaryFlow
<1>5. CASE ComputeZone(k) \/ EndHead(k) \/ FinishPass(k) \/ RecordPass(k)
  BY <1>5, ComputeFlow, EndHeadFlow, FinishFlow, RecordFlow
<1>6. CASE CloseEdge(k) \/ PoisonRing(k)
  BY <1>6, CloseEdgeFlow, PoisonRingFlow
<1>7. QED
  BY <1>1, <1>2, <1>3, <1>4, <1>5, <1>6 DEF NodeStep

LEMMA NextFlow ==
  ASSUME TypeInv, FlowInv, [Next]_vars
  PROVE  FlowInv'
<1>1. CASE UNCHANGED vars
  <2>1. /\ UNCHANGED <<pc, pass, loc, chan, link, haltVars, stats, result>>
        /\ UNCHANGED <<haltKind, haltPass>>
    BY <1>1 DEF vars, nodeVars, laneVars, linkVars, endVars, haltVars
  <2>2. TypeInv' /\ MessagesFrom
    BY <1>1, <2>1, NextType, SameMessages
  <2>3. \A n \in Nodes : FlowOf(n)
    BY <2>1, NodeStays
  <2>4. \A h \in Passes : SentOf(h)' = SentOf(h)
    BY <2>1, SentSame
  <2>5. HaltsHeld'
    BY <2>1 DEF FlowInv, HaltsHeld, HaltHolder, Owner, Returned
  <2>6. QED
    BY <2>1, <2>2, <2>3, <2>4, <2>5, FlowStep
<1>2. ASSUME NEW k \in Nodes, NodeStep(k) PROVE FlowInv'
  BY <1>2, NodeStepFlow
<1>3. ASSUME NEW k \in Nodes, NodeFault(k) PROVE FlowInv'
  BY <1>3, FaultFlow
<1>4. ASSUME NEW r \in Heads, Join(r) PROVE FlowInv'
  BY <1>4, JoinFlow
<1>5. QED
  BY <1>1, <1>2, <1>3, <1>4 DEF Next, AllReturned

-----------------------------------------------------------------------------
(* What follows for the passes that fail.                                    *)

LEMMA Withheld ==
  ASSUME TypeInv, FlowInv
  PROVE  FailedPassWithholdsZone
<1> SUFFICES ASSUME NEW r \in Heads, haltKind[r] \in SyncKinds,
                    NEW h \in Passes, h >= haltPass[r], Recorded(h)
             PROVE  FALSE
  BY DEF FailedPassWithholdsZone
<1> DEFINE f == haltPass[r]
<1>1. /\ f \in Passes /\ pass[Owner(f)] = f /\ loc[Owner(f)].agg.pass = f
      /\ loc[Owner(f)].sent < N
  BY DEF FlowInv, HaltsHeld, HaltHolder
<1>2. f \in Nat \ {0} /\ h \in Nat \ {0} /\ N \in Nat
  BY <1>1, RingFacts DEF Passes
<1>3. loc[Owner(f)].sent # N /\ SentOf(f) # N
  <2>1. SentOf(f) = loc[Owner(f)].sent
    BY <1>1, <1>2 DEF SentOf
  <2>2. SentOf(f) \in Nat
    BY <1>2, SentOfType
  <2>3. QED
    BY <1>1, <1>2, <2>1, <2>2
<1> HIDE DEF f
<1>4. pass[Owner(h)] > h
  BY DEF FlowInv, RecordedIsOver
<1>5. SentOf(h) = N
  BY <1>4 DEF SentOf
<1>6. f # h
  BY <1>3, <1>5
<1>7. f < h
  BY <1>2, <1>6 DEF f
<1>8. QED
  BY <1>1, <1>3, <1>5, <1>7 DEF FlowInv, CompleteDown

LEMMA AlwaysFlow == Spec => [](TypeInv /\ FlowInv)
<1>1. Init => TypeInv /\ FlowInv
  BY InitType, InitFlow
<1>2. TypeInv /\ FlowInv /\ [Next]_vars => TypeInv' /\ FlowInv'
  BY NextType, NextFlow
<1>3. QED
  BY <1>1, <1>2, PTL DEF Spec

\* A pass whose checks fail keeps its last zone, so neither it nor a later pass
\* is ever recorded, on any rank: the node that failed stops with the zone, and
\* a node has all zones of its pass only when every earlier pass has sent its
\* own (sync_check before the last send of flush_sends).
THEOREM FailedPassStopsRing == Spec => []FailedPassWithholdsZone
<1>1. TypeInv /\ FlowInv => FailedPassWithholdsZone
  BY Withheld
<1>2. QED
  BY <1>1, AlwaysFlow, PTL

\* The pass a rank halted in is not recorded, and the steps the rank reports end
\* before it (set_halt and the prefix run() counts).
THEOREM HaltedPassIsLost == Spec => []HaltedPassUnrecorded
<1>1. TypeInv /\ FlowInv => HaltedPassUnrecorded
  <2> SUFFICES ASSUME TypeInv, FlowInv, NEW r \in Heads, haltPass[r] # 0
               PROVE  ~Recorded(haltPass[r]) /\ result[r].steps_done < haltPass[r]
    BY DEF HaltedPassUnrecorded
  <2>1. haltPass[r] \in Passes /\ pass[Owner(haltPass[r])] = haltPass[r]
    BY DEF FlowInv, HaltsHeld, HaltHolder
  <2>2. ~Recorded(haltPass[r])
    BY <2>1, RingFacts DEF FlowInv, RecordedIsOver, Passes
  <2>3. QED
    BY <2>2 DEF FlowInv, HaltsHeld
<1>2. QED
  BY <1>1, AlwaysFlow, PTL

-----------------------------------------------------------------------------
(* Data.  The zones that ended are those of the first positions in the order *)
(* in which positions end.                                                   *)

EndOrder(n) == {Order(t) : t \in 0 .. n - 1}

PlacedAt(s, h, j) == s.zone = ZoneAt(h, j) /\ s.lam = FullLambda(Lag(h + j))

\* What run_pass holds in pass h: the zones that arrived in their places, the
\* time step and the aggregates of the right passes; all is folded when synced.
HeldData(p, h) ==
  /\ \A j \in Zones : j < p.arrived => PlacedAt(p.slot[j], h, j)
  /\ p.arrived > 0 => p.dt = ScheduledDt(h)
  /\ p.arrived > ForecastPosition => p.rbuf = FullLambda(Lag(h + ForecastPosition))
  /\ p.synced => p.arrived = N /\ p.ended = Zones /\ p.agg = FullLambda(h)

\* The zones that left are among those that ended; a node at work knows which
\* ended and which of them wait.
PassEnds(p) == EndOrder(p.sent) \subseteq p.ended
WorkEnds(k) ==
  LET p == loc[k]
  IN  /\ p.ended = EndOrder(EndedCount(k))
      /\ p.pos > 0 => p.arrived > p.pos
      /\ pass[k] # Steps =>
           \A q \in 1 .. Len(p.outq) : p.outq[q] = Order(p.sent + (q - 1))

NodeData(k) ==
  /\ IF loc[k].agg.pass = 0 THEN ~loc[k].synced
     ELSE HeldData(loc[k], loc[k].agg.pass) /\ PassEnds(loc[k])
  /\ pc[k] \in AtWork => WorkEnds(k)
  /\ pc[k] = "endhead" => DeferHead
  /\ pc[k] = "record" => loc[k].synced

\* What travels is what the next pass needs at that position.
Carries(m) ==
  /\ m.pos < N /\ m.zone = ZoneAt(m.step + 1, m.pos)
  /\ m.lam = FullLambda(Lag((m.step + 1) + m.pos))
  /\ m.pos = 0 => m.dt = ScheduledDt(m.step + 1)
Carried ==
  /\ \A e \in Nodes : \A q \in 1 .. Len(chan[e]) : Carries(chan[e][q])
  /\ \A r \in Heads : \A q \in 1 .. Len(link[r]) :
       ~IsPoison(link[r][q]) => Carries(link[r][q])

RecordsExact ==
  \A h \in Passes :
    Recorded(h) => stats[h] = [dt |-> ScheduledDt(h), agg |-> FullLambda(h)]

\* Zone i ended in pass h; the history says the same.
HasEnded(h, i) ==
  \/ pass[Owner(h)] > h
  \/ loc[Owner(h)].agg.pass = h /\ \E j \in loc[Owner(h)].ended : ZoneAt(h, j) = i
LevelsMatch ==
  /\ \A i \in Zones : level[i] <= Steps
  /\ \A h \in Passes, i \in Zones : level[i] >= h <=> HasEnded(h, i)
Spread == \A i \in Zones : \A b \in Adjacent(i) : level[i] <= level[b] + 1

DataInv ==
  /\ \A k \in Nodes : NodeData(k)
  /\ Carried /\ RecordsExact /\ LevelsMatch /\ Spread

LEMMA NodeDataOf ==
  ASSUME DataInv, NEW k \in Nodes
  PROVE  NodeData(k)
BY DEF DataInv

LEMMA EndOrderFacts ==
  /\ EndOrder(0) = {} /\ EndOrder(N) = Zones
  /\ \A n \in Zones : EndOrder(n + 1) = EndOrder(n) \cup {Order(n)} /\ Order(n) \notin EndOrder(n)
  /\ \A n \in 0 .. N, m \in Nat : m <= n => EndOrder(m) \subseteq EndOrder(n)
<1>1. N \in Nat \ {0} /\ Zones = 0 .. N - 1
  BY RingFacts DEF Zones
<1>2. EndOrder(0) = {}
  BY DEF EndOrder
<1>3. EndOrder(N) = Zones
  <2>1. \A t \in 0 .. N - 1 : Order(t) \in Zones
    BY <1>1, OrderFacts
  <2>2. \A i \in Zones : Rank(i) \in 0 .. N - 1 /\ Order(Rank(i)) = i
    BY <1>1, OrderFacts
  <2>3. QED
    BY <2>1, <2>2 DEF EndOrder
<1>4. ASSUME NEW n \in Zones
      PROVE  EndOrder(n + 1) = EndOrder(n) \cup {Order(n)} /\ Order(n) \notin EndOrder(n)
  <2>1. n \in 0 .. N - 1 /\ (n + 1) - 1 = n
    BY <1>1
  <2>2. \A t : t \in 0 .. n <=> t \in 0 .. n - 1 \/ t = n
    BY <2>1
  <2>3. EndOrder(n + 1) = {Order(t) : t \in 0 .. n}
    BY <2>1 DEF EndOrder
  <2>4. EndOrder(n + 1) = EndOrder(n) \cup {Order(n)}
    BY <2>2, <2>3 DEF EndOrder
  <2>5. ASSUME NEW t \in 0 .. n - 1 PROVE Order(t) # Order(n)
    <3>1. t \in Zones /\ t # n
      BY <1>1, <2>1
    <3>2. Rank(Order(t)) = t /\ Rank(Order(n)) = n
      BY <3>1, OrderFacts
    <3>3. QED
      BY <3>1, <3>2
  <2>6. QED
    BY <2>4, <2>5 DEF EndOrder
<1>5. ASSUME NEW n \in 0 .. N, NEW m \in Nat, m <= n
      PROVE  EndOrder(m) \subseteq EndOrder(n)
  <2>1. \A t \in 0 .. m - 1 : t \in 0 .. n - 1
    BY <1>1, <1>5
  <2>2. QED
    BY <2>1 DEF EndOrder
<1>6. QED
  BY <1>2, <1>3, <1>4, <1>5

-----------------------------------------------------------------------------
(* What a step must show about the data.                                     *)

\* Every message was there before, or carries what the next pass needs.
ChanData ==
  \A e \in Nodes : \A q \in 1 .. Len(chan'[e]) :
    (\E i \in 1 .. Len(chan[e]) : chan'[e][q] = chan[e][i]) \/ Carries(chan'[e][q])
LinkData ==
  \A r \in Heads : \A q \in 1 .. Len(link'[r]) :
    \/ IsPoison(link'[r][q])
    \/ \E i \in 1 .. Len(link[r]) : link'[r][q] = link[r][i]
    \/ Carries(link'[r][q])

LEMMA SameMessageData ==
  /\ UNCHANGED chan => ChanData
  /\ UNCHANGED link => LinkData
BY DEF ChanData, LinkData

LEMMA ChanDataTaken ==
  ASSUME TypeInv, NEW e \in Nodes, chan[e] # <<>>, chan' = [chan EXCEPT ![e] = Tail(@)]
  PROVE  ChanData
<1> SUFFICES ASSUME NEW n \in Nodes, NEW q \in 1 .. Len(chan'[n])
             PROVE  \E i \in 1 .. Len(chan[n]) : chan'[n][q] = chan[n][i]
  BY DEF ChanData
<1>1. chan \in [Nodes -> Seq(Headers)]
  BY DEF TypeInv, LaneTypes
<1>2. CASE n = e
  <2>1. chan'[n] = Tail(chan[e]) /\ chan[e] \in Seq(Headers)
    BY <1>1, <1>2
  <2>2. QED
    BY <1>2, <2>1, TailElements
<1>3. CASE n # e
  <2>1. chan'[n] = chan[n]
    BY <1>1, <1>3
  <2>2. QED
    BY <2>1
<1>4. QED
  BY <1>2, <1>3

LEMMA LinkDataTaken ==
  ASSUME TypeInv, NEW r \in Heads, link[r] # <<>>, link' = [link EXCEPT ![r] = Tail(@)]
  PROVE  LinkData
<1> SUFFICES ASSUME NEW n \in Heads, NEW q \in 1 .. Len(link'[n])
             PROVE  \E i \in 1 .. Len(link[n]) : link'[n][q] = link[n][i]
  BY DEF LinkData
<1>1. link \in [Heads -> Seq(WireMessages)]
  BY DEF TypeInv, LinkTypes
<1>2. CASE n = r
  <2>1. link'[n] = Tail(link[r]) /\ link[r] \in Seq(WireMessages)
    BY <1>1, <1>2
  <2>2. QED
    BY <1>2, <2>1, TailElements
<1>3. CASE n # r
  <2>1. link'[n] = link[n]
    BY <1>1, <1>3
  <2>2. QED
    BY <2>1
<1>4. QED
  BY <1>2, <1>3

LEMMA ChanDataGiven ==
  ASSUME TypeInv, NEW e \in Nodes, NEW m \in Headers, Carries(m),
         chan' = [chan EXCEPT ![e] = Append(@, m)]
  PROVE  ChanData
<1> SUFFICES ASSUME NEW n \in Nodes, NEW q \in 1 .. Len(chan'[n])
             PROVE  (\E i \in 1 .. Len(chan[n]) : chan'[n][q] = chan[n][i])
                      \/ Carries(chan'[n][q])
  BY DEF ChanData
<1>1. chan \in [Nodes -> Seq(Headers)]
  BY DEF TypeInv, LaneTypes
<1>2. CASE n = e
  <2>1. chan'[n] = Append(chan[e], m) /\ chan[e] \in Seq(Headers)
    BY <1>1, <1>2
  <2>2. (\E i \in 1 .. Len(chan[n]) : chan'[n][q] = chan[n][i]) \/ chan'[n][q] = m
    BY <1>2, <2>1, AppendElements
  <2>3. QED
    BY <2>2 DEF Carries
<1>3. CASE n # e
  <2>1. chan'[n] = chan[n]
    BY <1>1, <1>3
  <2>2. QED
    BY <2>1
<1>4. QED
  BY <1>2, <1>3

LEMMA LinkDataGiven ==
  ASSUME TypeInv, NEW r \in Heads, NEW m \in WireMessages, Carries(m) \/ IsPoison(m),
         link' = [link EXCEPT ![r] = Append(@, m)]
  PROVE  LinkData
<1> SUFFICES ASSUME NEW n \in Heads, NEW q \in 1 .. Len(link'[n])
             PROVE  \/ IsPoison(link'[n][q])
                    \/ \E i \in 1 .. Len(link[n]) : link'[n][q] = link[n][i]
                    \/ Carries(link'[n][q])
  BY DEF LinkData
<1>1. link \in [Heads -> Seq(WireMessages)]
  BY DEF TypeInv, LinkTypes
<1>2. CASE n = r
  <2>1. link'[n] = Append(link[r], m) /\ link[r] \in Seq(WireMessages)
    BY <1>1, <1>2
  <2>2. (\E i \in 1 .. Len(link[n]) : link'[n][q] = link[n][i]) \/ link'[n][q] = m
    BY <1>2, <2>1, AppendElements
  <2>3. QED
    BY <2>2 DEF Carries, IsPoison
<1>3. CASE n # r
  <2>1. link'[n] = link[n]
    BY <1>1, <1>3
  <2>2. QED
    BY <2>1
<1>4. QED
  BY <1>2, <1>3

LEMMA DataStep ==
  ASSUME DataInv, ChanData, LinkData, \A k \in Nodes : NodeData(k)',
         UNCHANGED stats \/ RecordsExact', LevelsMatch', Spread'
  PROVE  DataInv'
<1>1. Carried'
  <2>1. ASSUME NEW e \in Nodes, NEW q \in 1 .. Len(chan'[e]) PROVE Carries(chan'[e][q])
    <3>1. CASE \E i \in 1 .. Len(chan[e]) : chan'[e][q] = chan[e][i]
      <4>1. PICK i \in 1 .. Len(chan[e]) : chan'[e][q] = chan[e][i]
        BY <3>1
      <4>2. Carries(chan[e][i])
        BY DEF DataInv, Carried
      <4>3. QED
        BY <4>1, <4>2 DEF Carries
    <3>2. QED
      BY <3>1 DEF ChanData
  <2>2. ASSUME NEW r \in Heads, NEW q \in 1 .. Len(link'[r]), ~IsPoison(link'[r][q])
        PROVE  Carries(link'[r][q])
    <3>1. CASE \E i \in 1 .. Len(link[r]) : link'[r][q] = link[r][i]
      <4>1. PICK i \in 1 .. Len(link[r]) : link'[r][q] = link[r][i]
        BY <3>1
      <4>2. ~IsPoison(link[r][i])
        BY <2>2, <4>1 DEF IsPoison
      <4>3. Carries(link[r][i])
        BY <4>2 DEF DataInv, Carried
      <4>4. QED
        BY <4>1, <4>3 DEF Carries
    <3>2. QED
      BY <2>2, <3>1 DEF LinkData
  <2>3. QED
    BY <2>1, <2>2 DEF Carried, Carries, IsPoison
<1>2. RecordsExact'
  BY DEF DataInv, RecordsExact, Recorded
<1>3. QED
  BY <1>1, <1>2 DEF DataInv

\* A step that ends no zone.
LEMMA QuietLevels ==
  ASSUME DataInv, UNCHANGED level,
         \A k \in Nodes : /\ pass'[k] = pass[k] /\ loc'[k].agg.pass = loc[k].agg.pass
                          /\ loc'[k].ended = loc[k].ended
  PROVE  LevelsMatch' /\ Spread'
<1>1. ASSUME NEW h \in Passes, NEW i \in Zones
      PROVE  HasEnded(h, i)' <=> HasEnded(h, i)
  <2>1. Owner(h) \in Nodes
    BY OwnerFacts, RingFacts DEF Passes
  <2>2. QED
    BY <2>1 DEF HasEnded, Owner
<1>2. LevelsMatch'
  BY <1>1 DEF DataInv, LevelsMatch
<1>3. Spread'
  BY DEF DataInv, Spread
<1>4. QED
  BY <1>2, <1>3

\* A node that keeps its pass, perhaps stopping in it.
LEMMA NodeDataStays ==
  ASSUME DataInv, NEW k \in Nodes, pass'[k] = pass[k], loc'[k] = loc[k],
         pc'[k] = pc[k] \/ pc'[k] \in Stopped
  PROVE  NodeData(k)'
<1>1. NodeData(k)
  BY NodeDataOf
<1>2. CASE pc'[k] = pc[k]
  <2>1. EndedCount(k)' = EndedCount(k)
    BY <1>2 DEF EndedCount
  <2>2. WorkEnds(k)' <=> WorkEnds(k)
    BY <2>1 DEF WorkEnds
  <2>3. QED
    BY <1>1, <1>2, <2>2 DEF NodeData, HeldData, PassEnds
<1>3. CASE pc'[k] \in Stopped
  <2>1. pc'[k] \notin AtWork /\ pc'[k] # "record" /\ pc'[k] # "endhead"
    BY <1>3 DEF Stopped, AtWork
  <2>2. QED
    BY <1>1, <2>1 DEF NodeData, HeldData, PassEnds
<1>4. QED
  BY <1>2, <1>3

LEMMA NodeDataNext ==
  ASSUME NEW k \in Nodes, loc'[k].agg.pass # 0,
         HeldData(loc'[k], loc'[k].agg.pass), PassEnds(loc'[k]),
         pc'[k] \in AtWork =>
           /\ loc'[k].ended = EndOrder(EndedCount(k)')
           /\ loc'[k].pos > 0 => loc'[k].arrived > loc'[k].pos
           /\ pass'[k] # Steps =>
                \A q \in 1 .. Len(loc'[k].outq) :
                  loc'[k].outq[q] = Order(loc'[k].sent + (q - 1)),
         pc'[k] = "endhead" => DeferHead,
         pc'[k] = "record" => loc'[k].synced
  PROVE  NodeData(k)'
<1>1. PassEnds(loc[k])' /\ HeldData(loc[k], loc[k].agg.pass)'
  BY DEF PassEnds, EndOrder, HeldData, PlacedAt
<1>2. pc'[k] \in AtWork => WorkEnds(k)'
  BY DEF WorkEnds, EndOrder
<1>3. QED
  BY <1>1, <1>2 DEF NodeData

\* What is known of a node at work.
LEMMA AtWorkData ==
  ASSUME TypeInv, FlowInv, DataInv, NEW k \in Nodes, pc[k] \in AtWork
  PROVE  /\ pass[k] \in Nat \ {0} /\ pass[k] \in Passes /\ Owner(pass[k]) = k
         /\ loc[k].agg.pass = pass[k] /\ loc[k] \in PassStates
         /\ HeldData(loc[k], pass[k]) /\ PassEnds(loc[k])
         /\ loc[k].ended = EndOrder(EndedCount(k))
         /\ loc[k].pos > 0 => loc[k].arrived > loc[k].pos
         /\ pass[k] # Steps =>
              \A q \in 1 .. Len(loc[k].outq) : loc[k].outq[q] = Order(loc[k].sent + (q - 1))
<1>1. /\ pass[k] \in Nat \ {0} /\ Owner(pass[k]) = k /\ pass[k] <= Steps
      /\ loc[k].agg.pass = pass[k]
  BY NodeFlow DEF PassOfNode
<1>2. pass[k] \in Passes
  BY <1>1, RingFacts DEF Passes
<1>3. NodeData(k) /\ loc[k] \in PassStates
  BY NodeDataOf, NodeFields
<1>4. loc[k].agg.pass # 0
  BY <1>1
<1>5. HeldData(loc[k], pass[k]) /\ PassEnds(loc[k]) /\ WorkEnds(k)
  BY <1>1, <1>3, <1>4 DEF NodeData
<1>6. QED
  BY <1>1, <1>2, <1>3, <1>5 DEF WorkEnds

\* A step that moves no data: nodes stay or stop.
LEMMA StopData ==
  ASSUME DataInv, ChanData, LinkData, UNCHANGED <<pass, loc, stats, level>>,
         \A n \in Nodes : pc'[n] = pc[n] \/ pc'[n] \in Stopped
  PROVE  DataInv'
<1>1. \A n \in Nodes : NodeData(n)'
  BY NodeDataStays
<1>2. LevelsMatch' /\ Spread'
  BY QuietLevels
<1>3. QED
  BY <1>1, <1>2, DataStep

\* A halt of node k.
LEMMA HaltData ==
  ASSUME TypeInv, DataInv, ChanData, LinkData, UNCHANGED <<pass, loc, stats, level>>,
         NEW k \in Nodes, NEW kind, SetHalt(k, kind)
  PROVE  DataInv'
<1>1. Goto(k, "done") \/ Goto(k, "closing")
  BY DEF SetHalt
<1>2. \A n \in Nodes : pc'[n] = pc[n] \/ pc'[n] \in Stopped
  BY <1>1 DEF Goto, TypeInv, NodeTypes, Stopped
<1>3. QED
  BY <1>2, StopData

\* A step of node k that ends no zone.
LEMMA MoveData ==
  ASSUME DataInv, ChanData, LinkData, UNCHANGED <<pass, stats, level>>, NEW k \in Nodes,
         \A n \in Nodes \ {k} : pc'[n] = pc[n] /\ loc'[n] = loc[n],
         loc'[k].agg.pass = loc[k].agg.pass, loc'[k].ended = loc[k].ended, NodeData(k)'
  PROVE  DataInv'
<1>1. \A n \in Nodes : NodeData(n)'
  BY NodeDataStays
<1>2. LevelsMatch' /\ Spread'
  BY QuietLevels
<1>3. QED
  BY <1>1, <1>2, DataStep

\* A node at work that goes on without a change of its data.
LEMMA WorkDataKept ==
  ASSUME TypeInv, FlowInv, DataInv, NEW k \in Nodes, pc[k] \in AtWork,
         pc'[k] \notin {"record", "endhead"},
         pass'[k] = pass[k], SameData(loc'[k], loc[k]),
         loc'[k].ended = loc[k].ended, loc'[k].agg = loc[k].agg,
         loc'[k].sent = loc[k].sent, loc'[k].synced = loc[k].synced,
         loc'[k].arrived = loc[k].arrived, loc'[k].pos = loc[k].pos,
         EndedCount(k)' = EndedCount(k),
         pass[k] # Steps => loc'[k].outq = loc[k].outq
  PROVE  NodeData(k)'
<1>1. /\ loc[k].agg.pass = pass[k] /\ pass[k] # 0
      /\ HeldData(loc[k], pass[k]) /\ PassEnds(loc[k])
      /\ loc[k].ended = EndOrder(EndedCount(k))
      /\ loc[k].pos > 0 => loc[k].arrived > loc[k].pos
      /\ pass[k] # Steps =>
           \A q \in 1 .. Len(loc[k].outq) : loc[k].outq[q] = Order(loc[k].sent + (q - 1))
  BY AtWorkData
<1>2. HeldData(loc'[k], loc'[k].agg.pass) /\ PassEnds(loc'[k])
  BY <1>1 DEF HeldData, PlacedAt, PassEnds, SameData
<1>3. QED
  BY <1>1, <1>2, NodeDataNext

-----------------------------------------------------------------------------
(* The actions, each with DataInv kept.                                      *)

LEMMA LeaveData ==
  ASSUME TypeInv, DataInv, NEW k \in Nodes,
         NodeReturns(k) \/ RecvShutDown(k) \/ CreditShutDown(k) \/ FlushSeesHalt(k)
           \/ HaltCheck(k)
  PROVE  DataInv'
<1>1. /\ Goto(k, "done")
      /\ UNCHANGED <<pass, loc, laneVars, linkVars, endVars, level>>
  BY DEF NodeReturns, RecvShutDown, CreditShutDown, FlushSeesHalt, HaltCheck
<1>2. UNCHANGED <<pass, loc, chan, link, stats, level>>
  BY <1>1 DEF laneVars, linkVars, endVars
<1>3. \A n \in Nodes : pc'[n] = pc[n] \/ pc'[n] \in Stopped
  BY <1>1 DEF Goto, TypeInv, NodeTypes, Stopped
<1>4. QED
  BY <1>2, <1>3, SameMessageData, StopData

LEMMA CloseEdgeData ==
  ASSUME TypeInv, DataInv, NEW k \in Nodes, CloseEdge(k)
  PROVE  DataInv'
<1>1. UNCHANGED <<pass, loc, chan, link, stats, level>>
  BY DEF CloseEdge, linkVars, endVars
<1>2. \E point \in {"closing", "poison", "done"} : Goto(k, point)
  BY DEF CloseEdge
<1>3. \A n \in Nodes : pc'[n] = pc[n] \/ pc'[n] \in Stopped
  BY <1>2 DEF Goto, TypeInv, NodeTypes, Stopped
<1>4. QED
  BY <1>1, <1>3, SameMessageData, StopData

LEMMA RecvPoisonData ==
  ASSUME TypeInv, DataInv, NEW k \in Nodes, RecvPoison(k)
  PROVE  DataInv'
<1>1. /\ EdgeRecvPoison(RankOf(k)) /\ SetHalt(k, "Ring")
      /\ UNCHANGED <<pass, loc, chan, stats, level>>
  BY DEF RecvPoison, laneVars, endVars
<1>2. LinkData
  BY <1>1, RankFacts, PoisonTaken DEF LinkData, LinkOnlyPoison
<1>3. QED
  BY <1>1, <1>2, SameMessageData, HaltData

LEMMA PoisonRingData ==
  ASSUME TypeInv, DataInv, NEW k \in Nodes, PoisonRing(k)
  PROVE  DataInv'
<1>1. /\ Goto(k, "done") /\ EdgePoison(RankOf(k), BlankMessage)
      /\ UNCHANGED <<pass, loc, chan, stats, level>>
  BY DEF PoisonRing, laneVars, endVars
<1>2. \A n \in Nodes : pc'[n] = pc[n] \/ pc'[n] \in Stopped
  BY <1>1 DEF Goto, TypeInv, NodeTypes, Stopped
<1>3. LinkData
  <2>1. CASE UNCHANGED linkVars
    BY <2>1, SameMessageData DEF linkVars
  <2>2. CASE ~UNCHANGED linkVars
    <3> DEFINE m == PoisonWith(BlankMessage, Ranks - 1)
    <3>1. link' = [link EXCEPT ![NextRank(RankOf(k))] = Append(@, m)]
      BY <1>1, <2>2 DEF EdgePoison
    <3>2. m \in WireMessages /\ IsPoison(m)
      BY RanksType, BlankMessageType, PoisonIs
    <3>3. NextRank(RankOf(k)) \in Heads
      BY RankFacts, NextRankType
    <3> HIDE DEF m
    <3>4. QED
      BY <3>1, <3>2, <3>3, LinkDataGiven
  <2>3. QED
    BY <2>1, <2>2
<1>4. QED
  BY <1>1, <1>2, <1>3, SameMessageData, StopData

LEMMA StartData ==
  ASSUME TypeInv, FlowInv, DataInv, NEW k \in Nodes, StartPass(k)
  PROVE  DataInv'
<1>1. /\ pc[k] = "loop" /\ pass[k] <= Steps
      /\ UNCHANGED <<pass, chan, link, stats, level>>
      /\ loc'[k] = FreshPass(pass[k]) /\ pc'[k] = "io"
      /\ \A n \in Nodes \ {k} : pc'[n] = pc[n] /\ loc'[n] = loc[n]
  BY StartPassType DEF StartPass, laneVars, linkVars, endVars
<1>2. /\ pass[k] \in Nat \ {0} /\ Owner(pass[k]) = k /\ loc[k].agg.pass < pass[k]
      /\ loc[k].agg.pass \in Nat
  BY <1>1, NodeFlow, NodeFields, PassFields DEF PassOfNode
<1>3. /\ loc'[k].agg.pass = pass[k] /\ loc'[k].ended = {} /\ loc'[k].arrived = 0
      /\ loc'[k].sent = 0 /\ loc'[k].pos = 0 /\ loc'[k].outq = <<>>
      /\ loc'[k].synced = FALSE
  BY <1>1 DEF FreshPass
<1>4. NodeData(k)'
  <2>1. HeldData(loc'[k], loc'[k].agg.pass)
    <3>1. \A j \in Zones : ~(j < loc'[k].arrived)
      BY <1>3, RingFacts DEF Zones
    <3>2. ForecastPosition \in Nat
      BY DEF ForecastPosition
    <3>3. ~(loc'[k].arrived > 0) /\ ~(loc'[k].arrived > ForecastPosition)
      BY <1>3, <3>2
    <3>4. QED
      BY <1>3, <3>1, <3>3 DEF HeldData
  <2>2. PassEnds(loc'[k])
    BY <1>3, EndOrderFacts DEF PassEnds
  <2>3. EndedCount(k)' = 0
    BY <1>1, <1>3 DEF EndedCount
  <2>4. \A q \in 1 .. Len(loc'[k].outq) : FALSE
    BY <1>3
  <2>5. EndOrder(EndedCount(k)') = {}
    BY <2>3, EndOrderFacts
  <2>6. loc'[k].agg.pass # 0 /\ ~(loc'[k].pos > 0)
    BY <1>2, <1>3
  <2>7. QED
    BY <1>1, <1>3, <2>1, <2>2, <2>4, <2>5, <2>6, NodeDataNext
<1>5. ASSUME NEW h \in Passes, NEW i \in Zones
      PROVE  HasEnded(h, i)' <=> HasEnded(h, i)
  <2>1. Owner(h) \in Nodes /\ h \in Nat \ {0}
    BY OwnerFacts, RingFacts DEF Passes
  <2>2. CASE Owner(h) # k
    BY <1>1, <2>1, <2>2 DEF HasEnded, Owner
  <2>3. CASE Owner(h) = k
    <3>1. HasEnded(h, i) <=> pass[k] > h
      BY <1>2, <2>1, <2>3 DEF HasEnded
    <3>2. HasEnded(h, i)' <=> pass'[k] > h
      BY <1>3, <2>1, <2>3 DEF HasEnded, Owner
    <3>3. QED
      BY <1>1, <3>1, <3>2
  <2>4. QED
    BY <2>2, <2>3
<1>6. LevelsMatch' /\ Spread'
  BY <1>1, <1>5 DEF DataInv, LevelsMatch, Spread
<1>7. \A n \in Nodes : NodeData(n)'
  BY <1>1, <1>4, NodeDataStays
<1>8. QED
  BY <1>1, <1>6, <1>7, SameMessageData, DataStep

\* What an arrival does to the data of the pass.
LEMMA ArriveMoves ==
  ASSUME TypeInv, NEW k \in Nodes, AwaitsArrival(k), NEW s \in SlotIds,
         NEW fsm \in ZoneRecords, NEW lam \in Lambdas, NEW dt \in TimeSteps,
         Arrive(k, s, fsm, lam, dt), UNCHANGED <<pc, pass>>
  PROVE  /\ \A n \in Nodes \ {k} : loc'[n] = loc[n]
         /\ loc'[k].arrived = loc[k].arrived + 1
         /\ loc'[k].pos = loc[k].pos
         /\ loc'[k].outq = loc[k].outq /\ loc'[k].sent = loc[k].sent
         /\ loc'[k].agg = loc[k].agg /\ loc'[k].synced = loc[k].synced
         /\ loc'[k].ended = loc[k].ended
         /\ loc'[k].dt = IF loc[k].arrived = 0 THEN dt ELSE loc[k].dt
         /\ loc'[k].rbuf = IF loc[k].arrived = ForecastPosition THEN lam ELSE loc[k].rbuf
         /\ \A j \in Zones : j # loc[k].arrived => loc'[k].slot[j] = loc[k].slot[j]
         /\ loc'[k].slot[loc[k].arrived].zone = ZoneAt(pass[k], loc[k].arrived)
         /\ loc'[k].slot[loc[k].arrived].lam = lam
BY ArriveEffect

\* An arrival of what the pass needs at that position.
LEMMA ArriveData ==
  ASSUME TypeInv, FlowInv, DataInv, ChanData, LinkData, NEW k \in Nodes, AwaitsArrival(k),
         NEW s \in SlotIds, NEW fsm \in ZoneRecords, NEW lam \in Lambdas,
         NEW dt \in TimeSteps, Arrive(k, s, fsm, lam, dt),
         UNCHANGED <<pc, pass, stats, level>>,
         lam = FullLambda(Lag(pass[k] + loc[k].arrived)),
         loc[k].arrived = 0 => dt = ScheduledDt(pass[k])
  PROVE  DataInv'
<1> DEFINE a == loc[k].arrived
           h == pass[k]
<1>1. /\ \A n \in Nodes \ {k} : loc'[n] = loc[n]
      /\ loc'[k].arrived = a + 1
      /\ loc'[k].pos = loc[k].pos
      /\ loc'[k].outq = loc[k].outq /\ loc'[k].sent = loc[k].sent
      /\ loc'[k].agg = loc[k].agg /\ loc'[k].synced = loc[k].synced
      /\ loc'[k].ended = loc[k].ended
      /\ loc'[k].dt = IF a = 0 THEN dt ELSE loc[k].dt
      /\ loc'[k].rbuf = IF a = ForecastPosition THEN lam ELSE loc[k].rbuf
      /\ \A j \in Zones : j # a => loc'[k].slot[j] = loc[k].slot[j]
      /\ loc'[k].slot[a].zone = ZoneAt(h, a)
      /\ loc'[k].slot[a].lam = lam
  BY ArriveMoves
<1>2. pc[k] = "io" /\ pc[k] \in AtWork /\ a \in Zones /\ a \in Nat /\ a < N /\ N \in Nat
  BY AwaitedIsZone, RingFacts DEF AtWork, Zones
<1>3. /\ loc[k].agg.pass = h /\ h \in Nat \ {0}
      /\ HeldData(loc[k], h) /\ PassEnds(loc[k])
      /\ loc[k].ended = EndOrder(EndedCount(k))
      /\ loc[k].pos > 0 => loc[k].arrived > loc[k].pos
      /\ pass[k] # Steps =>
           \A q \in 1 .. Len(loc[k].outq) : loc[k].outq[q] = Order(loc[k].sent + (q - 1))
  BY <1>2, AtWorkData
<1>4. ~loc[k].synced
  BY <1>2, <1>3 DEF HeldData
<1>5. ForecastPosition \in Nat
  BY DEF ForecastPosition
<1>6. loc[k].pos \in Nat
  BY NodeFields, PassFields, RingFacts DEF Zones
<1>7. HeldData(loc'[k], h)
  <2>1. ASSUME NEW j \in Zones, j < a + 1 PROVE PlacedAt(loc'[k].slot[j], h, j)
    <3>1. CASE j = a
      BY <1>1, <3>1 DEF PlacedAt
    <3>2. CASE j # a
      <4>1. j < a
        BY <1>2, <2>1, <3>2, RingFacts DEF Zones
      <4>2. PlacedAt(loc[k].slot[j], h, j)
        BY <1>3, <4>1 DEF HeldData
      <4>3. QED
        BY <1>1, <3>2, <4>2
    <3>3. QED
      BY <3>1, <3>2
  <2>2. loc'[k].dt = ScheduledDt(h)
    <3>1. CASE a = 0
      BY <1>1, <3>1
    <3>2. CASE a # 0
      <4>1. a > 0
        BY <1>2, <3>2
      <4>2. QED
        BY <1>1, <1>3, <3>2, <4>1 DEF HeldData
    <3>3. QED
      BY <3>1, <3>2
  <2>3. a + 1 > ForecastPosition => loc'[k].rbuf = FullLambda(Lag(h + ForecastPosition))
    <3>1. CASE a = ForecastPosition
      BY <1>1, <3>1
    <3>2. CASE a # ForecastPosition
      <4>1. a + 1 > ForecastPosition => a > ForecastPosition
        BY <1>2, <1>5, <3>2
      <4>2. QED
        BY <1>1, <1>3, <3>2, <4>1 DEF HeldData
    <3>3. QED
      BY <3>1, <3>2
  <2>4. QED
    BY <1>1, <1>4, <2>1, <2>2, <2>3 DEF HeldData
<1>8. PassEnds(loc'[k])
  BY <1>1, <1>3 DEF PassEnds
<1>9. EndedCount(k)' = EndedCount(k)
  BY <1>1 DEF EndedCount
<1>10. loc'[k].pos > 0 => loc'[k].arrived > loc'[k].pos
  BY <1>1, <1>2, <1>3, <1>6
<1>11. pc'[k] \notin {"endhead", "record"} /\ loc'[k].agg.pass = h /\ h # 0
  BY <1>1, <1>2, <1>3
<1> HIDE DEF h
<1>12. NodeData(k)'
  BY <1>1, <1>3, <1>7, <1>8, <1>9, <1>10, <1>11, NodeDataNext
<1>13. QED
  BY <1>1, <1>12, MoveData

LEMMA TakePreloadData ==
  ASSUME TypeInv, FlowInv, DataInv, NEW k \in Nodes, TakePreload(k)
  PROVE  DataInv'
<1>1. /\ AwaitsArrival(k) /\ pass[k] = 1
      /\ UNCHANGED <<pass, chan, link, stats, level>>
  BY DEF TakePreload, Preloads, laneVars, linkVars, endVars
<1>2. ChanData /\ LinkData
  BY <1>1, SameMessageData
<1>3. CASE reserve = <<>>
  <2>1. SetHalt(k, "Logic") /\ UNCHANGED loc
    BY <1>3 DEF TakePreload
  <2>2. QED
    BY <1>1, <1>2, <2>1, HaltData
<1>4. CASE reserve # <<>>
  <2> DEFINE fsm == [FreeZone EXCEPT !.type = InitialZoneType(1)]
  <2>1. Head(reserve) \in SlotIds
    BY <1>4 DEF TypeInv, PoolTypes
  <2>2. fsm \in ZoneRecords
    BY FreeZoneType DEF InitialZoneType, ZoneRecords, ZoneTypes
  <2>3. FullLambda(0) \in Lambdas /\ DtInitial \in TimeSteps
    BY LambdaTypes
  <2>4. Arrive(k, Head(reserve), fsm, FullLambda(0), DtInitial) /\ UNCHANGED pc
    BY <1>4 DEF TakePreload
  <2>5. Lag(pass[k] + loc[k].arrived) = 0
    <3>1. loc[k].arrived \in 0 .. N - 1 /\ N \in Nat
      BY <1>1, AwaitedIsZone, RingFacts DEF Zones
    <3>2. QED
      BY <1>1, <3>1 DEF Lag
  <2>6. ScheduledDt(pass[k]) = DtInitial
    BY <1>1 DEF ScheduledDt
  <2> HIDE DEF fsm
  <2>7. QED
    BY <1>1, <1>2, <2>1, <2>2, <2>3, <2>4, <2>5, <2>6, ArriveData
<1>5. QED
  BY <1>3, <1>4

\* What arrives in order carries what its position needs.
LEMMA InOrderCarries ==
  ASSUME TypeInv, NEW k \in Nodes, NEW m, InOrder(k, m), Carries(m), pass[k] \in Nat \ {0}
  PROVE  /\ m.lam = FullLambda(Lag(pass[k] + loc[k].arrived))
         /\ loc[k].arrived = 0 => m.dt = ScheduledDt(pass[k])
<1>1. m.step = pass[k] - 1 /\ m.pos = loc[k].arrived
  BY DEF InOrder
<1>2. m.step + 1 = pass[k]
  BY <1>1
<1>3. QED
  BY <1>1, <1>2 DEF Carries

LEMMA RecvZoneData ==
  ASSUME TypeInv, FlowInv, DataInv, NEW k \in Nodes, RecvZone(k)
  PROVE  DataInv'
<1> DEFINE e == InEdge(k)
           m == Head(chan[e])
           fsm == Apply(FreeZone, "RECV")
<1>0. e \in Nodes
  BY EdgesAreNodes
<1>1. /\ AwaitsArrival(k) /\ chan[e] # <<>>
      /\ chan' = [chan EXCEPT ![e] = Tail(@)]
      /\ UNCHANGED <<pass, link, stats, level>>
  BY DEF RecvZone, linkVars, endVars
<1> HIDE DEF e
<1>2. ChanData /\ LinkData
  BY <1>0, <1>1, ChanDataTaken, SameMessageData
<1>3. CASE ~InOrder(k, m)
  <2>1. SetHalt(k, "Logic") /\ UNCHANGED loc
    BY <1>3 DEF RecvZone, e
  <2>2. QED
    BY <1>1, <1>2, <2>1, HaltData
<1>4. CASE InOrder(k, m)
  <2>1. m.slot \in SlotIds /\ m.lam \in Lambdas /\ m.dt \in TimeSteps
    BY <1>0, <1>1, HeadersArrive
  <2>2. fsm \in ZoneRecords
    BY FreeZoneType, ApplyType DEF ZoneEvents
  <2>3. Arrive(k, m.slot, fsm, m.lam, m.dt) /\ UNCHANGED pc
    BY <1>4 DEF RecvZone, e
  <2>4. Carries(m)
    <3>1. chan[e] \in Seq(Headers)
      BY <1>0 DEF TypeInv, LaneTypes
    <3>2. 1 \in 1 .. Len(chan[e]) /\ m = chan[e][1]
      BY <1>1, <3>1, HeadElement
    <3>3. Carries(chan[e][1])
      BY <1>0, <3>2 DEF DataInv, Carried
    <3> HIDE DEF m
    <3>4. QED
      BY <3>2, <3>3, Zenon
  <2> HIDE DEF fsm, m
  <2>5. pass[k] \in Nat \ {0}
    BY NodeFlow DEF PassOfNode
  <2>6. /\ m.lam = FullLambda(Lag(pass[k] + loc[k].arrived))
        /\ loc[k].arrived = 0 => m.dt = ScheduledDt(pass[k])
    BY <1>4, <2>4, <2>5, InOrderCarries
  <2> DEFINE s == m.slot
             lam == m.lam
             dt == m.dt
  <2>7. s \in SlotIds /\ lam \in Lambdas /\ dt \in TimeSteps /\ Arrive(k, s, fsm, lam, dt)
        /\ lam = FullLambda(Lag(pass[k] + loc[k].arrived))
        /\ (loc[k].arrived = 0 => dt = ScheduledDt(pass[k]))
    BY <2>1, <2>3, <2>6
  <2> HIDE DEF s, lam, dt
  <2>8. QED
    BY <1>1, <1>2, <2>2, <2>3, <2>7, ArriveData
<1>5. QED
  BY <1>3, <1>4

LEMMA RecvBoundaryData ==
  ASSUME TypeInv, FlowInv, DataInv, NEW k \in Nodes, RecvBoundary(k)
  PROVE  DataInv'
<1> DEFINE r == RankOf(k)
           m == Head(link[r])
           fsm == Apply(FreeZone, "RECV")
<1>0. r \in Heads
  BY RankFacts
<1>1. /\ AwaitsArrival(k) /\ HasZone(r)
      /\ link' = [link EXCEPT ![r] = Tail(@)]
      /\ UNCHANGED <<pass, chan, stats, level>>
  BY DEF RecvBoundary, EdgeRecv, laneVars, endVars
<1> HIDE DEF r
<1>2. ChanData /\ LinkData
  BY <1>0, <1>1, LinkDataTaken, SameMessageData DEF HasZone
<1>3. CASE ~(InOrder(k, m) /\ bfree[k] # <<>>)
  <2>1. SetHalt(k, "Logic") /\ UNCHANGED loc
    BY <1>3 DEF RecvBoundary, r
  <2>2. QED
    BY <1>1, <1>2, <2>1, HaltData
<1>4. CASE InOrder(k, m) /\ bfree[k] # <<>>
  <2>1. m.lam \in Lambdas /\ m.dt \in TimeSteps /\ Head(bfree[k]) \in SlotIds
    <3>1. m \in WireMessages
      BY <1>0, <1>1, LinkHead
    <3>2. bfree[k] \in Seq(SlotIds)
      BY DEF TypeInv, PoolTypes
    <3>3. QED
      BY <1>4, <3>1, <3>2 DEF WireMessages
  <2>2. fsm \in ZoneRecords
    BY FreeZoneType, ApplyType DEF ZoneEvents
  <2>3. Arrive(k, Head(bfree[k]), fsm, m.lam, m.dt) /\ UNCHANGED pc
    BY <1>4 DEF RecvBoundary, r
  <2>4. Carries(m)
    <3>1. link[r] \in Seq(WireMessages) /\ link[r] # <<>>
      BY <1>0, <1>1 DEF TypeInv, LinkTypes, HasZone
    <3>2. 1 \in 1 .. Len(link[r]) /\ m = link[r][1]
      BY <3>1, HeadElement
    <3>3. ~IsPoison(link[r][1])
      BY <1>1, <3>2 DEF HasZone, IsPoison
    <3>4. Carries(link[r][1])
      BY <1>0, <3>2, <3>3 DEF DataInv, Carried
    <3> HIDE DEF m
    <3>5. QED
      BY <3>2, <3>4, Zenon
  <2> HIDE DEF fsm, m
  <2>5. pass[k] \in Nat \ {0}
    BY NodeFlow DEF PassOfNode
  <2>6. /\ m.lam = FullLambda(Lag(pass[k] + loc[k].arrived))
        /\ loc[k].arrived = 0 => m.dt = ScheduledDt(pass[k])
    BY <1>4, <2>4, <2>5, InOrderCarries
  <2> DEFINE s == Head(bfree[k])
             lam == m.lam
             dt == m.dt
  <2>7. s \in SlotIds /\ lam \in Lambdas /\ dt \in TimeSteps /\ Arrive(k, s, fsm, lam, dt)
        /\ lam = FullLambda(Lag(pass[k] + loc[k].arrived))
        /\ (loc[k].arrived = 0 => dt = ScheduledDt(pass[k]))
    BY <2>1, <2>3, <2>6
  <2> HIDE DEF s, lam, dt
  <2>8. QED
    BY <1>1, <1>2, <2>2, <2>3, <2>7, ArriveData
<1>5. QED
  BY <1>3, <1>4

LEMMA OpDoneData ==
  ASSUME TypeInv, FlowInv, DataInv, NEW k \in Nodes, pc[k] = "io", Goto(k, NextOp(k)),
         CurrentOp(k) = "SEND" \/ loc[k].arrived > LastNeeded(loc[k].pos),
         loc' = [loc EXCEPT ![k].op = 2],
         UNCHANGED <<pass, laneVars, poolVars, dev, haltVars, linkVars, endVars, level>>
  PROVE  DataInv'
<1>1. /\ pc'[k] \in {"io", "compute"}
      /\ loc'[k] = [loc[k] EXCEPT !.op = 2]
      /\ \A n \in Nodes \ {k} : pc'[n] = pc[n] /\ loc'[n] = loc[n]
  BY OpDoneType
<1>2. loc[k] \in PassStates
  BY NodeFields
<1>3. /\ loc'[k].pos = loc[k].pos /\ loc'[k].outq = loc[k].outq
      /\ loc'[k].sent = loc[k].sent /\ loc'[k].agg = loc[k].agg
      /\ loc'[k].synced = loc[k].synced /\ loc'[k].arrived = loc[k].arrived
  BY <1>1, <1>2 DEF PassStates
<1>4. SameData(loc'[k], loc[k]) /\ loc'[k].ended = loc[k].ended
  <2>1. /\ loc'[k].slot = loc[k].slot /\ loc'[k].dt = loc[k].dt
        /\ loc'[k].rbuf = loc[k].rbuf /\ loc'[k].ended = loc[k].ended
    BY <1>1, <1>2 DEF PassStates
  <2>2. QED
    BY <2>1 DEF SameData
<1>5. UNCHANGED <<pass, chan, link, stats, level>>
  BY DEF laneVars, linkVars, endVars
<1>6. pc[k] \in AtWork /\ pc'[k] \notin {"record", "endhead"}
  BY <1>1 DEF AtWork
<1>7. EndedCount(k)' = EndedCount(k)
  BY <1>1, <1>3 DEF EndedCount
<1>8. NodeData(k)'
  BY <1>3, <1>4, <1>5, <1>6, <1>7, WorkDataKept
<1>9. QED
  BY <1>1, <1>3, <1>4, <1>5, <1>8, SameMessageData, MoveData

LEMMA FlushDoneData ==
  ASSUME TypeInv, FlowInv, DataInv, NEW k \in Nodes, FlushDone(k)
  PROVE  DataInv'
<1>1. /\ Flushing(k) /\ loc[k].outq = <<>>
      /\ UNCHANGED <<pass, laneVars, poolVars, dev, haltVars, linkVars, endVars, level>>
  BY DEF FlushDone
<1>2. CASE pc[k] = "flush"
  <2>1. /\ loc' = loc /\ pc'[k] = "finish" /\ \A n \in Nodes \ {k} : pc'[n] = pc[n]
        /\ UNCHANGED <<pass, chan, link, stats, level>>
    BY <1>1, <1>2 DEF FlushDone, Goto, TypeInv, NodeTypes, laneVars, linkVars, endVars
  <2>2. pc[k] \in AtWork /\ pc'[k] \notin {"record", "endhead"}
    BY <1>2, <2>1 DEF AtWork
  <2>3. EndedCount(k)' = EndedCount(k)
    BY <1>2, <2>1 DEF EndedCount
  <2>4. SameData(loc'[k], loc[k])
    BY <2>1 DEF SameData
  <2>5. NodeData(k)'
    BY <2>1, <2>2, <2>3, <2>4, WorkDataKept
  <2>6. QED
    BY <2>1, <2>5, SameMessageData, MoveData
<1>3. CASE pc[k] # "flush"
  <2>1. pc[k] = "io" /\ CurrentOp(k) = "SEND" /\ Goto(k, NextOp(k)) /\ loc' = [loc EXCEPT ![k].op = 2]
    BY <1>1, <1>3 DEF FlushDone, Flushing
  <2>2. QED
    BY <1>1, <2>1, OpDoneData
<1>4. QED
  BY <1>2, <1>3

LEMMA RecvDoneData ==
  ASSUME TypeInv, FlowInv, DataInv, NEW k \in Nodes, RecvDone(k)
  PROVE  DataInv'
BY OpDoneData DEF RecvDone

\* The last pass keeps its zones; which of them still wait does not matter.
LEMMA CollectData ==
  ASSUME TypeInv, FlowInv, DataInv, NEW k \in Nodes, CollectZone(k)
  PROVE  DataInv'
<1>1. /\ Flushing(k) /\ pass[k] = Steps /\ loc' = [loc EXCEPT ![k].outq = Tail(@)]
      /\ UNCHANGED <<pc, pass, chan, link, stats, level>>
  BY DEF CollectZone, linkVars
<1>2. /\ loc'[k].sent = loc[k].sent /\ loc'[k].agg = loc[k].agg
      /\ loc'[k].arrived = loc[k].arrived /\ loc'[k].synced = loc[k].synced
      /\ \A n \in Nodes \ {k} : loc'[n] = loc[n]
  BY CollectZoneType
<1>3. loc[k] \in PassStates /\ loc'[k] = [loc[k] EXCEPT !.outq = Tail(@)]
  BY <1>1, NodeFields DEF TypeInv, NodeTypes
<1>4. loc'[k].pos = loc[k].pos /\ loc'[k].ended = loc[k].ended
  BY <1>3 DEF PassStates
<1>5. SameData(loc'[k], loc[k])
  <2>1. loc'[k].slot = loc[k].slot /\ loc'[k].dt = loc[k].dt /\ loc'[k].rbuf = loc[k].rbuf
    BY <1>3 DEF PassStates
  <2>2. QED
    BY <2>1 DEF SameData
<1>6. pc[k] \in AtWork /\ pc'[k] \notin {"record", "endhead"}
  BY <1>1 DEF Flushing, AtWork
<1>7. EndedCount(k)' = EndedCount(k)
  BY <1>1, <1>4 DEF EndedCount
<1>8. NodeData(k)'
  BY <1>1, <1>2, <1>4, <1>5, <1>6, <1>7, WorkDataKept
<1>9. QED
  BY <1>1, <1>2, <1>4, <1>8, SameMessageData, MoveData

LEMMA CopyData ==
  ASSUME TypeInv, FlowInv, DataInv, NEW k \in Nodes, CopyZone(k)
  PROVE  DataInv'
<1>1. Sending(k) /\ UNCHANGED <<pass, chan, link, stats, level>>
  BY DEF CopyZone, linkVars, endVars
<1>2. pc[k] \in AtWork /\ pc[k] \notin {"record", "endhead"}
  BY <1>1 DEF Sending, Flushing, AtWork
<1>3. ChanData /\ LinkData
  BY <1>1, SameMessageData
<1>4. CASE SetHalt(k, "Logic") /\ UNCHANGED loc
  BY <1>1, <1>3, <1>4, HaltData
<1>5. CASE ~(SetHalt(k, "Logic") /\ UNCHANGED loc)
  <2>1. /\ UNCHANGED pc
        /\ \E s \in SlotIds : loc'[k] = [loc[k] EXCEPT !.dst = s]
        /\ \A n \in Nodes \ {k} : loc'[n] = loc[n]
    BY <1>5, CopyZoneEffect
  <2>2. loc[k] \in PassStates
    BY NodeFields
  <2>3. /\ loc'[k].pos = loc[k].pos /\ loc'[k].outq = loc[k].outq
        /\ loc'[k].sent = loc[k].sent /\ loc'[k].agg = loc[k].agg
        /\ loc'[k].synced = loc[k].synced /\ loc'[k].arrived = loc[k].arrived
    BY <2>1, <2>2 DEF PassStates
  <2>4. loc'[k].ended = loc[k].ended /\ SameData(loc'[k], loc[k])
    <3>1. /\ loc'[k].slot = loc[k].slot /\ loc'[k].dt = loc[k].dt
          /\ loc'[k].rbuf = loc[k].rbuf /\ loc'[k].ended = loc[k].ended
      BY <2>1, <2>2 DEF PassStates
    <3>2. QED
      BY <3>1 DEF SameData
  <2>5. EndedCount(k)' = EndedCount(k)
    BY <2>1, <2>3 DEF EndedCount
  <2>6. NodeData(k)'
    BY <1>1, <1>2, <2>1, <2>3, <2>4, <2>5, WorkDataKept
  <2>7. QED
    BY <1>1, <1>3, <2>1, <2>3, <2>4, <2>6, MoveData
<1>6. QED
  BY <1>4, <1>5

LEMMA FaultData ==
  ASSUME TypeInv, FlowInv, DataInv, NEW k \in Nodes, NodeFault(k)
  PROVE  DataInv'
<1>1. UNCHANGED <<pass, loc, chan, link, stats, level>>
  BY DEF NodeFault, laneVars, linkVars, endVars
<1>2. PICK kind \in FaultsAt(k) : Fail(k, kind)
  BY DEF NodeFault
<1>3. ChanData /\ LinkData
  BY <1>1, SameMessageData
<1>4. CASE kind = "Spawn"
  <2>1. SpawnFails(k)
    BY <1>2, <1>4 DEF Fail
  <2>2. \A n \in Nodes : pc'[n] = pc[n] \/ pc'[n] \in Stopped
    BY <2>1 DEF SpawnFails, Stopped
  <2>3. QED
    BY <1>1, <1>3, <2>2, StopData
<1>5. CASE kind # "Spawn"
  <2>1. SetHalt(k, kind)
    BY <1>2, <1>5 DEF Fail
  <2>2. QED
    BY <1>1, <1>3, <2>1, HaltData
<1>6. QED
  BY <1>4, <1>5

LEMMA JoinData ==
  ASSUME DataInv, NEW r \in Heads, Join(r)
  PROVE  DataInv'
<1>1. UNCHANGED <<pc, pass, loc, chan, link, stats, level>>
  BY DEF Join, nodeVars, laneVars, linkVars
<1>2. QED
  BY <1>1, SameMessageData, StopData

-----------------------------------------------------------------------------
(* The end of a zone.  All the zones it needs have arrived, so all of them   *)
(* ended in the pass before; and it is a step of the stencil.                *)

Advances(z) ==
  /\ level[z] < Steps
  /\ \A b \in Adjacent(z) : level[b] \in {level[z], level[z] + 1}
  /\ level' = [level EXCEPT ![z] = @ + 1]

\* What arrived in a pass ended in the one before.
LEMMA LevelBelow ==
  ASSUME TypeInv, FlowInv, DataInv, NEW k \in Nodes, pc[k] \in AtWork,
         NEW b \in Zones, b < loc[k].arrived
  PROVE  level[ZoneAt(pass[k], b)] >= pass[k] - 1
<1> DEFINE h == pass[k]
           g == h - 1
           i == ZoneAt(h, b)
<1>1. /\ h \in Nat \ {0} /\ h \in Passes /\ loc[k].agg.pass = h /\ h <= Steps
  BY AtWorkData DEF Passes
<1>2. i \in Zones /\ level[i] \in Nat
  BY <1>1, ZoneAtForm DEF TypeInv, LevelType
<1>3. CASE h = 1
  BY <1>2, <1>3
<1>4. CASE h # 1
  <2>1. g \in Nat \ {0} /\ g \in Passes /\ h > 1 /\ g + 1 = h
    BY <1>1, <1>4, RingFacts DEF Passes
  <2> HIDE DEF g
  <2>2. loc[k].arrived <= SentOf(g)
    <3>1. loc[k].agg.pass > 1 => loc[k].arrived <= SentOf(loc[k].agg.pass - 1)
      BY NodeFlow DEF Arrived
    <3>2. QED
      BY <1>1, <2>1, <3>1 DEF g
  <2>3. Owner(g) \in Nodes /\ SentOf(g) \in 0 .. N
    BY <2>1, SentOfType
  <2>4. b \in Nat /\ loc[k].arrived \in Nat /\ N \in Nat
    BY NodeFields, PassFields, RingFacts DEF Zones
  <2>5. b < SentOf(g) /\ SentOf(g) # 0
    BY <2>2, <2>3, <2>4
  <2>6. HasEnded(g, i)
    <3>1. CASE pass[Owner(g)] > g
      BY <3>1 DEF HasEnded
    <3>2. CASE ~(pass[Owner(g)] > g)
      <4>1. loc[Owner(g)].agg.pass = g /\ b < loc[Owner(g)].sent
        BY <2>5, <3>2 DEF SentOf
      <4>2. PassEnds(loc[Owner(g)])
        BY <2>1, <2>3, <4>1, NodeDataOf DEF NodeData
      <4>3. loc[Owner(g)].sent \in Nat
        BY <2>3, NodeFields, PassFields
      <4>4. b \in 0 .. loc[Owner(g)].sent - 1
        BY <2>4, <4>1, <4>3
      <4>5. Order(b) \in loc[Owner(g)].ended
        BY <4>2, <4>4 DEF PassEnds, EndOrder
      <4>6. ZoneAt(g, Order(b)) = i
        BY <2>1, HandOver
      <4>7. QED
        BY <4>1, <4>5, <4>6 DEF HasEnded
    <3>3. QED
      BY <3>1, <3>2
  <2>7. level[i] >= g
    BY <1>2, <2>1, <2>6 DEF DataInv, LevelsMatch
  <2>8. QED
    BY <2>7 DEF g
<1>5. QED
  BY <1>3, <1>4

LEMMA EndZone ==
  ASSUME TypeInv, FlowInv, DataInv, NEW k \in Nodes, pc[k] \in AtWork,
         NEW j \in Zones, j \notin loc[k].ended, j < loc[k].arrived,
         \A b \in Zones : Beside(j, b) => b < loc[k].arrived,
         UNCHANGED pass, \A n \in Nodes \ {k} : loc'[n] = loc[n],
         loc'[k].agg = loc[k].agg, loc'[k].ended = loc[k].ended \cup {j},
         level' = [level EXCEPT ![loc[k].slot[j].zone] = pass[k]]
  PROVE  LevelsMatch' /\ Spread' /\ \E z \in Zones : Advances(z)
<1> DEFINE h == pass[k]
           z == ZoneAt(h, j)
<1>1. /\ h \in Nat \ {0} /\ h \in Passes /\ Owner(h) = k /\ loc[k].agg.pass = h
      /\ h <= Steps /\ HeldData(loc[k], h) /\ Steps \in Nat /\ loc[k].ended \subseteq Zones
  BY AtWorkData, RingFacts, PassFields DEF Passes
<1>2. z \in Zones /\ loc[k].slot[j].zone = z
  BY <1>1, ZoneAtForm DEF HeldData, PlacedAt
<1>3. level \in [Zones -> Nat] /\ level' = [level EXCEPT ![z] = h]
  BY <1>2 DEF TypeInv, LevelType
<1>4. /\ \A g \in Passes, i \in Zones : level[i] >= g <=> HasEnded(g, i)
      /\ \A i \in Zones : level[i] <= Steps
      /\ \A i \in Zones : \A b \in Adjacent(i) : level[i] <= level[b] + 1
  BY DEF DataInv, LevelsMatch, Spread
<1>5. ~HasEnded(h, z)
  <2>1. ASSUME NEW i \in loc[k].ended, ZoneAt(h, i) = z PROVE FALSE
    <3>1. i = j
      BY <1>1, <2>1, ZoneAtInjective
    <3>2. QED
      BY <2>1, <3>1
  <2>2. QED
    BY <1>1, <2>1 DEF HasEnded
<1>6. level[z] = h - 1
  <2>1. level[z] >= h - 1
    BY LevelBelow
  <2>2. ~(level[z] >= h)
    BY <1>1, <1>2, <1>4, <1>5
  <2> HIDE DEF z
  <2>3. level[z] \in Nat
    BY <1>2, <1>3
  <2>4. QED
    BY <1>1, <2>1, <2>2, <2>3
<1>7. ASSUME NEW b \in Adjacent(z) PROVE b \in Zones /\ level[b] \in {h - 1, h}
  <2>1. b \in Zones /\ z \in Adjacent(b)
    BY <1>2, AdjacentFacts
  <2>2. PICK i \in Zones : ZoneAt(h, i) = b
    BY <1>1, <2>1, ZoneAtOnto
  <2>3. Beside(j, i)
    BY <1>1, <2>2, AdjacentPositions
  <2>4. level[b] >= h - 1
    BY <2>2, <2>3, LevelBelow
  <2>5. level[b] <= level[z] + 1
    BY <1>4, <2>1
  <2> HIDE DEF z
  <2>6. level[b] \in Nat /\ level[b] <= h
    BY <1>1, <1>3, <1>6, <2>1, <2>5
  <2>7. QED
    BY <1>1, <2>1, <2>4, <2>6
<1>8. ASSUME NEW g \in Passes, NEW i \in Zones
      PROVE  level'[i] >= g <=> HasEnded(g, i)'
  <2>1. g \in Nat \ {0} /\ Owner(g) \in Nodes
    BY OwnerFacts, RingFacts DEF Passes
  <2>2. HasEnded(g, i)' <=>
          \/ pass[Owner(g)] > g
          \/ loc'[Owner(g)].agg.pass = g /\ \E q \in loc'[Owner(g)].ended : ZoneAt(g, q) = i
    BY DEF HasEnded, Owner
  <2>3. HasEnded(g, i) <=>
          \/ pass[Owner(g)] > g
          \/ loc[Owner(g)].agg.pass = g /\ \E q \in loc[Owner(g)].ended : ZoneAt(g, q) = i
    BY DEF HasEnded
  <2>4. level[i] >= g <=> HasEnded(g, i)
    BY <1>4
  <2>5. HasEnded(g, i)' <=> HasEnded(g, i) \/ (g = h /\ i = z)
    <3>1. CASE Owner(g) # k
      <4>1. g # h
        BY <1>1, <3>1
      <4>2. loc'[Owner(g)] = loc[Owner(g)]
        BY <2>1, <3>1
      <4> HIDE DEF z, h
      <4>3. QED
        BY <2>2, <2>3, <4>1, <4>2
    <3>2. CASE Owner(g) = k
      <4>1. loc'[k].agg.pass = h
        BY <1>1
      <4>2. (\E q \in loc'[k].ended : ZoneAt(g, q) = i)
              <=> (\E q \in loc[k].ended : ZoneAt(g, q) = i) \/ ZoneAt(g, j) = i
        OBVIOUS
      <4>3. HasEnded(g, i)' <=>
              \/ h > g
              \/ h = g /\ ((\E q \in loc[k].ended : ZoneAt(g, q) = i) \/ ZoneAt(g, j) = i)
        BY <2>2, <3>2, <4>1, <4>2
      <4>4. HasEnded(g, i) <=>
              h > g \/ (h = g /\ \E q \in loc[k].ended : ZoneAt(g, q) = i)
        BY <1>1, <2>3, <3>2
      <4>5. QED
        BY <4>3, <4>4
    <3>3. QED
      BY <3>1, <3>2
  <2> HIDE DEF z, h
  <2>6. CASE i = z
    <3>1. level'[i] = h
      BY <1>2, <1>3, <2>6
    <3>2. level[i] = h - 1 
      BY <1>6, <2>6
    <3>3. QED
      BY <1>1, <2>1, <2>4, <2>5, <2>6, <3>1, <3>2
  <2>7. CASE i # z
    BY <1>3, <2>4, <2>5, <2>7
  <2>8. QED
    BY <2>6, <2>7
<1> HIDE DEF z, h
<1>9. LevelsMatch'
  <2>1. \A i \in Zones : level'[i] <= Steps
    BY <1>1, <1>3, <1>4
  <2>2. QED
    BY <1>8, <2>1 DEF LevelsMatch
<1>10. Spread'
  <2>1. ASSUME NEW i \in Zones, NEW b \in Adjacent(i) PROVE level'[i] <= level'[b] + 1
    <3>1. b \in Zones /\ i \in Adjacent(b)
      BY AdjacentFacts
    <3>2. level[i] \in Nat /\ level[b] \in Nat /\ level[i] <= level[b] + 1
      BY <1>3, <1>4, <3>1
    <3>3. CASE i = z
      <4>1. level[b] \in {h - 1, h}
        BY <1>7, <3>3
      <4>2. level'[i] = h
        BY <1>2, <1>3, <3>3
      <4>3. level'[b] = IF b = z THEN h ELSE level[b]
        BY <1>3, <3>1
      <4>4. QED
        BY <1>1, <4>1, <4>2, <4>3
    <3>4. CASE i # z
      <4>1. level'[i] = level[i]
        BY <1>3, <3>4
      <4>2. level'[b] = IF b = z THEN h ELSE level[b]
        BY <1>3, <3>1
      <4>3. b = z => level[b] = h - 1
        BY <1>6
      <4>4. QED
        BY <1>1, <3>2, <4>1, <4>2, <4>3
    <3>5. QED
      BY <3>3, <3>4
  <2>2. QED
    BY <2>1 DEF Spread
<1>11. Advances(z)
  <2>1. level[z] + 1 = h /\ level[z] < Steps
    BY <1>1, <1>6
  <2>2. \A b \in Adjacent(z) : level[b] \in {level[z], level[z] + 1}
    BY <1>6, <1>7, <2>1
  <2>3. level' = [level EXCEPT ![z] = @ + 1]
    BY <1>2, <1>3, <2>1
  <2>4. QED
    BY <2>1, <2>2, <2>3 DEF Advances
<1>12. QED
  BY <1>2, <1>9, <1>10, <1>11

\* A queue that grows by the position that ends next stays in order.
LEMMA QueueGrows ==
  ASSUME NEW s \in Seq(Zones), NEW sent \in Nat, NEW j \in Zones,
         \A q \in 1 .. Len(s) : s[q] = Order(sent + (q - 1)), j = Order(sent + Len(s))
  PROVE  \A q \in 1 .. Len(Append(s, j)) : Append(s, j)[q] = Order(sent + (q - 1))
<1>1. /\ Len(s) \in Nat /\ Len(Append(s, j)) = Len(s) + 1
      /\ \A q \in 1 .. Len(s) : Append(s, j)[q] = s[q]
      /\ Append(s, j)[Len(s) + 1] = j
  BY AppendProperties, LenProperties
<1>2. \A q \in 1 .. Len(s) + 1 : q \in 1 .. Len(s) \/ q = Len(s) + 1
  BY <1>1
<1>3. (Len(s) + 1) - 1 = Len(s)
  BY <1>1
<1>4. QED
  BY <1>1, <1>2, <1>3

LEMMA ComputeData ==
  ASSUME TypeInv, FlowInv, DataInv, NEW k \in Nodes, ComputeZone(k)
  PROVE  DataInv' /\ (UNCHANGED level \/ \E z \in Zones : Advances(z))
<1> DEFINE j == loc[k].pos
           h == pass[k]
<1>1. /\ pc[k] = "compute" /\ pc[k] \in AtWork /\ UNCHANGED <<pass, chan, link, stats>>
  BY DEF ComputeZone, AtWork, laneVars, linkVars, endVars
<1>2. ChanData /\ LinkData
  BY <1>1, SameMessageData
<1>3. CASE SetHalt(k, "Logic") /\ UNCHANGED <<loc, level>>
  BY <1>1, <1>2, <1>3, HaltData
<1>4. CASE ~(SetHalt(k, "Logic") /\ UNCHANGED <<loc, level>>)
  <2>1. /\ \A n \in Nodes \ {k} : pc'[n] = pc[n] /\ loc'[n] = loc[n]
        /\ SameData(loc'[k], loc[k])
        /\ loc'[k].ended = IF HeldBack(j) THEN loc[k].ended ELSE loc[k].ended \cup {j}
        /\ level' = IF HeldBack(j) THEN level
                    ELSE [level EXCEPT ![loc[k].slot[j].zone] = h]
        /\ loc'[k].sent = loc[k].sent /\ loc'[k].agg = loc[k].agg
        /\ loc'[k].arrived = loc[k].arrived /\ loc'[k].synced = loc[k].synced
        /\ loc'[k].pos = IF j + 1 < N THEN j + 1 ELSE j
        /\ loc'[k].outq = IF HeldBack(j) THEN loc[k].outq ELSE Append(loc[k].outq, j)
        /\ pc'[k] = IF IsTail(j) /\ ~HeldBack(j) THEN "endhead" ELSE AfterPosition(loc[k])
    BY <1>4, ComputeEffect
  <2>2. /\ h \in Nat \ {0} /\ h \in Passes /\ loc[k].agg.pass = h
        /\ HeldData(loc[k], h) /\ PassEnds(loc[k])
        /\ loc[k].ended = EndOrder(EndedCount(k))
        /\ h # Steps =>
             \A q \in 1 .. Len(loc[k].outq) : loc[k].outq[q] = Order(loc[k].sent + (q - 1))
    BY <1>1, AtWorkData
  <2>3. j \in 0 .. N - 1 /\ N \in Nat \ {0} /\ loc[k].outq \in Seq(Zones) /\ j \in Zones
        /\ loc[k].sent \in Nat /\ loc[k].arrived \in 0 .. N /\ Zones = 0 .. N - 1
    BY NodeFields, PassFields, RingFacts DEF Zones
  <2>4. loc[k].arrived > LastNeeded(j)
    BY <1>1, NodeFields DEF Progress, Received
  <2>5. h # Steps => loc[k].sent + Len(loc[k].outq) = EndedCount(k)
    BY <1>1, NodeFlow DEF Counts
  <2>6. EndedCount(k) = IF DeferHead /\ j > 0 THEN j - 1 ELSE j
    BY <1>1 DEF EndedCount
  <2>7. AfterPosition(loc[k]) = IF j + 1 < N THEN "io" ELSE "flush"
    BY DEF AfterPosition
  <2>8. EndedCount(k)' = IF pc'[k] = "io"
                           THEN IF DeferHead /\ loc'[k].pos > 0 THEN loc'[k].pos - 1
                                ELSE loc'[k].pos
                         ELSE IF pc'[k] = "endhead" THEN N - 1 ELSE N
    BY <2>1, <2>7 DEF EndedCount
  <2>9. pc'[k] \notin {"record"} /\ (pc'[k] = "endhead" => DeferHead)
    BY <2>1, <2>7 DEF IsTail
  <2> HIDE DEF j, h
  <2>10. DeferHead => N > 1
    BY DEF DeferHead
  <2>11. loc'[k].pos > 0 => loc'[k].arrived > loc'[k].pos
    BY <2>1, <2>3, <2>4 DEF LastNeeded
  <2>12. CASE HeldBack(j)
    <3>1. j = 0 /\ DeferHead /\ N > 1
      BY <2>10, <2>12 DEF HeldBack
    <3>2. loc'[k].pos = 1 /\ pc'[k] = "io"
      BY <2>1, <2>3, <2>7, <2>12, <3>1
    <3>3. EndedCount(k)' = 0 /\ EndedCount(k) = 0
      BY <2>6, <2>8, <3>1, <3>2
    <3>4. loc'[k].outq = loc[k].outq /\ loc'[k].ended = loc[k].ended /\ UNCHANGED level
      BY <2>1, <2>12
    <3>5. HeldData(loc'[k], h) /\ PassEnds(loc'[k])
      BY <2>1, <2>2, <3>4 DEF HeldData, PlacedAt, PassEnds, SameData
    <3>6. NodeData(k)'
      BY <1>1, <2>1, <2>2, <2>9, <2>11, <3>3, <3>4, <3>5, NodeDataNext DEF h
    <3>7. QED
      BY <1>1, <1>2, <2>1, <3>4, <3>6, MoveData
  <2>13. CASE ~HeldBack(j)
    <3> DEFINE c == EndedCount(k)
    <3>1. c \in Zones /\ j = Order(c)
      BY <2>3, <2>6, <2>10, <2>13 DEF HeldBack, Order
    <3>2. EndedCount(k)' = c + 1
      <4>1. CASE IsTail(j)
        <5>1. DeferHead /\ j = N - 1 /\ N > 1 /\ pc'[k] = "endhead"
          BY <2>1, <2>10, <2>13, <4>1 DEF IsTail
        <5>2. QED
          BY <2>3, <2>6, <2>8, <5>1
      <4>2. CASE ~IsTail(j) /\ j + 1 < N
        <5>1. pc'[k] = "io" /\ loc'[k].pos = j + 1
          BY <2>1, <2>7, <4>2
        <5>2. QED
          BY <2>3, <2>6, <2>8, <2>13, <5>1 DEF HeldBack
      <4>3. CASE ~IsTail(j) /\ ~(j + 1 < N)
        <5>1. j = N - 1 /\ ~DeferHead
          BY <2>3, <4>3 DEF IsTail
        <5>2. pc'[k] = "flush"
          BY <2>1, <2>7, <4>3
        <5>3. QED
          BY <2>3, <2>6, <2>8, <5>1, <5>2
      <4>4. QED
        BY <4>1, <4>2, <4>3
    <3> HIDE DEF c
    <3>3. EndOrder(c + 1) = EndOrder(c) \cup {j} /\ j \notin EndOrder(c)
      BY <3>1, EndOrderFacts
    <3>4. loc[k].ended = EndOrder(c) /\ loc'[k].ended = EndOrder(EndedCount(k)')
      BY <2>1, <2>2, <2>13, <3>2, <3>3 DEF c
    <3>5. j \notin loc[k].ended /\ loc'[k].ended = loc[k].ended \cup {j}
      BY <2>1, <2>13, <3>3, <3>4
    <3>6. HeldData(loc'[k], h) /\ PassEnds(loc'[k])
      <4>1. ~loc[k].synced
        BY <2>2, <2>3, <3>5 DEF HeldData
      <4>2. HeldData(loc'[k], h)
        BY <2>1, <2>2, <4>1 DEF HeldData, PlacedAt, SameData
      <4>3. PassEnds(loc'[k])
        BY <2>1, <2>2, <3>5 DEF PassEnds
      <4>4. QED
        BY <4>2, <4>3
    <3>7. h # Steps => \A q \in 1 .. Len(loc'[k].outq) :
                         loc'[k].outq[q] = Order(loc'[k].sent + (q - 1))
      <4> SUFFICES ASSUME h # Steps
                   PROVE  \A q \in 1 .. Len(loc'[k].outq) :
                            loc'[k].outq[q] = Order(loc'[k].sent + (q - 1))
        OBVIOUS
      <4>1. loc'[k].outq = Append(loc[k].outq, j) /\ loc'[k].sent = loc[k].sent
        BY <2>1, <2>13
      <4>2. j = Order(loc[k].sent + Len(loc[k].outq))
        BY <2>5, <3>1 DEF c
      <4>3. \A q \in 1 .. Len(Append(loc[k].outq, j)) :
              Append(loc[k].outq, j)[q] = Order(loc[k].sent + (q - 1))
        BY <2>2, <2>3, <4>2, QueueGrows
      <4>4. QED
        BY <4>1, <4>3
    <3>8. NodeData(k)'
      BY <1>1, <2>1, <2>2, <2>9, <2>11, <3>4, <3>6, <3>7, NodeDataNext DEF h
    <3>9. j < loc[k].arrived /\ \A b \in Zones : Beside(j, b) => b < loc[k].arrived
      <4>1. j < loc[k].arrived
        BY <2>3, <2>4 DEF LastNeeded
      <4>2. ASSUME NEW b \in Zones, Beside(j, b) PROVE b < loc[k].arrived
        <5>1. b \in 0 .. N - 1
          BY <2>3
        <5>2. CASE DeferHead /\ {j, b} = {0, N - 1}
          <6>1. j # 0
            BY <2>13, <5>2 DEF HeldBack
          <6>2. b = 0
            BY <5>2, <6>1
          <6>3. QED
            BY <2>3, <4>1, <6>2
        <5>3. CASE b = j + 1 \/ b = j - 1
          BY <2>3, <2>4, <5>1, <5>3 DEF LastNeeded
        <5>4. QED
          BY <2>3, <4>2, <5>1, <5>2, <5>3 DEF Beside
      <4>3. QED
        BY <4>1, <4>2
    <3>10. level' = [level EXCEPT ![loc[k].slot[j].zone] = pass[k]]
      BY <2>1, <2>13 DEF h
    <3>11. LevelsMatch' /\ Spread' /\ \E z \in Zones : Advances(z)
      BY <1>1, <2>1, <2>3, <3>5, <3>9, <3>10, EndZone
    <3>12. \A n \in Nodes : NodeData(n)'
      BY <1>1, <2>1, <3>8, NodeDataStays
    <3>13. DataInv'
      BY <1>1, <1>2, <3>11, <3>12, DataStep
    <3>14. QED
      BY <3>11, <3>13
  <2>14. QED
    BY <2>12, <2>13
<1>5. QED
  BY <1>3, <1>4

LEMMA EndHeadData ==
  ASSUME TypeInv, FlowInv, DataInv, NEW k \in Nodes, EndHead(k)
  PROVE  DataInv' /\ (UNCHANGED level \/ \E z \in Zones : Advances(z))
<1> DEFINE h == pass[k]
<1>1. /\ pc[k] = "endhead" /\ pc[k] \in AtWork /\ UNCHANGED <<pass, chan, link, stats>>
  BY DEF EndHead, AtWork, laneVars, linkVars, endVars
<1>2. ChanData /\ LinkData
  BY <1>1, SameMessageData
<1>3. CASE SetHalt(k, "Logic") /\ UNCHANGED <<loc, level>>
  BY <1>1, <1>2, <1>3, HaltData
<1>4. CASE ~(SetHalt(k, "Logic") /\ UNCHANGED <<loc, level>>)
  <2>1. /\ \A n \in Nodes \ {k} : pc'[n] = pc[n] /\ loc'[n] = loc[n]
        /\ SameData(loc'[k], loc[k]) /\ loc'[k].ended = loc[k].ended \cup {0}
        /\ level' = [level EXCEPT ![loc[k].slot[0].zone] = h]
        /\ loc'[k].sent = loc[k].sent /\ loc'[k].agg = loc[k].agg
        /\ loc'[k].arrived = loc[k].arrived /\ loc'[k].synced = loc[k].synced
        /\ loc'[k].pos = loc[k].pos /\ loc'[k].outq = Append(loc[k].outq, 0)
        /\ pc'[k] = "flush"
    BY <1>4, EndHeadEffect
  <2>2. /\ h \in Nat \ {0} /\ h \in Passes /\ loc[k].agg.pass = h
        /\ HeldData(loc[k], h) /\ PassEnds(loc[k])
        /\ loc[k].ended = EndOrder(EndedCount(k))
        /\ loc[k].pos > 0 => loc[k].arrived > loc[k].pos
        /\ h # Steps =>
             \A q \in 1 .. Len(loc[k].outq) : loc[k].outq[q] = Order(loc[k].sent + (q - 1))
    BY <1>1, AtWorkData
  <2>3. N \in Nat \ {0} /\ loc[k].outq \in Seq(Zones) /\ 0 \in Zones /\ loc[k].sent \in Nat
        /\ Zones = 0 .. N - 1 /\ N - 1 \in Zones
    BY NodeFields, PassFields, RingFacts DEF Zones
  <2>4. loc[k].arrived = N
    BY <1>1, NodeFields DEF Progress, AtTheEnd
  <2>5. DeferHead
    BY <1>1, NodeDataOf DEF NodeData
  <2>6. EndedCount(k) = N - 1 /\ EndedCount(k)' = N
    BY <1>1, <2>1 DEF EndedCount
  <2>7. h # Steps => loc[k].sent + Len(loc[k].outq) = N - 1
    BY <1>1, <2>6, NodeFlow DEF Counts
  <2> HIDE DEF h
  <2>8. Order(N - 1) = 0
    BY <2>3, <2>5 DEF Order
  <2>9. EndOrder(N) = EndOrder(N - 1) \cup {0} /\ 0 \notin EndOrder(N - 1)
    <3>1. (N - 1) + 1 = N
      BY <2>3
    <3>2. QED
      BY <2>3, <2>8, <3>1, EndOrderFacts
  <2>10. 0 \notin loc[k].ended /\ loc'[k].ended = EndOrder(EndedCount(k)')
    BY <2>1, <2>2, <2>6, <2>9
  <2>11. HeldData(loc'[k], h) /\ PassEnds(loc'[k])
    <3>1. ~loc[k].synced
      BY <2>2, <2>3, <2>10 DEF HeldData
    <3>2. HeldData(loc'[k], h)
      BY <2>1, <2>2, <3>1 DEF HeldData, PlacedAt, SameData
    <3>3. PassEnds(loc'[k])
      BY <2>1, <2>2 DEF PassEnds
    <3>4. QED
      BY <3>2, <3>3
  <2>12. h # Steps => \A q \in 1 .. Len(loc'[k].outq) :
                        loc'[k].outq[q] = Order(loc'[k].sent + (q - 1))
    <3> SUFFICES ASSUME h # Steps
                 PROVE  \A q \in 1 .. Len(loc'[k].outq) :
                          loc'[k].outq[q] = Order(loc'[k].sent + (q - 1))
      OBVIOUS
    <3>1. 0 = Order(loc[k].sent + Len(loc[k].outq))
      BY <2>7, <2>8
    <3>2. \A q \in 1 .. Len(Append(loc[k].outq, 0)) :
            Append(loc[k].outq, 0)[q] = Order(loc[k].sent + (q - 1))
      BY <2>2, <2>3, <3>1, QueueGrows
    <3>3. QED
      BY <2>1, <3>2
  <2>13. pc'[k] \notin {"endhead", "record"} /\ (loc'[k].pos > 0 => loc'[k].arrived > loc'[k].pos)
    BY <2>1, <2>2
  <2>14. NodeData(k)'
    BY <1>1, <2>1, <2>2, <2>10, <2>11, <2>12, <2>13, NodeDataNext DEF h
  <2>15. 0 < loc[k].arrived /\ \A b \in Zones : Beside(0, b) => b < loc[k].arrived
    BY <2>3, <2>4
  <2>16. level' = [level EXCEPT ![loc[k].slot[0].zone] = pass[k]]
    BY <2>1 DEF h
  <2>17. LevelsMatch' /\ Spread' /\ \E z \in Zones : Advances(z)
    BY <1>1, <2>1, <2>3, <2>10, <2>15, <2>16, EndZone
  <2>18. \A n \in Nodes : NodeData(n)'
    BY <1>1, <2>1, <2>14, NodeDataStays
  <2>19. DataInv'
    BY <1>1, <1>2, <2>17, <2>18, DataStep
  <2>20. QED
    BY <2>17, <2>19
<1>5. QED
  BY <1>3, <1>4

\* All zones of a pass folded.
LEMMA FoldedIsFull ==
  ASSUME NEW p \in PassStates, NEW h \in Nat \ {0}, p.agg.pass = h,
         HeldData(p, h), p.arrived = N, p.ended = Zones
  PROVE  Synced(p).agg = FullLambda(h)
<1>1. \A j \in Zones : p.slot[j].zone = ZoneAt(h, j)
  <2>1. \A j \in Zones : j < N
    BY RingFacts DEF Zones
  <2>2. QED
    BY <2>1 DEF HeldData, PlacedAt
<1>2. {p.slot[j].zone : j \in p.ended} = {ZoneAt(h, j) : j \in Zones}
  BY <1>1
<1>3. {ZoneAt(h, j) : j \in Zones} = Zones
  BY ZoneAtOnto, ZoneAtForm
<1>4. Synced(p).agg.pass = h /\ Synced(p).agg.zones = Zones /\ Synced(p) \in PassStates
  BY <1>2, <1>3, SyncedIs
<1>5. Synced(p).agg \in Lambdas
  BY <1>4, PassFields
<1>6. QED
  BY <1>4, <1>5 DEF Lambdas, FullLambda

\* The end of the wait of the first in the queue.
LEMMA QueueShrinks ==
  ASSUME NEW s \in Seq(Zones), s # <<>>, NEW sent \in Nat,
         \A q \in 1 .. Len(s) : s[q] = Order(sent + (q - 1))
  PROVE  \A q \in 1 .. Len(Tail(s)) : Tail(s)[q] = Order((sent + 1) + (q - 1))
<1>1. /\ Len(s) \in Nat \ {0} /\ Len(Tail(s)) = Len(s) - 1
      /\ \A q \in 1 .. Len(Tail(s)) : Tail(s)[q] = s[q + 1]
  BY HeadTailProperties, EmptySeq
<1>2. \A q \in 1 .. Len(Tail(s)) : q + 1 \in 1 .. Len(s) /\ sent + ((q + 1) - 1) = (sent + 1) + (q - 1)
  BY <1>1
<1>3. QED
  BY <1>1, <1>2

\* What is known of the zone that leaves: it ended, the one behind it arrived,
\* and with the last one the pass is folded.
LEMMA SendingFacts ==
  ASSUME TypeInv, FlowInv, DataInv, NEW k \in Nodes, Sending(k)
  PROVE  /\ loc[k].sent + 1 <= EndedCount(k) /\ EndedCount(k) \in 0 .. N
         /\ loc[k].sent \in Nat /\ loc[k].sent < N /\ loc[k].arrived > 0
         /\ loc[k].sent + 1 < N => loc[k].sent + 1 < loc[k].arrived
         /\ LastOfPass(loc[k]) =>
              /\ loc[k].arrived = N /\ loc[k].ended = Zones
              /\ ReadyToSend(loc[k]).agg = FullLambda(pass[k])
<1>1. loc[k].outq # <<>> /\ pass[k] # Steps /\ Flushing(k)
  BY DEF Sending
<1>2. pc[k] \in {"io", "flush"} /\ pc[k] \in AtWork
  BY <1>1 DEF Flushing, AtWork
<1>3. /\ pass[k] \in Nat \ {0} /\ loc[k].agg.pass = pass[k]
      /\ loc[k] \in PassStates /\ HeldData(loc[k], pass[k])
      /\ loc[k].ended = EndOrder(EndedCount(k))
      /\ loc[k].pos > 0 => loc[k].arrived > loc[k].pos
  BY <1>2, AtWorkData
<1>4. /\ Len(loc[k].outq) \in Nat \ {0} /\ loc[k].sent \in Nat /\ loc[k].pos \in 0 .. N - 1
      /\ N \in Nat \ {0} /\ loc[k].arrived \in 0 .. N
  BY <1>1, OutgoingFacts, NodeFields, PassFields, RingFacts DEF Zones
<1>5. loc[k].sent + Len(loc[k].outq) = EndedCount(k)
  BY <1>1, <1>2, NodeFlow DEF Counts
<1>6. /\ EndedCount(k) \in 0 .. N
      /\ EndedCount(k) = N => pc[k] = "flush"
      /\ pc[k] = "io" => EndedCount(k) <= loc[k].pos
  BY <1>2, <1>4 DEF EndedCount
<1>7. loc[k].sent + 1 <= EndedCount(k)
  BY <1>4, <1>5
<1>8. pc[k] = "flush" => loc[k].arrived = N
  BY NodeFields DEF Progress, AtTheEnd
<1>9. loc[k].sent < N
  BY <1>4, <1>6, <1>7
<1>10. loc[k].arrived > 0 /\ (loc[k].sent + 1 < N => loc[k].sent + 1 < loc[k].arrived)
  <2>1. CASE pc[k] = "flush"
    BY <1>4, <1>8, <2>1
  <2>2. CASE pc[k] = "io"
    <3>1. /\ EndedCount(k) <= loc[k].pos /\ EndedCount(k) \in Int
          /\ loc[k].pos \in Int /\ loc[k].sent \in Nat /\ loc[k].arrived \in Int
      BY <1>4, <1>6, <2>2
    <3>2. \A s \in Nat : \A c, q \in Int : s + 1 <= c /\ c <= q => q > 0 /\ s + 1 <= q
      OBVIOUS
    <3>3. loc[k].pos > 0 /\ loc[k].sent + 1 <= loc[k].pos
      BY <1>7, <3>1, <3>2
    <3>4. loc[k].arrived > loc[k].pos
      BY <1>3, <3>3
    <3>5. \A s \in Nat : \A a, q \in Int : q > 0 /\ s + 1 <= q /\ a > q => a > 0 /\ s + 1 < a
      OBVIOUS
    <3>6. QED
      BY <3>1, <3>3, <3>4, <3>5
  <2>3. QED
    BY <1>2, <2>1, <2>2
<1>11. ASSUME LastOfPass(loc[k])
       PROVE  /\ loc[k].arrived = N /\ loc[k].ended = Zones
              /\ ReadyToSend(loc[k]).agg = FullLambda(pass[k])
  <2>1. EndedCount(k) = N
    BY <1>4, <1>6, <1>7, <1>11 DEF LastOfPass
  <2>2. loc[k].arrived = N
    BY <1>6, <1>8, <2>1
  <2>3. loc[k].ended = Zones
    BY <1>3, <2>1, EndOrderFacts
  <2>4. ReadyToSend(loc[k]) = Synced(loc[k])
    BY <1>11 DEF ReadyToSend
  <2>5. Synced(loc[k]).agg = FullLambda(pass[k])
    BY <1>3, <2>2, <2>3, FoldedIsFull
  <2>6. QED
    BY <2>2, <2>3, <2>4, <2>5
<1>12. QED
  BY <1>4, <1>6, <1>7, <1>9, <1>10, <1>11

LEMMA SendingData ==
  ASSUME TypeInv, FlowInv, DataInv, NEW k \in Nodes, Sending(k),
         UNCHANGED <<pc, pass>>,
         loc' = [loc EXCEPT ![k] = SentPass(ReadyToSend(loc[k]))]
  PROVE  /\ NodeData(k)' /\ \A n \in Nodes \ {k} : loc'[n] = loc[n]
         /\ loc'[k].agg.pass = loc[k].agg.pass /\ loc'[k].ended = loc[k].ended
<1> DEFINE h == pass[k]
           p == loc[k]
           u == loc'[k]
<1>1. loc[k].outq # <<>> /\ pc[k] \in AtWork /\ pc[k] \notin {"endhead", "record"}
  BY DEF Sending, Flushing, AtWork
<1>2. /\ h \in Nat \ {0} /\ p.agg.pass = h /\ p \in PassStates
      /\ HeldData(p, h) /\ PassEnds(p)
      /\ p.ended = EndOrder(EndedCount(k))
      /\ p.pos > 0 => p.arrived > p.pos
      /\ h # Steps => \A q \in 1 .. Len(p.outq) : p.outq[q] = Order(p.sent + (q - 1))
  BY <1>1, AtWorkData
<1>3. /\ \A n \in Nodes \ {k} : loc'[n] = loc[n]
      /\ u.outq = Tail(p.outq) /\ u.sent = p.sent + 1
      /\ u.pos = p.pos /\ u.arrived = p.arrived
      /\ u.agg.pass = p.agg.pass
      /\ SameData(u, p) /\ u.ended = p.ended
      /\ u.agg = ReadyToSend(p).agg /\ u.synced = ReadyToSend(p).synced
  BY <1>1, SentStep
<1>4. /\ p.sent + 1 <= EndedCount(k) /\ EndedCount(k) \in 0 .. N /\ p.sent \in Nat
      /\ LastOfPass(p) => p.arrived = N /\ p.ended = Zones /\ u.agg = FullLambda(h)
  BY <1>3, SendingFacts
<1>5. ~LastOfPass(p) => u.agg = p.agg /\ u.synced = p.synced
  BY <1>3 DEF ReadyToSend
<1>6. p.outq \in Seq(Zones)
  BY <1>2, PassFields
<1>7. EndedCount(k)' = EndedCount(k)
  BY <1>3 DEF EndedCount
<1> HIDE DEF h, p, u
<1>8. HeldData(u, h)
  <2>1. u.synced => u.arrived = N /\ u.ended = Zones /\ u.agg = FullLambda(h)
    BY <1>2, <1>3, <1>4, <1>5 DEF HeldData
  <2>2. QED
    BY <1>2, <1>3, <2>1 DEF HeldData, PlacedAt, SameData
<1>9. PassEnds(u)
  <2>1. EndOrder(p.sent + 1) \subseteq EndOrder(EndedCount(k))
    BY <1>4, EndOrderFacts
  <2>2. QED
    BY <1>2, <1>3, <2>1 DEF PassEnds
<1>10. h # Steps => \A q \in 1 .. Len(u.outq) : u.outq[q] = Order(u.sent + (q - 1))
  BY <1>1, <1>2, <1>3, <1>4, <1>6, QueueShrinks DEF p
<1>11. NodeData(k)'
  <2>1. loc'[k].agg.pass # 0 /\ HeldData(loc'[k], loc'[k].agg.pass) /\ PassEnds(loc'[k])
    BY <1>2, <1>3, <1>8, <1>9 DEF u
  <2>2. /\ loc'[k].ended = EndOrder(EndedCount(k)')
        /\ loc'[k].pos > 0 => loc'[k].arrived > loc'[k].pos
    BY <1>2, <1>3, <1>7 DEF u
  <2>3. pass'[k] # Steps => \A q \in 1 .. Len(loc'[k].outq) :
                              loc'[k].outq[q] = Order(loc'[k].sent + (q - 1))
    BY <1>10 DEF u, h
  <2>4. pc'[k] \notin {"endhead", "record"}
    BY <1>1
  <2>5. QED
    BY <2>1, <2>2, <2>3, <2>4, NodeDataNext
<1>12. QED
  BY <1>3, <1>11 DEF u, p

\* A zone takes along what its position in the next pass needs.
LEMMA LeavesWith ==
  ASSUME TypeInv, FlowInv, DataInv, NEW k \in Nodes, Sending(k), NEW m,
         m.step = pass[k], m.pos = loc[k].sent, m.zone = Outgoing(k).zone,
         m.lam = LambdaOut(ReadyToSend(loc[k])), m.dt = DtOut(ReadyToSend(loc[k]))
  PROVE  Carries(m)
<1> DEFINE h == pass[k]
           p == loc[k]
           r == ReadyToSend(p)
<1>1. loc[k].outq # <<>> /\ pc[k] \in AtWork
  BY DEF Sending, Flushing, AtWork
<1>2. h \in Nat \ {0} /\ p \in PassStates /\ HeldData(p, h) /\ N \in Nat \ {0}
  BY <1>1, AtWorkData, RingFacts
<1>3. /\ p.sent \in Nat /\ p.sent < N /\ p.arrived > 0
      /\ p.sent + 1 < N => p.sent + 1 < p.arrived
      /\ LastOfPass(p) => r.agg = FullLambda(h)
  BY SendingFacts
<1>4. r.slot = p.slot /\ r.sent = p.sent /\ r.dt = p.dt
  BY <1>2, ReadyIs
<1>5. LambdaOut(r) = FullLambda(Lag((h + 1) + p.sent))
  <2>1. CASE p.sent + 1 < N
    <3>1. p.sent + 1 \in Zones
      BY <1>2, <1>3, <2>1, RingFacts DEF Zones
    <3>2. p.slot[p.sent + 1].lam = FullLambda(Lag(h + (p.sent + 1)))
      BY <1>2, <1>3, <2>1, <3>1 DEF HeldData, PlacedAt
    <3>3. h + (p.sent + 1) = (h + 1) + p.sent
      BY <1>2, <1>3
    <3> HIDE DEF h, p, r
    <3>4. QED
      BY <1>4, <2>1, <3>2, <3>3 DEF LambdaOut
  <2>2. CASE ~(p.sent + 1 < N)
    <3>1. LastOfPass(p) /\ p.sent + 1 = N
      BY <1>2, <1>3, <2>2 DEF LastOfPass
    <3>2. Lag((h + 1) + p.sent) = h
      <4>1. (h + 1) + p.sent = h + N /\ h + N > N /\ (h + N) - N = h
        BY <1>2, <1>3, <3>1
      <4>2. QED
        BY <4>1 DEF Lag
    <3>3. r.agg = FullLambda(h)
      BY <1>3, <3>1
    <3> HIDE DEF h, p, r
    <3>4. LambdaOut(r) = r.agg
      BY <1>4, <2>2 DEF LambdaOut
    <3>5. QED
      BY <3>2, <3>3, <3>4
  <2>3. QED
    BY <2>1, <2>2
<1>6. p.sent = 0 => DtOut(r) = ScheduledDt(h + 1)
  <2> SUFFICES ASSUME p.sent = 0 PROVE DtOut(r) = ScheduledDt(h + 1)
    OBVIOUS
  <2>1. p.dt = ScheduledDt(h)
    BY <1>2, <1>3 DEF HeldData
  <2>2. (h + 1) + p.sent = h + 1
    BY <1>2
  <2> HIDE DEF h, p, r
  <2>3. DtOut(r) = AutoDt(FullLambda(Lag(h + 1)), ScheduledDt(h))
    BY <1>4, <1>5, <2>1, <2>2 DEF DtOut
  <2>4. QED
    BY <1>2, <2>3, ScheduledNext
<1>7. Outgoing(k).zone = ZoneAt(h + 1, p.sent)
  <2>1. h # Steps /\ p.outq \in Seq(Zones)
    BY <1>2, PassFields DEF Sending
  <2>2. Head(p.outq) = Order(p.sent + (1 - 1)) /\ Head(p.outq) \in Zones
        /\ Head(p.outq) < p.arrived
    BY <1>1, <2>1, AtWorkData, OutgoingFacts
  <2>3. p.sent + (1 - 1) = p.sent /\ p.sent \in Zones
    BY <1>2, <1>3 DEF Zones
  <2>4. Head(p.outq) = Order(p.sent)
    BY <2>2, <2>3
  <2>5. p.slot[Head(p.outq)].zone = ZoneAt(h, Head(p.outq))
    BY <1>2, <2>2 DEF HeldData, PlacedAt
  <2>6. ZoneAt(h, Order(p.sent)) = ZoneAt(h + 1, p.sent)
    BY <1>2, <2>3, HandOver
  <2>7. QED
    BY <2>4, <2>5, <2>6 DEF Outgoing
<1>8. QED
  BY <1>3, <1>5, <1>6, <1>7 DEF Carries

LEMMA SendHeaderData ==
  ASSUME TypeInv, FlowInv, DataInv, NEW k \in Nodes, SendHeader(k)
  PROVE  DataInv'
<1>1. Sending(k) /\ UNCHANGED <<pass, link, stats, level>>
  BY DEF SendHeader, linkVars, endVars
<1>2. CASE SetHalt(k, "Logic") /\ UNCHANGED <<chan, loc>>
  BY <1>1, <1>2, SameMessageData, HaltData
<1>3. CASE ~(SetHalt(k, "Logic") /\ UNCHANGED <<chan, loc>>)
  <2>1. /\ UNCHANGED pc
        /\ loc' = [loc EXCEPT ![k] = SentPass(ReadyToSend(loc[k]))]
        /\ \/ UNCHANGED chan
           \/ \E m \in Headers :
                /\ m.step = pass[k] /\ m.pos = loc[k].sent
                /\ m.lam = LambdaOut(ReadyToSend(loc[k]))
                /\ m.dt = DtOut(ReadyToSend(loc[k])) /\ m.zone = Outgoing(k).zone
                /\ chan' = [chan EXCEPT ![k] = Append(@, m)]
    BY <1>3, SendHeaderEffect
  <2>2. ChanData
    <3>1. CASE UNCHANGED chan
      BY <3>1, SameMessageData
    <3>2. CASE ~UNCHANGED chan
      <4>1. PICK m \in Headers :
              /\ m.step = pass[k] /\ m.pos = loc[k].sent
              /\ m.lam = LambdaOut(ReadyToSend(loc[k]))
              /\ m.dt = DtOut(ReadyToSend(loc[k])) /\ m.zone = Outgoing(k).zone
              /\ chan' = [chan EXCEPT ![k] = Append(@, m)]
        BY <2>1, <3>2
      <4>2. Carries(m)
        BY <1>1, <4>1, LeavesWith
      <4>3. QED
        BY <4>1, <4>2, ChanDataGiven
    <3>3. QED
      BY <3>1, <3>2
  <2>3. /\ NodeData(k)' /\ \A n \in Nodes \ {k} : loc'[n] = loc[n]
        /\ loc'[k].agg.pass = loc[k].agg.pass /\ loc'[k].ended = loc[k].ended
    BY <1>1, <2>1, SendingData
  <2>4. QED
    BY <1>1, <2>1, <2>2, <2>3, SameMessageData, MoveData
<1>4. QED
  BY <1>2, <1>3

LEMMA SendBoundaryData ==
  ASSUME TypeInv, FlowInv, DataInv, NEW k \in Nodes, SendBoundary(k)
  PROVE  DataInv'
<1>1. Sending(k) /\ UNCHANGED <<pass, chan, stats, level>>
  BY DEF SendBoundary, endVars
<1>2. CASE SetHalt(k, "Logic") /\ UNCHANGED <<link, loc>>
  BY <1>1, <1>2, SameMessageData, HaltData
<1>3. CASE ~(SetHalt(k, "Logic") /\ UNCHANGED <<link, loc>>)
  <2>1. /\ UNCHANGED pc
        /\ loc' = [loc EXCEPT ![k] = SentPass(ReadyToSend(loc[k]))]
        /\ \/ UNCHANGED link
           \/ \E m \in WireMessages :
                /\ m.step = pass[k] /\ m.pos = loc[k].sent
                /\ m.lam = LambdaOut(ReadyToSend(loc[k]))
                /\ m.dt = DtOut(ReadyToSend(loc[k])) /\ m.zone = Outgoing(k).zone
                /\ link' = [link EXCEPT ![NextRank(RankOf(k))] = Append(@, m)]
    BY <1>3, SendBoundaryEffect DEF linkVars
  <2>2. LinkData
    <3>1. CASE UNCHANGED link
      BY <3>1, SameMessageData
    <3>2. CASE ~UNCHANGED link
      <4>1. PICK m \in WireMessages :
              /\ m.step = pass[k] /\ m.pos = loc[k].sent
              /\ m.lam = LambdaOut(ReadyToSend(loc[k]))
              /\ m.dt = DtOut(ReadyToSend(loc[k])) /\ m.zone = Outgoing(k).zone
              /\ link' = [link EXCEPT ![NextRank(RankOf(k))] = Append(@, m)]
        BY <2>1, <3>2
      <4>2. Carries(m)
        BY <1>1, <4>1, LeavesWith
      <4>3. NextRank(RankOf(k)) \in Heads
        BY RankFacts, NextRankType
      <4>4. QED
        BY <4>1, <4>2, <4>3, LinkDataGiven
    <3>3. QED
      BY <3>1, <3>2
  <2>3. /\ NodeData(k)' /\ \A n \in Nodes \ {k} : loc'[n] = loc[n]
        /\ loc'[k].agg.pass = loc[k].agg.pass /\ loc'[k].ended = loc[k].ended
    BY <1>1, <2>1, SendingData
  <2>4. QED
    BY <1>1, <2>1, <2>2, <2>3, SameMessageData, MoveData
<1>4. QED
  BY <1>2, <1>3

LEMMA FinishData ==
  ASSUME TypeInv, FlowInv, DataInv, NEW k \in Nodes, FinishPass(k)
  PROVE  DataInv'
<1> DEFINE h == pass[k]
<1>1. /\ pc[k] = "finish" /\ pc[k] \in AtWork /\ UNCHANGED <<pass, chan, link, stats, level>>
  BY DEF FinishPass, AtWork, linkVars, endVars
<1>2. /\ pc'[k] = "record" /\ loc'[k] = Synced(loc[k])
      /\ \A n \in Nodes \ {k} : pc'[n] = pc[n] /\ loc'[n] = loc[n]
  BY FinishPassEffect
<1>3. /\ h \in Nat \ {0} /\ loc[k].agg.pass = h /\ loc[k] \in PassStates
      /\ HeldData(loc[k], h) /\ PassEnds(loc[k])
      /\ loc[k].ended = EndOrder(EndedCount(k))
      /\ loc[k].pos > 0 => loc[k].arrived > loc[k].pos
      /\ h # Steps =>
           \A q \in 1 .. Len(loc[k].outq) : loc[k].outq[q] = Order(loc[k].sent + (q - 1))
  BY <1>1, AtWorkData
<1>4. EndedCount(k) = N /\ EndedCount(k)' = N
  BY <1>1, <1>2 DEF EndedCount
<1>5. loc[k].ended = Zones /\ loc[k].arrived = N
  <2>1. EndOrder(N) = Zones
    BY EndOrderFacts
  <2>2. loc[k].arrived = N
    BY <1>1, NodeFields DEF Progress, AtTheEnd
  <2>3. QED
    BY <1>3, <1>4, <2>1, <2>2
<1>6. /\ loc'[k].outq = loc[k].outq /\ loc'[k].slot = loc[k].slot /\ loc'[k].pos = loc[k].pos
      /\ loc'[k].sent = loc[k].sent /\ loc'[k].arrived = loc[k].arrived
      /\ loc'[k].agg.pass = loc[k].agg.pass /\ loc'[k].synced = TRUE
      /\ loc'[k].dt = loc[k].dt /\ loc'[k].rbuf = loc[k].rbuf /\ loc'[k].ended = loc[k].ended
  <2> DEFINE p == loc[k]
             u == loc'[k]
  <2>1. p \in PassStates /\ u = Synced(p)
    BY <1>2, <1>3
  <2> HIDE DEF p, u
  <2>2. /\ u.outq = p.outq /\ u.slot = p.slot /\ u.pos = p.pos
        /\ u.sent = p.sent /\ u.arrived = p.arrived
    BY <2>1, SyncedIs
  <2>3. /\ u.agg.pass = p.agg.pass /\ u.synced = TRUE
        /\ u.dt = p.dt /\ u.rbuf = p.rbuf /\ u.ended = p.ended
    BY <2>1, SyncedIs
  <2>4. QED
    BY <2>2, <2>3 DEF p, u
<1>7. loc'[k].agg = FullLambda(h)
  BY <1>2, <1>3, <1>5, FoldedIsFull
<1>8. HeldData(loc'[k], h) /\ PassEnds(loc'[k])
  BY <1>3, <1>5, <1>6, <1>7 DEF HeldData, PlacedAt, PassEnds
<1>9. loc'[k].ended = EndOrder(EndedCount(k)')
  BY <1>3, <1>4, <1>6
<1>10. NodeData(k)'
  BY <1>1, <1>2, <1>3, <1>6, <1>8, <1>9, NodeDataNext
<1>11. QED
  BY <1>1, <1>2, <1>6, <1>10, SameMessageData, MoveData

LEMMA RecordData ==
  ASSUME TypeInv, FlowInv, DataInv, NEW k \in Nodes, RecordPass(k)
  PROVE  DataInv'
<1> DEFINE h == pass[k]
<1>1. /\ pc[k] = "record" /\ pc[k] \in AtWork /\ UNCHANGED <<loc, chan, link, level>>
      /\ stats' = [stats EXCEPT ![h] = [dt |-> loc[k].dt, agg |-> loc[k].agg]]
      /\ pass' = [pass EXCEPT ![k] = @ + Z] /\ Goto(k, "loop")
  BY DEF RecordPass, AtWork, laneVars, linkVars
<1>2. /\ pass'[k] = h + Z /\ pc'[k] = "loop"
      /\ \A n \in Nodes \ {k} : pc'[n] = pc[n] /\ pass'[n] = pass[n]
  BY <1>1 DEF Goto, TypeInv, NodeTypes
<1>3. /\ h \in Nat \ {0} /\ h \in Passes /\ Owner(h) = k /\ loc[k].agg.pass = h
      /\ HeldData(loc[k], h) /\ PassEnds(loc[k])
  BY <1>1, AtWorkData
<1>4. loc[k].synced
  BY <1>1, NodeDataOf DEF NodeData
<1>5. /\ loc[k].arrived = N /\ loc[k].ended = Zones /\ loc[k].agg = FullLambda(h)
      /\ loc[k].dt = ScheduledDt(h)
  BY <1>3, <1>4, RingFacts DEF HeldData
<1> HIDE DEF h
<1>6. NodeData(k)'
  <2>1. HeldData(loc'[k], loc'[k].agg.pass) /\ PassEnds(loc'[k]) /\ loc'[k].agg.pass # 0
    BY <1>1, <1>3
  <2>2. pc'[k] \notin AtWork /\ pc'[k] \notin {"endhead", "record"}
    BY <1>2 DEF AtWork
  <2>3. QED
    BY <2>1, <2>2, NodeDataNext
<1>7. \A n \in Nodes : NodeData(n)'
  BY <1>1, <1>2, <1>6, NodeDataStays
<1>8. RecordsExact'
  <2>1. ASSUME NEW g \in Passes, Recorded(g)'
        PROVE  stats'[g] = [dt |-> ScheduledDt(g), agg |-> FullLambda(g)]
    <3>1. CASE g = h
      BY <1>1, <1>5, <3>1 DEF TypeInv, EndTypes
    <3>2. CASE g # h
      <4>1. stats'[g] = stats[g]
        BY <1>1, <3>2 DEF TypeInv, EndTypes
      <4>2. QED
        BY <2>1, <4>1 DEF DataInv, RecordsExact, Recorded
    <3>3. QED
      BY <3>1, <3>2
  <2>2. QED
    BY <2>1 DEF RecordsExact
<1>9. ASSUME NEW g \in Passes, NEW i \in Zones
      PROVE  HasEnded(g, i)' <=> HasEnded(g, i)
  <2>1. Owner(g) \in Nodes /\ g \in Nat \ {0} /\ Z \in Nat \ {0}
    BY OwnerFacts, RingFacts DEF Passes
  <2>2. CASE Owner(g) # k
    BY <1>1, <1>2, <2>1, <2>2 DEF HasEnded, Owner
  <2>3. CASE Owner(g) = k
    <3>1. HasEnded(g, i) <=> h > g \/ (h = g /\ \E j \in loc[k].ended : ZoneAt(g, j) = i)
      BY <1>3, <2>3 DEF HasEnded, h
    <3>2. HasEnded(g, i)' <=> h + Z > g \/ (h = g /\ \E j \in loc[k].ended : ZoneAt(g, j) = i)
      BY <1>1, <1>2, <1>3, <2>3 DEF HasEnded, Owner
    <3>3. h = g => \E j \in loc[k].ended : ZoneAt(g, j) = i
      BY <1>5, <2>1, ZoneAtOnto
    <3>4. h < g => h + Z <= g
      BY <1>3, <2>1, <2>3, OwnerGap
    <3>5. QED
      BY <1>3, <2>1, <3>1, <3>2, <3>3, <3>4
  <2>4. QED
    BY <2>2, <2>3
<1>10. LevelsMatch' /\ Spread'
  BY <1>1, <1>9 DEF DataInv, LevelsMatch, Spread
<1>11. QED
  BY <1>1, <1>7, <1>8, <1>10, SameMessageData, DataStep

LEMMA InitData == Init => DataInv
<1> SUFFICES ASSUME Init PROVE DataInv
  OBVIOUS
<1>1. \A k \in Nodes : pc[k] = "loop" /\ pass[k] = k + 1 /\ loc[k] = FreshPass(0)
  BY DEF Init
<1>2. FreshPass(0).agg.pass = 0 /\ FreshPass(0).synced = FALSE
  BY DEF FreshPass
<1>3. \A k \in Nodes : NodeData(k)
  BY <1>1, <1>2 DEF NodeData, AtWork
<1>4. Carried
  <2>1. \A e \in Nodes : Len(chan[e]) = 0
    BY DEF Init
  <2>2. \A r \in Heads : Len(link[r]) = 0
    BY DEF Init, InitLinks
  <2>3. QED
    BY <2>1, <2>2 DEF Carried
<1>5. RecordsExact
  BY DEF Init, Recorded, RecordsExact
<1>6. \A i \in Zones : level[i] = 0
  BY DEF Init
<1>7. ASSUME NEW h \in Passes, NEW i \in Zones
      PROVE  ~HasEnded(h, i) /\ ~(level[i] >= h)
  <2>1. h \in Nat \ {0} /\ Owner(h) \in Nodes
    BY OwnerFacts, RingFacts DEF Passes
  <2>2. Owner(h) \in Nat /\ Owner(h) + 1 <= h
    BY <2>1, OwnerBelow, RingFacts DEF Nodes
  <2>3. QED
    BY <1>1, <1>2, <1>6, <2>1, <2>2 DEF HasEnded
<1>8. LevelsMatch
  BY <1>6, <1>7, RingFacts DEF LevelsMatch
<1>9. Spread
  <2>1. \A i \in Zones : \A b \in Adjacent(i) : b \in Zones
    BY AdjacentFacts
  <2>2. QED
    BY <1>6, <2>1 DEF Spread
<1>10. QED
  BY <1>3, <1>4, <1>5, <1>8, <1>9 DEF DataInv

\* A step moves the data on, and lets at most one zone advance.
DataMoves == DataInv' /\ (UNCHANGED level \/ \E z \in Zones : Advances(z))

LEMMA NodeStepData ==
  ASSUME TypeInv, FlowInv, DataInv, NEW k \in Nodes, NodeStep(k)
  PROVE  DataMoves
<1>1. CASE NodeReturns(k) \/ RecvShutDown(k) \/ CreditShutDown(k) \/ FlushSeesHalt(k) \/ HaltCheck(k)
  <2>1. UNCHANGED level
    BY <1>1 DEF NodeReturns, RecvShutDown, CreditShutDown, FlushSeesHalt, HaltCheck
  <2>2. QED
    BY <1>1, <2>1, LeaveData DEF DataMoves
<1>2. CASE StartPass(k) \/ TakePreload(k) \/ RecvZone(k) \/ RecvBoundary(k)
  <2>1. UNCHANGED level
    BY <1>2 DEF StartPass, TakePreload, RecvZone, RecvBoundary
  <2>2. DataInv'
    BY <1>2, StartData, TakePreloadData, RecvZoneData, RecvBoundaryData
  <2>3. QED
    BY <2>1, <2>2 DEF DataMoves
<1>3. CASE RecvPoison(k) \/ RecvDone(k) \/ FlushDone(k) \/ CollectZone(k)
  <2>1. UNCHANGED level
    BY <1>3 DEF RecvPoison, RecvDone, FlushDone, CollectZone
  <2>2. DataInv'
    BY <1>3, RecvPoisonData, RecvDoneData, FlushDoneData, CollectData
  <2>3. QED
    BY <2>1, <2>2 DEF DataMoves
<1>4. CASE CopyZone(k) \/ SendHeader(k) \/ SendBoundary(k)
  <2>1. UNCHANGED level
    BY <1>4 DEF CopyZone, SendHeader, SendBoundary
  <2>2. DataInv'
    BY <1>4, CopyData, SendHeaderData, SendBoundaryData
  <2>3. QED
    BY <2>1, <2>2 DEF DataMoves
<1>5. CASE ComputeZone(k) \/ EndHead(k)
  BY <1>5, ComputeData, EndHeadData DEF DataMoves
<1>6. CASE FinishPass(k) \/ RecordPass(k)
  <2>1. UNCHANGED level
    BY <1>6 DEF FinishPass, RecordPass
  <2>2. DataInv'
    BY <1>6, FinishData, RecordData
  <2>3. QED
    BY <2>1, <2>2 DEF DataMoves
<1>7. CASE CloseEdge(k) \/ PoisonRing(k)
  <2>1. UNCHANGED level
    BY <1>7 DEF CloseEdge, PoisonRing
  <2>2. DataInv'
    BY <1>7, CloseEdgeData, PoisonRingData
  <2>3. QED
    BY <2>1, <2>2 DEF DataMoves
<1>8. QED
  BY <1>1, <1>2, <1>3, <1>4, <1>5, <1>6, <1>7 DEF NodeStep

LEMMA NextData ==
  ASSUME TypeInv, FlowInv, DataInv, [Next]_vars
  PROVE  DataMoves
<1>1. CASE UNCHANGED vars
  <2>1. UNCHANGED <<pc, pass, loc, chan, link, stats, level>>
    BY <1>1 DEF vars, nodeVars, laneVars, linkVars, endVars
  <2>2. DataInv'
    BY <2>1, SameMessageData, StopData
  <2>3. QED
    BY <2>1, <2>2 DEF DataMoves
<1>2. ASSUME NEW k \in Nodes, NodeStep(k) PROVE DataMoves
  BY <1>2, NodeStepData
<1>3. ASSUME NEW k \in Nodes, NodeFault(k) PROVE DataMoves
  <2>1. UNCHANGED level
    BY <1>3 DEF NodeFault
  <2>2. QED
    BY <1>3, <2>1, FaultData DEF DataMoves
<1>4. ASSUME NEW r \in Heads, Join(r) PROVE DataMoves
  <2>1. UNCHANGED level
    BY <1>4 DEF Join
  <2>2. QED
    BY <1>4, <2>1, JoinData DEF DataMoves
<1>5. QED
  BY <1>1, <1>2, <1>3, <1>4 DEF Next, AllReturned

LEMMA AlwaysData == Spec => [](TypeInv /\ FlowInv /\ DataInv)
<1>1. Init => DataInv
  BY InitData
<1>2. TypeInv /\ FlowInv /\ DataInv /\ [Next]_vars => DataInv'
  BY NextData DEF DataMoves
<1>3. QED
  BY <1>1, <1>2, AlwaysFlow, PTL DEF Spec

-----------------------------------------------------------------------------
(* What follows for the records and the order of the time steps.             *)

LEMMA RecordsAreExact ==
  ASSUME TypeInv, FlowInv, DataInv
  PROVE  RecordedPassesExact
<1>1. ASSUME NEW h \in Passes, Recorded(h)
      PROVE  /\ stats[h] = [dt |-> ScheduledDt(h), agg |-> FullLambda(h)]
             /\ \A i \in Zones : level[i] >= h
  <2>1. pass[Owner(h)] > h
    BY <1>1 DEF FlowInv, RecordedIsOver
  <2>2. \A i \in Zones : HasEnded(h, i)
    BY <2>1 DEF HasEnded
  <2>3. QED
    BY <1>1, <2>2 DEF DataInv, RecordsExact, LevelsMatch
<1>2. ASSUME NEW k \in Nodes, loc[k].synced
      PROVE  /\ loc[k].rbuf.zones = Zones
             /\ loc[k].agg.pass - loc[k].rbuf.pass <= (IF N = 1 THEN 1 ELSE N - 1)
  <2> DEFINE h == loc[k].agg.pass
             f == h + ForecastPosition
  <2>1. h # 0 /\ h \in Nat /\ HeldData(loc[k], h) /\ N \in Nat \ {0}
    BY <1>2, NodeDataOf, NodeFields, PassFields, RingFacts DEF NodeData, Lambdas
  <2>2. loc[k].arrived = N /\ N > ForecastPosition
    BY <1>2, <2>1 DEF HeldData, ForecastPosition
  <2>3. loc[k].rbuf = FullLambda(Lag(f))
    BY <2>1, <2>2 DEF HeldData
  <2>4. loc[k].rbuf.zones = Zones /\ loc[k].rbuf.pass = Lag(f)
    BY <2>3 DEF FullLambda
  <2> HIDE DEF h
  <2>5. h - Lag(f) <= (IF N = 1 THEN 1 ELSE N - 1)
    BY <2>1 DEF ForecastPosition, Lag
  <2>6. QED
    BY <2>4, <2>5 DEF h
<1>3. QED
  BY <1>1, <1>2 DEF RecordedPassesExact

\* Every recorded pass has the time step and the aggregate of a serial run, and
\* its zones all ended in it; a pass that is checked forecast its buffer from a
\* whole aggregate that is recent enough (run_pass and sync_check), on any
\* number of nodes and ranks and whatever fails.
THEOREM RecordsAreSerial == Spec => []RecordedPassesExact
<1>1. TypeInv /\ FlowInv /\ DataInv => RecordedPassesExact
  BY RecordsAreExact
<1>2. QED
  BY <1>1, AlwaysData, PTL

\* The nodes of all ranks together move the zones as the serial time loop may:
\* when a zone ends a pass (end_zone), its neighbours have ended the pass before
\* and none is ahead of it.
THEOREM GpuRefinesStencil == Spec => ImplementsStencil
<1>1. Stencil!Zones = Zones
  BY DEF Stencil!Zones, Zones
<1>2. \A i : Stencil!Adjacent(i) = Adjacent(i)
  BY <1>1 DEF Stencil!Adjacent, Stencil!CrossPartner, Adjacent, CrossPartner
<1>3. Init => Stencil!Init
  BY <1>1 DEF Init, Stencil!Init
<1>4. TypeInv /\ FlowInv /\ DataInv /\ [Next]_vars => [Stencil!Next]_level
  <2> SUFFICES ASSUME TypeInv, FlowInv, DataInv, [Next]_vars
               PROVE  Stencil!Next \/ level' = level
    OBVIOUS
  <2>1. UNCHANGED level \/ \E z \in Zones : Advances(z)
    BY NextData DEF DataMoves
  <2>2. ASSUME NEW z \in Zones, Advances(z) PROVE Stencil!Next
    BY <1>1, <1>2, <2>2 DEF Advances, Stencil!Advance, Stencil!Next
  <2>3. QED
    BY <2>1, <2>2
<1>5. QED
  BY <1>3, <1>4, AlwaysData, PTL DEF Spec, ImplementsStencil, Stencil!Spec

-----------------------------------------------------------------------------
(* Numbers.  A node has every Z-th pass, so the zones it sends in pass h     *)
(* follow the N of pass h - Z.                                               *)

Turn(h) == ((h - 1) \div Z) * N

LEMMA QuotientFacts ==
  ASSUME NEW x \in Int
  PROVE  /\ x \div Z \in Int /\ (x + Z) \div Z = (x \div Z) + 1
         /\ \A y \in Int : x <= y => x \div Z <= y \div Z
         /\ x \in 0 .. Z - 1 => x \div Z = 0
<1>1. Z \in Nat \ {0}
  BY RingFacts
<1>2. ASSUME NEW y \in Int
      PROVE  /\ y \div Z \in Int /\ y % Z \in 0 .. Z - 1
             /\ y = Z * (y \div Z) + (y % Z)
  BY <1>1
<1> DEFINE q == x \div Z
           r == x % Z
<1>3. q \in Int /\ r \in 0 .. Z - 1 /\ x = Z * q + r
  BY <1>2
<1>4. (x + Z) \div Z = q + 1
  <2> DEFINE u == (x + Z) \div Z
             t == (x + Z) % Z
  <2>1. u \in Int /\ t \in 0 .. Z - 1 /\ x + Z = Z * u + t
    <3>1. x + Z \in Int
      BY <1>1
    <3>2. QED
      BY <1>2, <3>1
  <2> HIDE DEF u, t, q, r
  <2>2. Z * (u - q) = Z + r - t
    BY <1>1, <1>3, <2>1
  <2>3. u - q >= 2 => Z * (u - q) >= 2 * Z
    BY <1>1, <1>3, <2>1
  <2>4. u - q <= 0 => Z * (u - q) <= 0
    BY <1>1, <1>3, <2>1
  <2>5. u - q = 1
    BY <1>1, <1>3, <2>1, <2>2, <2>3, <2>4
  <2>6. u = q + 1
    BY <1>3, <2>1, <2>5
  <2>7. QED
    BY <2>6 DEF u
<1>5. ASSUME NEW y \in Int, x <= y
      PROVE  q <= y \div Z
  <2> DEFINE u == y \div Z
             t == y % Z
  <2>1. u \in Int /\ t \in 0 .. Z - 1 /\ y = Z * u + t
    BY <1>2
  <2> HIDE DEF u, t, q, r
  <2>2. q - u >= 1 => Z * (q - u) >= Z
    BY <1>1, <1>3, <2>1
  <2>3. Z * (q - u) <= t - r
    BY <1>1, <1>3, <1>5, <2>1
  <2>4. q <= u
    BY <1>1, <1>3, <2>1, <2>2, <2>3
  <2>5. QED
    BY <2>4 DEF u
<1>6. ASSUME x \in 0 .. Z - 1
      PROVE  q = 0
  <2> HIDE DEF q, r
  <2>1. q >= 1 => Z * q >= Z
    BY <1>1, <1>3
  <2>2. q <= -1 => Z * q <= -Z
    BY <1>1, <1>3
  <2>3. QED
    BY <1>1, <1>3, <1>6, <2>1, <2>2
<1>7. QED
  BY <1>3, <1>4, <1>5, <1>6

LEMMA TurnFacts ==
  /\ \A h \in Int : Turn(h) \in Int /\ Turn(h + Z) = Turn(h) + N
  /\ \A g, h \in Int : g <= h => Turn(g) <= Turn(h)
  /\ \A h \in 1 .. Z : Turn(h) = 0
<1>1. N \in Nat \ {0} /\ Z \in Nat \ {0}
  BY RingFacts
<1>2. ASSUME NEW h \in Int
      PROVE  Turn(h) \in Int /\ Turn(h + Z) = Turn(h) + N
  <2> DEFINE x == h - 1
             q == x \div Z
  <2>1. x \in Int
    OBVIOUS
  <2>2. q \in Int /\ (x + Z) \div Z = q + 1
    <3> HIDE DEF x
    <3>1. QED
      BY <2>1, QuotientFacts
  <2>3. (h + Z) - 1 = x + Z
    BY <1>1
  <2>4. Turn(h + Z) = (q + 1) * N
    <3> HIDE DEF q, x
    <3>1. ((h + Z) - 1) \div Z = q + 1
      BY <2>2, <2>3
    <3>2. QED
      BY <3>1 DEF Turn
  <2>5. Turn(h) = q * N
    BY DEF Turn
  <2> HIDE DEF q, x
  <2>6. QED
    BY <1>1, <2>2, <2>4, <2>5
<1>3. ASSUME NEW g \in Int, NEW h \in Int, g <= h
      PROVE  Turn(g) <= Turn(h)
  <2> DEFINE p == (g - 1) \div Z
             q == (h - 1) \div Z
  <2>1. g - 1 \in Int /\ h - 1 \in Int /\ g - 1 <= h - 1
    BY <1>3
  <2>2. p \in Int /\ q \in Int /\ p <= q
    BY <2>1, QuotientFacts
  <2>3. Turn(g) = p * N /\ Turn(h) = q * N
    BY DEF Turn
  <2> HIDE DEF p, q
  <2>4. (q - p) * N >= 0
    BY <1>1, <2>2
  <2>5. q * N >= p * N
    BY <1>1, <2>2, <2>4
  <2>6. QED
    BY <2>3, <2>5
<1>4. ASSUME NEW h \in 1 .. Z
      PROVE  Turn(h) = 0
  <2>1. h - 1 \in Int /\ h - 1 \in 0 .. Z - 1
    BY <1>1
  <2>2. (h - 1) \div Z = 0
    BY <2>1, QuotientFacts
  <2>3. QED
    BY <1>1, <2>2 DEF Turn
<1>5. QED
  BY <1>2, <1>3, <1>4

\* Two numbers less than a pool apart have different buffers.
LEMMA BuffersDiffer ==
  ASSUME NEW a \in Int, NEW b \in Int, a < b, b < a + PoolSize
  PROVE  a % PoolSize # b % PoolSize
<1> DEFINE s == PoolSize
<1>1. s \in Nat \ {0}
  BY RanksAssumption DEF RanksAssumption, PoolSize
<1> HIDE DEF s
<1>2. ASSUME NEW y \in Int
      PROVE  /\ y \div s \in Int /\ y % s \in 0 .. s - 1
             /\ y = s * (y \div s) + (y % s)
  BY <1>1
<1> DEFINE p == a \div s
           q == b \div s
<1>3. p \in Int /\ q \in Int /\ a = s * p + (a % s) /\ b = s * q + (b % s)
      /\ a % s \in Int /\ b % s \in Int
  BY <1>1, <1>2
<1>4. ASSUME a % s = b % s PROVE FALSE
  <2> HIDE DEF p, q
  <2>1. b - a = s * (q - p)
    BY <1>1, <1>3, <1>4
  <2>2. 0 < b - a /\ b - a < s
    BY <1>1 DEF s
  <2>3. q - p >= 1 => s * (q - p) >= s
    BY <1>1, <1>3
  <2>4. q - p <= 0 => s * (q - p) <= 0
    BY <1>1, <1>3
  <2>5. QED
    BY <1>1, <1>3, <2>1, <2>2, <2>3, <2>4
<1>5. QED
  BY <1>4 DEF s

LEMMA NextBuffer ==
  ASSUME NEW a \in Int
  PROVE  ((a % PoolSize) + 1) % PoolSize = (a + 1) % PoolSize
<1> DEFINE s == PoolSize
<1>1. s \in Nat \ {0}
  BY RanksAssumption DEF RanksAssumption, PoolSize
<1> HIDE DEF s
<1>2. ASSUME NEW y \in Int
      PROVE  /\ y \div s \in Int /\ y % s \in 0 .. s - 1
             /\ y = s * (y \div s) + (y % s)
  BY <1>1
<1> DEFINE r == a % s
           p == a \div s
           q == (a + 1) \div s
           t == (a + 1) % s
           v == (r + 1) % s
           u == (r + 1) \div s
<1>3. /\ p \in Int /\ q \in Int /\ u \in Int /\ r \in 0 .. s - 1 /\ t \in 0 .. s - 1
      /\ v \in 0 .. s - 1 /\ a = s * p + r /\ a + 1 = s * q + t
  <2>1. p \in Int /\ r \in 0 .. s - 1 /\ a = s * p + r
    BY <1>2
  <2>2. q \in Int /\ t \in 0 .. s - 1 /\ a + 1 = s * q + t
    <3>1. a + 1 \in Int
      OBVIOUS
    <3>2. QED
      BY <1>2, <3>1
  <2>3. u \in Int /\ v \in 0 .. s - 1
    <3>1. r + 1 \in Int
      BY <1>1, <2>1
    <3> HIDE DEF r
    <3>2. QED
      BY <1>2, <3>1
  <2>4. QED
    BY <2>1, <2>2, <2>3
<1>4. r + 1 = s * u + v
  <2>1. r + 1 \in Int
    BY <1>1, <1>3
  <2> HIDE DEF r
  <2>2. QED
    BY <1>2, <2>1
<1> HIDE DEF p, q, t, v, u, r
<1>5. s * ((q - p) - u) = v - t
  BY <1>1, <1>3, <1>4
<1> DEFINE w == (q - p) - u
<1>6. w \in Int
  BY <1>3
<1> HIDE DEF w
<1>7. s * w = v - t
  BY <1>5 DEF w
<1>8. w >= 1 => s * w >= s
  BY <1>1, <1>6
<1>9. w <= -1 => s * w <= -s
  BY <1>1, <1>6
<1>10. w = 0
  BY <1>1, <1>3, <1>6, <1>7, <1>8, <1>9
<1>11. v = t
  BY <1>1, <1>3, <1>7, <1>10
<1>12. QED
  BY <1>11 DEF v, t, r, s

-----------------------------------------------------------------------------
(* Lanes.  A zone under way is named by its pass and its position; those of  *)
(* a lane lie in the order in which they were sent.  A lane that was cut     *)
(* lost the last ones, and of one that nobody reads any more nothing is said *)
(* of what it lacks.                                                         *)

Keys == Int \X Int
Precedes(x, y) == x[1] < y[1] \/ (x[1] = y[1] /\ x[2] < y[2])
Key(m) == <<m.step, m.pos>>
ZonesIn(s) == {q \in 1 .. Len(s) : ~IsPoison(s[q])}

Lacks(s, cut, x) == cut /\ \A q \in ZonesIn(s) : Precedes(Key(s[q]), x)
LaneOK(s, U, cut, live) ==
  /\ \A q \in ZonesIn(s) : Key(s[q]) \in U
  /\ \A q, u \in ZonesIn(s) : q < u => Precedes(Key(s[q]), Key(s[u]))
  /\ live => \A x \in U : (\E q \in ZonesIn(s) : Key(s[q]) = x) \/ Lacks(s, cut, x)

LEMMA PrecedesFacts ==
  /\ \A x \in Keys : ~Precedes(x, x)
  /\ \A x, y \in Keys : x = y \/ Precedes(x, y) \/ Precedes(y, x)
BY DEF Keys, Precedes

LEMMA TailZones ==
  ASSUME NEW S, NEW s \in Seq(S), s # <<>>
  PROVE  /\ \A q \in ZonesIn(Tail(s)) : q + 1 \in ZonesIn(s) /\ Tail(s)[q] = s[q + 1]
         /\ \A u \in ZonesIn(s) :
              u > 1 => u - 1 \in ZonesIn(Tail(s)) /\ Tail(s)[u - 1] = s[u]
         /\ 1 \in ZonesIn(s) <=> ~IsPoison(Head(s))
         /\ s[1] = Head(s)
<1>1. /\ Len(s) \in Nat \ {0} /\ Len(Tail(s)) = Len(s) - 1
      /\ \A q \in 1 .. Len(Tail(s)) : Tail(s)[q] = s[q + 1]
      /\ s[1] = Head(s)
  BY HeadTailProperties, EmptySeq
<1>2. \A q \in 1 .. Len(Tail(s)) : q + 1 \in 1 .. Len(s)
  BY <1>1
<1>3. \A u \in 1 .. Len(s) : u > 1 => u - 1 \in 1 .. Len(Tail(s)) /\ (u - 1) + 1 = u
  BY <1>1
<1>4. 1 \in 1 .. Len(s)
  BY <1>1
<1>5. \A q \in ZonesIn(Tail(s)) : q + 1 \in ZonesIn(s) /\ Tail(s)[q] = s[q + 1]
  BY <1>1, <1>2 DEF ZonesIn, IsPoison
<1>6. ASSUME NEW u \in ZonesIn(s), u > 1
      PROVE  u - 1 \in ZonesIn(Tail(s)) /\ Tail(s)[u - 1] = s[u]
  <2>1. u - 1 \in 1 .. Len(Tail(s)) /\ (u - 1) + 1 = u
    BY <1>3, <1>6 DEF ZonesIn
  <2>2. Tail(s)[u - 1] = s[u]
    BY <1>1, <2>1
  <2>3. QED
    BY <2>1, <2>2 DEF ZonesIn
<1>7. QED
  BY <1>1, <1>4, <1>5, <1>6 DEF ZonesIn

Behind(t, s, m) ==
  /\ \A q \in ZonesIn(s) : q \in ZonesIn(t) /\ t[q] = s[q] /\ q < Len(s) + 1
  /\ \A q \in ZonesIn(t) : \/ q \in ZonesIn(s) /\ t[q] = s[q]
                           \/ q = Len(s) + 1 /\ t[q] = m /\ ~IsPoison(m)
  /\ ~IsPoison(m) => Len(s) + 1 \in ZonesIn(t) /\ t[Len(s) + 1] = m

LEMMA AppendZones ==
  ASSUME NEW S, NEW s \in Seq(S), NEW m \in S
  PROVE  Behind(Append(s, m), s, m)
<1>1. Len(s) \in Nat /\ Len(Append(s, m)) = Len(s) + 1
  BY AppendProperties, LenProperties
<1>2. /\ Append(s, m)[Len(s) + 1] = m
      /\ \A q \in 1 .. Len(s) : Append(s, m)[q] = s[q]
  BY AppendProperties
<1>3. \A q \in 1 .. Len(Append(s, m)) : q \in 1 .. Len(s) \/ q = Len(s) + 1
  BY <1>1
<1>4. \A q \in 1 .. Len(s) : q \in 1 .. Len(Append(s, m)) /\ q < Len(s) + 1
  BY <1>1
<1>5. Len(s) + 1 \in 1 .. Len(Append(s, m))
  BY <1>1
<1> DEFINE t == Append(s, m)
<1>6. /\ \A q \in 1 .. Len(s) : t[q] = s[q]
      /\ t[Len(s) + 1] = m
  BY <1>2
<1>7. /\ \A q \in 1 .. Len(t) : q \in 1 .. Len(s) \/ q = Len(s) + 1
      /\ \A q \in 1 .. Len(s) : q \in 1 .. Len(t) /\ q < Len(s) + 1
      /\ Len(s) + 1 \in 1 .. Len(t)
  BY <1>3, <1>4, <1>5
<1> HIDE DEF t
<1>8. Behind(t, s, m)
  <2>1. ASSUME NEW q \in ZonesIn(s)
        PROVE  q \in ZonesIn(t) /\ t[q] = s[q] /\ q < Len(s) + 1
    <3>1. q \in 1 .. Len(s) /\ ~IsPoison(s[q])
      BY DEF ZonesIn
    <3>2. t[q] = s[q] /\ q \in 1 .. Len(t) /\ q < Len(s) + 1
      BY <1>6, <1>7, <3>1
    <3>3. QED
      BY <3>1, <3>2 DEF ZonesIn
  <2>2. ASSUME NEW q \in ZonesIn(t)
        PROVE  \/ q \in ZonesIn(s) /\ t[q] = s[q]
               \/ q = Len(s) + 1 /\ t[q] = m /\ ~IsPoison(m)
    <3>1. q \in 1 .. Len(t) /\ ~IsPoison(t[q])
      BY DEF ZonesIn
    <3>2. CASE q \in 1 .. Len(s)
      <4>1. t[q] = s[q]
        BY <1>6, <3>2
      <4>2. QED
        BY <3>1, <3>2, <4>1 DEF ZonesIn
    <3>3. CASE q = Len(s) + 1
      BY <1>6, <3>1, <3>3
    <3>4. QED
      BY <1>7, <3>1, <3>2, <3>3
  <2>3. ASSUME ~IsPoison(m)
        PROVE  Len(s) + 1 \in ZonesIn(t) /\ t[Len(s) + 1] = m
    BY <1>6, <1>7, <2>3 DEF ZonesIn
  <2>4. QED
    BY <2>1, <2>2, <2>3, Zenon DEF Behind
<1>9. QED
  BY <1>8 DEF t

LEMMA LaneWeaker ==
  ASSUME NEW s, NEW U, NEW cut, NEW live, LaneOK(s, U, cut, live),
         NEW cutNow, NEW liveNow, cut => cutNow, liveNow => live
  PROVE  LaneOK(s, U, cutNow, liveNow)
BY DEF LaneOK, Lacks

\* The zone at the head is taken.
LEMMA LaneTaken ==
  ASSUME NEW S, NEW s \in Seq(S), s # <<>>, ~IsPoison(Head(s)),
         NEW U \in SUBSET Keys, NEW cut, NEW live, LaneOK(s, U, cut, live)
  PROVE  LaneOK(Tail(s), U \ {Key(Head(s))}, cut, live)
<1> DEFINE t == Tail(s)
           k == Key(Head(s))
<1>1. /\ \A q \in ZonesIn(t) : q + 1 \in ZonesIn(s) /\ t[q] = s[q + 1]
      /\ \A u \in ZonesIn(s) : u > 1 => u - 1 \in ZonesIn(t) /\ t[u - 1] = s[u]
      /\ 1 \in ZonesIn(s) /\ s[1] = Head(s)
  BY TailZones
<1>2. \A q \in ZonesIn(t) : q \in Nat \ {0}
  BY DEF ZonesIn
<1>3. \A q \in ZonesIn(s) : q \in Nat \ {0}
  BY DEF ZonesIn
<1>4. /\ \A q \in ZonesIn(s) : Key(s[q]) \in U
      /\ \A q, u \in ZonesIn(s) : q < u => Precedes(Key(s[q]), Key(s[u]))
      /\ live => \A x \in U : (\E q \in ZonesIn(s) : Key(s[q]) = x) \/ Lacks(s, cut, x)
  BY DEF LaneOK
<1>5. k = Key(s[1])
  BY <1>1
<1> HIDE DEF t, k
<1>6. ASSUME NEW q \in ZonesIn(t) PROVE Key(t[q]) \in U \ {k}
  <2>1. q + 1 \in ZonesIn(s) /\ t[q] = s[q + 1] /\ 1 < q + 1
    BY <1>1, <1>2
  <2>2. Key(t[q]) \in U /\ Precedes(k, Key(t[q]))
    BY <1>1, <1>4, <1>5, <2>1
  <2>3. QED
    BY <2>2, PrecedesFacts
<1>7. ASSUME NEW q \in ZonesIn(t), NEW u \in ZonesIn(t), q < u
      PROVE  Precedes(Key(t[q]), Key(t[u]))
  <2>1. q + 1 < u + 1
    BY <1>2, <1>7
  <2>2. QED
    BY <1>1, <1>4, <2>1
<1>8. ASSUME live, NEW x \in U \ {k}
      PROVE  (\E q \in ZonesIn(t) : Key(t[q]) = x) \/ Lacks(t, cut, x)
  <2>1. CASE \E q \in ZonesIn(s) : Key(s[q]) = x
    <3>1. PICK q \in ZonesIn(s) : Key(s[q]) = x
      BY <2>1
    <3>2. q # 1
      BY <1>5, <1>8, <3>1
    <3>3. q > 1
      BY <1>3, <3>2
    <3>4. QED
      BY <1>1, <3>1, <3>3
  <2>2. CASE Lacks(s, cut, x)
    BY <1>1, <2>2 DEF Lacks
  <2>3. QED
    BY <1>4, <1>8, <2>1, <2>2
<1>9. QED
  BY <1>6, <1>7, <1>8 DEF LaneOK, t, k

\* Poison is taken from the head, or what is taken is lost with its reader.
LEMMA LaneDropped ==
  ASSUME NEW S, NEW s \in Seq(S), s # <<>>, NEW U, NEW cut, NEW live,
         LaneOK(s, U, cut, live), NEW liveNow, liveNow => live,
         IsPoison(Head(s)) \/ ~liveNow
  PROVE  LaneOK(Tail(s), U, cut, liveNow)
<1> DEFINE t == Tail(s)
<1>1. /\ \A q \in ZonesIn(t) : q + 1 \in ZonesIn(s) /\ t[q] = s[q + 1]
      /\ \A u \in ZonesIn(s) : u > 1 => u - 1 \in ZonesIn(t) /\ t[u - 1] = s[u]
      /\ 1 \in ZonesIn(s) <=> ~IsPoison(Head(s))
  BY TailZones
<1>2. \A q \in ZonesIn(t) : q \in Nat \ {0}
  BY DEF ZonesIn
<1>3. \A q \in ZonesIn(s) : q \in Nat \ {0}
  BY DEF ZonesIn
<1>4. /\ \A q \in ZonesIn(s) : Key(s[q]) \in U
      /\ \A q, u \in ZonesIn(s) : q < u => Precedes(Key(s[q]), Key(s[u]))
      /\ live => \A x \in U : (\E q \in ZonesIn(s) : Key(s[q]) = x) \/ Lacks(s, cut, x)
  BY DEF LaneOK
<1> HIDE DEF t
<1>5. ASSUME NEW q \in ZonesIn(t), NEW u \in ZonesIn(t), q < u
      PROVE  Precedes(Key(t[q]), Key(t[u]))
  <2>1. q + 1 < u + 1
    BY <1>2, <1>5
  <2>2. QED
    BY <1>1, <1>4, <2>1
<1>6. ASSUME liveNow, NEW x \in U
      PROVE  (\E q \in ZonesIn(t) : Key(t[q]) = x) \/ Lacks(t, cut, x)
  <2>1. 1 \notin ZonesIn(s)
    BY <1>1, <1>6
  <2>2. CASE \E q \in ZonesIn(s) : Key(s[q]) = x
    <3>1. PICK q \in ZonesIn(s) : Key(s[q]) = x
      BY <2>2
    <3>2. q > 1
      BY <1>3, <2>1
    <3>3. QED
      BY <1>1, <3>1, <3>2
  <2>3. CASE Lacks(s, cut, x)
    BY <1>1, <2>3 DEF Lacks
  <2>4. QED
    BY <1>4, <1>6, <2>2, <2>3
<1>7. QED
  BY <1>1, <1>4, <1>5, <1>6 DEF LaneOK, t

\* A zone is sent behind all the others; a lane that was cut swallows it.
LEMMA LaneGiven ==
  ASSUME NEW S, NEW s \in Seq(S), NEW m \in S, NEW U, NEW live, ~IsPoison(m),
         LaneOK(s, U, FALSE, live), \A x \in U : Precedes(x, Key(m))
  PROVE  LaneOK(Append(s, m), U \cup {Key(m)}, FALSE, live)
<1> DEFINE t == Append(s, m)
           e == Len(s) + 1
<1>0. Behind(t, s, m)
  BY AppendZones
<1>1. /\ \A q \in ZonesIn(s) : q \in ZonesIn(t) /\ t[q] = s[q] /\ q < e
      /\ \A q \in ZonesIn(t) : \/ q \in ZonesIn(s) /\ t[q] = s[q]
                               \/ q = e /\ t[q] = m
      /\ e \in ZonesIn(t) /\ t[e] = m
  <2> HIDE DEF t
  <2>1. QED
    BY <1>0 DEF Behind
<1>2. /\ \A q \in ZonesIn(s) : Key(s[q]) \in U
      /\ \A q, u \in ZonesIn(s) : q < u => Precedes(Key(s[q]), Key(s[u]))
      /\ live => \A x \in U : \E q \in ZonesIn(s) : Key(s[q]) = x
  BY DEF LaneOK, Lacks
<1>3. e \in Nat /\ \A q \in ZonesIn(s) : q \in Nat
  BY LenProperties DEF ZonesIn
<1> HIDE DEF t, e
<1>4. ASSUME NEW q \in ZonesIn(t), NEW u \in ZonesIn(t), q < u
      PROVE  Precedes(Key(t[q]), Key(t[u]))
  <2>1. q \in ZonesIn(s) /\ t[q] = s[q]
    <3>1. u <= e /\ u \in Nat
      BY <1>1, <1>3
    <3>2. q # e
      BY <1>3, <1>4, <3>1
    <3>3. QED
      BY <1>1, <3>2
  <2>2. CASE u \in ZonesIn(s) /\ t[u] = s[u]
    BY <1>2, <1>4, <2>1, <2>2
  <2>3. CASE u = e /\ t[u] = m
    BY <1>2, <2>1, <2>3
  <2>4. QED
    BY <1>1, <2>2, <2>3
<1>5. \A q \in ZonesIn(t) : Key(t[q]) \in U \cup {Key(m)}
  BY <1>1, <1>2
<1>6. live => \A x \in U \cup {Key(m)} : \E q \in ZonesIn(t) : Key(t[q]) = x
  <2> SUFFICES ASSUME live, NEW x \in U \cup {Key(m)}
               PROVE  \E q \in ZonesIn(t) : Key(t[q]) = x
    OBVIOUS
  <2>1. CASE x \in U
    <3>1. PICK q \in ZonesIn(s) : Key(s[q]) = x
      BY <1>2, <2>1
    <3>2. QED
      BY <1>1, <3>1
  <2>2. CASE x = Key(m)
    BY <1>1, <2>2
  <2>3. QED
    BY <2>1, <2>2
<1>7. QED
  BY <1>4, <1>5, <1>6 DEF LaneOK, t

LEMMA LaneSwallows ==
  ASSUME NEW s, NEW U, NEW live, NEW x, LaneOK(s, U, TRUE, live),
         \A y \in U : Precedes(y, x)
  PROVE  LaneOK(s, U \cup {x}, TRUE, live)
<1>1. Lacks(s, TRUE, x)
  BY DEF LaneOK, Lacks
<1>2. QED
  BY <1>1 DEF LaneOK

LEMMA LanePoisoned ==
  ASSUME NEW S, NEW s \in Seq(S), NEW m \in S, NEW U, NEW cut, NEW live, IsPoison(m),
         LaneOK(s, U, cut, live)
  PROVE  LaneOK(Append(s, m), U, cut, live)
<1> DEFINE t == Append(s, m)
<1>0. Behind(t, s, m)
  BY AppendZones
<1> HIDE DEF t
<1>1. /\ \A q \in ZonesIn(s) : q \in ZonesIn(t) /\ t[q] = s[q]
      /\ \A q \in ZonesIn(t) : q \in ZonesIn(s) /\ t[q] = s[q]
  BY <1>0 DEF Behind
<1>2. QED
  BY <1>1 DEF LaneOK, Lacks, t

\* What lies at the head comes before everything else under way.
LEMMA LaneFirst ==
  ASSUME NEW S, NEW s \in Seq(S), s # <<>>, ~IsPoison(Head(s)), NEW U, NEW cut,
         LaneOK(s, U, cut, TRUE)
  PROVE  /\ Key(Head(s)) \in U
         /\ \A x \in U : x = Key(Head(s)) \/ Precedes(Key(Head(s)), x)
<1>1. 1 \in ZonesIn(s) /\ s[1] = Head(s)
  BY TailZones
<1>2. ASSUME NEW x \in U PROVE x = Key(Head(s)) \/ Precedes(Key(Head(s)), x)
  <2>1. CASE \E q \in ZonesIn(s) : Key(s[q]) = x
    <3>1. PICK q \in ZonesIn(s) : Key(s[q]) = x
      BY <2>1
    <3>2. q = 1 \/ 1 < q
      BY DEF ZonesIn
    <3>3. QED
      BY <1>1, <3>1, <3>2 DEF LaneOK
  <2>2. CASE Lacks(s, cut, x)
    BY <1>1, <2>2 DEF Lacks
  <2>3. QED
    BY <2>1, <2>2 DEF LaneOK
<1>3. QED
  BY <1>1, <1>2 DEF LaneOK

-----------------------------------------------------------------------------
(* The edges of the ring.  A rank sends along one edge to the next rank.     *)

LEMMA RankIsHighest ==
  ASSUME NEW k \in Nodes
  PROVE  \A s \in Heads : s <= k => s <= RankOf(k)
<1> DEFINE S == {r \in Heads : r <= k}
<1>1. k \in Nat /\ Heads \subseteq Nat /\ 0 \in Heads
  BY RingFacts, HeadsAreNodes DEF Nodes
<1>2. S \in SUBSET (0 .. k) /\ S # {}
  <2>1. \A r \in S : r \in 0 .. k
    BY <1>1
  <2>2. 0 \in S
    BY <1>1
  <2>3. QED
    BY <2>1, <2>2, Zenon
<1>4. RankOf(k) = Max(S)
  BY DEF RankOf
<1> HIDE DEF S
<1>3. Max(S) \in S /\ \A y \in S : Max(S) >= y
  BY <1>1, <1>2, MaxExists
<1> USE DEF S
<1>5. ASSUME NEW s \in Heads, s <= k PROVE s <= RankOf(k)
  <2>1. s \in S
    BY <1>5
  <2>2. Max(S) >= s /\ Max(S) \in S /\ s \in Nat
    BY <1>1, <1>3, <2>1
  <2> DEFINE x == Max(S)
  <2>3. x \in Nat /\ x >= s
    BY <1>1, <2>2
  <2> HIDE DEF x
  <2>4. s <= x
    BY <1>1, <2>2, <2>3
  <2>5. QED
    BY <1>4, <2>4 DEF x
<1>6. QED
  BY <1>5

LEMMA RankOfHead ==
  ASSUME NEW r \in Heads
  PROVE  r \in Nodes /\ RankOf(r) = r
<1>1. r \in Nodes /\ r \in Nat
  BY HeadsAreNodes
<1>2. RankOf(r) \in 0 .. r /\ r <= RankOf(r)
  BY <1>1, RankFacts, RankIsHighest
<1>3. QED
  BY <1>1, <1>2

LEMMA NextRankIs ==
  ASSUME NEW k \in Nodes, BoundaryOut(k)
  PROVE  /\ Consumer(k) \in Heads /\ NextRank(RankOf(k)) = Consumer(k)
         /\ RankOf(Consumer(k)) = Consumer(k) /\ BoundaryIn(Consumer(k))
<1> DEFINE r == RankOf(k)
           c == Consumer(k)
           above == {s \in Heads : s > r}
<1>1. /\ c \in Heads /\ r \in Heads /\ r \in 0 .. k /\ k \in 0 .. Z - 1
      /\ Heads \subseteq 0 .. Z - 1 /\ Heads \subseteq Nat /\ Z \in Nat \ {0}
  BY RankFacts, HeadsAreNodes, RingFacts DEF BoundaryOut, BoundaryIn, Nodes
<1>2. \A s \in Heads : s <= k => s <= r
  BY RankIsHighest
<1>3. above \in SUBSET Nat
  BY <1>1
<1>4. NextRank(r) = IF above = {} THEN 0 ELSE Min(above)
  BY DEF NextRank
<1> HIDE DEF r
<1>5. CASE k = Z - 1
  <2>1. c = 0
    BY <1>1, <1>5 DEF Consumer
  <2>2. above = {}
    <3>1. \A s \in Heads : s <= k /\ s \in Nat
      BY <1>1, <1>5
    <3>2. \A s \in Heads : ~(s > r)
      BY <1>1, <1>2, <3>1
    <3>3. QED
      BY <3>2
  <2>3. QED
    BY <1>1, <1>4, <2>1, <2>2, RankOfHead DEF r, BoundaryOut
<1>6. CASE k # Z - 1
  <2>1. c = k + 1
    BY <1>1, <1>6 DEF Consumer
  <2>2. c \in above
    <3> HIDE DEF c
    <3>1. QED
      BY <1>1, <2>1
  <2>3. Min(above) \in above /\ \A s \in above : Min(above) =< s
    BY <1>3, <2>2, MinExists
  <2> DEFINE x == Min(above)
  <2>4. x \in Heads /\ x > r /\ x =< c
    BY <2>2, <2>3
  <2> HIDE DEF x, c
  <2>5. ~(x <= k)
    BY <1>1, <1>2, <2>4
  <2>6. x = c
    BY <1>1, <2>1, <2>4, <2>5
  <2>7. above # {}
    BY <2>2
  <2>8. NextRank(r) = c
    BY <1>4, <2>6, <2>7 DEF x
  <2>9. QED
    BY <1>1, <2>8, RankOfHead DEF r, c, BoundaryOut
<1>7. QED
  BY <1>5, <1>6

LEMMA OneWayOut ==
  ASSUME NEW k \in Nodes, NEW n \in Nodes, BoundaryOut(k), BoundaryOut(n),
         RankOf(k) = RankOf(n)
  PROVE  k = n
<1>1. Consumer(k) = Consumer(n)
  BY NextRankIs
<1>2. InEdge(Consumer(k)) = k /\ InEdge(Consumer(n)) = n
  BY ConsumerOfIn
<1>3. QED
  BY <1>1, <1>2

LEMMA OwnerNext ==
  ASSUME NEW h \in Nat \ {0}
  PROVE  Owner(h + 1) = Consumer(Owner(h))
<1> DEFINE x == h - 1
           r == x % Z
           q == x \div Z
           t == (x + 1) % Z
           p == (x + 1) \div Z
<1>1. Z \in Nat \ {0} /\ x \in Int
  BY RingFacts
<1>2. ASSUME NEW y \in Int
      PROVE  /\ y \div Z \in Int /\ y % Z \in 0 .. Z - 1
             /\ y = Z * (y \div Z) + (y % Z)
  BY <1>1
<1>3. q \in Int /\ r \in 0 .. Z - 1 /\ x = Z * q + r
  <2> HIDE DEF x
  <2>1. QED
    BY <1>1, <1>2
<1>4. p \in Int /\ t \in 0 .. Z - 1 /\ x + 1 = Z * p + t
  <2>1. x + 1 \in Int
    BY <1>1
  <2> HIDE DEF x
  <2>2. QED
    BY <1>2, <2>1
<1>5. (h + 1) - 1 = x + 1
  OBVIOUS
<1>6. Owner(h) = r /\ Owner(h + 1) = t
  <2>1. Owner(h) = r
    BY DEF Owner
  <2>2. Owner(h + 1) = ((h + 1) - 1) % Z
    BY DEF Owner
  <2> HIDE DEF x
  <2>3. QED
    BY <1>5, <2>1, <2>2
<1> HIDE DEF q, r, p, t, x
<1>7. Z * (p - q) = (r + 1) - t
  BY <1>1, <1>3, <1>4
<1>8. CASE r + 1 < Z
  <2>1. p - q >= 1 => Z * (p - q) >= Z
    BY <1>1, <1>3, <1>4
  <2>2. p - q <= -1 => Z * (p - q) <= -Z
    BY <1>1, <1>3, <1>4
  <2>3. p - q = 0
    BY <1>1, <1>3, <1>4, <1>7, <1>8, <2>1, <2>2
  <2>4. t = r + 1
    BY <1>1, <1>3, <1>4, <1>7, <2>3
  <2>5. (r + 1) % Z = r + 1
    BY <1>1, <1>3, <1>8
  <2>6. QED
    BY <1>6, <2>4, <2>5 DEF Consumer
<1>9. CASE r + 1 = Z
  <2>1. p - q >= 2 => Z * (p - q) >= 2 * Z
    BY <1>1, <1>3, <1>4
  <2>2. p - q <= 0 => Z * (p - q) <= 0
    BY <1>1, <1>3, <1>4
  <2>3. p - q = 1
    BY <1>1, <1>3, <1>4, <1>7, <1>9, <2>1, <2>2
  <2>4. t = 0
    BY <1>1, <1>3, <1>4, <1>7, <1>9, <2>3
  <2>5. Z % Z = 0
    BY <1>1
  <2>6. QED
    BY <1>6, <1>9, <2>4, <2>5 DEF Consumer
<1>10. QED
  BY <1>1, <1>3, <1>8, <1>9

-----------------------------------------------------------------------------
(* Counts.  What is under way on an edge are the zones that its node has     *)
(* sent and its consumer has not taken.                                      *)

Sends == Passes \ {Steps}

\* The zones of pass h that have arrived.
ArrivedOf(h) ==
  IF pass[Owner(h)] > h THEN N
  ELSE IF pass[Owner(h)] = h /\ loc[Owner(h)].agg.pass = h THEN loc[Owner(h)].arrived
  ELSE 0

OnWay(e) ==
  {x \in Sends \X Zones :
     Owner(x[1]) = e /\ ArrivedOf(x[1] + 1) <= x[2] /\ x[2] < SentOf(x[1])}

Lane(e) == IF BoundaryOut(e) THEN link[Consumer(e)] ELSE chan[e]
Cut(e) == IF BoundaryOut(e) THEN poisoned[RankOf(e)] ELSE e \in closed
Live(e) == pc[Consumer(e)] \notin Stopped
LaneInv(e) == LaneOK(Lane(e), OnWay(e), Cut(e), Live(e))

\* The buffers of a boundary are used one after the other.
MsgNo(m) == Turn(m.step) + m.pos
SendNo(k) == Turn(pass[k]) + (IF loc[k].agg.pass = pass[k] THEN loc[k].sent ELSE 0)
BufInv(e) ==
  BoundaryOut(e) /\ ~poisoned[RankOf(e)] =>
    /\ \A q \in ZonesIn(link[Consumer(e)]) :
         link[Consumer(e)][q].buf = MsgNo(link[Consumer(e)][q]) % PoolSize
    /\ pass[e] <= Steps => nextBuf[RankOf(e)] = SendNo(e) % PoolSize

\* No pass overtakes another, and no zone leaves before it has arrived.
Descends == \A g, h \in Passes : g < h => SentOf(h) <= SentOf(g)
Leads(k) == loc[k].sent <= loc[k].arrived

RingInv ==
  /\ Descends /\ \A k \in Nodes : Leads(k)
  /\ \A e \in Nodes : LaneInv(e) /\ BufInv(e)

BaseInv == TypeInv /\ FlowInv /\ DataInv

LEMMA SendsFacts ==
  /\ Sends \subseteq Passes /\ Sends \subseteq Nat \ {0}
  /\ \A h \in Sends : h + 1 \in Passes /\ h + 1 \in Nat \ {0}
<1>1. Steps \in Nat \ {0}
  BY RingFacts
<1>2. ASSUME NEW h \in Sends
      PROVE  h \in Passes /\ h \in Nat \ {0} /\ h + 1 \in Passes /\ h + 1 \in Nat \ {0}
  <2>1. h \in 1 .. Steps /\ h # Steps
    BY DEF Sends, Passes
  <2>2. QED
    BY <1>1, <2>1 DEF Passes
<1>3. QED
  BY <1>2

LEMMA OnWayKeys ==
  ASSUME NEW e
  PROVE  OnWay(e) \in SUBSET Keys
<1>1. Sends \subseteq Int /\ Zones \subseteq Int
  BY SendsFacts DEF Zones
<1>2. Sends \X Zones \in SUBSET (Int \X Int)
  BY <1>1
<1>3. OnWay(e) \in SUBSET (Sends \X Zones)
  BY DEF OnWay
<1>4. QED
  BY <1>2, <1>3 DEF Keys

LEMMA OnWayNext ==
  ASSUME NEW e
  PROVE  OnWay(e)' = {x \in Sends \X Zones :
           Owner(x[1]) = e /\ ArrivedOf(x[1] + 1)' <= x[2] /\ x[2] < SentOf(x[1])'}
BY DEF OnWay, Owner

LEMMA ArrivedOfType ==
  ASSUME TypeInv, NEW h \in Nat \ {0}
  PROVE  ArrivedOf(h) \in 0 .. N
<1>1. Owner(h) \in Nodes
  BY OwnerFacts
<1>2. loc[Owner(h)] \in PassStates
  BY <1>1, NodeFields
<1> DEFINE p == loc[Owner(h)]
<1>3. p \in PassStates
  BY <1>2
<1> HIDE DEF p
<1>4. p.arrived \in 0 .. N
  BY <1>3, PassFields
<1>5. QED
  BY <1>4, RingFacts DEF ArrivedOf, p

\* A zone arrives after it was sent, and is sent after it arrived.
LEMMA ArrivedAfter ==
  ASSUME TypeInv, FlowInv, NEW h \in Sends
  PROVE  ArrivedOf(h + 1) <= SentOf(h)
<1>1. h \in Nat \ {0} /\ h \in Passes /\ h + 1 \in Passes /\ h + 1 \in Nat \ {0}
  BY SendsFacts
<1> DEFINE g == h + 1
           c == Owner(g)
<1>2. c \in Nodes /\ SentOf(h) \in 0 .. N /\ SentOf(g) \in 0 .. N /\ g - 1 = h
  BY <1>1, SentOfType
<1>3. CASE pass[c] > g
  <2>1. SentOf(g) = N
    BY <1>3 DEF SentOf
  <2>2. h < g
    BY <1>1
  <2>3. SentOf(h) = N
    <3> HIDE DEF g
    <3>1. QED
      BY <1>1, <2>1, <2>2 DEF FlowInv, CompleteDown, g
  <2>4. QED
    BY <1>3, <2>3, RingFacts DEF ArrivedOf
<1>4. CASE ~(pass[c] > g) /\ pass[c] = g /\ loc[c].agg.pass = g
  <2>1. ArrivedOf(g) = loc[c].arrived
    BY <1>4 DEF ArrivedOf
  <2>2. g > 1
    BY <1>1
  <2>3. loc[c].arrived <= SentOf(loc[c].agg.pass - 1)
    BY <1>2, <1>4, <2>2, NodeFlow DEF Arrived
  <2>4. QED
    BY <1>2, <1>4, <2>1, <2>3
<1>5. CASE ~(pass[c] > g) /\ ~(pass[c] = g /\ loc[c].agg.pass = g)
  <2>1. ArrivedOf(g) = 0
    BY <1>5 DEF ArrivedOf
  <2>2. QED
    BY <1>2, <2>1, RingFacts
<1>6. QED
  BY <1>3, <1>4, <1>5

LEMMA SentBelow ==
  ASSUME TypeInv, FlowInv, RingInv, NEW h \in Nat \ {0}
  PROVE  SentOf(h) <= ArrivedOf(h)
<1>1. Owner(h) \in Nodes
  BY OwnerFacts
<1>2. Leads(Owner(h))
  BY <1>1 DEF RingInv
<1>3. QED
  BY <1>2, RingFacts DEF SentOf, ArrivedOf, Leads

LEMMA SendAhead ==
  ASSUME BaseInv, NEW k \in Nodes, Sending(k)
  PROVE  /\ pass[k] \in Sends /\ Owner(pass[k]) = k /\ loc[k].agg.pass = pass[k]
         /\ loc[k].sent \in Zones /\ loc[k].arrived \in 0 .. N
         /\ loc[k].sent + 1 <= loc[k].arrived /\ SentOf(pass[k]) = loc[k].sent
<1>1. TypeInv /\ FlowInv /\ DataInv
  BY DEF BaseInv
<1>2. pc[k] \in AtWork /\ pass[k] # Steps /\ loc[k].outq # <<>>
  BY DEF Sending, Flushing, AtWork
<1>3. /\ pass[k] \in Nat \ {0} /\ Owner(pass[k]) = k /\ pass[k] <= Steps
      /\ loc[k].agg.pass = pass[k]
  BY <1>1, <1>2, NodeFlow DEF PassOfNode
<1>4. pass[k] \in Sends
  BY <1>2, <1>3, RingFacts DEF Sends, Passes
<1>5. loc[k].sent \in Nat /\ loc[k].arrived \in 0 .. N
  BY <1>1, NodeFields, PassFields
<1>6. /\ loc[k].sent < N
      /\ loc[k].sent + 1 < N => loc[k].sent + 1 < loc[k].arrived
      /\ LastOfPass(loc[k]) => loc[k].arrived = N
  BY <1>1, SendingFacts
<1>7. loc[k].sent + 1 <= loc[k].arrived /\ loc[k].sent \in Zones
  BY <1>5, <1>6, RingFacts DEF LastOfPass, Zones
<1>8. SentOf(pass[k]) = loc[k].sent
  BY <1>3 DEF SentOf
<1>9. QED
  BY <1>3, <1>4, <1>5, <1>7, <1>8

\* What is under way to the consumer was sent less than a pool ago.
LEMMA SentLately ==
  ASSUME BaseInv, RingInv, NEW k \in Nodes, BoundaryOut(k), Sending(k),
         NEW x \in OnWay(k)
  PROVE  /\ Turn(x[1]) + x[2] \in Int /\ SendNo(k) \in Int
         /\ Turn(x[1]) + x[2] < SendNo(k) /\ SendNo(k) < (Turn(x[1]) + x[2]) + N
<1>0. TypeInv /\ FlowInv /\ N \in Nat \ {0} /\ Z \in Nat \ {0} /\ Z # 1
  <2>1. Z # 1
    <3>1. Cardinality(Heads) > 1
      BY DEF BoundaryOut, BoundaryIn, Mpi, Ranks
    <3>2. ASSUME Z = 1 PROVE FALSE
      <4>1. Heads = {0}
        <5>1. \A r \in Heads : r = 0
          <6> SUFFICES ASSUME NEW r \in Heads PROVE r = 0
            OBVIOUS
          <6>1. r \in 0 .. Z - 1
            BY HeadsAreNodes DEF Nodes
          <6>2. QED
            BY <3>2, <6>1
        <5>2. QED
          BY <5>1, HeadsAreNodes
      <4>2. Cardinality({0}) = 1
        BY FS_Singleton
      <4>3. QED
        BY <3>1, <4>1, <4>2
    <3>3. QED
      BY <3>2
  <2>2. QED
    BY <2>1, RingFacts DEF BaseInv
<1> DEFINE h == pass[k]
           g == x[1]
           p == x[2]
           s == loc[k].sent
<1>1. h \in Sends /\ Owner(h) = k /\ loc[k].agg.pass = h /\ s \in 0 .. N - 1
      /\ s + 1 <= loc[k].arrived /\ loc[k].arrived \in 0 .. N /\ SentOf(h) = s
  BY SendAhead DEF Zones
<1>2. g \in Sends /\ p \in 0 .. N - 1 /\ Owner(g) = k /\ ArrivedOf(g + 1) <= p /\ p < SentOf(g)
  BY DEF OnWay, Zones
<1>3. /\ g \in Nat \ {0} /\ h \in Nat \ {0} /\ g \in Passes /\ h \in Passes
      /\ g + 1 \in Passes /\ g + 1 \in Nat \ {0}
  BY <1>1, <1>2, SendsFacts
<1>4. SendNo(k) = Turn(h) + s
  BY <1>1 DEF SendNo
<1> HIDE DEF h, g, p, s
<1>5. Turn(g) \in Int /\ Turn(h) \in Int
  BY <1>3, TurnFacts
<1>6. g <= h /\ (g = h => p < s)
  <2>1. SentOf(g) = IF pass[k] > g THEN N
                    ELSE IF pass[k] = g /\ loc[k].agg.pass = g THEN loc[k].sent ELSE 0
    BY <1>2 DEF SentOf
  <2>2. QED
    BY <1>1, <1>2, <1>3, <2>1 DEF h, s
<1>7. CASE g = h
  BY <1>0, <1>1, <1>2, <1>4, <1>5, <1>6, <1>7 DEF g, p
<1>8. CASE g # h
  <2>1. g + Z <= h
    <3>1. g < h
      BY <1>3, <1>6, <1>8
    <3>2. QED
      BY <1>1, <1>2, <1>3, <3>1, OwnerGap
  <2>2. SentOf(g + 1) <= ArrivedOf(g + 1) /\ SentOf(g + 1) \in 0 .. N /\ ArrivedOf(g + 1) \in 0 .. N
    <3> DEFINE u == g + 1
    <3>1. u \in Nat \ {0}
      BY <1>3
    <3> HIDE DEF u
    <3>2. SentOf(u) <= ArrivedOf(u) /\ SentOf(u) \in 0 .. N /\ ArrivedOf(u) \in 0 .. N
      BY <1>0, <3>1, SentBelow, SentOfType, ArrivedOfType
    <3>3. QED
      BY <3>2 DEF u
  <2>3. SentOf(g + 1) <= p
    BY <1>2, <2>2
  <2>4. p > s
    <3> DEFINE f == h - 1
    <3>1. f \in Nat \ {0} /\ f \in Passes /\ g + 1 <= f
      <4>1. g + 1 <= h - 1
        BY <1>0, <1>3, <2>1
      <4>2. QED
        BY <1>3, <4>1, RingFacts DEF Passes
    <3>2. loc[k].arrived <= SentOf(f)
      <4>1. h > 1 /\ loc[k].agg.pass > 1
        BY <1>1, <1>3, <3>1
      <4>2. QED
        BY <1>0, <1>1, <4>1, NodeFlow DEF Arrived
    <3>3. SentOf(f) <= SentOf(g + 1) /\ SentOf(f) \in 0 .. N
      <4> HIDE DEF f
      <4>1. SentOf(f) \in 0 .. N
        BY <1>0, <3>1, SentOfType
      <4>2. CASE g + 1 = f
        BY <2>2, <4>2
      <4>3. CASE g + 1 # f
        <5>1. g + 1 < f
          BY <1>3, <3>1, <4>3
        <5> DEFINE u == g + 1
        <5>2. u \in Passes /\ u < f
          BY <1>3, <5>1
        <5> HIDE DEF u
        <5>3. SentOf(f) <= SentOf(u)
          BY <3>1, <5>2 DEF RingInv, Descends
        <5>4. QED
          BY <4>1, <5>3 DEF u
      <4>4. QED
        BY <4>2, <4>3
    <3> HIDE DEF f
    <3>4. QED
      BY <1>1, <1>2, <2>2, <2>3, <3>2, <3>3
  <2>5. g + Z = h
    <3>1. SUFFICES ASSUME g + Z # h PROVE FALSE
      OBVIOUS
    <3> DEFINE u == g + Z
               v == g + 1
    <3>2. u \in Nat \ {0} /\ u \in Passes /\ u < h /\ v < u /\ v \in Passes
      <4>1. g + Z < h /\ g + 1 < g + Z
        BY <1>0, <1>3, <2>1, <3>1
      <4>2. QED
        BY <1>0, <1>3, <4>1, RingFacts DEF Passes
    <3>3. Owner(u) = k
      BY <1>2, <1>3, OwnerFacts
    <3> HIDE DEF u, v
    <3>4. SentOf(u) = N
      BY <3>2, <3>3 DEF SentOf, h
    <3>5. N <= SentOf(v)
      BY <3>2, <3>4 DEF RingInv, Descends
    <3>6. SentOf(v) <= p
      BY <2>3 DEF v
    <3>7. SentOf(v) \in Int
      BY <2>2 DEF v
    <3>8. QED
      BY <1>0, <1>2, <3>5, <3>6, <3>7
  <2>6. Turn(h) = Turn(g) + N
    BY <1>3, <2>5, TurnFacts
  <2>7. QED
    BY <1>0, <1>1, <1>2, <1>4, <1>5, <2>4, <2>6 DEF g, p
<1>9. QED
  BY <1>7, <1>8

LEMMA BufferIsFree ==
  ASSUME BaseInv, RingInv, PoolSize >= N, NEW k \in Nodes, BoundaryOut(k), Sending(k),
         ~poisoned[RankOf(k)]
  PROVE  ~Pending(RankOf(k))
<1> DEFINE r == RankOf(k)
           c == Consumer(k)
<1>1. NextRank(r) = c
  BY NextRankIs
<1>2. SUFFICES ASSUME NEW q \in 1 .. Len(link[c]), ~IsPoison(link[c][q]),
                      link[c][q].buf = nextBuf[r]
               PROVE  FALSE
  BY <1>1 DEF Pending
<1> DEFINE m == link[c][q]
<1>3. q \in ZonesIn(link[c])
  BY <1>2 DEF ZonesIn
<1>4. Key(m) \in OnWay(k)
  <2>1. LaneInv(k) /\ Lane(k) = link[c]
    BY DEF RingInv, Lane
  <2>2. QED
    BY <1>3, <2>1 DEF LaneInv, LaneOK
<1>5. m.buf = MsgNo(m) % PoolSize /\ nextBuf[r] = SendNo(k) % PoolSize
  <2>1. pass[k] <= Steps
    <3>1. pass[k] \in Sends
      BY SendAhead
    <3>2. QED
      BY <3>1, RingFacts DEF Sends, Passes
  <2>2. BufInv(k)
    BY DEF RingInv
  <2>3. QED
    BY <1>3, <2>1, <2>2 DEF BufInv
<1> HIDE DEF m
<1> DEFINE a == MsgNo(m)
           b == SendNo(k)
<1>6. a = Turn(Key(m)[1]) + Key(m)[2]
  BY DEF MsgNo, Key
<1>7. a \in Int /\ b \in Int /\ a < b /\ b < a + N
  <2> DEFINE x == Key(m)
  <2>1. x \in OnWay(k)
    BY <1>4
  <2> HIDE DEF x
  <2>2. /\ Turn(x[1]) + x[2] \in Int /\ SendNo(k) \in Int
        /\ Turn(x[1]) + x[2] < SendNo(k) /\ SendNo(k) < (Turn(x[1]) + x[2]) + N
    BY <2>1, SentLately
  <2>3. a = Turn(x[1]) + x[2]
    BY <1>6 DEF x
  <2> HIDE DEF a
  <2>4. QED
    BY <2>2, <2>3
<1>8. PoolSize \in Nat /\ N \in Nat
  BY RingFacts, RanksAssumption DEF RanksAssumption, PoolSize
<1> HIDE DEF a, b
<1>9. b < a + PoolSize
  BY <1>7, <1>8
<1>10. a % PoolSize # b % PoolSize
  BY <1>7, <1>9, BuffersDiffer
<1>11. m.buf = nextBuf[r]
  BY <1>2 DEF m
<1>12. QED
  BY <1>5, <1>10, <1>11 DEF a, b

-----------------------------------------------------------------------------
(* What a step must show about the ring.                                     *)

LEMMA LaneNext ==
  ASSUME NEW e, LaneOK(Lane(e)', OnWay(e)', Cut(e)', Live(e)')
  PROVE  LaneInv(e)'
BY DEF LaneInv

LEMMA LaneKept ==
  ASSUME NEW e, LaneInv(e), Lane(e)' = Lane(e), OnWay(e)' = OnWay(e),
         Cut(e) => Cut(e)', Live(e)' => Live(e)
  PROVE  LaneInv(e)'
<1>1. LaneOK(Lane(e), OnWay(e), Cut(e), Live(e))
  BY DEF LaneInv
<1>2. LaneOK(Lane(e), OnWay(e), Cut(e)', Live(e)')
  BY <1>1, LaneWeaker
<1>3. QED
  BY <1>2, LaneNext

LEMMA BufKept ==
  ASSUME NEW e, BufInv(e), link'[Consumer(e)] = link[Consumer(e)],
         nextBuf'[RankOf(e)] = nextBuf[RankOf(e)],
         poisoned[RankOf(e)] => poisoned'[RankOf(e)],
         pass'[e] <= Steps => pass[e] <= Steps /\ SendNo(e)' = SendNo(e)
  PROVE  BufInv(e)'
BY DEF BufInv

\* The nodes that have stopped stay so.
Settled == \A n \in Nodes : pc[n] \in Stopped => pc'[n] \in Stopped

LEMMA OnWayKept ==
  ASSUME NEW e, \A h \in Sends : Owner(h) = e =>
           SentOf(h)' = SentOf(h) /\ ArrivedOf(h + 1)' = ArrivedOf(h + 1)
  PROVE  OnWay(e)' = OnWay(e)
<1>1. OnWay(e)' = {x \in Sends \X Zones :
        Owner(x[1]) = e /\ ArrivedOf(x[1] + 1)' <= x[2] /\ x[2] < SentOf(x[1])'}
  BY OnWayNext
<1>2. \A x \in Sends \X Zones : x[1] \in Sends
  OBVIOUS
<1>3. \A x \in Sends \X Zones : Owner(x[1]) = e =>
        SentOf(x[1])' = SentOf(x[1]) /\ ArrivedOf(x[1] + 1)' = ArrivedOf(x[1] + 1)
  BY <1>2
<1>4. QED
  BY <1>1, <1>3 DEF OnWay

LEMMA CountsAre ==
  ASSUME NEW CONSTANT h, NEW CONSTANT k, Owner(h) = k
  PROVE  /\ SentOf(h) = IF pass[k] > h THEN N
                        ELSE IF pass[k] = h /\ loc[k].agg.pass = h THEN loc[k].sent ELSE 0
         /\ ArrivedOf(h) = IF pass[k] > h THEN N
                           ELSE IF pass[k] = h /\ loc[k].agg.pass = h
                             THEN loc[k].arrived ELSE 0
         /\ SentOf(h)' = IF pass'[k] > h THEN N
                         ELSE IF pass'[k] = h /\ loc'[k].agg.pass = h
                           THEN loc'[k].sent ELSE 0
         /\ ArrivedOf(h)' = IF pass'[k] > h THEN N
                            ELSE IF pass'[k] = h /\ loc'[k].agg.pass = h
                              THEN loc'[k].arrived ELSE 0
BY DEF SentOf, ArrivedOf, Owner

LEMMA CountKept ==
  ASSUME NEW h, pass'[Owner(h)] = pass[Owner(h)],
         loc'[Owner(h)].agg.pass = loc[Owner(h)].agg.pass
  PROVE  /\ loc'[Owner(h)].sent = loc[Owner(h)].sent => SentOf(h)' = SentOf(h)
         /\ loc'[Owner(h)].arrived = loc[Owner(h)].arrived => ArrivedOf(h)' = ArrivedOf(h)
BY DEF SentOf, ArrivedOf

SameCounts(n) ==
  /\ pass'[n] = pass[n] /\ loc'[n].agg.pass = loc[n].agg.pass
  /\ loc'[n].sent = loc[n].sent /\ loc'[n].arrived = loc[n].arrived

LEMMA SendNoKept ==
  ASSUME NEW n, pass'[n] = pass[n], loc'[n].agg.pass = loc[n].agg.pass,
         loc'[n].sent = loc[n].sent
  PROVE  SendNo(n)' = SendNo(n)
BY DEF SendNo

LEMMA EdgeKept ==
  ASSUME RingInv, NEW e \in Nodes, Settled,
         ~BoundaryOut(e) => chan'[e] = chan[e] /\ (e \in closed => e \in closed'),
         BoundaryOut(e) => /\ link'[Consumer(e)] = link[Consumer(e)]
                           /\ nextBuf'[RankOf(e)] = nextBuf[RankOf(e)]
                           /\ poisoned[RankOf(e)] => poisoned'[RankOf(e)],
         \A h \in Sends : Owner(h) = e =>
           SentOf(h)' = SentOf(h) /\ ArrivedOf(h + 1)' = ArrivedOf(h + 1),
         pass'[e] <= Steps => pass[e] <= Steps /\ SendNo(e)' = SendNo(e)
  PROVE  LaneInv(e)' /\ BufInv(e)'
<1>1. OnWay(e)' = OnWay(e)
  BY OnWayKept
<1>2. Lane(e)' = Lane(e) /\ (Cut(e) => Cut(e)')
  BY DEF Lane, Cut
<1>3. Live(e)' => Live(e)
  BY EdgesAreNodes DEF Live, Settled
<1>4. LaneInv(e) /\ BufInv(e)
  BY DEF RingInv
<1>5. LaneInv(e)'
  BY <1>1, <1>2, <1>3, <1>4, LaneKept
<1>6. BufInv(e)'
  <2>1. CASE BoundaryOut(e)
    BY <1>4, <2>1, BufKept
  <2>2. CASE ~BoundaryOut(e)
    BY <2>2 DEF BufInv
  <2>3. QED
    BY <2>1, <2>2
<1>7. QED
  BY <1>5, <1>6

LEMMA RingStep ==
  ASSUME BaseInv, TypeInv', RingInv, \A k \in Nodes : Leads(k)',
         \A h \in Passes : SentOf(h)' \in Nat /\ SentOf(h)' >= SentOf(h),
         \A h \in Passes : SentOf(h)' = SentOf(h) \/
           \A g \in Passes : g < h => SentOf(h)' <= SentOf(g),
         \A e \in Nodes : LaneInv(e)' /\ BufInv(e)'
  PROVE  RingInv'
<1>1. ASSUME NEW g \in Passes, NEW h \in Passes, g < h
      PROVE  SentOf(h)' <= SentOf(g)'
  <2>1. SentOf(g) \in Nat /\ SentOf(h) \in Nat
    <3>1. g \in Nat \ {0} /\ h \in Nat \ {0}
      BY RingFacts DEF Passes
    <3>2. SentOf(g) \in 0 .. N /\ SentOf(h) \in 0 .. N
      BY <3>1, SentOfType DEF BaseInv
    <3>3. QED
      BY <3>2
  <2>2. SentOf(h) <= SentOf(g)
    BY <1>1 DEF RingInv, Descends
  <2>3. SentOf(h)' <= SentOf(g)
    BY <1>1, <2>2
  <2>4. SentOf(g)' \in Nat /\ SentOf(h)' \in Nat /\ SentOf(g)' >= SentOf(g)
    OBVIOUS
  <2>5. QED
    BY <2>1, <2>3, <2>4
<1>2. Descends'
  BY <1>1 DEF Descends
<1>3. QED
  BY <1>2 DEF RingInv

LEMMA SentTyped ==
  ASSUME BaseInv, NEW h \in Passes
  PROVE  SentOf(h) \in Nat /\ SentOf(h) \in 0 .. N /\ Owner(h) \in Nodes
<1>1. h \in Nat \ {0}
  BY RingFacts DEF Passes
<1>2. SentOf(h) \in 0 .. N /\ Owner(h) \in Nodes
  BY <1>1, SentOfType DEF BaseInv
<1>3. QED
  BY <1>2

\* Steps that neither send nor receive, inside a pass.
LEMMA RingCalm ==
  ASSUME BaseInv, TypeInv', RingInv, Settled, UNCHANGED <<chan, linkVars>>,
         closed \subseteq closed', \A n \in Nodes : SameCounts(n)
  PROVE  RingInv'
<1>1. ASSUME NEW h \in Nat \ {0}
      PROVE  SentOf(h)' = SentOf(h) /\ ArrivedOf(h)' = ArrivedOf(h)
  <2>1. Owner(h) \in Nodes
    BY OwnerFacts
  <2>2. QED
    BY <2>1, CountKept DEF SameCounts
<1>2. ASSUME NEW h \in Sends
      PROVE  SentOf(h)' = SentOf(h) /\ ArrivedOf(h + 1)' = ArrivedOf(h + 1)
  <2> DEFINE g == h + 1
  <2>1. g \in Nat \ {0} /\ h \in Nat \ {0}
    BY SendsFacts
  <2> HIDE DEF g
  <2>2. SentOf(h)' = SentOf(h) /\ ArrivedOf(g)' = ArrivedOf(g)
    BY <1>1, <2>1
  <2>3. QED
    BY <2>2 DEF g
<1>3. ASSUME NEW e \in Nodes
      PROVE  LaneInv(e)' /\ BufInv(e)'
  <2>1. SendNo(e)' = SendNo(e) /\ pass'[e] = pass[e]
    BY SendNoKept DEF SameCounts
  <2>2. chan' = chan /\ link' = link /\ nextBuf' = nextBuf /\ poisoned' = poisoned
    BY DEF linkVars
  <2>3. QED
    BY <1>2, <2>1, <2>2, EdgeKept
<1>4. ASSUME NEW h \in Passes
      PROVE  SentOf(h)' = SentOf(h) /\ SentOf(h)' \in Nat /\ SentOf(h)' >= SentOf(h)
  <2>1. h \in Nat \ {0} /\ SentOf(h) \in Nat
    BY SentTyped, RingFacts DEF Passes
  <2>2. SentOf(h)' = SentOf(h)
    BY <1>1, <2>1
  <2>3. QED
    BY <2>1, <2>2
<1>5. \A k \in Nodes : Leads(k)'
  BY DEF Leads, SameCounts, RingInv
<1>6. QED
  BY <1>3, <1>4, <1>5, RingStep

LEMMA HaltMoves ==
  ASSUME TypeInv, NEW k \in Nodes, NEW kind, SetHalt(k, kind)
  PROVE  pc'[k] \in Stopped /\ \A n \in Nodes \ {k} : pc'[n] = pc[n]
BY DEF SetHalt, Goto, TypeInv, NodeTypes, Stopped

LEMMA GoneMoves ==
  ASSUME TypeInv, NEW k \in Nodes, NEW point, Goto(k, point)
  PROVE  pc'[k] = point /\ \A n \in Nodes \ {k} : pc'[n] = pc[n]
BY DEF Goto, TypeInv, NodeTypes

\* A step of one node that neither sends nor receives.
LEMMA CalmNode ==
  ASSUME BaseInv, TypeInv', RingInv, NEW k \in Nodes,
         UNCHANGED <<pass, chan, linkVars>>, closed \subseteq closed',
         \A n \in Nodes \ {k} : pc'[n] = pc[n] /\ loc'[n] = loc[n],
         pc[k] \notin Stopped \/ pc'[k] \in Stopped, SameCounts(k)
  PROVE  RingInv'
<1>1. Settled
  BY DEF Settled
<1>2. \A n \in Nodes : SameCounts(n)
  BY DEF SameCounts
<1>3. QED
  BY <1>1, <1>2, RingCalm

LEMMA CalmHalt ==
  ASSUME BaseInv, TypeInv', RingInv, NEW k \in Nodes, NEW kind, SetHalt(k, kind),
         UNCHANGED <<pass, loc, chan, closed, linkVars>>
  PROVE  RingInv'
<1>1. pc'[k] \in Stopped /\ \A n \in Nodes \ {k} : pc'[n] = pc[n]
  BY HaltMoves DEF BaseInv
<1>2. QED
  BY <1>1, CalmNode DEF SameCounts

LEMMA LeaveRing ==
  ASSUME BaseInv, TypeInv', RingInv, NEW k \in Nodes,
         NodeReturns(k) \/ RecvShutDown(k) \/ CreditShutDown(k) \/ FlushSeesHalt(k)
           \/ HaltCheck(k)
  PROVE  RingInv'
<1>1. Goto(k, "done") /\ UNCHANGED <<pass, loc, laneVars, linkVars>>
  BY DEF NodeReturns, RecvShutDown, CreditShutDown, FlushSeesHalt, HaltCheck
<1>2. pc'[k] = "done" /\ \A n \in Nodes \ {k} : pc'[n] = pc[n]
  BY <1>1, GoneMoves DEF BaseInv
<1>3. pc'[k] \in Stopped
  BY <1>2 DEF Stopped
<1>4. UNCHANGED <<pass, loc, chan, closed, linkVars>>
  BY <1>1 DEF laneVars
<1>5. QED
  BY <1>2, <1>3, <1>4, CalmNode DEF SameCounts

LEMMA CloseEdgeRing ==
  ASSUME BaseInv, TypeInv', RingInv, NEW k \in Nodes, CloseEdge(k)
  PROVE  RingInv'
<1>1. /\ \E point \in Stopped : Goto(k, point)
      /\ UNCHANGED <<pass, loc, chan, linkVars>> /\ closed \subseteq closed'
  BY DEF CloseEdge, Stopped
<1>2. pc'[k] \in Stopped /\ \A n \in Nodes \ {k} : pc'[n] = pc[n]
  BY <1>1, GoneMoves DEF BaseInv
<1>3. QED
  BY <1>1, <1>2, CalmNode DEF SameCounts

LEMMA OpDoneRing ==
  ASSUME BaseInv, TypeInv', RingInv, NEW k \in Nodes, RecvDone(k) \/ FlushDone(k)
  PROVE  RingInv'
<1>1. /\ loc' = loc \/ loc' = [loc EXCEPT ![k].op = 2]
      /\ \E point : Goto(k, point)
      /\ pc[k] \in {"io", "flush"}
      /\ UNCHANGED <<pass, laneVars, linkVars>>
  BY DEF RecvDone, FlushDone, Flushing
<1>2. \A n \in Nodes \ {k} : pc'[n] = pc[n]
  BY <1>1, GoneMoves DEF BaseInv
<1>3. loc[k] \in PassStates /\ loc \in [Nodes -> PassStates]
  BY DEF BaseInv, TypeInv, NodeTypes
<1>4. /\ \A n \in Nodes \ {k} : loc'[n] = loc[n]
      /\ loc'[k] = loc[k] \/ loc'[k] = [loc[k] EXCEPT !.op = 2]
  BY <1>1, <1>3
<1>5. SameCounts(k)
  BY <1>1, <1>3, <1>4 DEF SameCounts, PassStates
<1>6. pc[k] \notin Stopped
  BY <1>1 DEF Stopped
<1>7. UNCHANGED <<pass, chan, closed, linkVars>>
  BY <1>1 DEF laneVars
<1>8. QED
  BY <1>2, <1>4, <1>5, <1>6, <1>7, CalmNode

LEMMA CollectRing ==
  ASSUME BaseInv, TypeInv', RingInv, NEW k \in Nodes, CollectZone(k)
  PROVE  RingInv'
<1>1. Flushing(k) /\ UNCHANGED <<pc, pass, chan, closed, linkVars>>
  BY DEF CollectZone
<1>2. /\ loc'[k].sent = loc[k].sent /\ loc'[k].agg = loc[k].agg
      /\ loc'[k].arrived = loc[k].arrived /\ \A n \in Nodes \ {k} : loc'[n] = loc[n]
  BY CollectZoneType DEF BaseInv
<1>3. pc[k] \notin Stopped
  BY <1>1 DEF Flushing, Stopped
<1>4. QED
  BY <1>1, <1>2, <1>3, CalmNode DEF SameCounts

LEMMA CopyRing ==
  ASSUME BaseInv, TypeInv', RingInv, NEW k \in Nodes, CopyZone(k)
  PROVE  RingInv'
<1>1. Flushing(k) /\ UNCHANGED <<pass, chan, closed, linkVars>>
  BY DEF CopyZone, Sending
<1>2. CASE SetHalt(k, "Logic") /\ UNCHANGED loc
  BY <1>1, <1>2, CalmHalt
<1>3. CASE ~(SetHalt(k, "Logic") /\ UNCHANGED loc)
  <2>1. /\ UNCHANGED pc /\ \E s \in SlotIds : loc'[k] = [loc[k] EXCEPT !.dst = s]
        /\ \A n \in Nodes \ {k} : loc'[n] = loc[n]
    BY <1>3, CopyZoneEffect DEF BaseInv
  <2>2. loc[k] \in PassStates
    BY NodeFields DEF BaseInv
  <2>3. SameCounts(k)
    BY <1>1, <2>1, <2>2 DEF PassStates, SameCounts
  <2>4. pc[k] \notin Stopped
    BY <1>1 DEF Flushing, Stopped
  <2>5. QED
    BY <1>1, <2>1, <2>3, <2>4, CalmNode
<1>4. QED
  BY <1>2, <1>3

LEMMA ComputeRing ==
  ASSUME BaseInv, TypeInv', RingInv, NEW k \in Nodes, ComputeZone(k) \/ EndHead(k)
  PROVE  RingInv'
<1>1. /\ pc[k] \in {"compute", "endhead"}
      /\ UNCHANGED <<pass, chan, closed, linkVars>>
  BY DEF ComputeZone, EndHead, laneVars
<1>2. \/ SetHalt(k, "Logic") /\ UNCHANGED loc
      \/ /\ \A n \in Nodes \ {k} : pc'[n] = pc[n] /\ loc'[n] = loc[n]
         /\ loc'[k].sent = loc[k].sent /\ loc'[k].agg = loc[k].agg
         /\ loc'[k].arrived = loc[k].arrived
  BY ComputeEffect, EndHeadEffect DEF BaseInv
<1>3. pc[k] \notin Stopped
  BY <1>1 DEF Stopped
<1>4. CASE SetHalt(k, "Logic") /\ UNCHANGED loc
  BY <1>1, <1>4, CalmHalt
<1>5. CASE ~(SetHalt(k, "Logic") /\ UNCHANGED loc)
  BY <1>1, <1>2, <1>3, <1>5, CalmNode DEF SameCounts
<1>6. QED
  BY <1>4, <1>5

LEMMA FinishRing ==
  ASSUME BaseInv, TypeInv', RingInv, NEW k \in Nodes, FinishPass(k)
  PROVE  RingInv'
<1>1. pc[k] = "finish" /\ UNCHANGED <<pass, chan, closed, linkVars>>
  BY DEF FinishPass
<1>2. /\ \A n \in Nodes \ {k} : pc'[n] = pc[n] /\ loc'[n] = loc[n]
      /\ loc'[k].sent = loc[k].sent /\ loc'[k].arrived = loc[k].arrived
      /\ loc'[k].agg.pass = loc[k].agg.pass
  BY FinishPassEffect DEF BaseInv
<1>3. pc[k] \notin Stopped
  BY <1>1 DEF Stopped
<1>4. QED
  BY <1>1, <1>2, <1>3, CalmNode DEF SameCounts

LEMMA FaultRing ==
  ASSUME BaseInv, TypeInv', RingInv, NEW k \in Nodes, NodeFault(k)
  PROVE  RingInv'
<1>1. PICK kind \in FaultsAt(k) : Fail(k, kind)
  BY DEF NodeFault
<1>2. UNCHANGED <<pass, loc, chan, closed, linkVars>>
  BY DEF NodeFault, laneVars
<1>3. CASE kind = "Spawn"
  <2>1. NotYetCreated(k) /\ SpawnFails(k)
    BY <1>1, <1>3 DEF FaultsAt, SyncKinds, RecordKinds, Fail
  <2>2. k \in Missing(k) /\ \A n \in Missing(k) : pc[n] = "loop"
    <3>1. k >= k
      BY DEF Nodes
    <3>2. QED
      BY <2>1, <3>1 DEF NotYetCreated, Missing
  <2>3. \A n \in Nodes : pc'[n] = pc[n] \/ pc[n] = "loop"
    BY <2>1, <2>2 DEF SpawnFails
  <2>4. Settled
    BY <2>3 DEF Settled, Stopped
  <2>5. QED
    BY <1>2, <2>4, RingCalm DEF SameCounts
<1>4. CASE kind # "Spawn"
  <2>1. SetHalt(k, kind)
    BY <1>1, <1>4 DEF Fail
  <2>2. QED
    BY <1>2, <2>1, CalmHalt
<1>5. QED
  BY <1>3, <1>4

LEMMA StandRing ==
  ASSUME BaseInv, TypeInv', RingInv,
         (\E r \in Heads : Join(r)) \/ UNCHANGED vars
  PROVE  RingInv'
<1>1. UNCHANGED <<pc, pass, loc, chan, closed, linkVars>>
  BY DEF Join, nodeVars, laneVars, vars
<1>2. Settled
  BY <1>1 DEF Settled
<1>3. QED
  BY <1>1, <1>2, RingCalm DEF SameCounts

-----------------------------------------------------------------------------
(* The pass of a node begins and ends, and the first pass has its zones from *)
(* the host.                                                                 *)

LEMMA RingQuiet ==
  ASSUME BaseInv, TypeInv', RingInv, Settled, UNCHANGED <<chan, closed, linkVars>>,
         \A h \in Sends : SentOf(h)' = SentOf(h) /\ ArrivedOf(h + 1)' = ArrivedOf(h + 1),
         \A n \in Nodes : pass'[n] <= Steps => pass[n] <= Steps /\ SendNo(n)' = SendNo(n),
         \A n \in Nodes : Leads(n)',
         \A h \in Passes : SentOf(h)' \in Nat /\ SentOf(h)' >= SentOf(h),
         \A h \in Passes : SentOf(h)' = SentOf(h) \/
           \A g \in Passes : g < h => SentOf(h)' <= SentOf(g)
  PROVE  RingInv'
<1>1. ASSUME NEW e \in Nodes
      PROVE  LaneInv(e)' /\ BufInv(e)'
  <2>1. chan' = chan /\ link' = link /\ nextBuf' = nextBuf /\ poisoned' = poisoned /\ closed' = closed
    BY DEF linkVars
  <2>2. QED
    BY <2>1, EdgeKept
<1>2. QED
  BY <1>1, RingStep

LEMMA OtherCounts ==
  ASSUME TypeInv, NEW k \in Nodes,
         \A n \in Nodes \ {k} : pass'[n] = pass[n] /\ loc'[n] = loc[n],
         NEW h \in Nat \ {0}, Owner(h) # k
  PROVE  SentOf(h)' = SentOf(h) /\ ArrivedOf(h)' = ArrivedOf(h)
<1>1. Owner(h) \in Nodes
  BY OwnerFacts
<1>2. QED
  BY <1>1, CountKept

LEMMA PreloadRing ==
  ASSUME BaseInv, TypeInv', RingInv, NEW k \in Nodes, TakePreload(k)
  PROVE  RingInv'
<1>0. TypeInv /\ FlowInv
  BY DEF BaseInv
<1>1. /\ AwaitsArrival(k) /\ pass[k] = 1 /\ pc[k] = "io" /\ pc[k] \notin Stopped
      /\ UNCHANGED <<pass, chan, closed, linkVars>>
  BY DEF TakePreload, Preloads, AwaitsArrival, Stopped, laneVars
<1>2. CASE reserve = <<>>
  <2>1. SetHalt(k, "Logic") /\ UNCHANGED loc
    BY <1>2 DEF TakePreload
  <2>2. QED
    BY <1>1, <2>1, CalmHalt
<1>3. CASE reserve # <<>>
  <2> DEFINE fsm == [FreeZone EXCEPT !.type = InitialZoneType(1)]
  <2>1. Head(reserve) \in SlotIds
    BY <1>0, <1>3 DEF TypeInv, PoolTypes
  <2>2. fsm \in ZoneRecords
    BY FreeZoneType DEF InitialZoneType, ZoneRecords, ZoneTypes
  <2>3. FullLambda(0) \in Lambdas /\ DtInitial \in TimeSteps
    BY LambdaTypes
  <2>4. Arrive(k, Head(reserve), fsm, FullLambda(0), DtInitial) /\ UNCHANGED pc
    BY <1>3 DEF TakePreload
  <2> HIDE DEF fsm
  <2>5. /\ \A n \in Nodes \ {k} : loc'[n] = loc[n]
        /\ loc'[k].arrived = loc[k].arrived + 1
        /\ loc'[k].sent = loc[k].sent /\ loc'[k].agg = loc[k].agg
    BY <1>0, <1>1, <2>1, <2>2, <2>3, <2>4, ArriveEffect
  <2>6. Settled
    BY <2>4 DEF Settled
  <2>7. ASSUME NEW h \in Nat \ {0}
        PROVE  SentOf(h)' = SentOf(h)
    <3>1. Owner(h) \in Nodes
      BY OwnerFacts
    <3>2. QED
      BY <1>1, <2>5, <3>1, CountKept
  <2>8. ASSUME NEW g \in Nat \ {0}, g > 1
        PROVE  ArrivedOf(g)' = ArrivedOf(g)
    <3>2. Owner(g) \in Nodes
      BY OwnerFacts
    <3>3. CASE Owner(g) = k
      BY <1>1, <2>8, <3>3, CountsAre
    <3>4. CASE Owner(g) # k
      BY <1>1, <2>5, <3>2, <3>4, CountKept
    <3>5. QED
      BY <3>3, <3>4
  <2>9. ASSUME NEW n \in Nodes
        PROVE  Leads(n)' /\ SendNo(n)' = SendNo(n)
    <3>1. loc[n].sent \in Nat /\ loc[n].arrived \in Nat
      BY <1>0, NodeFields, PassFields, RingFacts
    <3>2. Leads(n)
      BY DEF RingInv
    <3>3. SendNo(n)' = SendNo(n)
      BY <1>1, <2>5, SendNoKept
    <3>4. Leads(n)'
      BY <2>5, <3>1, <3>2 DEF Leads
    <3>5. QED
      BY <3>3, <3>4
  <2>10. ASSUME NEW h \in Passes
         PROVE  SentOf(h)' = SentOf(h) /\ SentOf(h)' \in Nat /\ SentOf(h)' >= SentOf(h)
    <3>1. h \in Nat \ {0} /\ SentOf(h) \in Nat
      BY SentTyped, RingFacts DEF Passes
    <3>2. QED
      BY <2>7, <3>1
  <2>11. ASSUME NEW h \in Sends
         PROVE  SentOf(h)' = SentOf(h) /\ ArrivedOf(h + 1)' = ArrivedOf(h + 1)
    <3> DEFINE g == h + 1
    <3>1. g \in Nat \ {0} /\ g > 1 /\ h \in Nat \ {0}
      BY SendsFacts
    <3> HIDE DEF g
    <3>2. ArrivedOf(g)' = ArrivedOf(g) /\ SentOf(h)' = SentOf(h)
      BY <2>7, <2>8, <3>1
    <3>3. QED
      BY <3>2 DEF g
  <2>12. QED
    BY <1>1, <2>6, <2>9, <2>10, <2>11, RingQuiet
<1>4. QED
  BY <1>2, <1>3

LEMMA StartRing ==
  ASSUME BaseInv, TypeInv', RingInv, NEW k \in Nodes, StartPass(k)
  PROVE  RingInv'
<1>0. TypeInv /\ FlowInv
  BY DEF BaseInv
<1>1. pc[k] = "loop" /\ UNCHANGED <<pass, chan, closed, linkVars>>
  BY DEF StartPass, laneVars
<1>2. /\ loc'[k] = FreshPass(pass[k])
      /\ \A n \in Nodes \ {k} : pc'[n] = pc[n] /\ loc'[n] = loc[n]
  BY <1>0, StartPassType
<1>3. loc'[k].agg.pass = pass[k] /\ loc'[k].sent = 0 /\ loc'[k].arrived = 0
  BY <1>2 DEF FreshPass
<1>4. pass[k] \in Nat \ {0} /\ loc[k].agg.pass < pass[k] /\ loc[k].agg.pass \in Nat
  BY <1>0, <1>1, NodeFlow, NodeFields, PassFields DEF PassOfNode
<1>5. Settled
  BY <1>1, <1>2 DEF Settled, Stopped
<1>6. ASSUME NEW h \in Nat \ {0}
      PROVE  SentOf(h)' = SentOf(h) /\ ArrivedOf(h)' = ArrivedOf(h)
  <2>1. CASE Owner(h) = k
    <3>1. pass'[k] = pass[k]
      BY <1>1
    <3>2. QED
      BY <1>3, <1>4, <2>1, <3>1, CountsAre
  <2>2. CASE Owner(h) # k
    BY <1>0, <1>1, <1>2, <2>2, OtherCounts
  <2>3. QED
    BY <2>1, <2>2
<1>7. ASSUME NEW h \in Sends
      PROVE  SentOf(h)' = SentOf(h) /\ ArrivedOf(h + 1)' = ArrivedOf(h + 1)
  <2> DEFINE g == h + 1
  <2>1. g \in Nat \ {0} /\ h \in Nat \ {0}
    BY SendsFacts
  <2> HIDE DEF g
  <2>2. SentOf(h)' = SentOf(h) /\ ArrivedOf(g)' = ArrivedOf(g)
    BY <1>6, <2>1
  <2>3. QED
    BY <2>2 DEF g
<1>8. ASSUME NEW n \in Nodes
      PROVE  Leads(n)' /\ SendNo(n)' = SendNo(n)
  <2>1. CASE n = k
    <3>1. SendNo(k)' = SendNo(k)
      BY <1>1, <1>3, <1>4 DEF SendNo
    <3>2. QED
      BY <1>3, <2>1, <3>1 DEF Leads
  <2>2. CASE n # k
    BY <1>1, <1>2, <2>2, SendNoKept DEF Leads, RingInv
  <2>3. QED
    BY <2>1, <2>2
<1>9. ASSUME NEW h \in Passes
      PROVE  SentOf(h)' = SentOf(h) /\ SentOf(h)' \in Nat /\ SentOf(h)' >= SentOf(h)
  <2>1. h \in Nat \ {0} /\ SentOf(h) \in Nat
    BY SentTyped, RingFacts DEF Passes
  <2>2. QED
    BY <1>6, <2>1
<1>10. QED
  BY <1>1, <1>5, <1>7, <1>8, <1>9, RingQuiet

LEMMA RecordRing ==
  ASSUME BaseInv, TypeInv', RingInv, NEW k \in Nodes, RecordPass(k)
  PROVE  RingInv'
<1>0. TypeInv /\ FlowInv /\ N \in Nat \ {0} /\ Z \in Nat \ {0}
  BY RingFacts DEF BaseInv
<1>p. PICK h : h = pass[k]
  OBVIOUS
<1>1. /\ pc[k] = "record" /\ Goto(k, "loop") /\ pass' = [pass EXCEPT ![k] = @ + Z]
      /\ UNCHANGED <<loc, chan, closed, linkVars>>
  BY DEF RecordPass, laneVars
<1>2. /\ pass'[k] = h + Z
      /\ \A n \in Nodes \ {k} : pc'[n] = pc[n] /\ pass'[n] = pass[n]
  BY <1>0, <1>1, <1>p DEF Goto, TypeInv, NodeTypes
<1>3. /\ h \in Nat \ {0} /\ h \in Passes /\ Owner(h) = k /\ loc[k].agg.pass = h /\ h <= Steps
      /\ loc[k].arrived = N /\ (h # Steps => loc[k].sent = N)
  <2>1. pc[k] \in AtWork
    BY <1>1 DEF AtWork
  <2>2. h \in Nat \ {0} /\ Owner(h) = k /\ loc[k].agg.pass = h /\ h <= Steps
    BY <1>0, <1>p, <2>1, NodeFlow DEF PassOfNode
  <2>3. loc[k].arrived = N
    BY <1>0, <1>1, NodeFields DEF Progress, AtTheEnd
  <2>4. h # Steps => loc[k].sent = N
    <3>1. loc[k].outq = <<>> /\ (h # Steps => loc[k].sent + Len(loc[k].outq) = EndedCount(k))
      BY <1>0, <1>1, <1>p, <2>1, NodeFlow DEF Counts
    <3>2. EndedCount(k) = N
      BY <1>1 DEF EndedCount
    <3>3. loc[k].sent \in Nat
      BY <1>0, NodeFields, PassFields
    <3>4. Len(loc[k].outq) = 0
      BY <3>1
    <3>5. QED
      BY <3>1, <3>2, <3>3, <3>4
  <2>5. QED
    BY <2>2, <2>3, <2>4, RingFacts DEF Passes
<1>4. Settled
  BY <1>1, <1>2 DEF Settled, Stopped
<1>5. ASSUME NEW g \in Nat \ {0}
      PROVE  /\ ArrivedOf(g)' = ArrivedOf(g)
             /\ (g # h \/ h # Steps) => SentOf(g)' = SentOf(g)
             /\ g = h => SentOf(g)' = N
  <2>1. CASE Owner(g) # k
    BY <1>p, <1>0, <1>1, <1>2, <1>3, <2>1, OtherCounts
  <2>2. CASE Owner(g) = k /\ g < h
    <3>1. pass'[k] > g /\ pass[k] > g /\ g # h
      BY <1>p, <1>0, <1>2, <1>3, <2>2
    <3>2. QED
      BY <2>2, <3>1, CountsAre
  <2>3. CASE Owner(g) = k /\ g = h
    <3>1. pass'[k] > g /\ ~(pass[k] > g)
      BY <1>p, <1>0, <1>2, <1>3, <2>3
    <3>2. ArrivedOf(g)' = N /\ ArrivedOf(g) = N
      BY <1>p, <1>3, <2>3, <3>1, CountsAre
    <3>3. SentOf(g)' = N /\ SentOf(g) = loc[k].sent
      BY <1>p, <1>3, <2>3, <3>1, CountsAre
    <3>4. QED
      BY <1>p, <1>3, <2>3, <3>2, <3>3
  <2>4. CASE Owner(g) = k /\ g > h
    <3>1. h + Z <= g
      BY <1>p, <1>3, <2>4, OwnerGap
    <3>2. ~(pass'[k] > g) /\ ~(pass[k] > g) /\ pass[k] # g /\ loc[k].agg.pass # g /\ g # h
      BY <1>p, <1>0, <1>2, <1>3, <2>4, <3>1
    <3>3. loc' = loc
      BY <1>1
    <3>4. QED
      BY <2>4, <3>2, <3>3, CountsAre
  <2>5. QED
    BY <1>p, <1>3, <2>1, <2>2, <2>3, <2>4
<1>6. ASSUME NEW g \in Sends
      PROVE  SentOf(g)' = SentOf(g) /\ ArrivedOf(g + 1)' = ArrivedOf(g + 1)
  <2> DEFINE f == g + 1
  <2>1. f \in Nat \ {0} /\ g \in Nat \ {0} /\ g # Steps
    BY SendsFacts DEF Sends
  <2> HIDE DEF f
  <2>2. SentOf(g)' = SentOf(g) /\ ArrivedOf(f)' = ArrivedOf(f)
    BY <1>5, <2>1
  <2>3. QED
    BY <2>2 DEF f
<1>7. ASSUME NEW n \in Nodes, pass'[n] <= Steps
      PROVE  pass[n] <= Steps /\ SendNo(n)' = SendNo(n)
  <2>1. CASE n = k
    <3>1. h # Steps /\ h <= Steps
      BY <1>p, <1>0, <1>2, <1>3, <1>7, <2>1
    <3>2. loc[k].sent = N /\ loc'[k].agg.pass = h /\ pass'[k] # h
      BY <1>p, <1>0, <1>1, <1>2, <1>3, <3>1
    <3>3. SendNo(k) = Turn(h) + N
      BY <1>p, <1>3, <3>2 DEF SendNo
    <3>4. SendNo(k)' = Turn(h + Z) + 0
      BY <1>2, <3>2 DEF SendNo
    <3>5. Turn(h + Z) = Turn(h) + N /\ Turn(h) \in Int
      BY <1>p, <1>3, TurnFacts
    <3>6. SendNo(k)' = SendNo(k)
      BY <1>0, <3>3, <3>4, <3>5
    <3>7. QED
      BY <1>p, <2>1, <3>1, <3>6
  <2>2. CASE n # k
    BY <1>1, <1>2, <1>7, <2>2, SendNoKept
  <2>3. QED
    BY <2>1, <2>2
<1>8. \A n \in Nodes : Leads(n)'
  BY <1>1 DEF RingInv, Leads
<1>9. ASSUME NEW g \in Passes
      PROVE  /\ SentOf(g)' \in Nat /\ SentOf(g)' >= SentOf(g)
             /\ SentOf(g)' = SentOf(g) \/
                  \A f \in Passes : f < g => SentOf(g)' <= SentOf(f)
  <2>1. g \in Nat \ {0} /\ SentOf(g) \in 0 .. N
    BY SentTyped, RingFacts DEF Passes
  <2>2. CASE g # h
    <3>1. SentOf(g)' = SentOf(g)
      BY <1>5, <2>1, <2>2
    <3>2. QED
      BY <2>1, <3>1
  <2>3. CASE g = h
    <3>1. SentOf(g)' = N
      BY <1>5, <2>1, <2>3
    <3>2. \A f \in Passes : f < g => SentOf(f) = N
      BY <1>p, <1>0, <1>3, <2>3, BelowComplete
    <3>3. QED
      BY <1>0, <2>1, <3>1, <3>2
  <2>4. QED
    BY <2>2, <2>3
<1>10. QED
  BY <1>1, <1>4, <1>6, <1>7, <1>8, <1>9, RingQuiet

-----------------------------------------------------------------------------
(* A zone is received.                                                       *)

LEMMA BufTaken ==
  ASSUME NEW e, BufInv(e), NEW S, link[Consumer(e)] \in Seq(S), link[Consumer(e)] # <<>>,
         link'[Consumer(e)] = Tail(link[Consumer(e)]),
         nextBuf'[RankOf(e)] = nextBuf[RankOf(e)],
         poisoned[RankOf(e)] => poisoned'[RankOf(e)],
         pass'[e] = pass[e], SendNo(e)' = SendNo(e)
  PROVE  BufInv(e)'
<1> DEFINE s == link[Consumer(e)]
<1>1. \A q \in ZonesIn(Tail(s)) : q + 1 \in ZonesIn(s) /\ Tail(s)[q] = s[q + 1]
  BY TailZones
<1>2. CASE BoundaryOut(e) /\ ~poisoned'[RankOf(e)]
  <2>1. /\ \A q \in ZonesIn(s) : s[q].buf = MsgNo(s[q]) % PoolSize
        /\ pass[e] <= Steps => nextBuf[RankOf(e)] = SendNo(e) % PoolSize
    BY <1>2 DEF BufInv
  <2> HIDE DEF s
  <2>2. \A q \in ZonesIn(Tail(s)) : Tail(s)[q].buf = MsgNo(Tail(s)[q]) % PoolSize
    BY <1>1, <2>1
  <2>3. link'[Consumer(e)] = Tail(s)
    BY DEF s
  <2>4. \A q \in ZonesIn(link'[Consumer(e)]) :
          link'[Consumer(e)][q].buf = MsgNo(link'[Consumer(e)][q]) % PoolSize
    BY <2>2, <2>3
  <2>5. pass'[e] <= Steps => nextBuf'[RankOf(e)] = SendNo(e)' % PoolSize
    BY <2>1
  <2>6. QED
    BY <2>4, <2>5 DEF BufInv, MsgNo, Turn
<1>3. CASE ~(BoundaryOut(e) /\ ~poisoned'[RankOf(e)])
  BY <1>3 DEF BufInv
<1>4. QED
  BY <1>2, <1>3

LEMMA ArrivedCounts ==
  ASSUME BaseInv, NEW k \in Nodes, pc[k] = "io", UNCHANGED pass,
         \A n \in Nodes \ {k} : loc'[n] = loc[n],
         loc'[k].arrived = loc[k].arrived + 1,
         loc'[k].sent = loc[k].sent, loc'[k].agg = loc[k].agg
  PROVE  /\ \A h \in Nat \ {0} : SentOf(h)' = SentOf(h)
         /\ \A h \in Nat \ {0} : h # pass[k] => ArrivedOf(h)' = ArrivedOf(h)
         /\ ArrivedOf(pass[k]) = loc[k].arrived
         /\ \A h \in Nat \ {0} : h = pass[k] => ArrivedOf(h)' = loc[k].arrived + 1
<1>0. TypeInv /\ FlowInv
  BY DEF BaseInv
<1>p. PICK g : g = pass[k]
  OBVIOUS
<1>1. g \in Nat \ {0} /\ Owner(g) = k /\ loc[k].agg.pass = g
  <2>1. pc[k] \in AtWork
    BY DEF AtWork
  <2>2. QED
    BY <1>0, <1>p, <2>1, NodeFlow DEF PassOfNode
<1>2. ASSUME NEW h \in Nat \ {0}
      PROVE  /\ SentOf(h)' = SentOf(h)
             /\ h # g => ArrivedOf(h)' = ArrivedOf(h)
             /\ h = g => ArrivedOf(h) = loc[k].arrived /\ ArrivedOf(h)' = loc[k].arrived + 1
  <2>1. CASE Owner(h) # k
    BY <1>0, <1>1, <2>1, OtherCounts
  <2>2. CASE Owner(h) = k
    <3>1. pass'[k] = g /\ pass[k] = g /\ ~(g > g) /\ loc'[k].agg.pass = g
      BY <1>1, <1>p
    <3>2. /\ SentOf(h) = IF g > h THEN N
                         ELSE IF g = h /\ g = h THEN loc[k].sent ELSE 0
          /\ SentOf(h)' = IF g > h THEN N
                          ELSE IF g = h /\ g = h THEN loc[k].sent ELSE 0
      BY <1>1, <2>2, <3>1, CountsAre
    <3>3. /\ ArrivedOf(h) = IF g > h THEN N
                            ELSE IF g = h /\ g = h THEN loc[k].arrived ELSE 0
          /\ ArrivedOf(h)' = IF g > h THEN N
                             ELSE IF g = h /\ g = h THEN loc[k].arrived + 1 ELSE 0
      BY <1>1, <2>2, <3>1, CountsAre
    <3>4. QED
      BY <3>1, <3>2, <3>3
  <2>3. QED
    BY <2>1, <2>2
<1>3. QED
  BY <1>1, <1>2, <1>p

LEMMA OnWayTaken ==
  ASSUME BaseInv, NEW k \in Nodes, pc[k] = "io", UNCHANGED pass,
         \A n \in Nodes \ {k} : loc'[n] = loc[n],
         loc'[k].arrived = loc[k].arrived + 1,
         loc'[k].sent = loc[k].sent, loc'[k].agg = loc[k].agg
  PROVE  OnWay(InEdge(k))' = OnWay(InEdge(k)) \ {<<pass[k] - 1, loc[k].arrived>>}
<1> DEFINE e == InEdge(k)
<1>p. PICK p, a : p = pass[k] /\ a = loc[k].arrived
  OBVIOUS
<1>0. p \in Nat \ {0} /\ a \in Nat
  BY <1>p, NodeFlow, NodeFields, PassFields, RingFacts DEF BaseInv, PassOfNode
<1>1. ASSUME NEW h \in Sends
      PROVE  /\ SentOf(h)' = SentOf(h)
             /\ h # p - 1 => ArrivedOf(h + 1)' = ArrivedOf(h + 1)
             /\ h = p - 1 => ArrivedOf(h + 1)' = a + 1 /\ ArrivedOf(h + 1) = a
  <2> DEFINE g == h + 1
  <2>1. h \in Nat \ {0} /\ g \in Nat \ {0} /\ (g = p <=> h = p - 1)
    BY <1>0, SendsFacts
  <2> HIDE DEF g
  <2>2. /\ SentOf(h)' = SentOf(h) /\ (g # p => ArrivedOf(g)' = ArrivedOf(g))
        /\ g = p => ArrivedOf(g)' = a + 1 /\ ArrivedOf(g) = a
    BY <1>p, <2>1, ArrivedCounts
  <2>3. QED
    BY <2>1, <2>2 DEF g
<1>2. OnWay(e)' = {x \in Sends \X Zones :
        Owner(x[1]) = e /\ ArrivedOf(x[1] + 1)' <= x[2] /\ x[2] < SentOf(x[1])'}
  BY OnWayNext
<1>3. ASSUME NEW x \in Sends \X Zones
      PROVE  (ArrivedOf(x[1] + 1)' <= x[2] /\ x[2] < SentOf(x[1])') <=>
             (ArrivedOf(x[1] + 1) <= x[2] /\ x[2] < SentOf(x[1]) /\ x # <<p - 1, a>>)
  <2>1. PICK h \in Sends, j \in Zones : x = <<h, j>>
    OBVIOUS
  <2>2. x[1] = h /\ x[2] = j /\ h \in Nat /\ j \in Int
    BY <2>1, SendsFacts DEF Zones
  <2>3. CASE h = p - 1
    <3>1. x # <<p - 1, a>> <=> j # a
      BY <2>1, <2>3
    <3>2. ArrivedOf(h + 1)' = a + 1 /\ ArrivedOf(h + 1) = a /\ SentOf(h)' = SentOf(h)
      BY <1>1, <2>3
    <3>3. a + 1 <= j <=> a <= j /\ j # a
      BY <1>0, <2>2
    <3>4. QED
      BY <2>2, <3>1, <3>2, <3>3
  <2>4. CASE h # p - 1
    <3>1. x # <<p - 1, a>>
      BY <2>1, <2>4
    <3>2. ArrivedOf(h + 1)' = ArrivedOf(h + 1) /\ SentOf(h)' = SentOf(h)
      BY <1>1, <2>4
    <3>3. QED
      BY <2>2, <3>1, <3>2
  <2>5. QED
    BY <2>3, <2>4
<1>4. OnWay(e)' = OnWay(e) \ {<<p - 1, a>>}
  <2>1. ASSUME NEW x
        PROVE  x \in OnWay(e)' <=> x \in OnWay(e) /\ x # <<p - 1, a>>
    <3>1. x \in OnWay(e)' <=> /\ x \in Sends \X Zones /\ Owner(x[1]) = e
                             /\ ArrivedOf(x[1] + 1)' <= x[2] /\ x[2] < SentOf(x[1])'
      BY <1>2, Zenon
    <3>2. x \in OnWay(e) <=> /\ x \in Sends \X Zones /\ Owner(x[1]) = e
                            /\ ArrivedOf(x[1] + 1) <= x[2] /\ x[2] < SentOf(x[1])
      BY Zenon DEF OnWay
    <3>3. QED
      BY <1>3, <3>1, <3>2, Zenon
  <2>2. QED
    BY <2>1
<1>5. QED
  BY <1>4, <1>p

\* What the lanes show when k takes the message at the head of its lane.
HeadTaken(k) ==
  /\ link \in [Heads -> Seq(WireMessages)] /\ chan \in [Nodes -> Seq(Headers)]
  /\ BoundaryOut(InEdge(k)) =>
       link[k] # <<>> /\ link' = [link EXCEPT ![k] = Tail(@)] /\ chan' = chan
  /\ ~BoundaryOut(InEdge(k)) =>
       /\ chan[InEdge(k)] # <<>> /\ chan' = [chan EXCEPT ![InEdge(k)] = Tail(@)]
       /\ link' = link
  /\ UNCHANGED <<pass, closed, poisoned, nextBuf>>

LEMMA TakenFacts ==
  ASSUME NEW k \in Nodes, HeadTaken(k)
  PROVE  /\ \E S : Lane(InEdge(k)) \in Seq(S)
         /\ Lane(InEdge(k)) # <<>> /\ Lane(InEdge(k))' = Tail(Lane(InEdge(k)))
         /\ \A f \in Nodes \ {InEdge(k)} :
              /\ ~BoundaryOut(f) => chan'[f] = chan[f]
              /\ BoundaryOut(f) => link'[Consumer(f)] = link[Consumer(f)]
<1> DEFINE e == InEdge(k)
<1>1. e \in Nodes /\ Consumer(e) = k
  BY EdgesAreNodes, ConsumerOfIn
<1>2. \A f \in Nodes : f # e => Consumer(f) # k
  BY ConsumerOfIn
<1>3. \A f \in Nodes : BoundaryOut(f) => Consumer(f) \in Heads
  BY NextRankIs
<1> HIDE DEF e
<1>4. CASE BoundaryOut(e)
  <2>1. k \in Heads /\ link[k] # <<>> /\ link' = [link EXCEPT ![k] = Tail(@)] /\ chan' = chan
        /\ link[k] \in Seq(WireMessages)
    BY <1>1, <1>3, <1>4 DEF HeadTaken, e
  <2>2. link'[k] = Tail(link[k]) /\ \A n \in Heads : n # k => link'[n] = link[n]
    BY <2>1 DEF HeadTaken
  <2>3. Lane(e) = link[k] /\ Lane(e)' = link'[k]
    BY <1>1, <1>4 DEF Lane
  <2>4. QED
    BY <1>2, <1>3, <2>1, <2>2, <2>3 DEF e
<1>5. CASE ~BoundaryOut(e)
  <2>1. chan[e] # <<>> /\ chan' = [chan EXCEPT ![e] = Tail(@)] /\ link' = link
        /\ chan[e] \in Seq(Headers)
    BY <1>1, <1>5 DEF HeadTaken, e
  <2>2. chan'[e] = Tail(chan[e]) /\ \A f \in Nodes : f # e => chan'[f] = chan[f]
    BY <1>1, <2>1 DEF HeadTaken
  <2>3. Lane(e) = chan[e] /\ Lane(e)' = chan'[e]
    BY <1>5 DEF Lane
  <2>4. QED
    BY <2>1, <2>2, <2>3 DEF e
<1>6. QED
  BY <1>4, <1>5

LEMMA BufAtHead ==
  ASSUME RingInv, NEW k \in Nodes, HeadTaken(k), SendNo(InEdge(k))' = SendNo(InEdge(k))
  PROVE  BufInv(InEdge(k))'
<1> DEFINE e == InEdge(k)
<1>1. e \in Nodes /\ Consumer(e) = k /\ BufInv(e)
  BY EdgesAreNodes, ConsumerOfIn DEF RingInv
<1>2. CASE BoundaryOut(e)
  <2>1. k \in Heads
    BY <1>1, <1>2, NextRankIs
  <2>2. link[k] \in Seq(WireMessages) /\ link[k] # <<>> /\ link'[k] = Tail(link[k])
    BY <1>2, <2>1 DEF HeadTaken
  <2>3. nextBuf' = nextBuf /\ poisoned' = poisoned /\ pass' = pass
    BY DEF HeadTaken
  <2>4. SendNo(e)' = SendNo(e)
    OBVIOUS
  <2> HIDE DEF e
  <2>5. QED
    BY <1>1, <2>2, <2>3, <2>4, BufTaken DEF e
<1>3. CASE ~BoundaryOut(e)
  BY <1>3 DEF BufInv
<1>4. QED
  BY <1>2, <1>3

LEMMA ArriveRing ==
  ASSUME BaseInv, TypeInv', RingInv, NEW k \in Nodes, AwaitsArrival(k),
         NEW s \in SlotIds, NEW fsm \in ZoneRecords, NEW lam \in Lambdas,
         NEW dt \in TimeSteps, Arrive(k, s, fsm, lam, dt), UNCHANGED pc, HeadTaken(k),
         ~IsPoison(Head(Lane(InEdge(k)))),
         Key(Head(Lane(InEdge(k)))) = <<pass[k] - 1, loc[k].arrived>>
  PROVE  RingInv'
<1> DEFINE e == InEdge(k)
<1>0. e \in Nodes /\ Consumer(e) = k /\ TypeInv
  BY EdgesAreNodes, ConsumerOfIn DEF BaseInv
<1>1. UNCHANGED <<pass, closed, poisoned, nextBuf>> /\ pc[k] = "io" /\ Settled
  BY DEF HeadTaken, AwaitsArrival, Settled
<1>2. /\ \A n \in Nodes \ {k} : loc'[n] = loc[n]
      /\ loc'[k].arrived = loc[k].arrived + 1
      /\ loc'[k].sent = loc[k].sent /\ loc'[k].agg = loc[k].agg
  BY <1>0, <1>1, ArriveEffect
<1>3. /\ \A h \in Nat \ {0} : SentOf(h)' = SentOf(h)
      /\ \A h \in Nat \ {0} : h # pass[k] => ArrivedOf(h)' = ArrivedOf(h)
  BY <1>1, <1>2, ArrivedCounts
<1>4. \A n \in Nodes : SendNo(n)' = SendNo(n)
  <2>1. ASSUME NEW n \in Nodes
        PROVE  SendNo(n)' = SendNo(n)
    BY <1>1, <1>2, SendNoKept
  <2>2. QED
    BY <2>1
<1>5. LaneInv(e)' /\ BufInv(e)'
  <2>1. BufInv(e)'
    BY <1>0, <1>4, BufAtHead
  <2>2. OnWay(e)' = OnWay(e) \ {Key(Head(Lane(e)))}
    BY <1>1, <1>2, OnWayTaken
  <2>3. Lane(e)' = Tail(Lane(e)) /\ Lane(e) # <<>> /\ \E S : Lane(e) \in Seq(S)
    BY TakenFacts
  <2>4. Cut(e)' = Cut(e) /\ Live(e)' = Live(e)
    BY <1>1 DEF Cut, Live
  <2>5. LaneOK(Lane(e), OnWay(e), Cut(e), Live(e)) /\ ~IsPoison(Head(Lane(e)))
    BY <1>0 DEF RingInv, LaneInv
  <2> HIDE DEF e
  <2>6. LaneOK(Tail(Lane(e)), OnWay(e) \ {Key(Head(Lane(e)))}, Cut(e), Live(e))
    BY <2>3, <2>5, OnWayKeys, LaneTaken
  <2>7. LaneOK(Lane(e)', OnWay(e)', Cut(e)', Live(e)')
    BY <2>2, <2>3, <2>4, <2>6
  <2>8. QED
    BY <2>1, <2>7, LaneNext
<1>6. ASSUME NEW f \in Nodes, f # e
      PROVE  LaneInv(f)' /\ BufInv(f)'
  <2>1. ASSUME NEW h \in Sends, Owner(h) = f
        PROVE  SentOf(h)' = SentOf(h) /\ ArrivedOf(h + 1)' = ArrivedOf(h + 1)
    <3> DEFINE g == h + 1
    <3>1. h \in Nat \ {0} /\ g \in Nat \ {0}
      BY SendsFacts
    <3>2. Owner(g) = Consumer(f)
      BY <2>1, <3>1, OwnerNext
    <3>3. Consumer(f) # k
      BY <1>6, ConsumerOfIn
    <3>4. Owner(pass[k]) = k
      BY NodeFlow DEF BaseInv, PassOfNode
    <3> HIDE DEF g
    <3>5. SentOf(h)' = SentOf(h) /\ ArrivedOf(g)' = ArrivedOf(g)
      BY <1>3, <3>1, <3>2, <3>3, <3>4
    <3>6. QED
      BY <3>5 DEF g
  <2>2. /\ ~BoundaryOut(f) => chan'[f] = chan[f]
        /\ BoundaryOut(f) => link'[Consumer(f)] = link[Consumer(f)]
    BY <1>6, TakenFacts
  <2>3. pass'[f] = pass[f] /\ SendNo(f)' = SendNo(f)
    BY <1>1, <1>4
  <2>4. QED
    BY <1>1, <2>1, <2>2, <2>3, EdgeKept
<1>7. ASSUME NEW h \in Passes
      PROVE  SentOf(h)' = SentOf(h) /\ SentOf(h)' \in Nat /\ SentOf(h)' >= SentOf(h)
  <2>1. h \in Nat \ {0} /\ SentOf(h) \in Nat
    BY SentTyped, RingFacts DEF Passes
  <2>2. SentOf(h)' = SentOf(h)
    BY <1>3, <2>1
  <2>3. QED
    BY <2>1, <2>2
<1>8. ASSUME NEW n \in Nodes
      PROVE  Leads(n)'
  <2>1. loc[n].sent \in Nat /\ loc[n].arrived \in Nat
    BY <1>0, NodeFields, PassFields, RingFacts
  <2>2. Leads(n)
    BY DEF RingInv
  <2>3. QED
    BY <1>2, <2>1, <2>2 DEF Leads
<1>9. QED
  BY <1>5, <1>6, <1>7, <1>8, RingStep

\* A message out of order stops the node.
LEMMA WrongRing ==
  ASSUME BaseInv, TypeInv', RingInv, NEW k \in Nodes, NEW kind, SetHalt(k, kind),
         UNCHANGED loc, HeadTaken(k)
  PROVE  RingInv'
<1> DEFINE e == InEdge(k)
<1>0. e \in Nodes /\ Consumer(e) = k /\ TypeInv
  BY EdgesAreNodes, ConsumerOfIn DEF BaseInv
<1>1. UNCHANGED <<pass, closed, poisoned, nextBuf>>
  BY DEF HeadTaken
<1>2. pc'[k] \in Stopped /\ \A n \in Nodes \ {k} : pc'[n] = pc[n]
  BY <1>0, HaltMoves
<1>3. Settled
  BY <1>2 DEF Settled
<1>4. \A h : SentOf(h)' = SentOf(h) /\ ArrivedOf(h)' = ArrivedOf(h)
  BY <1>1 DEF SentOf, ArrivedOf, Owner
<1>5. \A n \in Nodes : SendNo(n)' = SendNo(n) /\ Leads(n)'
  BY <1>1 DEF SendNo, Leads, RingInv, Turn
<1>6. LaneInv(e)' /\ BufInv(e)'
  <2>1. BufInv(e)'
    BY <1>0, <1>5, BufAtHead
  <2>2. OnWay(e)' = OnWay(e)
    BY <1>4, OnWayKept
  <2>3. Lane(e)' = Tail(Lane(e)) /\ Lane(e) # <<>> /\ \E S : Lane(e) \in Seq(S)
    BY TakenFacts
  <2>4. Cut(e)' = Cut(e) /\ Live(e)' = FALSE
    BY <1>0, <1>1, <1>2 DEF Cut, Live
  <2>5. LaneOK(Lane(e), OnWay(e), Cut(e), Live(e))
    BY <1>0 DEF RingInv, LaneInv
  <2> HIDE DEF e
  <2>6. LaneOK(Tail(Lane(e)), OnWay(e), Cut(e), FALSE)
    BY <2>3, <2>5, LaneDropped
  <2>7. LaneOK(Lane(e)', OnWay(e)', Cut(e)', Live(e)')
    BY <2>2, <2>3, <2>4, <2>6
  <2>8. QED
    BY <2>1, <2>7, LaneNext
<1>7. ASSUME NEW f \in Nodes, f # e
      PROVE  LaneInv(f)' /\ BufInv(f)'
  <2>1. /\ ~BoundaryOut(f) => chan'[f] = chan[f]
        /\ BoundaryOut(f) => link'[Consumer(f)] = link[Consumer(f)]
    BY <1>7, TakenFacts
  <2>2. pass'[f] = pass[f] /\ SendNo(f)' = SendNo(f)
    BY <1>1, <1>5
  <2>3. QED
    BY <1>1, <1>3, <1>4, <2>1, <2>2, EdgeKept
<1>8. ASSUME NEW h \in Passes
      PROVE  SentOf(h)' = SentOf(h) /\ SentOf(h)' \in Nat /\ SentOf(h)' >= SentOf(h)
  BY <1>4, SentTyped
<1>9. QED
  BY <1>5, <1>6, <1>7, <1>8, RingStep

LEMMA RecvZoneRing ==
  ASSUME BaseInv, TypeInv', RingInv, NEW k \in Nodes, RecvZone(k)
  PROVE  RingInv'
<1> DEFINE e == InEdge(k)
           m == Head(chan[e])
           fsm == Apply(FreeZone, "RECV")
<1>0. e \in Nodes /\ Consumer(e) = k /\ TypeInv
  BY EdgesAreNodes, ConsumerOfIn DEF BaseInv
<1>1. /\ AwaitsArrival(k) /\ ~BoundaryIn(k) /\ chan[e] # <<>>
      /\ chan' = [chan EXCEPT ![e] = Tail(@)]
      /\ UNCHANGED <<pass, closed, linkVars>>
  BY DEF RecvZone
<1>2. ~BoundaryOut(e)
  BY <1>0, <1>1 DEF BoundaryOut
<1>3. HeadTaken(k)
  BY <1>0, <1>1, <1>2 DEF HeadTaken, TypeInv, LaneTypes, LinkTypes, linkVars
<1>4. Lane(e) = chan[e]
  BY <1>2 DEF Lane
<1>5. CASE ~InOrder(k, m)
  <2>1. SetHalt(k, "Logic") /\ UNCHANGED loc
    BY <1>5 DEF RecvZone
  <2>2. QED
    BY <1>3, <2>1, WrongRing
<1>6. CASE InOrder(k, m)
  <2>1. m.slot \in SlotIds /\ m.lam \in Lambdas /\ m.dt \in TimeSteps /\ m \in Headers
    BY <1>0, <1>1, HeadersArrive
  <2>2. fsm \in ZoneRecords
    BY FreeZoneType, ApplyType DEF ZoneEvents
  <2>3. Arrive(k, m.slot, fsm, m.lam, m.dt) /\ UNCHANGED pc
    BY <1>6 DEF RecvZone
  <2>4. ~IsPoison(m) /\ Key(m) = <<pass[k] - 1, loc[k].arrived>>
    BY <1>6, <2>1 DEF InOrder, Key, IsPoison, Headers
  <2>5. ~IsPoison(Head(Lane(e))) /\ Key(Head(Lane(e))) = <<pass[k] - 1, loc[k].arrived>>
    BY <1>4, <2>4
  <2> HIDE DEF fsm, m
  <2> DEFINE s == m.slot
             lam == m.lam
             dt == m.dt
  <2>6. s \in SlotIds /\ lam \in Lambdas /\ dt \in TimeSteps /\ Arrive(k, s, fsm, lam, dt)
    BY <2>1, <2>3
  <2> HIDE DEF s, lam, dt
  <2>7. QED
    BY <1>1, <1>3, <2>2, <2>3, <2>5, <2>6, ArriveRing
<1>7. QED
  BY <1>5, <1>6

LEMMA RecvBoundaryRing ==
  ASSUME BaseInv, TypeInv', RingInv, NEW k \in Nodes, RecvBoundary(k)
  PROVE  RingInv'
<1> DEFINE e == InEdge(k)
           m == Head(link[k])
           fsm == Apply(FreeZone, "RECV")
<1>0. e \in Nodes /\ Consumer(e) = k /\ TypeInv
  BY EdgesAreNodes, ConsumerOfIn DEF BaseInv
<1>1. BoundaryIn(k) /\ RankOf(k) = k /\ k \in Heads
  <2>1. BoundaryIn(k) /\ k \in Heads
    BY DEF RecvBoundary, BoundaryIn
  <2>2. QED
    BY <2>1, RankOfHead
<1>2. /\ AwaitsArrival(k) /\ HasZone(k)
      /\ link' = [link EXCEPT ![k] = Tail(@)]
      /\ UNCHANGED <<pass, chan, closed, poisoned, nextBuf>>
  BY <1>1 DEF RecvBoundary, EdgeRecv, laneVars
<1>3. BoundaryOut(e)
  BY <1>0, <1>1 DEF BoundaryOut
<1>4. HeadTaken(k)
  BY <1>2, <1>3, <1>0 DEF HeadTaken, TypeInv, LaneTypes, LinkTypes, HasZone
<1>5. Lane(e) = link[k]
  BY <1>0, <1>3 DEF Lane
<1>6. CASE ~(InOrder(k, m) /\ bfree[k] # <<>>)
  <2>1. SetHalt(k, "Logic") /\ UNCHANGED loc
    BY <1>1, <1>6 DEF RecvBoundary
  <2>2. QED
    BY <1>4, <2>1, WrongRing
<1>7. CASE InOrder(k, m) /\ bfree[k] # <<>>
  <2>1. m.lam \in Lambdas /\ m.dt \in TimeSteps /\ Head(bfree[k]) \in SlotIds
    <3>1. m \in WireMessages
      BY <1>0, <1>1, <1>2, LinkHead
    <3>2. bfree[k] \in Seq(SlotIds)
      BY <1>0 DEF TypeInv, PoolTypes
    <3>3. QED
      BY <1>7, <3>1, <3>2 DEF WireMessages
  <2>2. fsm \in ZoneRecords
    BY FreeZoneType, ApplyType DEF ZoneEvents
  <2>3. Arrive(k, Head(bfree[k]), fsm, m.lam, m.dt) /\ UNCHANGED pc
    BY <1>1, <1>7 DEF RecvBoundary
  <2>4. ~IsPoison(m) /\ Key(m) = <<pass[k] - 1, loc[k].arrived>>
    BY <1>2, <1>7 DEF InOrder, Key, HasZone
  <2>5. ~IsPoison(Head(Lane(e))) /\ Key(Head(Lane(e))) = <<pass[k] - 1, loc[k].arrived>>
    BY <1>5, <2>4
  <2> HIDE DEF fsm, m
  <2> DEFINE s == Head(bfree[k])
             lam == m.lam
             dt == m.dt
  <2>6. s \in SlotIds /\ lam \in Lambdas /\ dt \in TimeSteps /\ Arrive(k, s, fsm, lam, dt)
    BY <2>1, <2>3
  <2> HIDE DEF s, lam, dt
  <2>7. QED
    BY <1>2, <1>4, <2>2, <2>3, <2>5, <2>6, ArriveRing
<1>8. QED
  BY <1>6, <1>7

-----------------------------------------------------------------------------
(* Poison comes and goes at the ends of the lanes.                           *)

LEMMA BufFewer ==
  ASSUME NEW e, BufInv(e),
         \A q \in ZonesIn(link'[Consumer(e)]) :
           \E i \in ZonesIn(link[Consumer(e)]) :
             link'[Consumer(e)][q] = link[Consumer(e)][i],
         nextBuf' = nextBuf, poisoned[RankOf(e)] => poisoned'[RankOf(e)],
         pass'[e] = pass[e], SendNo(e)' = SendNo(e)
  PROVE  BufInv(e)'
<1>1. CASE BoundaryOut(e) /\ ~poisoned'[RankOf(e)]
  <2>1. /\ \A q \in ZonesIn(link[Consumer(e)]) :
             link[Consumer(e)][q].buf = MsgNo(link[Consumer(e)][q]) % PoolSize
        /\ pass[e] <= Steps => nextBuf[RankOf(e)] = SendNo(e) % PoolSize
    BY <1>1 DEF BufInv
  <2>2. \A q \in ZonesIn(link'[Consumer(e)]) :
          link'[Consumer(e)][q].buf = MsgNo(link'[Consumer(e)][q]) % PoolSize
    BY <2>1
  <2>3. QED
    BY <2>1, <2>2 DEF BufInv, MsgNo, Turn
<1>2. CASE ~(BoundaryOut(e) /\ ~poisoned'[RankOf(e)])
  BY <1>2 DEF BufInv
<1>3. QED
  BY <1>1, <1>2

LEMMA PoisonMoves ==
  ASSUME BaseInv, TypeInv', RingInv, Settled, LinkOnlyPoison,
         UNCHANGED <<pass, loc, chan, closed, nextBuf>>,
         \A r \in Heads : poisoned[r] => poisoned'[r],
         NEW mid \in [Heads -> Seq(WireMessages)],
         \A c \in Heads :
           \/ mid[c] = link[c]
           \/ link[c] # <<>> /\ IsPoison(Head(link[c])) /\ mid[c] = Tail(link[c]),
         \A c \in Heads :
           \/ link'[c] = mid[c]
           \/ \E m \in WireMessages : IsPoison(m) /\ link'[c] = Append(mid[c], m)
  PROVE  RingInv'
<1>0. link \in [Heads -> Seq(WireMessages)]
  BY DEF BaseInv, TypeInv, LinkTypes
<1>1. \A h : SentOf(h)' = SentOf(h) /\ ArrivedOf(h)' = ArrivedOf(h)
  BY DEF SentOf, ArrivedOf, Owner
<1>2. \A n \in Nodes : SendNo(n)' = SendNo(n) /\ Leads(n)'
  BY DEF SendNo, Leads, RingInv, Turn
<1>3. ASSUME NEW f \in Nodes, BoundaryOut(f)
      PROVE  LaneInv(f)' /\ BufInv(f)'
  <2>1. PICK c \in Heads : c = Consumer(f)
    BY <1>3, NextRankIs
  <2>2. LaneInv(f) /\ BufInv(f) /\ RankOf(f) \in Heads
    BY RankFacts DEF RingInv
  <2>3. /\ Lane(f) = link[c] /\ Lane(f)' = link'[c]
        /\ Cut(f) = poisoned[RankOf(f)] /\ Cut(f)' = poisoned'[RankOf(f)]
    BY <1>3, <2>1 DEF Lane, Cut
  <2>4. Live(f)' => Live(f)
    BY EdgesAreNodes DEF Live, Settled
  <2>5. OnWay(f)' = OnWay(f)
    BY <1>1, OnWayKept
  <2>6. LaneOK(link[c], OnWay(f), Cut(f), Live(f))
    BY <2>2, <2>3 DEF LaneInv
  <2>7. LaneOK(mid[c], OnWay(f), Cut(f), Live(f)')
    <3>1. CASE mid[c] = link[c]
      BY <2>4, <2>6, <3>1, LaneWeaker
    <3>2. CASE link[c] # <<>> /\ IsPoison(Head(link[c])) /\ mid[c] = Tail(link[c])
      <4>1. link[c] \in Seq(WireMessages)
        BY <1>0
      <4>2. QED
        BY <2>4, <2>6, <3>2, <4>1, LaneDropped
    <3>3. QED
      BY <3>1, <3>2
  <2>8. LaneOK(link'[c], OnWay(f), Cut(f), Live(f)')
    <3>1. CASE link'[c] = mid[c]
      BY <2>7, <3>1
    <3>2. CASE \E m \in WireMessages : IsPoison(m) /\ link'[c] = Append(mid[c], m)
      <4>1. PICK m \in WireMessages : IsPoison(m) /\ link'[c] = Append(mid[c], m)
        BY <3>2
      <4>2. mid[c] \in Seq(WireMessages)
        OBVIOUS
      <4>3. LaneOK(Append(mid[c], m), OnWay(f), Cut(f), Live(f)')
        BY <2>7, <4>1, <4>2, LanePoisoned
      <4>4. QED
        BY <4>1, <4>3
    <3>3. QED
      BY <3>1, <3>2
  <2>9. LaneOK(link'[c], OnWay(f), Cut(f)', Live(f)')
    <3>1. Cut(f) => Cut(f)'
      BY <2>2, <2>3
    <3>2. QED
      BY <2>8, <3>1, LaneWeaker
  <2>10. LaneInv(f)'
    BY <2>3, <2>5, <2>9, LaneNext
  <2>11. \A q \in ZonesIn(link'[c]) : \E i \in ZonesIn(link[c]) : link'[c][q] = link[c][i]
    BY SMTT(30) DEF LinkOnlyPoison, ZonesIn, IsPoison
  <2>12. BufInv(f)'
    BY <1>2, <2>1, <2>2, <2>11, BufFewer
  <2>13. QED
    BY <2>10, <2>12
<1>4. ASSUME NEW f \in Nodes
      PROVE  LaneInv(f)' /\ BufInv(f)'
  <2>1. CASE BoundaryOut(f)
    BY <1>3, <2>1
  <2>2. CASE ~BoundaryOut(f)
    BY <1>1, <1>2, <2>2, EdgeKept
  <2>3. QED
    BY <2>1, <2>2
<1>5. ASSUME NEW h \in Passes
      PROVE  SentOf(h)' = SentOf(h) /\ SentOf(h)' \in Nat /\ SentOf(h)' >= SentOf(h)
  BY <1>1, SentTyped
<1>6. QED
  BY <1>2, <1>4, <1>5, RingStep

LEMMA RecvPoisonRing ==
  ASSUME BaseInv, TypeInv', RingInv, NEW k \in Nodes, RecvPoison(k)
  PROVE  RingInv'
<1> DEFINE r == RankOf(k)
           m == Head(link[r])
           mid == [link EXCEPT ![r] = Tail(@)]
<1>0. TypeInv /\ r \in Heads /\ NextRank(r) \in Heads
  BY RankFacts, NextRankType DEF BaseInv
<1>1. /\ EdgeRecvPoison(r) /\ SetHalt(k, "Ring")
      /\ UNCHANGED <<pass, loc, chan, closed>>
  BY DEF RecvPoison, laneVars
<1>2. pc'[k] \in Stopped /\ \A n \in Nodes \ {k} : pc'[n] = pc[n]
  BY <1>0, <1>1, HaltMoves
<1>3. Settled
  BY <1>2 DEF Settled
<1>4. LinkOnlyPoison
  BY <1>0, <1>1, PoisonTaken
<1>5. /\ link[r] \in Seq(WireMessages) /\ link[r] # <<>> /\ IsPoison(m)
      /\ link \in [Heads -> Seq(WireMessages)]
  BY <1>0, <1>1 DEF EdgeRecvPoison, HasPoison, TypeInv, LinkTypes
<1>6. m \in WireMessages
  BY <1>5
<1>7. /\ mid \in [Heads -> Seq(WireMessages)] /\ mid[r] = Tail(link[r])
      /\ \A c \in Heads : c # r => mid[c] = link[c]
  BY <1>0, <1>5
<1>8. \A c \in Heads : poisoned[c] => poisoned'[c]
  BY <1>0, <1>1 DEF EdgeRecvPoison, TypeInv, LinkTypes
<1>9. nextBuf' = nextBuf
  BY <1>1 DEF EdgeRecvPoison
<1>10. \A c \in Heads :
         \/ mid[c] = link[c]
         \/ link[c] # <<>> /\ IsPoison(Head(link[c])) /\ mid[c] = Tail(link[c])
  BY <1>5, <1>7
<1>11. \A c \in Heads :
         \/ link'[c] = mid[c]
         \/ \E x \in WireMessages : IsPoison(x) /\ link'[c] = Append(mid[c], x)
  <2>1. CASE m.step > 0
    <3> DEFINE onward == PoisonWith(m, m.step - 1)
    <3>1. onward \in WireMessages /\ IsPoison(onward)
      <4>1. m.step - 1 \in Nat
        BY <1>6, <2>1 DEF WireMessages
      <4>2. QED
        BY <1>6, <4>1, PoisonIs
    <3> HIDE DEF onward
    <3>2. link' = [mid EXCEPT ![NextRank(r)] = Append(@, onward)]
      BY <1>1, <2>1 DEF EdgeRecvPoison, onward
    <3> HIDE DEF mid
    <3>3. \A c \in Heads : link'[c] = mid[c] \/ link'[c] = Append(mid[c], onward)
      BY <1>7, <3>2
    <3>4. QED
      BY <3>1, <3>3
  <2>2. CASE ~(m.step > 0)
    BY <1>1, <2>2 DEF EdgeRecvPoison
  <2>3. QED
    BY <2>1, <2>2
<1> HIDE DEF mid
<1>12. QED
  BY <1>1, <1>3, <1>4, <1>7, <1>8, <1>9, <1>10, <1>11, PoisonMoves

LEMMA PoisonRingRing ==
  ASSUME BaseInv, TypeInv', RingInv, NEW k \in Nodes, PoisonRing(k)
  PROVE  RingInv'
<1> DEFINE r == RankOf(k)
<1>0. /\ TypeInv /\ r \in Heads /\ NextRank(r) \in Heads
      /\ link \in [Heads -> Seq(WireMessages)]
  BY RankFacts, NextRankType DEF BaseInv, TypeInv, LinkTypes
<1>1. /\ Goto(k, "done") /\ EdgePoison(r, BlankMessage)
      /\ UNCHANGED <<pass, loc, chan, closed>>
  BY DEF PoisonRing, laneVars
<1>2. pc'[k] = "done" /\ \A n \in Nodes \ {k} : pc'[n] = pc[n]
  BY <1>0, <1>1, GoneMoves
<1>3. Settled
  BY <1>2 DEF Settled, Stopped
<1>4. nextBuf' = nextBuf /\ poisoned' = poisoned
  BY <1>1 DEF EdgePoison, linkVars
<1>5. PICK m \in WireMessages :
        IsPoison(m) /\ (link' = link \/ link' = [link EXCEPT ![NextRank(r)] = Append(@, m)])
  <2> DEFINE m == PoisonWith(BlankMessage, Ranks - 1)
  <2>1. m \in WireMessages /\ IsPoison(m)
    BY RanksType, BlankMessageType, PoisonIs
  <2>2. link' = link \/ link' = [link EXCEPT ![NextRank(r)] = Append(@, m)]
    BY <1>1 DEF EdgePoison, linkVars
  <2> HIDE DEF m
  <2>3. QED
    BY <2>1, <2>2
<1>6. \A c \in Heads : link'[c] = link[c] \/ link'[c] = Append(link[c], m)
  BY <1>0, <1>5
<1>7. LinkOnlyPoison
  <2> SUFFICES ASSUME NEW c \in Heads, NEW q \in 1 .. Len(link'[c])
               PROVE  IsPoison(link'[c][q]) \/ \E i \in 1 .. Len(link[c]) : link'[c][q] = link[c][i]
    BY DEF LinkOnlyPoison
  <2>1. CASE link'[c] = link[c]
    BY <2>1
  <2>2. CASE link'[c] = Append(link[c], m)
    <3>1. link[c] \in Seq(WireMessages)
      BY <1>0
    <3>2. (\E i \in 1 .. Len(link[c]) : link'[c][q] = link[c][i]) \/ link'[c][q] = m
      BY <2>2, <3>1, AppendElements
    <3>3. QED
      BY <1>5, <3>2 DEF IsPoison
  <2>3. QED
    BY <1>6, <2>1, <2>2
<1>8. \A c \in Heads :
        \/ link'[c] = link[c]
        \/ \E x \in WireMessages : IsPoison(x) /\ link'[c] = Append(link[c], x)
  BY <1>5, <1>6
<1>9. QED
  BY <1>0, <1>1, <1>3, <1>4, <1>7, <1>8, PoisonMoves

-----------------------------------------------------------------------------
(* A zone is sent.                                                           *)

\* What the counts show when k sends a zone.
ZoneSent(k) ==
  /\ Sending(k) /\ UNCHANGED <<pc, pass, closed>>
  /\ \A n \in Nodes \ {k} : loc'[n] = loc[n]
  /\ loc'[k].sent = loc[k].sent + 1 /\ loc'[k].arrived = loc[k].arrived
  /\ loc'[k].agg.pass = loc[k].agg.pass

LEMMA SentCounts ==
  ASSUME BaseInv, NEW k \in Nodes, ZoneSent(k)
  PROVE  /\ \A h \in Nat \ {0} : ArrivedOf(h)' = ArrivedOf(h)
         /\ \A h \in Nat \ {0} : h # pass[k] => SentOf(h)' = SentOf(h)
         /\ \A h \in Nat \ {0} : h = pass[k] =>
              SentOf(h) = loc[k].sent /\ SentOf(h)' = loc[k].sent + 1
         /\ SendNo(k)' = SendNo(k) + 1 /\ SendNo(k) = Turn(pass[k]) + loc[k].sent
         /\ \A n \in Nodes \ {k} : SendNo(n)' = SendNo(n)
<1>0. TypeInv /\ FlowInv
  BY DEF BaseInv
<1>p. PICK g : g = pass[k]
  OBVIOUS
<1>1. g \in Nat \ {0} /\ Owner(g) = k /\ loc[k].agg.pass = g /\ loc[k].sent \in Nat
  <2>1. Owner(pass[k]) = k /\ loc[k].agg.pass = pass[k] /\ pass[k] \in Sends
    BY SendAhead DEF ZoneSent
  <2>2. g \in Nat \ {0}
    BY <1>p, <2>1, SendsFacts
  <2>3. QED
    BY <1>0, <1>p, <2>1, <2>2, NodeFields, PassFields
<1>2. ASSUME NEW h \in Nat \ {0}
      PROVE  /\ ArrivedOf(h)' = ArrivedOf(h)
             /\ h # g => SentOf(h)' = SentOf(h)
             /\ h = g => SentOf(h) = loc[k].sent /\ SentOf(h)' = loc[k].sent + 1
  <2>1. CASE Owner(h) # k
    BY <1>0, <1>1, <2>1, OtherCounts DEF ZoneSent
  <2>2. CASE Owner(h) = k
    <3>1. pass'[k] = g /\ pass[k] = g /\ ~(g > g) /\ loc'[k].agg.pass = g
          /\ loc'[k].sent = loc[k].sent + 1 /\ loc'[k].arrived = loc[k].arrived
      BY <1>1, <1>p DEF ZoneSent
    <3>2. /\ SentOf(h) = IF g > h THEN N
                         ELSE IF g = h /\ g = h THEN loc[k].sent ELSE 0
          /\ SentOf(h)' = IF g > h THEN N
                          ELSE IF g = h /\ g = h THEN loc[k].sent + 1 ELSE 0
      BY <1>1, <2>2, <3>1, CountsAre
    <3>3. /\ ArrivedOf(h) = IF g > h THEN N
                            ELSE IF g = h /\ g = h THEN loc[k].arrived ELSE 0
          /\ ArrivedOf(h)' = IF g > h THEN N
                             ELSE IF g = h /\ g = h THEN loc[k].arrived ELSE 0
      BY <1>1, <2>2, <3>1, CountsAre
    <3>4. QED
      BY <3>1, <3>2, <3>3
  <2>3. QED
    BY <2>1, <2>2
<1>3. SendNo(k)' = SendNo(k) + 1 /\ SendNo(k) = Turn(pass[k]) + loc[k].sent
  <2>1. SendNo(k) = Turn(g) + loc[k].sent /\ Turn(g) \in Int
    BY <1>1, <1>p, TurnFacts DEF SendNo
  <2>2. SendNo(k)' = Turn(g) + (loc[k].sent + 1)
    BY <1>1, <1>p DEF SendNo, ZoneSent
  <2>3. SendNo(k)' = SendNo(k) + 1
    BY <1>1, <2>1, <2>2
  <2>4. QED
    BY <1>p, <2>1, <2>3
<1>4. ASSUME NEW n \in Nodes \ {k}
      PROVE  SendNo(n)' = SendNo(n)
  BY SendNoKept DEF ZoneSent
<1>5. QED
  BY <1>1, <1>2, <1>3, <1>4, <1>p

LEMMA OnWaySent ==
  ASSUME BaseInv, NEW k \in Nodes, ZoneSent(k)
  PROVE  /\ OnWay(k)' = OnWay(k) \cup {<<pass[k], loc[k].sent>>}
         /\ \A x \in OnWay(k) : Precedes(x, <<pass[k], loc[k].sent>>)
<1>p. PICK p, a : p = pass[k] /\ a = loc[k].sent
  OBVIOUS
<1>0. p \in Sends /\ a \in Zones /\ Owner(p) = k /\ SentOf(p) = a /\ loc[k].agg.pass = p
  BY <1>p, SendAhead DEF ZoneSent
<1>t. TypeInv /\ FlowInv /\ N \in Nat \ {0} /\ a \in Nat
  BY <1>0, RingFacts DEF BaseInv, Zones
<1>1. ASSUME NEW h \in Sends
      PROVE  /\ ArrivedOf(h + 1)' = ArrivedOf(h + 1)
             /\ h # p => SentOf(h)' = SentOf(h)
             /\ h = p => SentOf(h) = a /\ SentOf(h)' = a + 1 /\ ArrivedOf(h + 1) <= a
             /\ ArrivedOf(h + 1) \in Int /\ h \in Nat
  <2> DEFINE g == h + 1
  <2>1. h \in Nat \ {0} /\ g \in Nat \ {0}
    BY SendsFacts
  <2>2. ArrivedOf(g) <= SentOf(h)
    BY <1>t, ArrivedAfter
  <2> HIDE DEF g
  <2>3. /\ ArrivedOf(g)' = ArrivedOf(g)
        /\ h # p => SentOf(h)' = SentOf(h)
        /\ h = p => SentOf(h) = a /\ SentOf(h)' = a + 1
    BY <1>p, <2>1, SentCounts
  <2>4. ArrivedOf(g) \in Int
    BY <1>t, <2>1, ArrivedOfType
  <2>5. h = p => ArrivedOf(g) <= a
    BY <2>2, <2>3
  <2>6. QED
    BY <2>1, <2>3, <2>4, <2>5 DEF g
<1>2. OnWay(k)' = {x \in Sends \X Zones :
        Owner(x[1]) = k /\ ArrivedOf(x[1] + 1)' <= x[2] /\ x[2] < SentOf(x[1])'}
  BY OnWayNext
<1>3. ASSUME NEW x \in Sends \X Zones
      PROVE  (Owner(x[1]) = k /\ ArrivedOf(x[1] + 1)' <= x[2] /\ x[2] < SentOf(x[1])') <=>
             \/ Owner(x[1]) = k /\ ArrivedOf(x[1] + 1) <= x[2] /\ x[2] < SentOf(x[1])
             \/ x = <<p, a>>
  <2>1. PICK h \in Sends, j \in Zones : x = <<h, j>>
    OBVIOUS
  <2>2. x[1] = h /\ x[2] = j /\ h \in Nat /\ j \in Int
    BY <1>1, <2>1 DEF Zones
  <2>3. CASE h = p
    <3>1. x = <<p, a>> <=> j = a
      BY <2>1, <2>3
    <3>2. /\ ArrivedOf(h + 1)' = ArrivedOf(h + 1) /\ SentOf(h) = a /\ SentOf(h)' = a + 1
          /\ ArrivedOf(h + 1) <= a /\ ArrivedOf(h + 1) \in Int
      BY <1>1, <2>3
    <3>3. j < a + 1 <=> j < a \/ j = a
      BY <1>t, <2>2
    <3>4. Owner(h) = k
      BY <1>0, <2>3
    <3>5. QED
      BY <2>2, <3>1, <3>2, <3>3, <3>4
  <2>4. CASE h # p
    <3>1. x # <<p, a>>
      BY <2>1, <2>4
    <3>2. ArrivedOf(h + 1)' = ArrivedOf(h + 1) /\ SentOf(h)' = SentOf(h)
      BY <1>1, <2>4
    <3>3. QED
      BY <2>2, <3>1, <3>2
  <2>5. QED
    BY <2>3, <2>4
<1>4. OnWay(k)' = OnWay(k) \cup {<<p, a>>}
  <2>1. <<p, a>> \in Sends \X Zones
    BY <1>0
  <2>2. ASSUME NEW x
        PROVE  x \in OnWay(k)' <=> x \in OnWay(k) \/ x = <<p, a>>
    <3>1. x \in OnWay(k)' <=> /\ x \in Sends \X Zones
                             /\ Owner(x[1]) = k /\ ArrivedOf(x[1] + 1)' <= x[2]
                             /\ x[2] < SentOf(x[1])'
      BY <1>2, Zenon
    <3>2. x \in OnWay(k) <=> /\ x \in Sends \X Zones
                            /\ Owner(x[1]) = k /\ ArrivedOf(x[1] + 1) <= x[2]
                            /\ x[2] < SentOf(x[1])
      BY Zenon DEF OnWay
    <3>3. QED
      BY <1>3, <2>1, <3>1, <3>2, Zenon
  <2>3. QED
    BY <2>2
<1>5. ASSUME NEW x \in OnWay(k)
      PROVE  Precedes(x, <<p, a>>)
  <2>1. PICK h \in Sends, j \in Zones :
          x = <<h, j>> /\ Owner(h) = k /\ j < SentOf(h)
    BY DEF OnWay
  <2>2. h \in Nat /\ p \in Nat /\ j \in Nat
    BY <1>0, <1>1, <2>1 DEF Zones
  <2>3. CASE h = p
    BY <1>0, <2>1, <2>3 DEF Precedes
  <2>4. CASE h # p
    <3>1. h < p
      <4>1. SUFFICES ASSUME h > p PROVE FALSE
        BY <2>2, <2>4
      <4>2. SentOf(h) = IF p > h THEN N
                        ELSE IF p = h /\ loc[k].agg.pass = h THEN loc[k].sent ELSE 0
        BY <1>p, <2>1, CountsAre
      <4>3. SentOf(h) = 0
        BY <2>2, <4>1, <4>2
      <4>4. QED
        BY <2>1, <2>2, <4>3
    <3>2. QED
      BY <2>1, <3>1 DEF Precedes
  <2>5. QED
    BY <2>3, <2>4
<1>6. QED
  BY <1>4, <1>5, <1>p

LEMMA SendMoves ==
  ASSUME BaseInv, TypeInv', RingInv, NEW k \in Nodes, ZoneSent(k),
         LaneInv(k)', BufInv(k)',
         \A f \in Nodes \ {k} :
           /\ ~BoundaryOut(f) => chan'[f] = chan[f]
           /\ BoundaryOut(f) => /\ link'[Consumer(f)] = link[Consumer(f)]
                                /\ nextBuf'[RankOf(f)] = nextBuf[RankOf(f)]
                                /\ poisoned[RankOf(f)] => poisoned'[RankOf(f)]
  PROVE  RingInv'
<1>0. TypeInv /\ FlowInv /\ N \in Nat \ {0}
  BY RingFacts DEF BaseInv
<1>p. PICK p, a : p = pass[k] /\ a = loc[k].sent
  OBVIOUS
<1>1. /\ p \in Sends /\ Owner(p) = k /\ loc[k].agg.pass = p /\ a \in Zones
      /\ loc[k].arrived \in 0 .. N /\ a + 1 <= loc[k].arrived /\ SentOf(p) = a
  BY <1>p, SendAhead DEF ZoneSent
<1>2. p \in Passes /\ p \in Nat \ {0} /\ a \in Nat
  BY <1>1, SendsFacts DEF Sends, Zones
<1>3. /\ \A h \in Nat \ {0} : ArrivedOf(h)' = ArrivedOf(h)
      /\ \A h \in Nat \ {0} : h # p => SentOf(h)' = SentOf(h)
      /\ \A h \in Nat \ {0} : h = p => SentOf(h) = a /\ SentOf(h)' = a + 1
      /\ \A n \in Nodes \ {k} : SendNo(n)' = SendNo(n)
  BY <1>p, SentCounts
<1>4. Settled
  BY DEF Settled, ZoneSent
<1>5. ASSUME NEW f \in Nodes, f # k
      PROVE  LaneInv(f)' /\ BufInv(f)'
  <2>1. ASSUME NEW h \in Sends, Owner(h) = f
        PROVE  SentOf(h)' = SentOf(h) /\ ArrivedOf(h + 1)' = ArrivedOf(h + 1)
    <3> DEFINE g == h + 1
    <3>1. h \in Nat \ {0} /\ g \in Nat \ {0} /\ h # p
      BY <1>1, <1>5, <2>1, SendsFacts
    <3> HIDE DEF g
    <3>2. SentOf(h)' = SentOf(h) /\ ArrivedOf(g)' = ArrivedOf(g)
      BY <1>3, <3>1
    <3>3. QED
      BY <3>2 DEF g
  <2>2. pass'[f] = pass[f] /\ SendNo(f)' = SendNo(f) /\ closed' = closed
    BY <1>3, <1>5 DEF ZoneSent
  <2>3. QED
    BY <1>4, <1>5, <2>1, <2>2, EdgeKept
<1>6. ASSUME NEW h \in Passes
      PROVE  /\ SentOf(h)' \in Nat /\ SentOf(h)' >= SentOf(h)
             /\ SentOf(h)' = SentOf(h) \/
                  \A g \in Passes : g < h => SentOf(h)' <= SentOf(g)
  <2>1. h \in Nat \ {0} /\ SentOf(h) \in Nat
    BY SentTyped, RingFacts DEF Passes
  <2>2. CASE h # p
    <3>1. SentOf(h)' = SentOf(h)
      BY <1>3, <2>1, <2>2
    <3>2. QED
      BY <2>1, <3>1
  <2>3. CASE h = p
    <3>1. SentOf(h)' = a + 1 /\ SentOf(h) = a
      BY <1>3, <2>1, <2>3
    <3>2. ASSUME NEW g \in Passes, g < h
          PROVE  a + 1 <= SentOf(g)
      <4>1. p > 1 /\ p - 1 \in Passes /\ g <= p - 1 /\ g \in Nat
        BY <1>2, <2>3, <3>2, RingFacts DEF Passes
      <4>2. loc[k].arrived <= SentOf(p - 1)
        BY <1>0, <1>1, <4>1, NodeFlow DEF Arrived
      <4> DEFINE q == p - 1
      <4>3. q \in Passes /\ q \in Nat /\ g <= q /\ loc[k].arrived <= SentOf(q)
        BY <4>1, <4>2, RingFacts DEF Passes
      <4> HIDE DEF q
      <4>4. SentOf(q) <= SentOf(g)
        <5>1. CASE g = q
          BY <5>1, SentTyped
        <5>2. CASE g < q
          BY <4>3, <5>2 DEF RingInv, Descends
        <5>3. QED
          BY <4>1, <4>3, <5>1, <5>2
      <4>5. SentOf(q) \in Nat /\ SentOf(g) \in Nat
        BY <4>3, SentTyped
      <4>6. QED
        BY <1>1, <1>2, <4>3, <4>4, <4>5
    <3>3. QED
      BY <1>2, <3>1, <3>2
  <2>4. QED
    BY <2>2, <2>3
<1>7. ASSUME NEW n \in Nodes
      PROVE  Leads(n)'
  <2>1. Leads(n)
    BY DEF RingInv
  <2>2. QED
    BY <1>1, <1>p, <2>1 DEF Leads, ZoneSent
<1>8. QED
  BY <1>5, <1>6, <1>7, RingStep

LEMMA SendHeaderRing ==
  ASSUME BaseInv, TypeInv', RingInv, NEW k \in Nodes, SendHeader(k)
  PROVE  RingInv'
<1>0. TypeInv /\ k \in Nodes
  BY DEF BaseInv
<1>1. Sending(k) /\ ~BoundaryOut(k) /\ UNCHANGED <<pass, closed, linkVars>>
  BY DEF SendHeader
<1>2. \/ SetHalt(k, "Logic") /\ UNCHANGED <<chan, loc>>
      \/ /\ UNCHANGED pc
         /\ loc' = [loc EXCEPT ![k] = SentPass(ReadyToSend(loc[k]))]
         /\ \/ EdgeDown(k) /\ UNCHANGED chan
            \/ /\ ~EdgeDown(k)
               /\ \E m \in Headers :
                    /\ m.step = pass[k] /\ m.pos = loc[k].sent
                    /\ chan' = [chan EXCEPT ![k] = Append(@, m)]
  BY <1>0, SendHeaderEffect
<1>3. CASE SetHalt(k, "Logic") /\ UNCHANGED <<chan, loc>>
  BY <1>1, <1>3, CalmHalt
<1>4. CASE ~(SetHalt(k, "Logic") /\ UNCHANGED <<chan, loc>>)
  <2>1. ZoneSent(k)
    <3>1. loc[k].outq # <<>>
      BY <1>1 DEF Sending
    <3>2. QED
      BY <1>0, <1>1, <1>2, <1>4, <3>1, SentStep DEF ZoneSent
  <2> DEFINE x == <<pass[k], loc[k].sent>>
  <2>2. OnWay(k)' = OnWay(k) \cup {x} /\ \A y \in OnWay(k) : Precedes(y, x)
    BY <2>1, OnWaySent
  <2>3. Live(k)' = Live(k) /\ Cut(k) = EdgeDown(k) /\ Cut(k)' = EdgeDown(k)
    BY <1>1, <1>2, <1>4 DEF Live, Cut, EdgeDown
  <2>4. Lane(k) = chan[k] /\ Lane(k)' = chan'[k] /\ BufInv(k)'
    BY <1>1 DEF Lane, BufInv
  <2>5. LaneOK(chan[k], OnWay(k), Cut(k), Live(k))
    BY <2>4 DEF RingInv, LaneInv
  <2>6. LaneInv(k)' /\ \A f \in Nodes \ {k} : chan'[f] = chan[f]
    <3>1. CASE EdgeDown(k)
      <4>1. chan' = chan
        BY <1>2, <1>4, <3>1
      <4> HIDE DEF x
      <4>2. LaneOK(chan[k], OnWay(k) \cup {x}, TRUE, Live(k))
        BY <2>2, <2>3, <2>5, <3>1, LaneSwallows DEF EdgeDown
      <4>3. LaneOK(Lane(k)', OnWay(k)', Cut(k)', Live(k)')
        BY <2>2, <2>3, <2>4, <3>1, <4>1, <4>2 DEF EdgeDown
      <4>4. QED
        BY <4>1, <4>3, LaneNext
    <3>2. CASE ~EdgeDown(k)
      <4>1. PICK m \in Headers : /\ m.step = pass[k] /\ m.pos = loc[k].sent
                                 /\ chan' = [chan EXCEPT ![k] = Append(@, m)]
        BY <1>2, <1>4, <3>2
      <4>2. chan \in [Nodes -> Seq(Headers)]
        BY <1>0 DEF TypeInv, LaneTypes
      <4>3. /\ chan'[k] = Append(chan[k], m) /\ chan[k] \in Seq(Headers)
            /\ \A f \in Nodes \ {k} : chan'[f] = chan[f]
        BY <4>1, <4>2
      <4>4. ~IsPoison(m) /\ Key(m) = x
        BY <4>1 DEF IsPoison, Headers, Key
      <4> HIDE DEF x
      <4>c. Cut(k) = FALSE /\ Cut(k)' = FALSE
        BY <1>1, <3>2 DEF Cut, EdgeDown
      <4>5. LaneOK(chan[k], OnWay(k), FALSE, Live(k))
        BY <2>5, <4>c
      <4>6. LaneOK(Append(chan[k], m), OnWay(k) \cup {Key(m)}, FALSE, Live(k))
        BY <2>2, <4>3, <4>4, <4>5, LaneGiven
      <4>7. LaneOK(Lane(k)', OnWay(k)', Cut(k)', Live(k)')
        BY <2>2, <2>3, <2>4, <4>c, <4>3, <4>4, <4>6
      <4>8. QED
        BY <4>3, <4>7, LaneNext
    <3>3. QED
      BY <3>1, <3>2
  <2>7. link' = link /\ nextBuf' = nextBuf /\ poisoned' = poisoned
    BY <1>1 DEF linkVars
  <2>8. QED
    BY <2>1, <2>4, <2>6, <2>7, SendMoves
<1>5. QED
  BY <1>3, <1>4

\* The buffer of the zone that is sent, and of the next one.
LEMMA BufGiven ==
  ASSUME BaseInv, RingInv, NEW k \in Nodes, ZoneSent(k), BoundaryOut(k),
         NEW m \in WireMessages, m.step = pass[k], m.pos = loc[k].sent,
         m.buf = nextBuf[RankOf(k)], ~poisoned[RankOf(k)], ~IsPoison(m),
         link'[Consumer(k)] = Append(link[Consumer(k)], m),
         nextBuf'[RankOf(k)] = (nextBuf[RankOf(k)] + 1) % PoolSize
  PROVE  BufInv(k)'
<1> DEFINE s == link[Consumer(k)]
           t == Append(s, m)
<1>1. /\ pass[k] \in Nat /\ pass[k] <= Steps /\ loc[k].sent \in Nat
      /\ Turn(pass[k]) \in Int
  <2>1. pass[k] \in Sends /\ loc[k].sent \in Zones
    BY SendAhead DEF ZoneSent
  <2>2. pass[k] \in Nat /\ pass[k] <= Steps /\ loc[k].sent \in Nat
    BY <2>1, RingFacts DEF Sends, Passes, Zones
  <2>3. QED
    BY <2>2, TurnFacts
<1>2. SendNo(k) = Turn(pass[k]) + loc[k].sent /\ SendNo(k)' = SendNo(k) + 1
  BY SentCounts
<1>3. BufInv(k)
  BY DEF RingInv
<1>4. /\ \A q \in ZonesIn(s) : s[q].buf = MsgNo(s[q]) % PoolSize
      /\ nextBuf[RankOf(k)] = SendNo(k) % PoolSize
  BY <1>1, <1>3 DEF BufInv
<1>5. m.buf = MsgNo(m) % PoolSize
  BY <1>2, <1>4 DEF MsgNo
<1>6. nextBuf'[RankOf(k)] = SendNo(k)' % PoolSize
  <2>1. SendNo(k) \in Int
    BY <1>1, <1>2
  <2> DEFINE a == SendNo(k)
  <2> HIDE DEF a
  <2>2. ((a % PoolSize) + 1) % PoolSize = (a + 1) % PoolSize
    BY <2>1, NextBuffer DEF a
  <2>3. QED
    BY <1>2, <1>4, <2>2 DEF a
<1>7. s \in Seq(WireMessages)
  <2>1. Consumer(k) \in Heads
    BY NextRankIs
  <2>2. QED
    BY <2>1 DEF BaseInv, TypeInv, LinkTypes
<1>8. Behind(t, s, m)
  BY <1>7, AppendZones
<1>9. link'[Consumer(k)] = t
  OBVIOUS
<1> HIDE DEF t, s
<1>10. \A q \in ZonesIn(t) : t[q].buf = MsgNo(t[q]) % PoolSize
  BY <1>4, <1>5, <1>8 DEF Behind
<1>11. \A q \in ZonesIn(link'[Consumer(k)]) :
         link'[Consumer(k)][q].buf = MsgNo(link'[Consumer(k)][q]) % PoolSize
  BY <1>9, <1>10
<1>12. QED
  BY <1>6, <1>11 DEF BufInv, MsgNo, Turn

LEMMA SendBoundaryRing ==
  ASSUME BaseInv, TypeInv', RingInv, NEW k \in Nodes, SendBoundary(k)
  PROVE  RingInv'
<1> DEFINE r == RankOf(k)
           c == Consumer(k)
<1>0. /\ TypeInv /\ k \in Nodes /\ BoundaryOut(k) /\ c \in Heads /\ r \in Heads
      /\ NextRank(r) = c
  BY RankFacts, NextRankIs DEF BaseInv, SendBoundary
<1>1. Sending(k) /\ UNCHANGED <<pass, chan, closed>>
  BY DEF SendBoundary
<1>2. \/ SetHalt(k, "Logic") /\ UNCHANGED <<link, loc>>
      \/ /\ UNCHANGED pc
         /\ loc' = [loc EXCEPT ![k] = SentPass(ReadyToSend(loc[k]))]
         /\ \/ poisoned[r] /\ UNCHANGED linkVars
            \/ /\ ~poisoned[r] /\ UNCHANGED poisoned
               /\ nextBuf' = [nextBuf EXCEPT ![r] = (@ + 1) % PoolSize]
               /\ \E m \in WireMessages :
                    /\ m.step = pass[k] /\ m.pos = loc[k].sent /\ m.buf = nextBuf[r]
                    /\ link' = [link EXCEPT ![NextRank(r)] = Append(@, m)]
  BY <1>0, SendBoundaryEffect
<1>s. loc[k].outq # <<>>
  BY <1>1 DEF Sending
<1>h. SetHalt(k, "Logic") => ~UNCHANGED pc
  <2>1. pc[k] \in {"flush", "io"}
    BY <1>1 DEF Sending, Flushing
  <2>2. SetHalt(k, "Logic") => pc'[k] \in Stopped
    BY <1>0, HaltMoves
  <2>3. QED
    BY <2>1, <2>2 DEF Stopped
<1>3. CASE ~(loc' = [loc EXCEPT ![k] = SentPass(ReadyToSend(loc[k]))] /\ UNCHANGED pc)
  <2>1. SetHalt(k, "Logic") /\ UNCHANGED <<loc, linkVars>>
    BY <1>3 DEF SendBoundary
  <2>2. QED
    BY <1>1, <2>1, CalmHalt
<1>4. CASE loc' = [loc EXCEPT ![k] = SentPass(ReadyToSend(loc[k]))] /\ UNCHANGED pc
  <2>1. ZoneSent(k)
    BY <1>0, <1>1, <1>4, <1>s, SentStep DEF ZoneSent
  <2> DEFINE x == <<pass[k], loc[k].sent>>
  <2>2. OnWay(k)' = OnWay(k) \cup {x} /\ \A y \in OnWay(k) : Precedes(y, x)
    BY <2>1, OnWaySent
  <2>3. Live(k)' = Live(k) /\ Cut(k) = poisoned[r] /\ Cut(k)' = poisoned'[r]
    BY <1>0, <1>4 DEF Live, Cut
  <2>4. Lane(k) = link[c] /\ Lane(k)' = link'[c]
    BY <1>0 DEF Lane
  <2>5. LaneOK(link[c], OnWay(k), poisoned[r], Live(k))
    BY <1>0, <2>3, <2>4 DEF RingInv, LaneInv
  <2>6. /\ LaneInv(k)' /\ BufInv(k)' /\ poisoned' = poisoned
        /\ \A n \in Heads : n # c => link'[n] = link[n]
        /\ \A n \in Heads : n # r => nextBuf'[n] = nextBuf[n]
    <3>1. CASE poisoned[r]
      <4>1. link' = link /\ poisoned' = poisoned /\ nextBuf' = nextBuf
        BY <1>2, <1>4, <1>h, <3>1 DEF linkVars
      <4> HIDE DEF x
      <4>2. poisoned[r] = TRUE
        BY <1>0, <3>1 DEF TypeInv, LinkTypes
      <4>3. LaneOK(link[c], OnWay(k) \cup {x}, TRUE, Live(k))
        BY <2>2, <2>5, <4>2, LaneSwallows
      <4>4. LaneOK(Lane(k)', OnWay(k)', Cut(k)', Live(k)')
        BY <2>2, <2>3, <2>4, <4>1, <4>2, <4>3
      <4>5. BufInv(k)'
        BY <3>1, <4>1 DEF BufInv
      <4>6. QED
        BY <4>1, <4>4, <4>5, LaneNext
    <3>2. CASE ~poisoned[r]
      <4>1. /\ nextBuf' = [nextBuf EXCEPT ![r] = (@ + 1) % PoolSize] /\ poisoned' = poisoned
            /\ \E m \in WireMessages :
                 /\ m.step = pass[k] /\ m.pos = loc[k].sent /\ m.buf = nextBuf[r]
                 /\ link' = [link EXCEPT ![c] = Append(@, m)]
        BY <1>0, <1>2, <1>4, <1>h, <3>2
      <4>2. PICK m \in WireMessages :
                 /\ m.step = pass[k] /\ m.pos = loc[k].sent /\ m.buf = nextBuf[r]
                 /\ link' = [link EXCEPT ![c] = Append(@, m)]
        BY <4>1
      <4>3. /\ link \in [Heads -> Seq(WireMessages)]
            /\ nextBuf \in [Heads -> 0 .. PoolSize - 1]
            /\ poisoned[r] = FALSE
        BY <1>0, <3>2 DEF TypeInv, LinkTypes
      <4>4. /\ link'[c] = Append(link[c], m) /\ link[c] \in Seq(WireMessages)
            /\ \A n \in Heads : n # c => link'[n] = link[n]
            /\ nextBuf'[r] = (nextBuf[r] + 1) % PoolSize
            /\ \A n \in Heads : n # r => nextBuf'[n] = nextBuf[n]
        BY <1>0, <4>1, <4>2, <4>3
      <4>5. ~IsPoison(m) /\ Key(m) = x
        <5>1. loc[k].sent \in Nat
          BY <1>0, NodeFields, PassFields
        <5>2. QED
          BY <4>2, <5>1 DEF IsPoison, Key
      <4>6. BufInv(k)'
        BY <1>0, <2>1, <3>2, <4>2, <4>4, <4>5, BufGiven
      <4> HIDE DEF x
      <4>7. LaneOK(Append(link[c], m), OnWay(k) \cup {Key(m)}, FALSE, Live(k))
        BY <2>2, <2>5, <4>3, <4>4, <4>5, LaneGiven
      <4>8. LaneOK(Lane(k)', OnWay(k)', Cut(k)', Live(k)')
        BY <2>2, <2>3, <2>4, <4>1, <4>3, <4>4, <4>5, <4>7
      <4>9. QED
        BY <4>1, <4>4, <4>6, <4>8, LaneNext
    <3>3. QED
      BY <3>1, <3>2
  <2>7. ASSUME NEW f \in Nodes \ {k}
        PROVE  /\ ~BoundaryOut(f) => chan'[f] = chan[f]
               /\ BoundaryOut(f) => /\ link'[Consumer(f)] = link[Consumer(f)]
                                    /\ nextBuf'[RankOf(f)] = nextBuf[RankOf(f)]
                                    /\ poisoned[RankOf(f)] => poisoned'[RankOf(f)]
    <3>1. Consumer(f) # c
      BY ConsumerOfIn
    <3>2. BoundaryOut(f) => Consumer(f) \in Heads /\ RankOf(f) \in Heads /\ RankOf(f) # r
      BY <1>0, RankFacts, NextRankIs, OneWayOut
    <3>3. QED
      BY <1>1, <2>6, <3>1, <3>2
  <2>8. QED
    BY <2>1, <2>6, <2>7, SendMoves
<1>5. QED
  BY <1>3, <1>4

-----------------------------------------------------------------------------
(* The ring from its beginning.                                              *)

LEMMA InitRing == Init => RingInv
<1> SUFFICES ASSUME Init PROVE RingInv
  OBVIOUS
<1>0. TypeInv /\ N \in Nat \ {0} /\ Z \in Nat \ {0}
  BY InitType, RingFacts
<1>1. \A k \in Nodes : /\ pass[k] = k + 1 /\ loc[k].agg.pass = 0
                       /\ loc[k].sent = 0 /\ loc[k].arrived = 0
  BY DEF Init, FreshPass
<1>2. \A k \in Nodes : k \in Nat /\ k + 1 \in Nat \ {0} /\ k + 1 \in 1 .. Z
  BY <1>0 DEF Nodes
<1>3. ASSUME NEW h \in Nat \ {0}
      PROVE  SentOf(h) = 0
  <2>1. Owner(h) \in Nodes
    BY OwnerFacts
  <2>2. Owner(h) \in Nat /\ Owner(h) + 1 <= h
    BY <1>2, <2>1, OwnerBelow
  <2>3. ~(pass[Owner(h)] > h)
    BY <1>1, <2>1, <2>2
  <2>4. QED
    BY <1>1, <2>1, <2>3 DEF SentOf
<1>4. ASSUME NEW e \in Nodes
      PROVE  LaneInv(e) /\ BufInv(e)
  <2>1. OnWay(e) = {}
    <3>1. ASSUME NEW x \in OnWay(e)
          PROVE  FALSE
      <4>1. PICK h \in Sends, j \in Zones : x = <<h, j>> /\ j < SentOf(h)
        BY DEF OnWay
      <4>2. h \in Nat \ {0}
        BY SendsFacts
      <4>3. SentOf(h) = 0
        BY <1>3, <4>2
      <4>4. QED
        BY <1>0, <4>1, <4>3 DEF Zones
    <3>2. QED
      BY <3>1
  <2>2. BoundaryOut(e) => Consumer(e) \in Heads /\ RankOf(e) \in Heads
    BY NextRankIs, RankFacts
  <2>3. Lane(e) = <<>> /\ (BoundaryOut(e) => link[Consumer(e)] = <<>>)
    BY <2>2 DEF Lane, Init, InitLinks
  <2>4. ZonesIn(<<>>) = {}
    BY DEF ZonesIn
  <2>5. LaneInv(e)
    BY <2>1, <2>3, <2>4 DEF LaneInv, LaneOK
  <2>6. BoundaryOut(e) => nextBuf[RankOf(e)] = SendNo(e) % PoolSize
    <3>1. BoundaryOut(e) => nextBuf[RankOf(e)] = 0
      BY <2>2 DEF Init, InitLinks
    <3>2. SendNo(e) = 0
      <4>1. pass[e] = e + 1 /\ loc[e].agg.pass # pass[e] /\ e + 1 \in 1 .. Z
        BY <1>1, <1>2
      <4> DEFINE h == e + 1
      <4>2. h \in 1 .. Z
        BY <4>1
      <4> HIDE DEF h
      <4>3. Turn(h) = 0
        BY <4>2, TurnFacts
      <4>4. QED
        BY <4>1, <4>3 DEF SendNo, h
    <3>3. 0 % PoolSize = 0
      BY RanksAssumption DEF RanksAssumption, PoolSize
    <3>4. QED
      BY <3>1, <3>2, <3>3
  <2>7. QED
    BY <2>3, <2>4, <2>5, <2>6 DEF BufInv
<1>5. Descends
  BY <1>3, RingFacts DEF Descends, Passes
<1>6. \A k \in Nodes : Leads(k)
  BY <1>1 DEF Leads
<1>7. QED
  BY <1>4, <1>5, <1>6 DEF RingInv

LEMMA NodeStepRing ==
  ASSUME BaseInv, TypeInv', RingInv, NEW k \in Nodes, NodeStep(k)
  PROVE  RingInv'
<1>1. CASE NodeReturns(k) \/ RecvShutDown(k) \/ CreditShutDown(k) \/ FlushSeesHalt(k) \/ HaltCheck(k)
  BY <1>1, LeaveRing
<1>2. CASE StartPass(k) \/ TakePreload(k) \/ RecvZone(k) \/ RecvBoundary(k) \/ RecvPoison(k)
  BY <1>2, StartRing, PreloadRing, RecvZoneRing, RecvBoundaryRing, RecvPoisonRing
<1>3. CASE RecvDone(k) \/ FlushDone(k) \/ CollectZone(k) \/ CopyZone(k)
  BY <1>3, OpDoneRing, CollectRing, CopyRing
<1>4. CASE SendHeader(k) \/ SendBoundary(k) \/ CloseEdge(k) \/ PoisonRing(k)
  BY <1>4, SendHeaderRing, SendBoundaryRing, CloseEdgeRing, PoisonRingRing
<1>5. CASE ComputeZone(k) \/ EndHead(k) \/ FinishPass(k) \/ RecordPass(k)
  BY <1>5, ComputeRing, FinishRing, RecordRing
<1>6. QED
  BY <1>1, <1>2, <1>3, <1>4, <1>5 DEF NodeStep

LEMMA NextRing ==
  ASSUME BaseInv, TypeInv', RingInv, [Next]_vars
  PROVE  RingInv'
<1>1. ASSUME NEW k \in Nodes, NodeStep(k) PROVE RingInv'
  BY <1>1, NodeStepRing
<1>2. ASSUME NEW k \in Nodes, NodeFault(k) PROVE RingInv'
  BY <1>2, FaultRing
<1>3. CASE (\E r \in Heads : Join(r)) \/ UNCHANGED vars
  BY <1>3, StandRing
<1>4. QED
  BY <1>1, <1>2, <1>3 DEF Next, AllReturned

LEMMA AlwaysRing == Spec => [](BaseInv /\ RingInv)
<1>1. BaseInv /\ BaseInv' /\ RingInv /\ [Next]_vars => RingInv'
  BY NextRing DEF BaseInv
<1>2. Spec => []BaseInv
  BY AlwaysData, PTL DEF BaseInv
<1>3. QED
  BY InitRing, <1>1, <1>2, PTL DEF Spec

\* A boundary send never finds its buffer in use when the pool has as many
\* buffers as there are zones (pool_slots, the free test of MpiRingEdge::send):
\* what is under way was sent less than a pass before, whatever fails.
THEOREM PoolIsLargeEnough ==
  ASSUME PoolSize >= N
  PROVE  Spec => []SendNeverWaits
<1>1. BaseInv /\ RingInv => SendNeverWaits
  BY BufferIsFree DEF SendNeverWaits
<1>2. QED
  BY <1>1, AlwaysRing, PTL

=============================================================================
