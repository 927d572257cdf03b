----------------------------- MODULE KvCacheProofs -----------------------------
(***************************************************************************)
(* Proofs about KvCache for any number of layers, heads, positions, groups  *)
(* and any tile size.                                                       *)
(***************************************************************************)
EXTENDS KvCache, TLAPS

-----------------------------------------------------------------------------
(* Addresses.                                                                 *)

(* Two digits in base n determine their number.                               *)
LEMMA Digits ==
  ASSUME NEW n \in Nat \ {0}, NEW a \in Nat, NEW b \in 0 .. n - 1,
         NEW c \in Nat, NEW d \in 0 .. n - 1, a * n + b = c * n + d
  PROVE  a = c /\ b = d
<1>1. ~(a < c)
  <2> SUFFICES ASSUME a < c PROVE FALSE
    OBVIOUS
  <2>1. PICK k \in Nat \ {0} : c = a + k
    <3>1. c - a \in Nat \ {0} /\ c = a + (c - a)
      OBVIOUS
    <3> QED BY <3>1
  <2>2. c * n = a * n + k * n
    BY <2>1
  <2>3. k * n >= n
    BY <2>1
  <2> QED BY <2>2, <2>3, a * n \in Nat, k * n \in Nat
<1>2. ~(c < a)
  <2> SUFFICES ASSUME c < a PROVE FALSE
    OBVIOUS
  <2>1. PICK k \in Nat \ {0} : a = c + k
    <3>1. a - c \in Nat \ {0} /\ a = c + (a - c)
      OBVIOUS
    <3> QED BY <3>1
  <2>2. a * n = c * n + k * n
    BY <2>1
  <2>3. k * n >= n
    BY <2>1
  <2> QED BY <2>2, <2>3, c * n \in Nat, k * n \in Nat
<1>3. a = c
  BY <1>1, <1>2
<1> QED BY <1>3, a * n \in Nat

(* A number with digit a below m and digit b below n is below m * n.          *)
LEMMA DigitsBound ==
  ASSUME NEW m \in Nat \ {0}, NEW n \in Nat \ {0},
         NEW a \in 0 .. m - 1, NEW b \in 0 .. n - 1
  PROVE  a * n + b \in 0 .. m * n - 1
<1>1. PICK k \in Nat \ {0} : m = a + k
  <2>1. m - a \in Nat \ {0} /\ m = a + (m - a)
    OBVIOUS
  <2> QED BY <2>1
<1>2. m * n = a * n + k * n
  BY <1>1
<1>3. k * n >= n
  BY <1>1
<1> QED BY <1>2, <1>3, a * n \in Nat, k * n \in Nat, m * n \in Nat

LEMMA HalfIndexHorner ==
  ASSUME NEW l \in Layers, NEW h \in Heads, NEW p \in Nat, NEW g \in Group
  PROVE  HalfIndex(l, h, p, g) = ((l * HKv + h) * MaxSeq + p) * Groups + g
<1> DEFINE S == MaxSeq * Groups
<1>1. l \in Nat /\ h \in Nat /\ p \in Nat /\ g \in Nat
      /\ HKv \in Nat /\ MaxSeq \in Nat /\ Groups \in Nat
  BY KvAssumption DEF Layers, Heads, Group
<1>2. ((l * HKv + h) * MaxSeq + p) * Groups = (l * HKv + h) * S + p * Groups
  BY <1>1, SMT
<1>3. (l * HKv + h) * S = l * HKv * MaxSeq * Groups + h * MaxSeq * Groups
  BY <1>1, SMT
<1> QED BY <1>1, <1>2, <1>3, SMT DEF HalfIndex

(* kv_cache_half_index gives every layer, head, position and group a half of  *)
(* its own, inside the buffer.                                                *)
LEMMA HalfIndexOwn ==
  ASSUME NEW l \in Layers, NEW h \in Heads, NEW p \in Pos, NEW g \in Group
  PROVE  /\ HalfIndex(l, h, p, g) \in HalfIndexes
         /\ \A l2 \in Layers, h2 \in Heads, p2 \in Pos, g2 \in Group :
              HalfIndex(l, h, p, g) = HalfIndex(l2, h2, p2, g2)
                => l = l2 /\ h = h2 /\ p = p2 /\ g = g2
<1> USE KvAssumption DEF Layers, Heads, Pos, Group
<1>1. l * HKv + h \in 0 .. NumLayers * HKv - 1
  BY DigitsBound
<1>2. (l * HKv + h) * MaxSeq + p \in 0 .. NumLayers * HKv * MaxSeq - 1
  <2>1. NumLayers * HKv \in Nat \ {0}
    OBVIOUS
  <2> QED BY <1>1, <2>1, DigitsBound
<1>3. ((l * HKv + h) * MaxSeq + p) * Groups + g \in 0 .. NumLayers * HKv * MaxSeq * Groups - 1
  <2>1. NumLayers * HKv * MaxSeq \in Nat \ {0}
    OBVIOUS
  <2> QED BY <1>2, <2>1, DigitsBound
<1>4. ASSUME NEW l2 \in Layers, NEW h2 \in Heads, NEW p2 \in Pos, NEW g2 \in Group,
             HalfIndex(l, h, p, g) = HalfIndex(l2, h2, p2, g2)
      PROVE  l = l2 /\ h = h2 /\ p = p2 /\ g = g2
  <2> DEFINE A == l * HKv + h
             A2 == l2 * HKv + h2
  <2>1. (A * MaxSeq + p) * Groups + g = (A2 * MaxSeq + p2) * Groups + g2
    BY <1>4, HalfIndexHorner
  <2>2. A \in Nat /\ A2 \in Nat
    OBVIOUS
  <2>3. A * MaxSeq + p \in Nat /\ A2 * MaxSeq + p2 \in Nat
    BY <2>2
  <2> HIDE DEF A, A2
  <2>4. A * MaxSeq + p = A2 * MaxSeq + p2 /\ g = g2
    <3> DEFINE B == A * MaxSeq + p
               B2 == A2 * MaxSeq + p2
    <3>1. B \in Nat /\ B2 \in Nat /\ B * Groups + g = B2 * Groups + g2
      BY <2>1, <2>3
    <3> HIDE DEF B, B2
    <3>2. B = B2 /\ g = g2
      BY <3>1, Digits
    <3> QED BY <3>2 DEF B, B2
  <2>5. A = A2 /\ p = p2
    BY <2>2, <2>4, Digits
  <2>6. l = l2 /\ h = h2
    BY <2>5, Digits DEF A, A2
  <2> QED BY <2>4, <2>5, <2>6
<1>5. HalfIndex(l, h, p, g) \in HalfIndexes
  BY <1>3, HalfIndexHorner DEF HalfIndexes
<1> QED BY <1>4, <1>5

(* Position MaxSeq of a head is position 0 of the next: of what the layout    *)
(* keeps apart, this is the only thing it does not.                           *)
LEMMA HalfIndexBehind ==
  ASSUME NEW l \in Layers, NEW h \in Heads, NEW k \in Group,
         NEW l2 \in Layers, NEW h2 \in Heads, NEW p2 \in Pos, NEW g2 \in Group,
         HalfIndex(l, h, MaxSeq, k) = HalfIndex(l2, h2, p2, g2)
  PROVE  /\ k = g2 /\ p2 = 0
         /\ l2 * HKv + h2 = l * HKv + h + 1
         /\ l2 * HKv + h2 \in 0 .. NumLayers * HKv - 1
<1> DEFINE A == l * HKv + h
           A2 == l2 * HKv + h2
<1>1. A \in Nat /\ A2 \in 0 .. NumLayers * HKv - 1 /\ A2 \in Nat
  <2>1. A2 \in 0 .. NumLayers * HKv - 1
    BY KvAssumption, DigitsBound DEF Layers, Heads
  <2> QED BY <2>1, KvAssumption DEF Layers, Heads
<1>2. MaxSeq \in Nat \ {0} /\ p2 \in 0 .. MaxSeq - 1 /\ 0 \in 0 .. MaxSeq - 1 /\ MaxSeq \in Nat
      /\ Groups \in Nat \ {0} /\ k \in 0 .. Groups - 1 /\ g2 \in 0 .. Groups - 1
      /\ p2 \in Nat
  BY KvAssumption DEF Pos, Group
<1>3. (A * MaxSeq + MaxSeq) * Groups + k = (A2 * MaxSeq + p2) * Groups + g2
  BY <1>2, HalfIndexHorner
<1> HIDE DEF A, A2
<1>4. A * MaxSeq + MaxSeq = (A + 1) * MaxSeq + 0
  BY <1>1, <1>2
<1>5. A * MaxSeq + MaxSeq \in Nat /\ A2 * MaxSeq + p2 \in Nat
  BY <1>1, <1>2
<1>6. A * MaxSeq + MaxSeq = A2 * MaxSeq + p2 /\ k = g2
  <2> DEFINE B == A * MaxSeq + MaxSeq
             B2 == A2 * MaxSeq + p2
  <2>1. B \in Nat /\ B2 \in Nat /\ B * Groups + k = B2 * Groups + g2
    BY <1>3, <1>5
  <2> HIDE DEF B, B2
  <2>2. B = B2 /\ k = g2
    BY ONLY <1>2, <2>1, Digits
  <2> QED BY <2>2 DEF B, B2
<1>7. A + 1 \in Nat /\ (A + 1) * MaxSeq + 0 = A2 * MaxSeq + p2
  BY <1>1, <1>4, <1>6
<1>8. A + 1 = A2 /\ 0 = p2
  BY ONLY <1>1, <1>2, <1>7, Digits
<1> QED BY <1>1, <1>6, <1>8 DEF A, A2

(* The first halves of the cache are those of its first position.             *)
LEMMA HalfIndexFirst ==
  ASSUME NEW l \in Layers, NEW h \in Heads, NEW p \in Pos, NEW g \in Group,
         HalfIndex(l, h, p, g) \in Group
  PROVE  l * HKv + h = 0 /\ p = 0 /\ HalfIndex(l, h, p, g) = g
<1> DEFINE A == l * HKv + h
           i == HalfIndex(l, h, p, g)
<1>1. A \in Nat
  BY KvAssumption DEF Layers, Heads
<1>2. /\ MaxSeq \in Nat \ {0} /\ p \in 0 .. MaxSeq - 1 /\ 0 \in 0 .. MaxSeq - 1 /\ p \in Nat
      /\ Groups \in Nat \ {0} /\ g \in 0 .. Groups - 1 /\ i \in 0 .. Groups - 1
      /\ 0 \in Nat
  BY KvAssumption DEF Pos, Group
<1>3. 0 * Groups + i = (A * MaxSeq + p) * Groups + g
  BY <1>2, HalfIndexHorner
<1> HIDE DEF A, i
<1>4. A * MaxSeq + p \in Nat
  BY <1>1, <1>2
<1>5. 0 = A * MaxSeq + p /\ i = g
  <2> DEFINE B == A * MaxSeq + p
  <2>1. B \in Nat /\ 0 * Groups + i = B * Groups + g
    BY <1>3, <1>4
  <2> HIDE DEF B
  <2>2. 0 = B /\ i = g
    BY ONLY <1>2, <2>1, Digits
  <2> QED BY <2>2 DEF B
<1>6. 0 * MaxSeq + 0 = A * MaxSeq + p
  BY <1>2, <1>5
<1>7. 0 = A /\ 0 = p
  BY ONLY <1>1, <1>2, <1>6, Digits
<1> QED BY <1>5, <1>7 DEF A, i

LEMMA BufIndexOwn ==
  ASSUME NEW p \in Pos, NEW g \in Group
  PROVE  /\ BufIndex(p, g) \in BufIndexes
         /\ BufIndex(p, g) \in Group => p = 0
         /\ \A p2 \in Nat, g2 \in Group :
              BufIndex(p, g) = BufIndex(p2, g2) => p = p2 /\ g = g2
<1> USE KvAssumption DEF Pos, Group, BufIndex, BufIndexes
<1>1. BufIndex(p, g) \in BufIndexes
  BY DigitsBound
<1>2. ASSUME NEW p2 \in Nat, NEW g2 \in Group, BufIndex(p, g) = BufIndex(p2, g2)
      PROVE  p = p2 /\ g = g2
  BY <1>2, Digits
<1>3. ASSUME BufIndex(p, g) \in Group PROVE p = 0
  <2>1. BufIndex(p, g) = BufIndex(0, BufIndex(p, g))
    BY <1>3
  <2> QED BY <1>2, <1>3, <2>1
<1> QED BY <1>1, <1>2, <1>3

-----------------------------------------------------------------------------
(* The inductive invariant.                                                   *)

(* Positions of layer l and head h that hold the request's K/V so far.        *)
Filled(l, h) ==
  IF job = "idle" THEN len
  ELSE IF l < layer THEN KvLen
  ELSE IF l = layer
       THEN IF h < head \/ (h = head /\ phase = "attend") THEN CurPos + QLen ELSE CurPos
       ELSE IF job = "prefill" THEN 0 ELSE len

(* Behind a full layout, position 0 of a head is at the mercy of the head in  *)
(* front of it.                                                               *)
HistoryInCache ==
  req # NoOne =>
    \A l \in Layers, h \in Heads, p \in Pos, g \in Group :
      p < Filled(l, h) /\ (p = 0 => ~Overruns) => ddr[HalfIndex(l, h, p, g)] = Half(req, l, h, p, g)

HistoryInBank ==
  /\ phase = "write" =>
       \A p \in 0 .. CurPos - 1 : OwnInBank(p) \/ (CurPos = MaxSeq /\ p = 0)
  /\ AttendsOwn

KvInv == KvTypeOK /\ CacheIsOwn /\ HistoryInCache /\ HistoryInBank

-----------------------------------------------------------------------------
(* What a load and a write leave behind.                                      *)

(* Positions the launch works on are positions of the layout, except that of  *)
(* a decode behind it.                                                        *)
LEMMA LaunchRange ==
  ASSUME KvTypeOK, phase # "idle"
  PROVE  /\ CurPos \in Nat /\ QLen \in Nat \ {0} /\ CurPos <= MaxSeq
         /\ 0 .. CurPos - 1 \subseteq Pos
         /\ Overruns <=> CurPos = MaxSeq
         /\ ~Overruns => CurPos + QLen <= MaxSeq /\ OwnPos \subseteq Pos
         /\ Overruns => QLen = 1 /\ OwnPos = {MaxSeq}
         /\ \A p : p \in OwnPos <=> p \in Nat /\ CurPos <= p /\ p < CurPos + QLen
<1>1. CurPos \in Nat
  BY DEF KvTypeOK, CurPos
<1>2. QLen \in Nat \ {0}
  BY KvAssumption DEF KvTypeOK, QLen, TileSize
<1>3. CurPos <= MaxSeq /\ (Overruns <=> CurPos = MaxSeq) /\ (~Overruns => CurPos + QLen <= MaxSeq)
  <2>1. job \in {"prefill", "decode"} /\ len \in 0 .. MaxSeq /\ MaxSeq \in Nat
    BY KvAssumption DEF KvTypeOK
  <2>2. CASE job = "prefill"
    <3>1. CurPos + QLen <= MaxSeq
      BY <2>2 DEF KvTypeOK
    <3> QED BY <1>1, <1>2, <2>1, <2>2, <3>1 DEF Overruns
  <2>3. CASE job = "decode"
    BY <2>1, <2>3 DEF Overruns, CurPos, QLen
  <2> QED BY <2>1, <2>2, <2>3
<1>4. Overruns => QLen = 1
  BY DEF Overruns, QLen
<1> QED BY <1>1, <1>2, <1>3, <1>4, KvAssumption DEF Pos, OwnPos

(* What loads and writes leave alone.                                         *)
LEMMA LoadFrame ==
  ASSUME LoadHead
  PROVE  phase = "load" /\ phase' = "write"
         /\ UNCHANGED <<ddr, bank, head, req, len, job, layer, tile>>
BY DEF LoadHead, host

LEMMA WriteFrame ==
  ASSUME WriteHead
  PROVE  phase = "write" /\ phase' = "attend"
         /\ UNCHANGED <<bank, head, req, len, job, layer, tile>>
BY Zenon DEF WriteHead, host

LEMMA LoadedBank ==
  ASSUME KvTypeOK, LoadHead, NEW p \in Pos, NEW g \in Group
  PROVE  buf'[bank][BufIndex(p, g)] = IF p < CurPos THEN ddr[HalfIndex(layer, head, p, g)]
                                      ELSE buf[bank][BufIndex(p, g)]
<1> DEFINE i == BufIndex(p, g)
           here == {pg \in (0 .. CurPos - 1) \X Group : BufIndex(pg[1], pg[2]) = i}
<1>1. /\ CurPos \in Nat
      /\ 0 .. CurPos - 1 \subseteq Pos
  BY LoadFrame, LaunchRange
<1>2. i \in BufIndexes
  BY BufIndexOwn
<1>3. buf'[bank][i] = Stored(i, BufIndex, 0 .. CurPos - 1,
                             LAMBDA q, k : ddr[HalfIndex(layer, head, q, k)], buf[bank][i])
  BY <1>2 DEF LoadHead, KvTypeOK
<1>4. \A pg \in here : pg[1] = p /\ pg[2] = g
  BY <1>1, BufIndexOwn
<1>5. CASE p < CurPos
  <2>1. <<p, g>> \in here
    BY <1>1, <1>5 DEF Pos
  <2>2. (CHOOSE pg \in here : TRUE) \in here
    BY <2>1
  <2> QED BY <1>3, <1>4, <1>5, <2>1, <2>2, Zenon DEF Stored
<1>6. CASE ~(p < CurPos)
  <2>1. here = {}
    BY <1>1, <1>4, <1>6 DEF Pos
  <2> QED BY <1>3, <1>6, <2>1, Zenon DEF Stored
<1> QED BY <1>5, <1>6

LEMMA WrittenBank ==
  ASSUME KvTypeOK, WriteHead, NEW p \in Pos, NEW g \in Group, p = 0 => ~Overruns
  PROVE  buf'[bank][BufIndex(p, g)] = IF p \in OwnPos
                                      THEN Half(req, layer, head, p, g)
                                      ELSE buf[bank][BufIndex(p, g)]
<1> DEFINE i == BufIndex(p, g)
           here == {pg \in OwnPos \X Group : BufIndex(pg[1], pg[2]) = i}
<1>1. \A q \in OwnPos : q \in Nat
  BY WriteFrame, LaunchRange
<1>2. i \in BufIndexes /\ bank \in 0 .. 1
  BY BufIndexOwn DEF KvTypeOK
<1>3. buf'[bank][i] = Stored(i, BufIndex, OwnPos,
                             LAMBDA q, k : Half(req, layer, head, q, k), buf[bank][i])
  <2>1. PICK hit \in SUBSET (0 .. 1) :
          /\ hit # {} => Overruns
          /\ buf' = [b \in 0 .. 1 |-> [j \in BufIndexes |->
               IF b \in hit /\ j \in Group THEN Half(req, layer, head, MaxSeq, j)
               ELSE IF b = bank THEN Stored(j, BufIndex, OwnPos,
                                            LAMBDA q, k : Half(req, layer, head, q, k), buf[b][j])
               ELSE buf[b][j]]]
    BY Zenon DEF WriteHead
  <2>2. ~(bank \in hit /\ i \in Group)
    BY <2>1, BufIndexOwn
  <2> HIDE DEF i
  <2> QED BY <1>2, <2>1, <2>2, Zenon
<1>4. \A pg \in here : pg[1] = p /\ pg[2] = g
  BY <1>1, BufIndexOwn
<1>5. CASE p \in OwnPos
  <2>1. <<p, g>> \in here
    BY <1>5
  <2>2. (CHOOSE pg \in here : TRUE) \in here
    BY <2>1
  <2> QED BY <1>3, <1>4, <1>5, <2>1, <2>2, Zenon DEF Stored
<1>6. CASE p \notin OwnPos
  <2>1. here = {}
    BY <1>4, <1>6
  <2> QED BY <1>3, <1>6, <2>1, Zenon DEF Stored
<1> QED BY <1>5, <1>6

(* What a write leaves at a half of the cache: the launch's own K/V, what was *)
(* there or, behind a full layout, K/V of the head in front.                  *)
LEMMA WrittenCache ==
  ASSUME KvTypeOK, WriteHead,
         NEW l \in Layers, NEW h \in Heads, NEW p \in Pos, NEW g \in Group
  PROVE  LET half == ddr'[HalfIndex(l, h, p, g)]
         IN  \/ l = layer /\ h = head /\ p \in OwnPos /\ half = Half(req, layer, head, p, g)
             \/ /\ ~(l = layer /\ h = head /\ p \in OwnPos)
                /\ half = ddr[HalfIndex(l, h, p, g)]
             \/ Overruns /\ p = 0 /\ FromHeadInFront(half, l, h, g)
<1> DEFINE i == HalfIndex(l, h, p, g)
           here == {pg \in OwnPos \X Group : HalfIndex(layer, head, pg[1], pg[2]) = i}
           stored == Stored(i, LAMBDA q, k : HalfIndex(layer, head, q, k), OwnPos,
                            LAMBDA q, k : Half(req, layer, head, q, k), ddr[i])
<1>1. layer \in Layers /\ head \in Heads /\ i \in HalfIndexes
  BY HalfIndexOwn DEF KvTypeOK
<1>2. \/ ddr'[i] = stored
      \/ /\ Overruns /\ layer + 1 = NumLayers /\ head + 1 = HKv /\ i \in Group
         /\ ddr'[i] = Half(req, layer, head, MaxSeq, i)
  <2>1. PICK next_is_v \in BOOLEAN :
          /\ next_is_v => Overruns /\ layer + 1 = NumLayers /\ head + 1 = HKv
          /\ ddr' = [j \in HalfIndexes |->
               IF next_is_v /\ j \in Group THEN Half(req, layer, head, MaxSeq, j)
               ELSE Stored(j, LAMBDA q, k : HalfIndex(layer, head, q, k), OwnPos,
                           LAMBDA q, k : Half(req, layer, head, q, k), ddr[j])]
    BY Zenon DEF WriteHead
  <2>2. CASE next_is_v /\ i \in Group
    <3> HIDE DEF i
    <3> QED BY <1>1, <2>1, <2>2, Zenon
  <2>3. CASE ~(next_is_v /\ i \in Group)
    <3> HIDE DEF i
    <3> QED BY <1>1, <2>1, <2>3, Zenon
  <2> QED BY <2>2, <2>3
<1>3. CASE /\ Overruns /\ layer + 1 = NumLayers /\ head + 1 = HKv /\ i \in Group
           /\ ddr'[i] = Half(req, layer, head, MaxSeq, i)
  <2>1. l * HKv + h = 0 /\ p = 0 /\ i = g
    BY <1>3, HalfIndexFirst
  <2>2. layer * HKv + head + 1 = NumLayers * HKv
    <3>1. NumLayers \in Nat /\ HKv \in Nat /\ layer \in Nat /\ head \in Nat
      BY <1>1, KvAssumption DEF Layers, Heads
    <3>2. NumLayers * HKv = layer * HKv + HKv
      BY <1>3, <3>1
    <3>3. layer * HKv \in Nat
      BY <3>1
    <3> QED BY <1>3, <3>1, <3>2, <3>3
  <2>3. ddr'[i] = Half(req, layer, head, MaxSeq, g)
    BY <1>3, <2>1
  <2>4. FromHeadInFront(ddr'[i], l, h, g)
    BY <2>1, <2>2, <2>3 DEF FromHeadInFront, Half
  <2> QED BY <1>3, <2>1, <2>4
<1>4. CASE ddr'[i] = stored /\ ~Overruns
  <2>1. OwnPos \subseteq Pos
    BY <1>4, WriteFrame, LaunchRange
  <2>2. \A pg \in here : pg[1] = p /\ pg[2] = g /\ l = layer /\ h = head
    BY <1>1, <2>1, HalfIndexOwn
  <2>3. CASE l = layer /\ h = head /\ p \in OwnPos
    <3>1. <<p, g>> \in here
      BY <2>3
    <3>2. (CHOOSE pg \in here : TRUE) \in here
      BY <3>1
    <3>3. ddr'[i] = Half(req, layer, head, p, g)
      BY <1>4, <2>2, <3>1, <3>2, Zenon DEF Stored
    <3> QED BY <2>3, <3>3
  <2>4. CASE ~(l = layer /\ h = head /\ p \in OwnPos)
    <3>1. here = {}
      BY <2>2, <2>4
    <3>2. ddr'[i] = ddr[i]
      BY <1>4, <3>1, Zenon DEF Stored
    <3> QED BY <2>4, <3>2
  <2> QED BY <2>3, <2>4
<1>5. CASE ddr'[i] = stored /\ Overruns
  <2>1. OwnPos = {MaxSeq} /\ p \notin OwnPos
    <3>1. OwnPos = {MaxSeq}
      BY <1>5, WriteFrame, LaunchRange
    <3>2. p # MaxSeq
      BY KvAssumption DEF Pos
    <3> QED BY <3>1, <3>2
  <2>2. CASE here = {}
    <3>1. ddr'[i] = ddr[i]
      BY <1>5, <2>2, Zenon DEF Stored
    <3> QED BY <2>1, <3>1
  <2>3. CASE here # {}
    <3> DEFINE pg == CHOOSE x \in here : TRUE
    <3>1. pg \in here
      BY <2>3
    <3>2. pg[1] = MaxSeq /\ pg[2] \in Group /\ HalfIndex(layer, head, MaxSeq, pg[2]) = i
      BY <2>1, <3>1
    <3>3. ddr'[i] = Half(req, layer, head, pg[1], pg[2])
      BY <1>5, <2>3, Zenon DEF Stored
    <3> HIDE DEF pg
    <3>4. /\ pg[2] = g /\ p = 0
          /\ l * HKv + h = layer * HKv + head + 1
          /\ l * HKv + h \in 0 .. NumLayers * HKv - 1
      BY <1>1, <3>2, HalfIndexBehind
    <3>5. ddr'[i] = Half(req, layer, head, MaxSeq, g)
      BY <3>2, <3>3, <3>4
    <3>6. FromHeadInFront(ddr'[i], l, h, g)
      <4>1. layer * HKv + head + 1 # NumLayers * HKv
        <5>1. NumLayers * HKv \in Nat
          BY KvAssumption
        <5> QED BY <3>4, <5>1
      <4> QED BY <3>4, <3>5, <4>1 DEF FromHeadInFront, Half
    <3> QED BY <1>5, <3>4, <3>6
  <2> QED BY <2>2, <2>3
<1> QED BY <1>2, <1>3, <1>4, <1>5

-----------------------------------------------------------------------------
(* Types.                                                                     *)

(* A store loop stores typed values in a typed memory.                        *)
LEMMA LoadedType ==
  ASSUME KvTypeOK, LoadHead
  PROVE  buf' \in [0 .. 1 -> [BufIndexes -> Halves]]
<1>1. ASSUME NEW i \in BufIndexes
      PROVE  Stored(i, BufIndex, 0 .. CurPos - 1,
                    LAMBDA q, k : ddr[HalfIndex(layer, head, q, k)], buf[bank][i]) \in Halves
  <2> DEFINE here == {pg \in (0 .. CurPos - 1) \X Group : BufIndex(pg[1], pg[2]) = i}
  <2>1. buf[bank][i] \in Halves
    BY DEF KvTypeOK
  <2>2. \A pg \in here : ddr[HalfIndex(layer, head, pg[1], pg[2])] \in Halves
    <3>1. 0 .. CurPos - 1 \subseteq Pos /\ layer \in Layers /\ head \in Heads
      BY LoadFrame, LaunchRange DEF KvTypeOK
    <3>2. \A pg \in here : HalfIndex(layer, head, pg[1], pg[2]) \in HalfIndexes
      BY <3>1, HalfIndexOwn
    <3> QED BY <3>2 DEF KvTypeOK
  <2>3. here # {} => (CHOOSE pg \in here : TRUE) \in here
    OBVIOUS
  <2> QED BY <2>1, <2>2, <2>3, Zenon DEF Stored
<1>2. bank \in 0 .. 1 /\ buf \in [0 .. 1 -> [BufIndexes -> Halves]]
  BY DEF KvTypeOK
<1> QED BY <1>1, <1>2, Zenon DEF LoadHead

LEMMA WrittenType ==
  ASSUME KvTypeOK, WriteHead
  PROVE  /\ buf' \in [0 .. 1 -> [BufIndexes -> Halves]]
         /\ ddr' \in [HalfIndexes -> Halves]
<1> DEFINE own == OwnPos
<1>1. /\ own \subseteq 0 .. MaxSeq /\ MaxSeq \in 0 .. MaxSeq
      /\ layer \in Layers /\ head \in Heads /\ req \in Requests \cup {NoOne}
  BY WriteFrame, LaunchRange, KvAssumption DEF Pos, KvTypeOK
<1>2. /\ \A pg \in own \X Group : Half(req, layer, head, pg[1], pg[2]) \in Halves
      /\ \A k \in Group : Half(req, layer, head, MaxSeq, k) \in Halves
  BY <1>1 DEF Half, Halves
<1>3. ASSUME NEW i \in BufIndexes
      PROVE  Stored(i, BufIndex, own, LAMBDA q, k : Half(req, layer, head, q, k),
                    buf[bank][i]) \in Halves
  <2> DEFINE here == {pg \in own \X Group : BufIndex(pg[1], pg[2]) = i}
  <2>1. buf[bank][i] \in Halves
    BY DEF KvTypeOK
  <2>2. here # {} => (CHOOSE pg \in here : TRUE) \in here
    OBVIOUS
  <2>3. here \subseteq own \X Group
    OBVIOUS
  <2> QED BY <1>2, <2>1, <2>2, <2>3, Zenon DEF Stored
<1>4. ASSUME NEW i \in HalfIndexes
      PROVE  Stored(i, LAMBDA q, k : HalfIndex(layer, head, q, k), own,
                    LAMBDA q, k : Half(req, layer, head, q, k), ddr[i]) \in Halves
  <2> DEFINE here == {pg \in own \X Group : HalfIndex(layer, head, pg[1], pg[2]) = i}
  <2>1. ddr[i] \in Halves
    BY DEF KvTypeOK
  <2>2. here # {} => (CHOOSE pg \in here : TRUE) \in here
    OBVIOUS
  <2>3. here \subseteq own \X Group
    OBVIOUS
  <2> QED BY <1>2, <2>1, <2>2, <2>3, Zenon DEF Stored
<1>5. bank \in 0 .. 1 /\ buf \in [0 .. 1 -> [BufIndexes -> Halves]]
  BY DEF KvTypeOK
<1>6. buf' \in [0 .. 1 -> [BufIndexes -> Halves]]
  <2>1. PICK hit \in SUBSET (0 .. 1) :
          buf' = [b \in 0 .. 1 |-> [i \in BufIndexes |->
            IF b \in hit /\ i \in Group THEN Half(req, layer, head, MaxSeq, i)
            ELSE IF b = bank THEN Stored(i, BufIndex, own,
                                         LAMBDA q, k : Half(req, layer, head, q, k), buf[b][i])
            ELSE buf[b][i]]]
    BY Zenon DEF WriteHead
  <2>2. ASSUME NEW b \in 0 .. 1, NEW i \in BufIndexes PROVE buf[b][i] \in Halves
    BY <1>5
  <2> HIDE DEF own
  <2> QED BY <1>2, <1>3, <2>1, <2>2, Zenon
<1>7. ddr' \in [HalfIndexes -> Halves]
  <2>1. PICK next_is_v \in BOOLEAN :
          ddr' = [i \in HalfIndexes |->
            IF next_is_v /\ i \in Group THEN Half(req, layer, head, MaxSeq, i)
            ELSE Stored(i, LAMBDA q, k : HalfIndex(layer, head, q, k), own,
                        LAMBDA q, k : Half(req, layer, head, q, k), ddr[i])]
    BY Zenon DEF WriteHead
  <2> HIDE DEF own
  <2> QED BY <1>2, <1>4, <2>1, Zenon
<1> QED BY <1>6, <1>7

(* The arguments of the next launch, or of none.                              *)
LEMMA TypeStep ==
  ASSUME KvTypeOK, [Next]_vars
  PROVE  KvTypeOK'
<1> USE KvAssumption
<1>1. CASE LoadHead
  BY <1>1, LoadFrame, LoadedType DEF KvTypeOK, CurPos, QLen, TileSize
<1>2. CASE WriteHead
  BY <1>2, WriteFrame, WrittenType DEF KvTypeOK, CurPos, QLen, TileSize
<1>3. CASE AttendNextHead
  BY <1>3 DEF AttendNextHead, KvTypeOK, host, CurPos, QLen, TileSize, Heads
<1>4. CASE AttendLastHead
  <2>1. CASE job = "prefill" /\ tile + PrefillTile < len
    BY <1>4, <2>1 DEF AttendLastHead, Launch, KvTypeOK, CurPos, QLen, TileSize, Heads
  <2>2. CASE ~(job = "prefill" /\ tile + PrefillTile < len) /\ layer + 1 < NumLayers
    BY <1>4, <2>2 DEF AttendLastHead, Launch, KvTypeOK, CurPos, QLen, TileSize, Heads, Layers
  <2>3. CASE ~(job = "prefill" /\ tile + PrefillTile < len) /\ ~(layer + 1 < NumLayers)
    BY <1>4, <2>3 DEF AttendLastHead, Done, KvTypeOK
  <2> QED BY <2>1, <2>2, <2>3
<1>5. ASSUME NEW r \in Requests, NEW n \in 1 .. MaxSeq, Prefill(r, n) PROVE KvTypeOK'
  BY <1>5 DEF Prefill, Launch, KvTypeOK, CurPos, QLen, TileSize, Heads, Layers
<1>6. CASE Decode
  BY <1>6 DEF Decode, Launch, KvTypeOK, CurPos, QLen, TileSize, Heads, Layers
<1>7. CASE GiveUp
  BY <1>7 DEF GiveUp, KvTypeOK
<1>8. CASE UNCHANGED vars
  BY <1>8 DEF vars, kernel, host, KvTypeOK, CurPos, QLen, TileSize
<1> QED BY <1>1, <1>2, <1>3, <1>4, <1>5, <1>6, <1>7, <1>8 DEF Next

LEMMA TypeInit == Init => KvTypeOK
<1> USE KvAssumption
<1>1. Junk.who = NoOne /\ Junk \in Halves
  BY DEF Junk, Half, Halves, Layers, Heads, Pos, Group
<1> QED BY <1>1 DEF Init, KvTypeOK, Layers, Heads

-----------------------------------------------------------------------------
(* The invariant is kept.                                                     *)

(* Every half written is written where it belongs, or one head too far.       *)
LEMMA CacheIsOwnStep ==
  ASSUME KvTypeOK, CacheIsOwn, [Next]_vars
  PROVE  CacheIsOwn'
<1>1. CASE WriteHead
  <2> SUFFICES ASSUME NEW l \in Layers, NEW h \in Heads, NEW p \in Pos, NEW g \in Group
               PROVE  LET half == ddr'[HalfIndex(l, h, p, g)]
                      IN  half.who # NoOne => \/ half = Half(half.who, l, h, p, g)
                                              \/ p = 0 /\ FromHeadInFront(half, l, h, g)
    BY DEF CacheIsOwn, HalfIndex, FromHeadInFront
  <2> DEFINE half == ddr'[HalfIndex(l, h, p, g)]
  <2>1. CASE l = layer /\ h = head /\ half = Half(req, layer, head, p, g)
    BY <2>1 DEF Half
  <2>2. CASE half = ddr[HalfIndex(l, h, p, g)]
    BY <2>2 DEF CacheIsOwn
  <2>3. CASE p = 0 /\ FromHeadInFront(half, l, h, g)
    BY <2>3
  <2> QED BY <1>1, <2>1, <2>2, <2>3, WrittenCache
<1>2. CASE UNCHANGED ddr
  BY <1>2 DEF CacheIsOwn, HalfIndex, FromHeadInFront
<1>3. WriteHead \/ UNCHANGED ddr
  BY LoadFrame DEF Next, AttendNextHead, AttendLastHead, Prefill, Decode, GiveUp, vars, kernel
<1> QED BY <1>1, <1>2, <1>3

(* A step that leaves the cache alone keeps the history when it claims no     *)
(* more of it than before.                                                    *)
LEMMA HistoryKept ==
  ASSUME HistoryInCache, UNCHANGED <<ddr, req>>,
         \A l \in Layers, h \in Heads, p \in Pos :
           p < Filled(l, h)' /\ (p = 0 => ~Overruns') => p < Filled(l, h) /\ (p = 0 => ~Overruns)
  PROVE  HistoryInCache'
BY DEF HistoryInCache, HalfIndex

LEMMA HistoryInCacheStep ==
  ASSUME KvInv, [Next]_vars
  PROVE  HistoryInCache'
<1> USE KvAssumption DEF KvInv
<1>1. CASE LoadHead
  <2>1. \A l \in Layers, h \in Heads : Filled(l, h)' = Filled(l, h)
    BY <1>1, LoadFrame DEF Filled, CurPos, QLen, KvLen, TileSize
  <2>2. Overruns' <=> Overruns
    BY <1>1, LoadFrame DEF Overruns
  <2> QED BY <1>1, <2>1, <2>2, LoadFrame, HistoryKept
<1>2. CASE WriteHead
  <2> SUFFICES ASSUME req # NoOne, NEW l \in Layers, NEW h \in Heads, NEW p \in Pos,
                      NEW g \in Group, p < Filled(l, h)', p = 0 => ~Overruns
               PROVE  ddr'[HalfIndex(l, h, p, g)] = Half(req, l, h, p, g)
    <3>1. UNCHANGED req /\ (Overruns' <=> Overruns)
      BY <1>2, WriteFrame DEF Overruns
    <3> QED BY <3>1 DEF HistoryInCache, HalfIndex
  <2>1. CASE l = layer /\ h = head /\ p \in OwnPos
    <3>1. ddr'[HalfIndex(l, h, p, g)] = Half(req, layer, head, p, g)
      BY <1>2, <2>1, WrittenCache
    <3> QED BY <2>1, <3>1
  <2>2. CASE ~(l = layer /\ h = head /\ p \in OwnPos)
    <3>1. phase # "idle" /\ phase = "write" /\ phase' = "attend"
      BY <1>2, WriteFrame
    <3>2. p \in Nat /\ h \in Int /\ head \in Int /\ CurPos \in Nat /\ QLen \in Nat
      BY <3>1, LaunchRange DEF Pos, Heads, KvTypeOK
    <3>3. p \in OwnPos <=> CurPos <= p /\ p < CurPos + QLen
      BY <3>1, <3>2, LaunchRange
    <3>4. UNCHANGED <<head, layer, job, len>> /\ CurPos' = CurPos /\ QLen' = QLen /\ KvLen' = KvLen
      BY <1>2, WriteFrame DEF CurPos, QLen, KvLen, TileSize
    <3>5. p < Filled(l, h)
      BY <2>2, <3>1, <3>2, <3>3, <3>4 DEF Filled
    <3>6. ddr'[HalfIndex(l, h, p, g)] = ddr[HalfIndex(l, h, p, g)]
      BY <1>2, <2>2, WrittenCache
    <3> QED BY <3>5, <3>6 DEF HistoryInCache
  <2> QED BY <2>1, <2>2
<1>3. CASE AttendNextHead
  <2>1. \A l \in Layers, h \in Heads : Filled(l, h)' = Filled(l, h)
    BY <1>3 DEF AttendNextHead, host, Filled, CurPos, QLen, KvLen, TileSize, Heads, KvTypeOK
  <2>2. UNCHANGED <<ddr, req>> /\ (Overruns' <=> Overruns)
    BY <1>3 DEF AttendNextHead, host, Overruns
  <2> QED BY <2>1, <2>2, HistoryKept
<1>4. CASE AttendLastHead
  <2>1. CASE req' = NoOne
    BY <2>1 DEF HistoryInCache
  <2>2. CASE req' # NoOne
    <3>1. UNCHANGED <<ddr, req>>
      BY <1>4, <2>2 DEF AttendLastHead, Done
    <3>2. ASSUME NEW l \in Layers, NEW h \in Heads
          PROVE  Filled(l, h)' = Filled(l, h) /\ (Overruns => Overruns')
      <4>1. CASE job = "prefill" /\ tile + PrefillTile < len
        BY <1>4, <4>1 DEF AttendLastHead, Launch, Filled, CurPos, QLen, KvLen, TileSize,
                          Heads, Layers, KvTypeOK, Overruns
      <4>2. CASE ~(job = "prefill" /\ tile + PrefillTile < len) /\ layer + 1 < NumLayers
        BY <1>4, <4>2 DEF AttendLastHead, Launch, Filled, CurPos, QLen, KvLen, TileSize,
                          Heads, Layers, KvTypeOK, Overruns
      <4>3. CASE ~(job = "prefill" /\ tile + PrefillTile < len) /\ ~(layer + 1 < NumLayers)
        BY <1>4, <2>2, <4>3 DEF AttendLastHead, Done, Filled, CurPos, QLen, KvLen, TileSize,
                                Heads, Layers, KvTypeOK, Overruns
      <4> QED BY <4>1, <4>2, <4>3
    <3> QED BY <3>1, <3>2, HistoryKept
  <2> QED BY <2>1, <2>2
<1>5. ASSUME NEW r \in Requests, NEW n \in 1 .. MaxSeq, Prefill(r, n) PROVE HistoryInCache'
  <2>1. ASSUME NEW l \in Layers, NEW h \in Heads PROVE Filled(l, h)' = 0
    BY <1>5 DEF Prefill, Launch, Filled, CurPos, QLen, KvLen, TileSize, Layers, Heads
  <2>2. \A p \in Pos : ~(p < 0)
    BY DEF Pos
  <2> QED BY <2>1, <2>2 DEF HistoryInCache
<1>6. CASE Decode
  <2>1. ASSUME NEW l \in Layers, NEW h \in Heads PROVE Filled(l, h)' = Filled(l, h)
    BY <1>6 DEF Decode, Launch, Filled, CurPos, QLen, KvLen, TileSize, Layers, Heads, KvTypeOK
  <2>2. UNCHANGED <<ddr, req>> /\ (Overruns => Overruns')
    BY <1>6 DEF Decode, Launch, Overruns
  <2> QED BY <2>1, <2>2, HistoryKept
<1>7. CASE GiveUp
  BY <1>7 DEF GiveUp, HistoryInCache
<1>8. CASE UNCHANGED vars
  <2>1. \A l \in Layers, h \in Heads : Filled(l, h)' = Filled(l, h)
    BY <1>8 DEF vars, kernel, host, Filled, CurPos, QLen, KvLen, TileSize
  <2>2. UNCHANGED <<ddr, req>> /\ (Overruns' <=> Overruns)
    BY <1>8 DEF vars, kernel, host, Overruns
  <2> QED BY <2>1, <2>2, HistoryKept
<1> QED BY <1>1, <1>2, <1>3, <1>4, <1>5, <1>6, <1>7, <1>8 DEF Next

(* What is loaded and what is written together is the request's history.      *)
LEMMA HistoryInBankStep ==
  ASSUME KvInv, [Next]_vars
  PROVE  HistoryInBank'
<1> USE KvAssumption DEF KvInv
<1>1. CASE LoadHead
  <2> SUFFICES ASSUME NEW p \in 0 .. CurPos - 1, ~(CurPos = MaxSeq /\ p = 0)
               PROVE  /\ p \in Pos
                      /\ \A g \in Group :
                           buf'[bank][BufIndex(p, g)] = Half(req, layer, head, p, g)
    BY <1>1, LoadFrame DEF HistoryInBank, AttendsOwn, OwnInBank, CurPos, BufIndex
  <2> phase = "load"
    BY <1>1, LoadFrame
  <2>1. /\ p \in Pos /\ p < CurPos /\ (p = 0 => ~Overruns)
        /\ layer \in Layers /\ head \in Heads /\ req # NoOne
    BY LaunchRange DEF KvTypeOK
  <2>2. Filled(layer, head) = CurPos
    BY DEF Filled, KvTypeOK, Heads, Layers
  <2>3. ASSUME NEW g \in Group
        PROVE  buf'[bank][BufIndex(p, g)] = Half(req, layer, head, p, g)
    <3>1. ddr[HalfIndex(layer, head, p, g)] = Half(req, layer, head, p, g)
      BY <2>1, <2>2 DEF HistoryInCache
    <3>2. buf'[bank][BufIndex(p, g)] = ddr[HalfIndex(layer, head, p, g)]
      BY <1>1, <2>1, LoadedBank
    <3> QED BY <3>1, <3>2
  <2> QED BY <2>1, <2>3
<1>2. CASE WriteHead
  <2> SUFFICES ASSUME NEW p \in 0 .. CurPos + QLen - 1, ~(CurPos = MaxSeq /\ p \in {0, MaxSeq})
               PROVE  /\ p \in Pos
                      /\ \A g \in Group :
                           buf'[bank][BufIndex(p, g)] = Half(req, layer, head, p, g)
    BY <1>2, WriteFrame DEF HistoryInBank, AttendsOwn, OwnInBank, CurPos, QLen, TileSize,
                            BufIndex
  <2> phase = "write"
    BY <1>2, WriteFrame
  <2>1. /\ CurPos \in Nat /\ QLen \in Nat /\ p \in Pos /\ (p = 0 => ~Overruns)
        /\ (p \in OwnPos <=> CurPos <= p /\ p < CurPos + QLen)
    BY LaunchRange DEF Pos
  <2>2. ASSUME NEW g \in Group
        PROVE  buf'[bank][BufIndex(p, g)] = Half(req, layer, head, p, g)
    <3>1. CASE p \in OwnPos
      BY <1>2, <2>1, <3>1, WrittenBank
    <3>2. CASE p \notin OwnPos
      <4>1. p \in 0 .. CurPos - 1 /\ ~(CurPos = MaxSeq /\ p = 0)
        BY <2>1, <3>2
      <4>2. buf'[bank][BufIndex(p, g)] = buf[bank][BufIndex(p, g)]
        BY <1>2, <2>1, <3>2, WrittenBank
      <4> QED BY <4>1, <4>2 DEF HistoryInBank, OwnInBank
    <3> QED BY <3>1, <3>2
  <2> QED BY <2>1, <2>2
<1>3. CASE phase' \in {"idle", "load"}
  BY <1>3 DEF HistoryInBank, AttendsOwn
<1>4. CASE UNCHANGED vars
  BY <1>4 DEF vars, kernel, host, HistoryInBank, AttendsOwn, OwnInBank, CurPos, QLen, TileSize,
              BufIndex
<1>5. AttendNextHead => phase' = "load"
  BY DEF AttendNextHead
<1>6. AttendLastHead => phase' \in {"idle", "load"}
  BY DEF AttendLastHead, Launch, Done
<1>7. \A r \in Requests, n \in 1 .. MaxSeq : Prefill(r, n) => phase' = "load"
  BY DEF Prefill, Launch
<1>8. (Decode \/ GiveUp) => phase' \in {"idle", "load"}
  BY DEF Decode, Launch, GiveUp
<1> QED BY <1>1, <1>2, <1>3, <1>4, <1>5, <1>6, <1>7, <1>8 DEF Next

LEMMA KvInvInit == Init => KvInv
<1> SUFFICES ASSUME Init PROVE KvInv
  OBVIOUS
<1>1. CacheIsOwn
  BY HalfIndexOwn DEF Init, CacheIsOwn, Junk, Half
<1>2. HistoryInCache /\ HistoryInBank
  BY DEF Init, HistoryInCache, HistoryInBank, AttendsOwn
<1> QED BY <1>1, <1>2, TypeInit DEF KvInv

(* Every launch keeps the types, the layout and the history, in the cache and *)
(* in the bank, of the request that is being decoded.                         *)
THEOREM KvInvariance == Spec => []KvInv
<1>1. KvInv /\ [Next]_vars => KvInv'
  BY TypeStep, CacheIsOwnStep, HistoryInCacheStep, HistoryInBankStep DEF KvInv
<1> QED BY <1>1, KvInvInit, PTL DEF Spec

(* For any number of layers, heads, positions and groups, any tile size and   *)
(* any order of requests given up anywhere, the launches of the runner keep   *)
(* the kernel in its typed states, and no launch works further than one       *)
(* position behind the layout.                                                *)
THEOREM KvTypes == Spec => []KvTypeOK
<1>1. KvInv => KvTypeOK
  BY DEF KvInv
<1> QED BY <1>1, KvInvariance, PTL

(* kv_cache_half_index never mixes two layers, heads, positions or groups,    *)
(* with one exception: position 0 may hold position MAX_SEQ of the head in    *)
(* front, which a decode of a full layout writes.                             *)
THEOREM CacheKeptApart == Spec => []CacheIsOwn
<1>1. KvInv => CacheIsOwn
  BY DEF KvInv
<1> QED BY <1>1, KvInvariance, PTL

(* multi_head_attention attends over the request's own K/V at every position  *)
(* up to the launch's last token; behind a full layout, position 0 and the    *)
(* token's own position are not covered.                                      *)
THEOREM AttendsOwnHistory == Spec => []AttendsOwn
<1>1. KvInv => AttendsOwn
  BY DEF KvInv, HistoryInBank
<1> QED BY <1>1, KvInvariance, PTL

=============================================================================
