------------------------ MODULE KernelArithmeticProofs ------------------------
(***************************************************************************)
(* The arithmetic of the kernels.  When their conversions are exact, and    *)
(* what they do when they are not; which weights the GEMMs fetch, for the   *)
(* shapes of the model and every layer, column and group.                   *)
(***************************************************************************)
EXTENDS KernelNumerics, DecoderWeights, TLAPS

-----------------------------------------------------------------------------
(* Conversions.                                                               *)

(* Arithmetic at the widths of the kernels.  *)
LEMMA ProductRange ==
  ASSUME NEW a \in INT8, NEW b \in INT8
  PROVE  \E p \in Int : p = a * b /\ -16256 <= p /\ p <= 16384
<1> DEFINE p == a * b
<1>1. a \in Int /\ b \in Int /\ p \in Int  BY DEF INT8
<1>2. -128 <= a /\ a <= 127 /\ -128 <= b /\ b <= 127  BY DEF INT8
<1>3. CASE b >= 0
  <2>1. -128 * b <= p /\ p <= 127 * b  BY <1>1, <1>2, <1>3
  <2> HIDE DEF p
  <2> QED  BY <1>1, <1>2, <1>3, <2>1 DEF p
<1>4. CASE b < 0
  <2>1. 127 * b <= p /\ p <= -128 * b  BY <1>1, <1>2, <1>4
  <2> HIDE DEF p
  <2> QED  BY <1>1, <1>2, <1>4, <2>1 DEF p
<1>5. p \in Int  BY <1>1
<1>6. -16256 <= p /\ p <= 16384  BY <1>1, <1>3, <1>4
<1> HIDE DEF p
<1>7. p = a * b  BY DEF p
<1> QED  BY <1>5, <1>6, <1>7

LEMMA LowBits ==
  ASSUME NEW p \in Int, -16256 <= p, p <= 16384
  PROVE  /\ p % 512 = p <=> p \in 0 .. 511
         /\ p \div 512 = 0 <=> p \in 0 .. 511
         /\ p \div 512 \in Int /\ -40 <= p \div 512 /\ p \div 512 <= 40
OBVIOUS

LEMMA CutNothing ==
  ASSUME NEW x \in Int, -20000 <= x, x <= 20000
  PROVE  ToINT16(x % 262144) = x
<1>1. CASE x >= 0
  <2>1. x % 262144 = x  BY <1>1
  <2>2. (x + 32768) % 65536 = x + 32768  BY <1>1
  <2> QED  BY <2>1, <2>2 DEF ToINT16, Cut
<1>2. CASE x < 0
  <2>1. x % 262144 = x + 262144  BY <1>2
  <2>2. (x + 262144 + 32768) % 65536 = x + 32768  BY <1>2
  <2> QED  BY <2>1, <2>2 DEF ToINT16, Cut
<1> QED  BY <1>1, <1>2

LEMMA TwoProducts ==
  ASSUME NEW p \in Int, NEW q \in Int
  PROVE  (512 * q + p) % 512 = p % 512 /\ (512 * q + p) \div 512 = q + p \div 512
OBVIOUS

(* What the multiplier puts out, for the two products it is to compute.       *)
LEMMA OneProduct ==
  ASSUME NEW w_lo \in INT8, NEW w_hi \in INT8, NEW act \in INT8
  PROVE  \E p, q \in Int :
           /\ p = w_lo * act /\ q = w_hi * act
           /\ -16256 <= p /\ p <= 16384 /\ -16256 <= q /\ q <= 16384
           /\ Packed(w_lo, w_hi) * act = IF w_lo < 0 THEN p ELSE 512 * q + p
<1>1. PICK p \in Int : p = w_lo * act /\ -16256 <= p /\ p <= 16384
  BY ProductRange
<1>2. PICK q \in Int : q = w_hi * act /\ -16256 <= q /\ q <= 16384
  BY ProductRange
<1>3. w_lo \in Int /\ w_hi \in Int /\ act \in Int  BY DEF INT8
<1>4. Packed(w_lo, w_hi) * act
        = IF w_lo < 0 THEN w_lo * act ELSE 512 * (w_hi * act) + w_lo * act
  BY <1>3 DEF Packed
<1> QED  BY <1>1, <1>2, <1>4

(* pack_mul_2int8 is to return both products (w4a8_gemm.h:26-27): the low one *)
(* is what it should be if and only if it lies between 0 and 511, whatever    *)
(* the other weight is.                                                       *)
THEOREM LowProduct ==
  ASSUME NEW w_lo \in INT8, NEW w_hi \in INT8, NEW act \in INT8
  PROVE  res_lo(w_lo, w_hi, act) = w_lo * act <=> w_lo * act \in 0 .. 511
<1>1. PICK p, q \in Int :
        /\ p = w_lo * act /\ q = w_hi * act
        /\ -16256 <= p /\ p <= 16384 /\ -16256 <= q /\ q <= 16384
        /\ Packed(w_lo, w_hi) * act = IF w_lo < 0 THEN p ELSE 512 * q + p
  BY OneProduct
<1>2. (Packed(w_lo, w_hi) * act) % 512 = p % 512
  BY <1>1, TwoProducts
<1>3. p % 512 = p <=> p \in 0 .. 511
  BY <1>1, LowBits
<1> QED  BY <1>1, <1>2, <1>3 DEF res_lo

(* The high product is, for a low weight that is not negative, right under    *)
(* the very same condition; a negative low weight takes its place: what comes *)
(* out for the high product is then the low one divided by 512.               *)
THEOREM HighProduct ==
  ASSUME NEW w_lo \in INT8, NEW w_hi \in INT8, NEW act \in INT8
  PROVE  /\ w_lo >= 0 => (res_hi(w_lo, w_hi, act) = w_hi * act <=> w_lo * act \in 0 .. 511)
         /\ w_lo < 0 => res_hi(w_lo, w_hi, act) = (w_lo * act) \div 512
<1>1. PICK p, q \in Int :
        /\ p = w_lo * act /\ q = w_hi * act
        /\ -16256 <= p /\ p <= 16384 /\ -16256 <= q /\ q <= 16384
        /\ Packed(w_lo, w_hi) * act = IF w_lo < 0 THEN p ELSE 512 * q + p
  BY OneProduct
<1>2. PICK d \in Int : /\ d = p \div 512 /\ -40 <= d /\ d <= 40
                       /\ d = 0 <=> p \in 0 .. 511
  BY <1>1, LowBits
<1>3. w_lo \in Int  BY DEF INT8
<1>4. CASE w_lo < 0
  <2>1. (Packed(w_lo, w_hi) * act) \div 512 = d  BY <1>1, <1>2, <1>4
  <2>2. ToINT16(d % 262144) = d  BY <1>2, CutNothing
  <2>3. res_hi(w_lo, w_hi, act) = d  BY <2>1, <2>2 DEF res_hi
  <2>4. ~ (w_lo >= 0)  BY <1>3, <1>4
  <2> QED  BY <1>1, <1>2, <2>3, <2>4
<1>5. CASE ~ (w_lo < 0)
  <2>1. (Packed(w_lo, w_hi) * act) \div 512 = q + d
    BY <1>1, <1>2, <1>5, TwoProducts
  <2>2. -20000 <= q + d /\ q + d <= 20000 /\ q + d \in Int  BY <1>1, <1>2
  <2>3. ToINT16((q + d) % 262144) = q + d  BY <2>2, CutNothing
  <2>4. res_hi(w_lo, w_hi, act) = q + d  BY <2>1, <2>3 DEF res_hi
  <2>5. q + d = q <=> d = 0  BY <1>2
  <2> QED  BY <1>1, <1>2, <1>5, <2>4, <2>5
<1> QED  BY <1>4, <1>5

(* A row whose largest magnitude is at most 16128 is quantised without a      *)
(* wrap, to values that lie less than one scale from the originals, towards   *)
(* zero.                                                                      *)
THEOREM RowQuantised ==
  ASSUME NEW absmax \in 0 .. 16128, NEW v \in -absmax .. absmax
  PROVE  /\ RowScale(absmax) \in 1 .. 127
         /\ RowValue(v, absmax) \in -126 .. 126
         /\ Magnitude(v) - Magnitude(RowValue(v, absmax)) * RowScale(absmax) \in 0 .. RowScale(absmax) - 1
<1> DEFINE s == absmax \div 127 + 1  a == Magnitude(v)  d == a \div s
<1>1. absmax \in Nat /\ v \in Int /\ a \in Nat /\ a <= absmax  BY DEF Magnitude
<1>2. s \in 1 .. 127 /\ absmax < 127 * s  BY <1>1
<1>3. RowScale(absmax) = s
  <2> HIDE DEF s
  <2> QED  BY <1>2 DEF RowScale, ToINT8, Cut, s
<1>4. d \in Nat /\ d * s <= a /\ a < (d + 1) * s
  <2> HIDE DEF s, a
  <2> QED  BY <1>1, <1>2
<1>5. d <= 126
  <2> HIDE DEF s, a, d
  <2>1. d * s < 127 * s  BY <1>1, <1>2, <1>4
  <2>2. CASE d >= 127
    <3>1. d * s >= 127 * s  BY <1>2, <1>4, <2>2
    <3> QED  BY <1>2, <1>4, <2>1, <3>1
  <2> QED  BY <1>4, <2>2
<1>6. RowValue(v, absmax) \in {d, -d} /\ RowValue(v, absmax) \in -126 .. 126
  <2>1. Quotient(v, s) \in {d, -d}
    <3>1. Magnitude(s) = s  BY <1>2 DEF Magnitude
    <3> HIDE DEF s
    <3> QED  BY <3>1 DEF Quotient
  <2> HIDE DEF d, s
  <2>2. ToINT8(d) = d /\ ToINT8(-d) = -d  BY <1>4, <1>5 DEF ToINT8, Cut
  <2> QED  BY <1>3, <1>4, <1>5, <2>1, <2>2 DEF RowValue
<1>7. Magnitude(RowValue(v, absmax)) = d
  <2> HIDE DEF d
  <2> QED  BY <1>4, <1>6 DEF Magnitude
<1>8. (d + 1) * s = d * s + s  BY <1>2, <1>4
<1>9. d * s \in Int  BY <1>2, <1>4
<1> HIDE DEF d, s, a
<1> QED  BY <1>1, <1>2, <1>3, <1>4, <1>6, <1>7, <1>8, <1>9 DEF a

(* Above it the scale wraps: up to 32384 it is negative, which turns every    *)
(* sign of the row round, and for the next 127 magnitudes it is the zero the  *)
(* values are then divided by (act_quant.h:30, w4a8_gemm.h:135,               *)
(* silu_gate.h:75).                                                           *)
THEOREM RowScaleWraps ==
  /\ \A absmax \in 16129 .. 32384 : RowScale(absmax) < 0
  /\ \A absmax \in 32385 .. 32511 : RowScale(absmax) = 0
<1>1. ASSUME NEW absmax \in 16129 .. 32384  PROVE RowScale(absmax) < 0
  <2>1. absmax \div 127 \in 127 .. 254
    <3>1. absmax \in Int /\ 127 * 127 <= absmax /\ absmax < 127 * 255  OBVIOUS
    <3> QED  BY <3>1
  <2>2. \A s \in 127 .. 254 : ToINT8(s + 1) < 0  BY DEF ToINT8, Cut
  <2> QED  BY <2>1, <2>2 DEF RowScale
<1>2. ASSUME NEW absmax \in 32385 .. 32511  PROVE RowScale(absmax) = 0
  <2>1. absmax \div 127 + 1 = 256
    <3>1. absmax \in Int /\ 127 * 255 <= absmax /\ absmax < 127 * 256  OBVIOUS
    <3> QED  BY <3>1
  <2> QED  BY <2>1 DEF RowScale, ToINT8, Cut
<1> QED  BY <1>1, <1>2

LEMMA SmallScale ==
  ASSUME NEW k_abs \in 0 .. 1023
  PROVE  /\ GroupScale(k_abs) \in 1 .. 127
         /\ k_abs < 16 * GroupScale(k_abs)
<1>1. PICK s \in 0 .. 127 : s = k_abs \div 8 /\ k_abs < 8 * s + 8  OBVIOUS
<1>2. ToINT8(s) = s  BY DEF ToINT8, Cut
<1>3. GroupScale(k_abs) = IF s = 0 THEN 1 ELSE s  BY <1>1, <1>2 DEF GroupScale
<1> QED  BY <1>1, <1>3

(* As long as the largest magnitude of a group is at most 1023, a key or      *)
(* value comes back from the cache with its own sign, and as its quotient by  *)
(* the scale wherever four bits can hold it (attention.h:109-119, 248).       *)
THEOREM GroupQuantised ==
  ASSUME NEW k_abs \in 0 .. 1023, NEW k \in -k_abs .. k_abs
  PROVE  /\ k >= 0 => ReadBack(k, k_abs) \in 0 .. 7
         /\ k <= 0 => ReadBack(k, k_abs) \in -8 .. 0
         /\ LET quot == Quotient(k, GroupScale(k_abs)) IN
              quot \in -8 .. 7 => ReadBack(k, k_abs) = quot
<1>1. PICK s \in 1 .. 127 : s = GroupScale(k_abs) /\ k_abs < 16 * s
  BY SmallScale, ZenonT(20)
<1>2. PICK a \in Nat : a = Magnitude(k) /\ a < 16 * s
  BY <1>1 DEF Magnitude
<1>3. PICK d \in 0 .. 15 : d = a \div s
  <2>1. a \div s \in Nat /\ (a \div s) * s <= a  BY <1>2
  <2>2. a \div s < 16
    <3>1. PICK e \in Nat : e = a \div s /\ e * s <= a  BY <2>1
    <3>2. CASE e >= 16
      <4>1. e * s >= 16 * s  BY <3>2
      <4> QED  BY <1>2, <3>1, <4>1
    <3> QED  BY <3>1, <3>2
  <2> QED  BY <2>1, <2>2
<1>4. Quotient(k, s) = IF k < 0 THEN -d ELSE d
  <2>1. Magnitude(s) = s /\ ~ (s < 0)  BY DEF Magnitude
  <2>2. k \in Int  OBVIOUS
  <2> QED  BY <1>2, <1>3, <2>1, <2>2 DEF Quotient
<1>5. \A x \in -7 .. 23 : ToINT8(x) = x  BY DEF ToINT8, Cut
<1>6. Nibble(k, k_abs) = Clipped(IF k < 0 THEN 8 - d ELSE 8 + d)
  <2>1. CASE k < 0
    <3>1. Quotient(k, s) + 8 = 8 - d /\ 8 - d \in -7 .. 23  BY <1>4, <2>1
    <3> QED  BY <1>1, <1>5, <2>1, <3>1 DEF Nibble
  <2>2. CASE ~ (k < 0)
    <3>1. Quotient(k, s) + 8 = 8 + d /\ 8 + d \in -7 .. 23  BY <1>4, <2>2
    <3> QED  BY <1>1, <1>5, <2>2, <3>1 DEF Nibble
  <2> QED  BY <2>1, <2>2
<1>7. k = 0 => d = 0
  <2>1. k = 0 => a = 0  BY <1>2 DEF Magnitude
  <2> QED  BY <1>3, <2>1
<1>8. k \in Int  OBVIOUS
<1> QED  BY <1>1, <1>4, <1>6, <1>7, <1>8 DEF ReadBack, Clipped

(* From 1024 to 2047 the scale wraps to a negative one, and every sign of the *)
(* group turns round; from 2048 on it starts over, and only a scale of        *)
(* exactly zero is put right (to 1).                                          *)
THEOREM GroupScaleWraps ==
  /\ \A k_abs \in 1024 .. 2047 : GroupScale(k_abs) < 0
  /\ \A k_abs \in 2048 .. 2055 : GroupScale(k_abs) = 1
<1>1. ASSUME NEW k_abs \in 1024 .. 2047  PROVE GroupScale(k_abs) < 0
  <2>1. PICK s \in 128 .. 255 : s = k_abs \div 8  OBVIOUS
  <2>2. ToINT8(s) = s - 256  BY DEF ToINT8, Cut
  <2> QED  BY <2>1, <2>2 DEF GroupScale
<1>2. ASSUME NEW k_abs \in 2048 .. 2055  PROVE GroupScale(k_abs) = 1
  <2>1. k_abs \div 8 = 256  OBVIOUS
  <2>2. ToINT8(256) = 0  BY DEF ToINT8, Cut
  <2> QED  BY <2>1, <2>2 DEF GroupScale
<1> QED  BY <1>1, <1>2

LEMMA PlaceOf ==
  ASSUME NEW y \in 0 .. 31, NEW x \in 0 .. 31
  PROVE  out_tok(y, x) \in 0 .. 63 /\ patch_slot(y, x) \in 0 .. 15
BY DEF out_tok, patch_slot

(* The pixel shuffle puts every channel of every patch into one of the 64     *)
(* tokens the connector reads (vit_kernel.cpp:86-106) ...                     *)
THEOREM ShuffleInRange ==
  ASSUME NEW y \in 0 .. 31, NEW x \in 0 .. 31, NEW c \in 0 .. 767
  PROVE  0 <= Shuffled(y, x, c) /\ Shuffled(y, x, c) < 64 * 12288
<1>1. out_tok(y, x) \in 0 .. 63 /\ patch_slot(y, x) \in 0 .. 15  BY PlaceOf
<1>2. PICK t \in 0 .. 63, slot \in 0 .. 15 : t = out_tok(y, x) /\ slot = patch_slot(y, x)
  BY <1>1
<1>3. 768 * slot + c < 12288 /\ 0 <= 768 * slot + c  OBVIOUS
<1>4. 0 <= 12288 * t /\ 12288 * t <= 63 * 12288  OBVIOUS
<1>5. Shuffled(y, x, c) = 12288 * t + 768 * slot + c  BY <1>2 DEF Shuffled
<1> QED  BY <1>3, <1>4, <1>5

LEMMA SameQuotients ==
  ASSUME NEW a1 \in 0 .. 7, NEW b1 \in 0 .. 7, NEW a2 \in 0 .. 7, NEW b2 \in 0 .. 7,
         a1 * 8 + b1 = a2 * 8 + b2
  PROVE  a1 = a2 /\ b1 = b2
OBVIOUS

LEMMA SameRemainders ==
  ASSUME NEW a1 \in 0 .. 3, NEW b1 \in 0 .. 3, NEW a2 \in 0 .. 3, NEW b2 \in 0 .. 3,
         a1 * 4 + b1 = a2 * 4 + b2
  PROVE  a1 = a2 /\ b1 = b2
OBVIOUS

LEMMA Digits ==
  ASSUME NEW y \in 0 .. 31, NEW x \in 0 .. 31
  PROVE  \E a, b \in 0 .. 7, c, d \in 0 .. 3 :
           /\ a = y \div 4 /\ b = x \div 4 /\ c = y % 4 /\ d = x % 4
           /\ y = 4 * a + c /\ x = 4 * b + d
           /\ out_tok(y, x) = a * 8 + b /\ patch_slot(y, x) = c * 4 + d
<1>1. y \div 4 \in 0 .. 7 /\ x \div 4 \in 0 .. 7 /\ y % 4 \in 0 .. 3 /\ x % 4 \in 0 .. 3
  OBVIOUS
<1>2. y = 4 * (y \div 4) + (y % 4) /\ x = 4 * (x \div 4) + (x % 4)
  OBVIOUS
<1> WITNESS y \div 4 \in 0 .. 7, x \div 4 \in 0 .. 7, y % 4 \in 0 .. 3, x % 4 \in 0 .. 3
<1> QED  BY <1>2 DEF out_tok, patch_slot

(* ... and gives it a place of its own there.                                 *)
THEOREM ShuffleKeepsApart ==
  ASSUME NEW y1 \in 0 .. 31, NEW x1 \in 0 .. 31, NEW c1 \in 0 .. 767,
         NEW y2 \in 0 .. 31, NEW x2 \in 0 .. 31, NEW c2 \in 0 .. 767,
         Shuffled(y1, x1, c1) = Shuffled(y2, x2, c2)
  PROVE  y1 = y2 /\ x1 = x2 /\ c1 = c2
<1>1. /\ out_tok(y1, x1) \in 0 .. 63 /\ patch_slot(y1, x1) \in 0 .. 15
      /\ out_tok(y2, x2) \in 0 .. 63 /\ patch_slot(y2, x2) \in 0 .. 15
  BY PlaceOf
<1>2. PICK t1 \in 0 .. 63, slot1 \in 0 .. 15 : t1 = out_tok(y1, x1) /\ slot1 = patch_slot(y1, x1)
  BY <1>1
<1>3. PICK t2 \in 0 .. 63, slot2 \in 0 .. 15 : t2 = out_tok(y2, x2) /\ slot2 = patch_slot(y2, x2)
  BY <1>1
<1>4. t1 * 12288 + slot1 * 768 + c1 = t2 * 12288 + slot2 * 768 + c2
  BY <1>2, <1>3 DEF Shuffled
<1>5. t1 = t2  BY <1>4
<1>6. slot1 = slot2  BY <1>4, <1>5
<1>7. c1 = c2  BY <1>4, <1>5, <1>6
<1>8. PICK a1, b1 \in 0 .. 7, d1, e1 \in 0 .. 3 :
        /\ y1 = 4 * a1 + d1 /\ x1 = 4 * b1 + e1
        /\ out_tok(y1, x1) = a1 * 8 + b1 /\ patch_slot(y1, x1) = d1 * 4 + e1
  BY Digits
<1>9. PICK a2, b2 \in 0 .. 7, d2, e2 \in 0 .. 3 :
        /\ y2 = 4 * a2 + d2 /\ x2 = 4 * b2 + e2
        /\ out_tok(y2, x2) = a2 * 8 + b2 /\ patch_slot(y2, x2) = d2 * 4 + e2
  BY Digits
<1>10. a1 = a2 /\ b1 = b2
  <2>1. a1 * 8 + b1 = a2 * 8 + b2  BY <1>2, <1>3, <1>5, <1>8, <1>9
  <2> QED  BY <2>1, SameQuotients
<1>11. d1 = d2 /\ e1 = e2
  <2>1. d1 * 4 + e1 = d2 * 4 + e2  BY <1>2, <1>3, <1>6, <1>8, <1>9
  <2> QED  BY <2>1, SameRemainders
<1> QED  BY <1>7, <1>8, <1>9, <1>10, <1>11

-----------------------------------------------------------------------------
(* Weights.                                                                   *)

(* Any matrices with an even number of columns, each with a group or more.    *)
Shapes == [1 .. 5 -> [k_grps : Nat \ {0}, n : {2 * h : h \in Nat \ {0}}]]

(* common.h: C = 960, N_QKV = 1600, N_FFN_GATEUP = 5120, FFN_DIM = 2560,      *)
(* VOCAB = 49280.                                                             *)
SmolVlm2 == Shape = <<[k_grps |-> 30, n |-> 1600], [k_grps |-> 30, n |-> 960],
                      [k_grps |-> 30, n |-> 5120], [k_grps |-> 80, n |-> 960],
                      [k_grps |-> 30, n |-> 49280]>>

(* The first matrix of a layer: a column is fetched from its own place if and *)
(* only if it is even and in the first half.  The kernel splits the columns   *)
(* by parity (w4a8_gemm.h:241-246), the exporter in the middle                *)
(* (quantize_weights.py:294-306).                                             *)
THEOREM QkvColumns ==
  ASSUME Shape \in Shapes, LayerPacks \in Nat, LayerPacks % 2 = 0,
         NEW l \in Nat, l < Layers, Layers \in Nat,
         NEW n \in 0 .. Shape[Qkv].n - 1, NEW kg \in 0 .. Shape[Qkv].k_grps - 1
  PROVE  OwnWeights(l, Qkv, n, kg) <=> (n % 2 = 0 /\ n < HalfRows(Qkv))
<1> DEFINE k == Shape[Qkv].k_grps  h == HalfRows(Qkv)  L == LayerPacks
<1>1. k \in Nat /\ k >= 1 /\ h \in Nat /\ h >= 1 /\ Shape[Qkv].n = 2 * h
  BY DEF Shapes, Qkv, HalfRows
<1>2. n \in Nat /\ n < 2 * h /\ kg \in Nat
  BY <1>1
<1>3. WgtAxi(l) \in Nat /\ 2 * WgtAxi(l) = l * L
  <2>1. PICK q \in Nat : L = 2 * q  OBVIOUS
  <2> DEFINE r == l * q
  <2>2. r \in Nat  BY <2>1
  <2>3. 16 * l * L = 32 * r  BY <2>1
  <2>4. l * L = 2 * r  BY <2>1
  <2>5. WgtAxi(l) = (32 * r) \div 32  BY <2>3 DEF WgtAxi
  <2> HIDE DEF r
  <2>6. (32 * r) \div 32 = r  BY <2>2
  <2> QED  BY <2>2, <2>4, <2>5, <2>6
<1>4. l * L \in Nat  OBVIOUS
<1>5. ReadPack(l, Qkv, n, kg) = l * L + n * k + kg
  <2>1. WgtOffset(Qkv) = 0  BY DEF WgtOffset, Qkv, OProj, GateUp, Down
  <2>2. n * k \in Int  BY <1>1, <1>2
  <2> QED  BY <1>2, <1>3, <1>4, <2>1, <2>2 DEF ReadPack, WgtOff
<1>6. ExportStart(Qkv) = 0  BY DEF ExportStart, Qkv, OProj, GateUp, Down
<1>7. CASE n < h
  <2>1. PackOf(l, Qkv, n, kg) = l * L + n * k + kg
    <3>1. n * k \in Int  BY <1>1, <1>2
    <3> QED  BY <1>1, <1>2, <1>4, <1>6, <1>7, <3>1 DEF PackOf, RowInHalf, HalfOf
  <2> QED  BY <1>5, <1>7, <2>1 DEF OwnWeights, ReadHalf, HalfOf
<1>8. CASE ~(n < h)
  <2>1. PackOf(l, Qkv, n, kg) = l * L + (n - h) * k + kg
    <3>1. (n - h) * k \in Int  BY <1>1, <1>2
    <3> QED  BY <1>1, <1>2, <1>4, <1>6, <1>8, <3>1 DEF PackOf, RowInHalf, HalfOf
  <2>2. (n - h) * k = n * k - h * k /\ h * k \in Nat /\ h * k >= 1
    BY <1>1, <1>2
  <2>3. n * k \in Int /\ (n - h) * k \in Int  BY <1>1, <1>2
  <2>4. ReadPack(l, Qkv, n, kg) # PackOf(l, Qkv, n, kg)
    BY <1>2, <1>4, <1>5, <2>1, <2>2, <2>3
  <2> QED  BY <1>8, <2>4 DEF OwnWeights
<1> QED  BY <1>7, <1>8

-----------------------------------------------------------------------------
(* The shapes of the model, in packs of one half: where a matrix starts in    *)
(* the export, and where the kernel starts to fetch it.                       *)
LEMMA Starts ==
  ASSUME SmolVlm2
  PROVE  /\ LayerPacks = 153600
         /\ HalfRows(OProj) = 480 /\ HalfRows(GateUp) = 2560 /\ HalfRows(Down) = 480
         /\ ExportStart(OProj) = 24000 /\ ExportStart(GateUp) = 38400
         /\ ExportStart(Down) = 115200
         /\ WgtOffset(OProj) = 6000 /\ WgtOffset(GateUp) = 9600 /\ WgtOffset(Down) = 28800
         /\ MetaOffset(OProj) = 3000 /\ MetaOffset(GateUp) = 9600
         /\ MetaOffset(Down) = 28800
<1>1. /\ Shape[1] = [k_grps |-> 30, n |-> 1600] /\ Shape[2] = [k_grps |-> 30, n |-> 960]
      /\ Shape[3] = [k_grps |-> 30, n |-> 5120] /\ Shape[4] = [k_grps |-> 80, n |-> 960]
  BY DEF SmolVlm2
<1>2. /\ HalfRows(1) = 800 /\ HalfRows(2) = 480 /\ HalfRows(3) = 2560 /\ HalfRows(4) = 480
      /\ HalfPacks(1) = 24000 /\ HalfPacks(2) = 14400 /\ HalfPacks(3) = 76800
      /\ HalfPacks(4) = 38400
  BY <1>1 DEF HalfRows, HalfPacks
<1>3. /\ Elems(1) = 1536000 /\ Elems(2) = 921600 /\ Elems(3) = 4915200
  BY <1>1 DEF Elems, GRP
<1>4. FFN_WGT_OFFSET = 9600 /\ DOWN_WGT_OFFSET = 28800
  BY <1>3 DEF FFN_WGT_OFFSET, DOWN_WGT_OFFSET, Qkv, OProj, GateUp
<1>5. /\ ExportStart(OProj) = 24000 /\ ExportStart(GateUp) = 38400
      /\ ExportStart(Down) = 115200
  BY <1>2 DEF ExportStart, Qkv, OProj, GateUp, Down
<1>6. /\ WgtOffset(OProj) = 6000 /\ WgtOffset(GateUp) = 9600 /\ WgtOffset(Down) = 28800
  BY <1>3, <1>4 DEF WgtOffset, Qkv, OProj, GateUp, Down
<1>7. /\ MetaOffset(OProj) = 3000 /\ MetaOffset(GateUp) = 9600 /\ MetaOffset(Down) = 28800
  BY <1>3, <1>4 DEF MetaOffset, GRP, Qkv, OProj, GateUp, Down
<1> QED  BY <1>2, <1>5, <1>6, <1>7 DEF LayerPacks, OProj, GateUp, Down

(* The manifest's word offsets are exact: a layer starts where it was written. *)
LEMMA LayerStart ==
  ASSUME SmolVlm2, Layers \in Nat
  PROVE  \A l \in Nat : l < Layers => WgtAxi(l) = 76800 * l /\ MetaAxi(l) = 9600 * l
<1>1. LayerPacks = 153600  BY Starts
<1> QED  BY <1>1 DEF WgtAxi, MetaAxi

(* The other matrices of a layer (decoder_kernel.cpp:402-455 counts the       *)
(* weights of both halves as if they were in each, eight to a byte): of no    *)
(* column does the kernel ever fetch the column's own weights.                *)
THEOREM LaterMatrices ==
  ASSUME SmolVlm2, NEW l \in Nat, Layers \in Nat, l < Layers,
         NEW m \in {OProj, GateUp, Down},
         NEW n \in 0 .. Shape[m].n - 1, NEW kg \in 0 .. Shape[m].k_grps - 1
  PROVE  ~ OwnWeights(l, m, n, kg)
<1>1. WgtAxi(l) = 76800 * l /\ LayerPacks = 153600  BY Starts, LayerStart
<1>2. CASE m = OProj
  <2>1. n \in Int /\ kg \in Int /\ Shape[m].k_grps = 30  BY <1>2 DEF SmolVlm2, OProj
  <2>2. ReadPack(l, m, n, kg) = 153600 * l + 12000 + n * 30 + kg
    BY <1>1, <1>2, <2>1, Starts DEF ReadPack, WgtOff
  <2>3. RowInHalf(m, n) \in {n, n - 480}
    BY <1>2, <2>1, Starts DEF RowInHalf, HalfOf
  <2>4. PackOf(l, m, n, kg) = 153600 * l + 24000 + RowInHalf(m, n) * 30 + kg
    BY <1>1, <1>2, <2>1, <2>3, Starts DEF PackOf
  <2>5. ReadPack(l, m, n, kg) # PackOf(l, m, n, kg)
    BY <2>1, <2>2, <2>3, <2>4
  <2> QED  BY <2>5 DEF OwnWeights
<1>3. CASE m = GateUp
  <2>1. n \in Int /\ kg \in Int /\ Shape[m].k_grps = 30  BY <1>3 DEF SmolVlm2, GateUp
  <2>2. ReadPack(l, m, n, kg) = 153600 * l + 19200 + n * 30 + kg
    BY <1>1, <1>3, <2>1, Starts DEF ReadPack, WgtOff
  <2>3. RowInHalf(m, n) \in {n, n - 2560}
    BY <1>3, <2>1, Starts DEF RowInHalf, HalfOf
  <2>4. PackOf(l, m, n, kg) = 153600 * l + 38400 + RowInHalf(m, n) * 30 + kg
    BY <1>1, <1>3, <2>1, <2>3, Starts DEF PackOf
  <2>5. ReadPack(l, m, n, kg) # PackOf(l, m, n, kg)
    BY <2>1, <2>2, <2>3, <2>4
  <2> QED  BY <2>5 DEF OwnWeights
<1>4. CASE m = Down
  <2>1. n \in Int /\ kg \in Int /\ Shape[m].k_grps = 80  BY <1>4 DEF SmolVlm2, Down
  <2>2. ReadPack(l, m, n, kg) = 153600 * l + 57600 + n * 80 + kg
    BY <1>1, <1>4, <2>1, Starts DEF ReadPack, WgtOff
  <2>3. RowInHalf(m, n) \in {n, n - 480}
    BY <1>4, <2>1, Starts DEF RowInHalf, HalfOf
  <2>4. PackOf(l, m, n, kg) = 153600 * l + 115200 + RowInHalf(m, n) * 80 + kg
    BY <1>1, <1>4, <2>1, <2>3, Starts DEF PackOf
  <2>5. ReadPack(l, m, n, kg) # PackOf(l, m, n, kg)
    BY <2>1, <2>2, <2>3, <2>4
  <2> QED  BY <2>5 DEF OwnWeights
<1> QED  BY <1>2, <1>3, <1>4

(* Two places at different distances from the same start are different.       *)
LEMMA DifferentOffsets ==
  ASSUME NEW start \in Int, NEW w \in Int, NEW g \in Int, NEW off \in Int, g # w
  PROVE  start + g + off # start + w + off
OBVIOUS

(* Nor do the weights it fetches ever meet their own scale and zero point:    *)
(* the offsets of the meta are not those of the weights (decoder_kernel.cpp   *)
(* :405-406, 430-431, 453-454).                                               *)
THEOREM MetaOfOtherWeights ==
  ASSUME SmolVlm2, NEW l \in Nat, Layers \in Nat, l < Layers,
         NEW m \in {OProj, GateUp, Down},
         NEW n \in 0 .. Shape[m].n - 1, NEW kg \in 0 .. Shape[m].k_grps - 1
  PROVE  ReadMeta(l, m, n, kg) # ReadPack(l, m, n, kg)
<1>1. WgtAxi(l) = 76800 * l /\ MetaAxi(l) = 9600 * l  BY LayerStart
<1>2. n \in Int /\ kg \in Int /\ Shape[m].k_grps \in {30, 80}
  BY DEF SmolVlm2, OProj, GateUp, Down
<1>3. WgtOff(m, n, kg) \in Int  BY <1>2 DEF WgtOff
<1>4. 16 * MetaOffset(m) # 2 * WgtOffset(m) /\ MetaOffset(m) \in Int /\ WgtOffset(m) \in Int
  BY Starts
<1> DEFINE start == 153600 * l
           w == 2 * WgtOffset(m)
           g == 16 * MetaOffset(m)
           off == WgtOff(m, n, kg)
<1>5. ReadPack(l, m, n, kg) = start + w + off
  BY <1>1, <1>3, <1>4 DEF ReadPack
<1>6. ReadMeta(l, m, n, kg) = start + g + off
  BY <1>1, <1>3, <1>4 DEF ReadMeta
<1>7. start \in Int /\ w \in Int /\ g \in Int /\ off \in Int /\ g # w
  BY <1>3, <1>4
<1> HIDE DEF start, w, g, off
<1>8. start + g + off # start + w + off
  BY <1>7, DifferentOffsets
<1> QED  BY <1>5, <1>6, <1>8

(* The gate and up product of the last layer fetches past the end of the      *)
(* file, which is all its buffer is sure to hold.                             *)
THEOREM PastTheEnd ==
  ASSUME SmolVlm2, Layers \in Nat \ {0}
  PROVE  \E n \in 0 .. Shape[GateUp].n - 1, kg \in 0 .. Shape[GateUp].k_grps - 1 :
           ReadPack(Layers - 1, GateUp, n, kg) >= Layers * LayerPacks
<1>1. WgtAxi(Layers - 1) = 76800 * (Layers - 1)  BY LayerStart
<1>2. Shape[GateUp] = [k_grps |-> 30, n |-> 5120]  BY DEF SmolVlm2, GateUp
<1>3. ReadPack(Layers - 1, GateUp, 5000, 0) >= Layers * LayerPacks
  BY <1>1, <1>2, Starts DEF ReadPack, WgtOff
<1> QED  BY <1>2, <1>3

(* lm_head, whose halves lie one behind the other: the even columns are       *)
(* fetched from their place, the odd ones, through a port that starts         *)
(* elsewhere (decoder_kernel.cpp:496), never.                                 *)
THEOREM LmHeadColumns ==
  ASSUME SmolVlm2, NEW n \in 0 .. Shape[LmHead].n - 1, NEW kg \in 0 .. 29
  PROVE  LmHeadReadPack(n, kg) = LmHeadPackOf(n, kg) <=> n % 2 = 0
<1>1. Shape[LmHead] = [k_grps |-> 30, n |-> 49280]  BY DEF SmolVlm2, LmHead
<1>2. HalfRows(LmHead) = 24640 /\ HalfPacks(LmHead) = 739200
  BY <1>1 DEF HalfRows, HalfPacks
<1>3. n \in Nat /\ kg \in Nat  BY <1>1
<1>4. LmHeadPackOf(n, kg) = n * 30 + kg
  BY <1>1, <1>2, <1>3 DEF LmHeadPackOf, HalfOf, RowInHalf
<1>5. LmHeadReadPack(n, kg) = (n % 2) * 1540 + n * 30 + kg
  BY <1>1, <1>3 DEF LmHeadReadPack, ReadHalf, WgtOff
<1> QED  BY <1>3, <1>4, <1>5

=============================================================================
