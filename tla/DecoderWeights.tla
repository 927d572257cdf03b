---------------------------- MODULE DecoderWeights ----------------------------
(***************************************************************************)
(* Where the exporter puts the INT4 weights of the decoder layers and of    *)
(* lm_head, and where the GEMMs of the kernel fetch them.  Both count in    *)
(* packs: the 32 weights of one output column and one group of inputs, 16   *)
(* bytes, two to an AXI word.  Every pack has a scale and a zero point in   *)
(* the meta files, two bytes, sixteen to a word.  Weights and meta come in  *)
(* two halves, on two memory ports.  No state: a launch only reads.         *)
(***************************************************************************)
EXTENDS Integers

CONSTANTS
  Layers,  \* decoder layers the manifest lists
  Shape    \* k_grps and n of the matrices Qkv, OProj, GateUp, Down, LmHead

GRP == 32
Qkv == 1  OProj == 2  GateUp == 3  Down == 4  LmHead == 5

-----------------------------------------------------------------------------
(* The exporter: of each matrix the first half of the rows goes to half 0,    *)
(* the others to half 1; in a half, matrices and layers follow each other.    *)
(* The halves of lm_head are loaded one behind the other into one buffer.     *)

HalfRows(m) == Shape[m].n \div 2
HalfPacks(m) == HalfRows(m) * Shape[m].k_grps
ExportStart(m) ==
  CASE m = Qkv -> 0
    [] m = OProj -> HalfPacks(Qkv)
    [] m = GateUp -> HalfPacks(Qkv) + HalfPacks(OProj)
    [] m = Down -> HalfPacks(Qkv) + HalfPacks(OProj) + HalfPacks(GateUp)
LayerPacks == ExportStart(Down) + HalfPacks(Down)

HalfOf(m, n) == IF n < HalfRows(m) THEN 0 ELSE 1
RowInHalf(m, n) == n - HalfOf(m, n) * HalfRows(m)
PackOf(l, m, n, kg) == l * LayerPacks + ExportStart(m) + RowInHalf(m, n) * Shape[m].k_grps + kg
LmHeadPackOf(n, kg) ==
  HalfOf(LmHead, n) * HalfPacks(LmHead) + RowInHalf(LmHead, n) * Shape[LmHead].k_grps + kg

-----------------------------------------------------------------------------
(* The launch: the word offsets of a layer come from the manifest, and are    *)
(* zero for a layer it does not list; those of a matrix come from the kernel. *)

WgtAxi(l) == IF l < Layers THEN (16 * l * LayerPacks) \div 32 ELSE 0
MetaAxi(l) == IF l < Layers THEN (2 * l * LayerPacks) \div 32 ELSE 0

Elems(m) == GRP * Shape[m].k_grps * Shape[m].n
FFN_WGT_OFFSET == (Elems(Qkv) + Elems(OProj)) \div (8 * 32)
DOWN_WGT_OFFSET == FFN_WGT_OFFSET + Elems(GateUp) \div (8 * 32)
WgtOffset(m) ==
  CASE m = Qkv -> 0
    [] m = OProj -> Elems(Qkv) \div (8 * 32)
    [] m = GateUp -> FFN_WGT_OFFSET
    [] m = Down -> DOWN_WGT_OFFSET
MetaOffset(m) ==
  CASE m = Qkv -> 0
    [] m = OProj -> Elems(Qkv) \div (GRP * 16)
    [] m = GateUp -> (FFN_WGT_OFFSET * GRP) \div 32
    [] m = Down -> (DOWN_WGT_OFFSET * GRP) \div 32

(* w4a8_gemm: even columns from the first port, odd ones from the second, at  *)
(* the place of column and group in the whole matrix.  The second port of     *)
(* lm_head is VOCAB / 2 / 32 words into its buffer.                           *)
ReadHalf(n) == n % 2
WgtOff(m, n, kg) == n * Shape[m].k_grps + kg
ReadPack(l, m, n, kg) == 2 * (WgtAxi(l) + WgtOffset(m)) + WgtOff(m, n, kg)
ReadMeta(l, m, n, kg) == 16 * (MetaAxi(l) + MetaOffset(m)) + WgtOff(m, n, kg)
LmHeadReadPack(n, kg) ==
  ReadHalf(n) * 2 * ((Shape[LmHead].n \div 2) \div 32) + WgtOff(LmHead, n, kg)

(* The fetch for column n and group kg gets the weights exported for them.    *)
OwnWeights(l, m, n, kg) ==
  ReadHalf(n) = HalfOf(m, n) /\ ReadPack(l, m, n, kg) = PackOf(l, m, n, kg)
OwnMeta(l, m, n, kg) ==
  ReadHalf(n) = HalfOf(m, n) /\ ReadMeta(l, m, n, kg) = PackOf(l, m, n, kg)

=============================================================================
