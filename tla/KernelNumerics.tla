---------------------------- MODULE KernelNumerics ----------------------------
(***************************************************************************)
(* The integer conversions of the kernels, as they are at their widths: two *)
(* weights multiplied at once, the scale and the values of a quantised row, *)
(* the four-bit keys and values of the cache, and where the pixel shuffle   *)
(* puts a patch.  No state.                                                 *)
(***************************************************************************)
EXTENDS Integers

INT8 == -128 .. 127

(* A signed integer cut to w bits, 2^w = m; a range of bits is unsigned.      *)
Cut(x, m) == ((x + m \div 2) % m) - m \div 2
ToINT8(x) == Cut(x, 256)
ToINT16(x) == Cut(x, 65536)

Magnitude(x) == IF x < 0 THEN -x ELSE x
(* Division that rounds towards zero, by a divisor that is not zero.          *)
Quotient(a, b) ==
  IF (a < 0) = (b < 0) THEN Magnitude(a) \div Magnitude(b)
                       ELSE -(Magnitude(a) \div Magnitude(b))

-----------------------------------------------------------------------------
(* pack_mul_2int8_shared: the low weight is extended by its sign over the     *)
(* bits of the high one, and OR leaves nothing of that when it is negative.   *)
Packed(w_lo, w_hi) == IF w_lo < 0 THEN w_lo ELSE 512 * w_hi + w_lo
res_lo(w_lo, w_hi, act) == (Packed(w_lo, w_hi) * act) % 512
res_hi(w_lo, w_hi, act) == ToINT16(((Packed(w_lo, w_hi) * act) \div 512) % 262144)

(* act_quant, and in the same way rmsnorm_quant and silu_gate_fuse_quant.     *)
RowScale(absmax) == ToINT8(absmax \div 127 + 1)
RowValue(v, absmax) == ToINT8(Quotient(v, RowScale(absmax)))

(* kv_cache_write, and the value attention reads back, without the scale.     *)
GroupScale(k_abs) == LET s == ToINT8(k_abs \div 8) IN IF s = 0 THEN 1 ELSE s
Clipped(kq) == IF kq < 0 THEN 0 ELSE IF kq > 15 THEN 15 ELSE kq
Nibble(k, k_abs) == Clipped(ToINT8(Quotient(k, GroupScale(k_abs)) + 8))
ReadBack(k, k_abs) == Nibble(k, k_abs) - 8

(* pixel_shuffle_4x: where channel c of the patch in row y and column x of    *)
(* the 32 x 32 grid goes, among 64 tokens of 12288 channels.                  *)
out_tok(y, x) == (y \div 4) * 8 + x \div 4
patch_slot(y, x) == (y % 4) * 4 + (x % 4)
Shuffled(y, x, c) == out_tok(y, x) * 12288 + patch_slot(y, x) * 768 + c
=============================================================================
