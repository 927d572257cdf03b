---------------------------- MODULE KernelDataflow ----------------------------
(***************************************************************************)
(* The DATAFLOW region of smolvlm2_decoder_layer: functions that run        *)
(* concurrently and are connected by hls::stream FIFOs.  Each function is   *)
(* the sequence of its stream reads and writes, in the order of its loops;  *)
(* an element is its place <<token, column>> in the matrix it belongs to.   *)
(* The unit of a column is one attention head (D_HEAD elements), which is   *)
(* also TILE_N, the column tile of the GEMM.  A stream shallower than a     *)
(* head is given the depth of one: the model never waits where the kernel   *)
(* does not.                                                                *)
(***************************************************************************)
EXTENDS Integers, Sequences

CONSTANTS
  HKv,        \* H_KV
  Ratio,      \* GQA_RATIO = H_Q / H_KV
  Ffn,        \* FFN_DIM
  Vocab,      \* VOCAB
  TileM,      \* TILE_M
  QTile,      \* QT
  FifoD,      \* FIFO_D in heads: depth of an ordinary stream
  Launches,   \* launches looked at: work_token_count, FIFO_ATTN in heads (depth of
              \* s_qkv_out, s_q_rot, s_attn_o, s_lm_out) and FIFO_D in elements (of a scale stream)
  RunLmHead   \* run_lmhead

ASSUME DataflowAssumption ==
  /\ {HKv, Ratio, Ffn, Vocab, TileM, QTile, FifoD} \subseteq Nat \ {0}
  /\ Launches \subseteq [rows : Nat \ {0}, fifoAttn : Nat \ {0}, fifoSc : Nat \ {0}]
  /\ RunLmHead \in BOOLEAN

VARIABLES
  launch,  \* the one of Launches under way
  at,      \* at[f]: reads and writes function f has done
  fifo     \* fifo[s]: elements in stream s

vars == <<launch, at, fifo>>

HQ   == HKv * Ratio
NQkv == HQ + 2 * HKv

-----------------------------------------------------------------------------
(* Loops.                                                                     *)

Get(s, el) == <<[io |-> "read", stream |-> s, el |-> el]>>
Put(s, el) == <<[io |-> "write", stream |-> s, el |-> el]>>

(* The passes of a loop, one after the other.                                 *)
Unrolled(body, n) ==
  LET upTo[i \in Nat] == IF i = 0 THEN <<>> ELSE upTo[i - 1] \o body[i - 1]
  IN  upTo[n]
For(n, Body(_)) == Unrolled([i \in 0 .. n - 1 |-> Body(i)], n)

(* Size of the i-th tile of a range of n, and the mutant that forgets the     *)
(* remainder; the number of tiles.                                            *)
TileLen_Whole(n, tile, i) == tile
TileLen(n, tile, i) == IF (i + 1) * tile <= n THEN tile ELSE n - i * tile
Tiles(n, tile) == (n + tile - 1) \div tile

ReadRow(s, t, cols)  == For(cols, LAMBDA c : Get(s, <<t, c>>))
WriteRow(s, t, cols) == For(cols, LAMBDA c : Put(s, <<t, c>>))
ReadRows(s, rows, cols) == For(rows, LAMBDA t : ReadRow(s, t, cols))
CopyRow(in, first, out, t, cols) == For(cols, LAMBDA c : Get(in, <<t, first + c>>) \o Put(out, <<t, c>>))

-----------------------------------------------------------------------------
(* The functions.                                                             *)

ResToStream(out, rows) == For(rows, LAMBDA t : WriteRow(out, t, HQ))

(* rmsnorm_quant and act_quant: a row in, its scale out, then the row out.    *)
Quantise(in, out, sc, rows, cols) ==
  For(rows, LAMBDA t : ReadRow(in, t, cols) \o Put(sc, <<t, 0>>) \o WriteRow(out, t, cols))

ReadScales(sc, m) == For(m, LAMBDA t : Get(sc, <<t, 0>>))

(* The product tile by tile, column tiles outermost.                          *)
WriteProduct(out, m, n) ==
  For(n, LAMBDA nt :
    For(Tiles(m, TileM), LAMBDA mt :
      For(TileLen(m, TileM, mt), LAMBDA i : Put(out, <<mt * TileM + i, nt>>))))

(* Mutant: the scale of a row taken before its data.                          *)
Gemm_ScaleFirst(act, sc, out, m, k, n) ==
  For(m, LAMBDA t : Get(sc, <<t, 0>>) \o ReadRow(act, t, k)) \o WriteProduct(out, m, n)

(* Mutant: rows outermost in the product.                                     *)
Gemm_RowByRow(act, sc, out, m, k, n) ==
  ReadRows(act, m, k) \o ReadScales(sc, m) \o For(m, LAMBDA t : WriteRow(out, t, n))

(* w4a8_gemm: all activations, then all scales, then the product.             *)
Gemm(act, sc, out, m, k, n) == ReadRows(act, m, k) \o ReadScales(sc, m) \o WriteProduct(out, m, n)

(* Mutant: V handed on before K.                                              *)
Split_ValuesFirst(rows) ==
  For(rows, LAMBDA t :
    CopyRow("qkv_out", 0, "q_pre", t, HQ) \o CopyRow("qkv_out", HQ + HKv, "v_pass", t, HKv)
      \o CopyRow("qkv_out", HQ, "k_pre", t, HKv))

(* The SPLIT loop of rope_split_qk.                                           *)
Split(rows) ==
  For(rows, LAMBDA t :
    CopyRow("qkv_out", 0, "q_pre", t, HQ) \o CopyRow("qkv_out", HQ, "k_pre", t, HKv)
      \o CopyRow("qkv_out", HQ + HKv, "v_pass", t, HKv))

(* rope_apply_stream: one head at a time.                                     *)
Rope(in, out, heads, rows) == For(rows, LAMBDA t : CopyRow(in, 0, out, t, heads))

(* The queries of a tile: of each token, those of a KV head.                  *)
QueryCount(rows, qt) == TileLen(rows, QTile, qt) * Ratio
Query(h, qt, q) == <<qt * QTile + (q \div Ratio), h * Ratio + (q % Ratio)>>

(* multi_head_attention: for each KV head its K and V for every token, then   *)
(* per query tile the Ratio query heads of each token in, and out.            *)
Attention(rows) ==
  For(HKv, LAMBDA h :
    For(rows, LAMBDA t : Get("k_rot", <<t, h>>) \o Get("v_pass", <<t, h>>))
      \o For(Tiles(rows, QTile), LAMBDA qt :
           For(QueryCount(rows, qt), LAMBDA q : Get("q_rot", Query(h, qt, q)))
             \o For(QueryCount(rows, qt), LAMBDA q : Put("attn_o", Query(h, qt, q)))))

OScatter(rows) == For(rows, LAMBDA t : CopyRow("attn_o", 0, "o_flat", t, HQ))

(* residual_add_range; the row buffer it fills is handed over when complete.  *)
ResidualAdd(in, out, rows) == ReadRows(in, rows, HQ) \o Put(out, <<0, 0>>)

(* Mutant: the scale is forgotten.                                            *)
SiluGate_NoScale(rows) ==
  For(rows, LAMBDA t : ReadRow("gateup_out", t, 2 * Ffn) \o WriteRow("ffn_act", t, Ffn))

(* Mutant: a scale for the gate pass and another one for the up pass.         *)
SiluGate_TwoScales(rows) ==
  For(rows, LAMBDA t :
    ReadRow("gateup_out", t, 2 * Ffn)
      \o Put("ffn_sc", <<t, 0>>) \o WriteRow("ffn_act", t, Ffn) \o Put("ffn_sc", <<t, 0>>))

SiluGate(rows) ==
  For(rows, LAMBDA t :
    ReadRow("gateup_out", t, 2 * Ffn) \o Put("ffn_sc", <<t, 0>>) \o WriteRow("ffn_act", t, Ffn))

(* store_act, then the row of the last token for the lm_head.                 *)
IfLmHead(program) == IF RunLmHead THEN program ELSE <<>>
StoreAct == Get("res_buf_1_out", <<0, 0>>) \o IfLmHead(WriteRow("lm_raw", 0, HQ))

Functions ==
  {"res_to_stream", "rmsnorm", "qkv_gemm", "split", "rope_q", "rope_k", "attention", "o_scatter",
   "act_quant", "o_gemm", "residual", "res_to_stream2", "rmsnorm2", "gateup_gemm", "silu",
   "down_gemm", "residual2", "store", "lm_norm", "lm_gemm", "lm_out"}

ProgramOf(rows) ==
  [f \in Functions |->
    CASE f = "res_to_stream"  -> ResToStream("raw_act", rows)
      [] f = "rmsnorm"        -> Quantise("raw_act", "norm1_q", "norm1_sc", rows, HQ)
      [] f = "qkv_gemm"       -> Gemm("norm1_q", "norm1_sc", "qkv_out", rows, HQ, NQkv)
      [] f = "split"          -> Split(rows)
      [] f = "rope_q"         -> Rope("q_pre", "q_rot", HQ, rows)
      [] f = "rope_k"         -> Rope("k_pre", "k_rot", HKv, rows)
      [] f = "attention"      -> Attention(rows)
      [] f = "o_scatter"      -> OScatter(rows)
      [] f = "act_quant"      -> Quantise("o_flat", "o_q", "o_sc", rows, HQ)
      [] f = "o_gemm"         -> Gemm("o_q", "o_sc", "oproj_out", rows, HQ, HQ)
      [] f = "residual"       -> ResidualAdd("oproj_out", "res_buf_1", rows)
      [] f = "res_to_stream2" -> Get("res_buf_1", <<0, 0>>) \o ResToStream("raw_act2", rows)
      [] f = "rmsnorm2"       -> Quantise("raw_act2", "norm2_q", "norm2_sc", rows, HQ)
      [] f = "gateup_gemm"    -> Gemm("norm2_q", "norm2_sc", "gateup_out", rows, HQ, 2 * Ffn)
      [] f = "silu"           -> SiluGate(rows)
      [] f = "down_gemm"      -> Gemm("ffn_act", "ffn_sc", "down_out", rows, Ffn, HQ)
      [] f = "residual2"      -> ResidualAdd("down_out", "res_buf_1_out", rows)
      [] f = "store"          -> StoreAct
      [] f = "lm_norm"        -> IfLmHead(Quantise("lm_raw", "lm_q", "lm_sc", 1, HQ))
      [] f = "lm_gemm"        -> IfLmHead(Gemm("lm_q", "lm_sc", "lm_out", 1, HQ, Vocab))
      [] f = "lm_out"         -> IfLmHead(ReadRow("lm_out", 0, Vocab))]

Programs == [rows \in {l.rows : l \in Launches} |-> ProgramOf(rows)]
Program == Programs[launch.rows]

Streams ==
  {"raw_act", "norm1_q", "norm1_sc", "qkv_out", "q_pre", "k_pre", "v_pass", "q_rot", "k_rot",
   "attn_o", "o_flat", "o_q", "o_sc", "oproj_out", "res_buf_1", "raw_act2", "norm2_q",
   "norm2_sc", "gateup_out", "ffn_act", "ffn_sc", "down_out", "res_buf_1_out",
   "lm_raw", "lm_q", "lm_sc", "lm_out"}

Depth(s) ==
  CASE s \in {"qkv_out", "q_rot", "attn_o", "lm_out"}              -> launch.fifoAttn
    [] s \in {"norm1_sc", "o_sc", "norm2_sc", "ffn_sc", "lm_sc"} -> launch.fifoSc
    [] OTHER                                                     -> FifoD

-----------------------------------------------------------------------------
(* A launch.  Reading an empty stream and writing a full one block.           *)

Finished(f) == at[f] = Len(Program[f])
NextIo(f) == Program[f][at[f] + 1]

Init ==
  /\ launch \in Launches
  /\ at = [f \in Functions |-> 0]
  /\ fifo = [s \in Streams |-> <<>>]

Read(f) ==
  /\ ~Finished(f) /\ NextIo(f).io = "read"
  /\ fifo[NextIo(f).stream] # <<>>
  /\ fifo' = [fifo EXCEPT ![NextIo(f).stream] = Tail(@)]
  /\ at' = [at EXCEPT ![f] = @ + 1]
  /\ UNCHANGED launch

(* Mutant: a stream written without looking at its full flag.                 *)
Write_IgnoresFull(f) ==
  /\ ~Finished(f) /\ NextIo(f).io = "write"
  /\ fifo' = [fifo EXCEPT ![NextIo(f).stream] = Append(@, NextIo(f).el)]
  /\ at' = [at EXCEPT ![f] = @ + 1]
  /\ UNCHANGED launch

Write(f) ==
  /\ ~Finished(f) /\ NextIo(f).io = "write"
  /\ Len(fifo[NextIo(f).stream]) < Depth(NextIo(f).stream)
  /\ fifo' = [fifo EXCEPT ![NextIo(f).stream] = Append(@, NextIo(f).el)]
  /\ at' = [at EXCEPT ![f] = @ + 1]
  /\ UNCHANGED launch

Next == \E f \in Functions : Read(f) \/ Write(f)

(* In hardware every function runs whenever its streams let it.               *)
Spec == Init /\ [][Next]_vars /\ \A f \in Functions : WF_vars(Read(f) \/ Write(f))

-----------------------------------------------------------------------------
(* Properties.                                                                *)

(* No function has done more than its loops ask, and no stream holds more     *)
(* than its depth.                                                            *)
TypeOK ==
  /\ \A f \in Functions : at[f] \in 0 .. Len(Program[f])
  /\ \A s \in Streams : Len(fifo[s]) <= Depth(s)

(* Queries that have to be in q_pre, the hands of rope_q and q_rot before     *)
(* attention reads the ones of head h: SPLIT writes all queries of a token    *)
(* before its first key, attention reads a key of each row before a query.    *)
QueriesHeld(h) == Tiles((h + 1) * launch.rows, HKv) * HQ - h * launch.rows * Ratio

(* The streams are deep enough for the launch: those queries have room; so do *)
(* the other keys of a token while attention waits for the value that goes    *)
(* with the first, as SPLIT writes the keys of all heads before a value; and  *)
(* the scales of all rows, as a GEMM reads every row before the first scale.  *)
StreamsHold ==
  /\ \A h \in 0 .. HKv - 1 : QueriesHeld(h) <= FifoD + 1 + launch.fifoAttn
  /\ HKv - 1 <= FifoD + 1 + FifoD
  /\ launch.rows <= launch.fifoSc

(* What w4a8_gemm writes has the columns of a tile outermost, what attention  *)
(* reads and writes the heads; the functions at the other end of these        *)
(* streams go row by row (w4a8_gemm.h:192-213, attention.h:304-338).          *)
ColumnMajor == {"qkv_out", "k_rot", "v_pass", "q_rot", "attn_o", "oproj_out", "gateup_out", "down_out"}

OrderOn(s) ==
  \A f \in Functions :
    (~Finished(f) /\ NextIo(f).io = "read" /\ NextIo(f).stream = s /\ fifo[s] # <<>>)
      => Head(fifo[s]) = NextIo(f).el

(* The element a function takes from a stream is the one its loops mean, for  *)
(* one row on every stream, and for more on those both ends go through alike. *)
InOrder == \A s \in Streams : launch.rows = 1 \/ s \notin ColumnMajor => OrderOn(s)

(* A tile of more rows is transposed between a GEMM or attention and its      *)
(* neighbour, on each of the streams that join them: rope.h:80 ("arranged by  *)
(* token") and decoder_kernel.cpp:188 ("already token-major") hold for one    *)
(* row only.                                                                  *)
MoreRowsMixedUp ==
  \A s \in ColumnMajor : launch.rows > 1 /\ StreamsHold => <>~OrderOn(s)

(* The streams are static: what a launch leaves in one, the next launch would *)
(* read as its own.                                                           *)
AllFinished == \A f \in Functions : Finished(f)
NothingLeft == AllFinished => \A s \in Streams : fifo[s] = <<>>

(* A function that can do its next operation; a launch in which none can.     *)
Ready(f) ==
  /\ ~Finished(f)
  /\ NextIo(f).io = "read" => fifo[NextIo(f).stream] # <<>>
  /\ NextIo(f).io = "write" => Len(fifo[NextIo(f).stream]) < Depth(NextIo(f).stream)
Stuck == \A f \in Functions : ~Ready(f)

(* Where a launch can go no further it has completed, if and only if its      *)
(* streams hold what must wait in them: it is not left with some functions    *)
(* waiting for each other, and with shallower streams it always is.           *)
EndsAsHeld == Stuck => (AllFinished <=> StreamsHold)

(* The launch completes if its streams hold what must wait in them.           *)
Completes == StreamsHold => <>AllFinished

=============================================================================
