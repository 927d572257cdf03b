------------------------------ MODULE FpgaRunner ------------------------------
(***************************************************************************)
(* The device side of the SmolVLM2 FPGA path, as its C API sees it: the     *)
(* XRT buffer objects, the runner that schedules the vision, connector,     *)
(* bridge and decoder kernels over them, and the effect one kernel launch   *)
(* has on the buffers.  Activations are rows; a row is abstracted to its    *)
(* provenance (which request, which prompt element, which decoder layer     *)
(* produced it).  One call of the C API runs at a time; its kernel launches *)
(* are separate steps and each of them may throw.                           *)
(***************************************************************************)
EXTENDS Integers, Sequences, FiniteSets

CONSTANTS
  Requests,     \* identities of the data handed in by the caller
  NumLayers,    \* kNumLayers
  MaxSeq,       \* max_seq_ of the session: rows of the activation buffers
  HwMaxSeq,     \* MAX_SEQ: positions per KV head in the cache layout
  PrefillTile,  \* kPrefillTokenTile
  ImageTokens,  \* kImageTokens
  Prompts,      \* token-id sequences over {"txt", "img"} given to build_prefill
  Windows       \* window_tokens of run_decode_window

ASSUME RunnerAssumption ==
  /\ NumLayers \in Nat \ {0}
  /\ MaxSeq \in Nat \ {0}
  /\ HwMaxSeq \in Nat
  /\ MaxSeq <= HwMaxSeq
  /\ PrefillTile \in Nat \ {0}
  /\ ImageTokens \in Nat \ {0}
  /\ Prompts \subseteq Seq({"txt", "img"})
  /\ Windows \subseteq 1 .. MaxSeq

VARIABLES
  host,    \* host mapping of act_ping_
  act,     \* device contents of act_ping_ and act_pong_
  vit,     \* device contents of vit_act_, vit_hidden_, vit_tmp_, image_tokens_
  kv,      \* kv[l][p]: what the K/V cache holds for layer l, position p
  logits,  \* device contents of logits_
  op,      \* the C API call in progress and its arguments
  ret      \* its return code (and out_seq_len), until the caller has read it

vars == <<host, act, vit, kv, logits, op, ret>>

Rows   == 0 .. MaxSeq - 1
Layers == 0 .. NumLayers - 1
KvPos  == 0 .. HwMaxSeq - 1

-----------------------------------------------------------------------------
(* Data.  who: the caller the data came from; kind/idx: the idx-th text       *)
(* embedding, the idx-th image token, a generated token; stage: 0 for an      *)
(* embedding, l+1 for the output of decoder layer l.                          *)

NoOne == "nobody"
Row(r, kind, idx) == [who |-> r, kind |-> kind, idx |-> idx, stage |-> 0]
Junk   == Row(NoOne, "junk", 0)   \* memory nothing has written yet
Zeroed == Row(NoOne, "zero", 0)   \* memset in build_prefill_activations

(* A vision buffer: whose image it derives from, and through which kernels.   *)
Pipeline == <<"patch", "qkv", "attn", "connector">>
NoImage  == [who |-> NoOne, done |-> <<>>]
Through(buf, k) == [buf EXCEPT !.done = Append(@, k)]

NoKv     == [row |-> Junk, pos |-> 0]
NoLogits == [row |-> Junk, pos |-> 0]

-----------------------------------------------------------------------------
(* Calls.  A call that launches kernels stays in op until its last launch.    *)

IdleOp == [name |-> "idle"]
NoRet  == [rc |-> "none", seq_len |-> 0]
Ok     == [rc |-> "ok", seq_len |-> 0]
Throws == [rc |-> "error", seq_len |-> 0]

Callable == op = IdleOp /\ ret = NoRet

Init ==
  /\ host = [t \in Rows |-> Junk]
  /\ act = [b \in {"ping", "pong"} |-> [t \in Rows |-> Junk]]
  /\ vit = [b \in {"act", "hidden", "tmp", "image_tokens"} |-> NoImage]
  /\ kv = [l \in Layers |-> [p \in KvPos |-> NoKv]]
  /\ logits = NoLogits
  /\ op = IdleOp
  /\ ret = NoRet

(* The caller reads the return code; only then does it call again.            *)
Return == ret # NoRet /\ ret' = NoRet /\ UNCHANGED <<host, act, vit, kv, logits, op>>

Finish(result) == op' = IdleOp /\ ret' = result
Continue(next) == op' = next /\ UNCHANGED ret

(* One XRT operation, a buffer sync or a kernel launch with its wait(): it    *)
(* completes, or throws with or without having had its effect.                *)
Xrt(effect, untouched, advance) ==
  \/ effect /\ advance
  \/ effect /\ Finish(Throws)
  \/ untouched /\ Finish(Throws)

-----------------------------------------------------------------------------
(* Vision: patches in, image tokens out.                                      *)

WriteVisionPatches(r, shape_ok) ==
  /\ Callable
  /\ \/ /\ shape_ok
        /\ Xrt(vit' = [vit EXCEPT !["act"] = [who |-> r, done |-> <<>>]],
               UNCHANGED vit, Finish(Ok))
     \/ ~shape_ok /\ Finish(Throws) /\ UNCHANGED vit
  /\ UNCHANGED <<host, act, kv, logits>>

EncodeImage ==
  /\ Callable
  /\ op' = [name |-> "encode", k |-> 1]
  /\ UNCHANGED <<host, act, vit, kv, logits, ret>>

(* Mutant: the attention kernel reads the patches instead of the QKV output.  *)
EncodeSrc_Skips == <<"act", "hidden", "act", "hidden">>

(* Source and destination of the k-th launch of encode_image.                 *)
EncodeSrc == <<"act", "hidden", "tmp", "hidden">>
EncodeDst == <<"hidden", "tmp", "hidden", "image_tokens">>

EncodeLaunch ==
  /\ op.name = "encode"
  /\ Xrt(vit' = [vit EXCEPT ![EncodeDst[op.k]] =
                      Through(vit[EncodeSrc[op.k]], Pipeline[op.k])],
            UNCHANGED vit,
            IF op.k = Len(Pipeline) THEN Finish(Ok)
                                    ELSE Continue([op EXCEPT !.k = @ + 1]))
  /\ UNCHANGED <<host, act, kv, logits>>

-----------------------------------------------------------------------------
(* build_prefill_activations: lay the prompt out in act_ping_.                *)

Before(tokens, i, tok) == Cardinality({j \in 1 .. i - 1 : tokens[j] = tok})

(* First row of the i-th token; row count of the whole prompt at i = Len + 1. *)
OffsetOf(tokens, i) == Before(tokens, i, "txt") + ImageTokens * Before(tokens, i, "img")

HasPlaceholder(tokens) == \E i \in DOMAIN tokens : tokens[i] = "img"

(* Rows in front of the first token: the image tokens, when no token id asks  *)
(* for them.                                                                  *)
Prepended(tokens) == IF HasPlaceholder(tokens) THEN 0 ELSE ImageTokens

PromptLen(tokens) == Prepended(tokens) + OffsetOf(tokens, Len(tokens) + 1)

(* Mutant: the placeholder's row is not remembered.                           *)
ImageDst_Unset(tokens) == 0

(* image_dst_token: the last placeholder wins.                                *)
ImageDst(tokens) ==
  IF HasPlaceholder(tokens)
  THEN OffsetOf(tokens, CHOOSE i \in DOMAIN tokens :
         tokens[i] = "img" /\ \A j \in i + 1 .. Len(tokens) : tokens[j] # "img")
  ELSE 0

(* Host rows once the text embeddings are copied with the first token at row  *)
(* pre; a row no text lands on keeps what it had.                             *)
Copied(tokens, emb, pre, t, old) ==
  LET here == {i \in DOMAIN tokens : tokens[i] = "txt" /\ pre + OffsetOf(tokens, i) = t}
  IN  IF here = {} THEN old ELSE emb[Before(tokens, CHOOSE i \in here : TRUE, "txt") + 1]

(* The memset and the token loop, then the second copy when prepending.       *)
FirstPass(tokens, emb, t) == Copied(tokens, emb, 0, t, Zeroed)
Staged(tokens, emb, t) == Copied(tokens, emb, Prepended(tokens), t, FirstPass(tokens, emb, t))

BuildPrefillActivations(tokens, emb) ==
  /\ Callable
  /\ \/ /\ PromptLen(tokens) <= MaxSeq
        /\ host' = [t \in Rows |-> Staged(tokens, emb, t)]
        /\ Xrt(act' = [act EXCEPT !["ping"] = host'],
               UNCHANGED act,
               Continue([name |-> "bridge", tokens |-> tokens, emb |-> emb]))
     \/ /\ PromptLen(tokens) > MaxSeq
        /\ host' = [t \in Rows |-> FirstPass(tokens, emb, t)]
        /\ Finish(Throws)
        /\ UNCHANGED act
  /\ UNCHANGED <<vit, kv, logits>>

(* run_image_bridge: connector output into the placeholder's rows.            *)
BridgedRow(t) ==
  Row(vit["image_tokens"].who,
      IF vit["image_tokens"].done = Pipeline THEN "img" ELSE "unencoded",
      t + 1 - ImageDst(op.tokens))

BridgeLaunch ==
  /\ op.name = "bridge"
  /\ LET dst == ImageDst(op.tokens) .. ImageDst(op.tokens) + ImageTokens - 1
     IN  Xrt(act' = [act EXCEPT !["ping"] =
                          [t \in Rows |-> IF t \in dst THEN BridgedRow(t) ELSE @[t]]],
                UNCHANGED act,
                Finish([rc |-> "ok", seq_len |-> PromptLen(op.tokens)]))
  /\ UNCHANGED <<host, vit, kv, logits>>

-----------------------------------------------------------------------------
(* The decoder kernel: one layer over work_token_count rows.                  *)

(* Cells of the cache that a write for (layer, pos) reaches.  The heads of a  *)
(* layer, and the layers, are packed with a stride of HwMaxSeq positions: a   *)
(* write past the stride lands in the first rows of the next head, which is a *)
(* row of the same layer or, from the last head, of the next layer.           *)
KvCells(l, p) ==
  IF p < HwMaxSeq THEN {<<l, p>>} ELSE {<<l, p - HwMaxSeq>>, <<l + 1, p - HwMaxSeq>>}

(* What the host passes: even layers (use_ping) take act_ping_ first and      *)
(* act_pong_ as output, odd layers the two swapped; load_act then picks the   *)
(* first argument when use_ping is set and the second one otherwise.          *)
UsePing(l) == l % 2 = 0
ArgPing(l) == IF UsePing(l) THEN "ping" ELSE "pong"
ArgPong(l) == IF UsePing(l) THEN "pong" ELSE "ping"
ActOut(l)  == IF UsePing(l) THEN "pong" ELSE "ping"
ActIn(l)   == IF UsePing(l) THEN ArgPing(l) ELSE ArgPong(l)

(* smolvlm2_decoder_layer over rows off .. off + count - 1: the K/V of row t  *)
(* go to position pos + t, the layer's output to the output buffer, and the   *)
(* lm_head scores the last row.                                               *)
DecoderLayer(l, off, count, pos, run_lmhead) ==
  LET in    == act[ActIn(l)]
      work  == off .. off + count - 1
      wrote(c) == {t \in work : c \in KvCells(l, pos + t)}
      last  == off + count - 1
  IN  /\ act' = [act EXCEPT ![ActOut(l)] =
                  [t \in Rows |-> IF t \in work THEN [in[t] EXCEPT !.stage = l + 1] ELSE @[t]]]
      /\ kv' = [m \in Layers |-> [p \in KvPos |->
                  IF wrote(<<m, p>>) = {} THEN kv[m][p]
                  ELSE LET t == CHOOSE t \in wrote(<<m, p>>) : TRUE
                       IN  [row |-> in[t], pos |-> pos + t]]]
      /\ logits' = IF run_lmhead THEN [row |-> in[last], pos |-> pos + last] ELSE logits

RunPrefill(seq_len) ==
  /\ Callable
  /\ \/ seq_len > MaxSeq /\ ret' = Throws /\ UNCHANGED op
     \/ seq_len = 0 /\ ret' = Ok /\ UNCHANGED op
     \/ /\ seq_len \in 1 .. MaxSeq
        /\ op' = [name |-> "prefill", layer |-> 0, tile |-> 0, len |-> seq_len]
        /\ UNCHANGED ret
  /\ UNCHANGED <<host, act, vit, kv, logits>>

TileSize(len, tile) == IF len - tile < PrefillTile THEN len - tile ELSE PrefillTile

(* Mutant: the tile loop runs once more when the tiles fit exactly.           *)
NextPrefillLaunch_ExtraTile ==
  IF op.tile + PrefillTile <= op.len
  THEN Continue([op EXCEPT !.tile = @ + PrefillTile])
  ELSE IF op.layer + 1 < NumLayers
       THEN Continue([op EXCEPT !.layer = @ + 1, !.tile = 0])
       ELSE Finish(Ok)

(* Mutant: the tile loop stops one row early.                                 *)
NextPrefillLaunch_ShortTile ==
  IF op.tile + PrefillTile + 1 < op.len
  THEN Continue([op EXCEPT !.tile = @ + PrefillTile])
  ELSE IF op.layer + 1 < NumLayers
       THEN Continue([op EXCEPT !.layer = @ + 1, !.tile = 0])
       ELSE Finish(Ok)

(* Mutant: the layer loop leaves out the last layer.                          *)
NextPrefillLaunch_ShortLayers ==
  IF op.tile + PrefillTile < op.len
  THEN Continue([op EXCEPT !.tile = @ + PrefillTile])
  ELSE IF op.layer + 2 < NumLayers
       THEN Continue([op EXCEPT !.layer = @ + 1, !.tile = 0])
       ELSE Finish(Ok)

NextPrefillLaunch ==
  IF op.tile + PrefillTile < op.len
  THEN Continue([op EXCEPT !.tile = @ + PrefillTile])
  ELSE IF op.layer + 1 < NumLayers
       THEN Continue([op EXCEPT !.layer = @ + 1, !.tile = 0])
       ELSE Finish(Ok)

PrefillLaunch ==
  /\ op.name = "prefill"
  /\ Xrt(DecoderLayer(op.layer, op.tile, TileSize(op.len, op.tile), 0, FALSE),
            UNCHANGED <<act, kv, logits>>,
            NextPrefillLaunch)
  /\ UNCHANGED <<host, vit>>

(* run_decode_ttft (one row) and run_decode_window: rows 0 .. window - 1 of   *)
(* the input buffer, whatever pos is; nothing bounds pos.                     *)
RunDecode(pos, window) ==
  /\ Callable
  /\ op' = [name |-> "decode", layer |-> 0, pos |-> pos, window |-> window]
  /\ UNCHANGED <<host, act, vit, kv, logits, ret>>

(* Mutant: run_lmhead is set on a layer the loop never reaches.               *)
DecodeLaunch_NoLmHead ==
  /\ op.name = "decode"
  /\ Xrt(DecoderLayer(op.layer, 0, op.window, op.pos, op.layer = NumLayers),
            UNCHANGED <<act, kv, logits>>,
            IF op.layer + 1 < NumLayers THEN Continue([op EXCEPT !.layer = @ + 1])
                                        ELSE Finish(Ok))
  /\ UNCHANGED <<host, vit>>

DecodeLaunch ==
  /\ op.name = "decode"
  /\ Xrt(DecoderLayer(op.layer, 0, op.window, op.pos, op.layer = NumLayers - 1),
            UNCHANGED <<act, kv, logits>>,
            IF op.layer + 1 < NumLayers THEN Continue([op EXCEPT !.layer = @ + 1])
                                        ELSE Finish(Ok))
  /\ UNCHANGED <<host, vit>>

(* Mutant: a row that does not exist is skipped without an error.             *)
WriteDecodeTokenActivation_Unchecked(pos, row) ==
  /\ Callable
  /\ host' = [host EXCEPT ![pos] = row]
  /\ Xrt(act' = [act EXCEPT !["ping"][pos] = row], UNCHANGED act, Finish(Ok))
  /\ UNCHANGED <<vit, kv, logits>>

WriteDecodeTokenActivation(pos, row) ==
  /\ Callable
  /\ \/ /\ pos < MaxSeq
        /\ host' = [host EXCEPT ![pos] = row]
        /\ Xrt(act' = [act EXCEPT !["ping"][pos] = host'[pos]],
               UNCHANGED act, Finish(Ok))
     \/ pos >= MaxSeq /\ Finish(Throws) /\ UNCHANGED <<host, act>>
  /\ UNCHANGED <<vit, kv, logits>>

(* The caller takes its copy of logits when the call returns ok.              *)
ReadLogits ==
  /\ Callable
  /\ ret' \in {Ok, Throws}
  /\ UNCHANGED <<host, act, vit, kv, logits, op>>

-----------------------------------------------------------------------------
(* A caller that uses the C API in any order.                                 *)

TextEmbeddings(r, n) == [k \in 1 .. n |-> Row(r, "txt", k)]
NoEmbeddings(n) == [k \in 1 .. n |-> Zeroed]

(* One embedding per text token; a caller may hand in more than are used.     *)
Embeddings(r, tokens) ==
  {TextEmbeddings(r, n) : n \in Before(tokens, Len(tokens) + 1, "txt") .. Len(tokens)}
    \cup {NoEmbeddings(Len(tokens))}

Call ==
  \/ \E r \in Requests, shape_ok \in BOOLEAN : WriteVisionPatches(r, shape_ok)
  \/ EncodeImage
  \/ \E r \in Requests, tokens \in Prompts :
       \E emb \in Embeddings(r, tokens) : BuildPrefillActivations(tokens, emb)
  \/ \E seq_len \in 0 .. MaxSeq + 1 : RunPrefill(seq_len)
  \/ \E pos \in 0 .. MaxSeq, window \in Windows : RunDecode(pos, window)
  \/ \E pos \in 0 .. MaxSeq, r \in Requests, g \in 0 .. MaxSeq :
       WriteDecodeTokenActivation(pos, Row(r, "gen", g))
  \/ ReadLogits

Step == EncodeLaunch \/ BridgeLaunch \/ PrefillLaunch \/ DecodeLaunch

Next == Call \/ Step \/ Return

Spec == Init /\ [][Next]_vars

-----------------------------------------------------------------------------
(* Properties.                                                                *)

Owners == Requests \cup {NoOne}
Kinds  == {"junk", "zero", "txt", "img", "unencoded", "gen"}
RowSet == [who : Owners, kind : Kinds, idx : Int, stage : Nat]
VitSet == [who : Owners, done : Seq({"patch", "qkv", "attn", "connector"})]
KvSet  == [row : RowSet, pos : Nat]

(* The calls in progress, with the arguments the code has checked by then.    *)
OpSet ==
  {IdleOp}
    \cup [name : {"encode"}, k : 1 .. Len(Pipeline)]
    \cup {o \in [name : {"bridge"}, tokens : Seq({"txt", "img"}), emb : Seq(RowSet)] :
            PromptLen(o.tokens) <= MaxSeq}
    \cup {o \in [name : {"prefill"}, layer : Layers, tile : Nat, len : 1 .. MaxSeq] :
            o.tile < o.len}
    \cup [name : {"decode"}, layer : Layers, pos : Nat, window : 1 .. MaxSeq]

(* Types of the runner's variables: a prefill launch always has a row to work *)
(* on, and a call in progress has not returned yet.                           *)
RunnerTypeOK ==
  /\ host \in [Rows -> RowSet]
  /\ act \in [{"ping", "pong"} -> [Rows -> RowSet]]
  /\ vit \in [{"act", "hidden", "tmp", "image_tokens"} -> VitSet]
  /\ kv \in [Layers -> [KvPos -> KvSet]]
  /\ logits \in KvSet
  /\ op \in OpSet
  /\ ret \in [rc : {"none", "ok", "error"}, seq_len : 0 .. MaxSeq]
  /\ op # IdleOp => ret = NoRet

(* The rows a prompt denotes, by a left-to-right reading: an image            *)
(* placeholder is the image's rows, a text token the next embedding; without  *)
(* a placeholder the image comes first.                                       *)
ReadToken(sofar, token, emb, image) ==
  IF token = "img"
  THEN [sofar EXCEPT !.rows = @ \o image]
  ELSE [rows |-> Append(sofar.rows, emb[sofar.texts + 1]), texts |-> sofar.texts + 1]
Denoted(tokens, emb, image) ==
  LET read[n \in 0 .. Len(tokens)] ==
        IF n = 0 THEN [rows |-> IF HasPlaceholder(tokens) THEN <<>> ELSE image, texts |-> 0]
                 ELSE ReadToken(read[n - 1], tokens[n], emb, image)
  IN  read[Len(tokens)].rows

EncodedImage ==
  [j \in 1 .. ImageTokens |->
     Row(vit["image_tokens"].who,
         IF vit["image_tokens"].done = Pipeline THEN "img" ELSE "unencoded", j)]

(* When build_prefill_activations returns ok for a prompt with at most one    *)
(* placeholder, the device holds exactly the prompt, image expanded in place, *)
(* whatever the buffers held before (memset, sync, then bridge).              *)
PrefillLayout ==
  [][(op.name = "bridge" /\ ret'.rc = "ok" /\ Before(op.tokens, Len(op.tokens) + 1, "img") <= 1)
       => LET want == Denoted(op.tokens, op.emb, EncodedImage)
          IN  /\ ret'.seq_len = Len(want)
              /\ \A t \in 1 .. Len(want) : act'["ping"][t - 1] = want[t]]_vars

(* When run_prefill returns ok, every layer of the cache holds, at each       *)
(* position of the prompt, K/V of the row at that very position.              *)
PrefillFillsKv ==
  [][(op.name = "prefill" /\ ret'.rc = "ok")
       => \A l \in Layers, p \in 0 .. op.len - 1 :
            /\ kv'[l][p].pos = p
            /\ kv'[l][p].row.who = act'["ping"][p].who
            /\ kv'[l][p].row.idx = act'["ping"][p].idx]_vars

(* Image tokens that went through the whole pipeline come from one image: no  *)
(* buffer of the chain is read after a later stage has overwritten it.        *)
EncodeOrder ==
  \A b \in DOMAIN vit : \E k \in 0 .. Len(Pipeline) : vit[b].done = SubSeq(Pipeline, 1, k)

=============================================================================
