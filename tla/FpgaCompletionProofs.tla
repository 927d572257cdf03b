------------------------- MODULE FpgaCompletionProofs -------------------------
(***************************************************************************)
(* The runner, for every number of layers, rows, tiles and image tokens,    *)
(* under a caller that calls in any order: types, the order of the vision   *)
(* launches, a prefill that fills the cache and, at the end of this module, *)
(* the layout of a prompt.  The lemmas about single operations are stated   *)
(* for any caller.                                                          *)
(* Then the completion path, whose caller is the server, for every number   *)
(* of requests, every set of prompts and every bound: types, one answer per *)
(* request, at most one generated token without a readable embedding table, *)
(* and positions past the rows only on the last token; that it implements   *)
(* CompletionService; and that the data of a request is its own from buffer *)
(* to buffer.                                                               *)
(***************************************************************************)
EXTENDS FpgaCompletion, FiniteSetTheorems, SequenceTheorems, WellFoundedInduction, TLAPS

-----------------------------------------------------------------------------
(* The runner.                                                                *)

Tokens == Seq({"txt", "img"})

(* What a caller owes build_prefill_activations: an embedding for every text  *)
(* token.                                                                     *)
Embedded(tokens, emb) ==
  emb \in Seq(RowSet) /\ Before(tokens, Len(tokens) + 1, "txt") <= Len(emb)

-----------------------------------------------------------------------------
(* Counting tokens.                                                           *)

(* The number of tokens in front of a place is a natural number.              *)
LEMMA BeforeType ==
  ASSUME NEW tokens, NEW i \in Int, NEW tok
  PROVE  /\ IsFiniteSet({j \in 1 .. i - 1 : tokens[j] = tok})
         /\ Before(tokens, i, tok) \in Nat
<1>1. IsFiniteSet(1 .. i - 1)
  BY FS_Interval
<1>2. {j \in 1 .. i - 1 : tokens[j] = tok} \subseteq 1 .. i - 1
  OBVIOUS
<1>3. IsFiniteSet({j \in 1 .. i - 1 : tokens[j] = tok})
  BY <1>1, <1>2, FS_Subset
<1>4. QED
  BY <1>3, FS_CardinalityType DEF Before

(* A token is counted from the next place on.                                 *)
LEMMA BeforeGrows ==
  ASSUME NEW tokens, NEW i \in Nat \ {0}, NEW k \in Int, i < k
  PROVE  Before(tokens, i, tokens[i]) + 1 <= Before(tokens, k, tokens[i])
<1> DEFINE S == {j \in 1 .. i - 1 : tokens[j] = tokens[i]}
           T == {j \in 1 .. k - 1 : tokens[j] = tokens[i]}
<1>1. IsFiniteSet(S) /\ IsFiniteSet(T)
  <2>1. i \in Int
    OBVIOUS
  <2>2. IsFiniteSet(S)
    BY <2>1, BeforeType, Zenon
  <2>3. IsFiniteSet(T)
    BY BeforeType, Zenon
  <2>4. QED
    BY <2>2, <2>3
<1>2. i \notin S /\ S \cup {i} \subseteq T
  OBVIOUS
<1>3. IsFiniteSet(S \cup {i}) /\ Cardinality(S \cup {i}) = Cardinality(S) + 1
  BY <1>1, <1>2, FS_AddElement
<1>4. Cardinality(S \cup {i}) <= Cardinality(T)
  BY <1>1, <1>2, FS_Subset
<1>5. QED
  BY <1>3, <1>4 DEF Before

(* The rows in front of a token, and those of the whole prompt.               *)
LEMMA OffsetType ==
  ASSUME NEW tokens, NEW i \in Int
  PROVE  OffsetOf(tokens, i) \in Nat
<1>1. Before(tokens, i, "txt") \in Nat /\ Before(tokens, i, "img") \in Nat
  BY BeforeType
<1>2. \A a, b \in Nat : a * b \in Nat
  OBVIOUS
<1>3. ImageTokens * Before(tokens, i, "img") \in Nat
  BY <1>1, <1>2, RunnerAssumption
<1>4. QED
  BY <1>1, <1>3 DEF OffsetOf

LEMMA PromptLenType ==
  ASSUME NEW tokens \in Tokens
  PROVE  PromptLen(tokens) \in Nat
<1>1. Len(tokens) + 1 \in Int
  BY DEF Tokens
<1>2. OffsetOf(tokens, Len(tokens) + 1) \in Nat
  BY <1>1, OffsetType
<1>3. Prepended(tokens) \in Nat
  BY RunnerAssumption DEF Prepended
<1>4. QED
  BY <1>2, <1>3 DEF PromptLen

(* A nonempty set of indices has a greatest one.                              *)
LEMMA GreatestIndex ==
  ASSUME NEW n \in Nat, NEW I \in SUBSET (1 .. n), I # {}
  PROVE  \E i \in I : \A j \in I : j <= i
<1> DEFINE D == {n - i : i \in I}
<1>1. D \subseteq Nat /\ D # {}
  <2>1. \A i \in I : n - i \in Nat
    OBVIOUS
  <2>2. D \subseteq Nat
    BY <2>1, Zenon
  <2>3. PICK i \in I : TRUE
    OBVIOUS
  <2>4. n - i \in D
    BY <2>3, Zenon
  <2>5. QED
    BY <2>2, <2>4
<1>2. PICK d \in D : \A e \in D : ~(<<e, d>> \in OpToRel(<, Nat))
  BY <1>1, NatLessThanWellFounded, WFMin, Zenon
<1>3. \A e \in D : ~(e < d)
  BY <1>1, <1>2 DEF OpToRel
<1>4. PICK i \in I : d = n - i
  OBVIOUS
<1>5. \A j \in I : ~(n - j < n - i)
  BY <1>3, <1>4
<1>6. QED
  BY <1>5

(* The destination of the image is the first row of the last placeholder.     *)
LEMMA ImageDstIs ==
  ASSUME NEW tokens \in Tokens, HasPlaceholder(tokens)
  PROVE  \E i \in DOMAIN tokens : /\ ImageDst(tokens) = OffsetOf(tokens, i)
                                  /\ tokens[i] = "img"
<1> DEFINE I == {i \in DOMAIN tokens : tokens[i] = "img"}
           Last(i) == tokens[i] = "img" /\ \A j \in i + 1 .. Len(tokens) : tokens[j] # "img"
<1>1. Len(tokens) \in Nat /\ DOMAIN tokens = 1 .. Len(tokens)
  BY DEF Tokens
<1>2. I \in SUBSET (1 .. Len(tokens)) /\ I # {}
  BY <1>1 DEF HasPlaceholder
<1>3. PICK m \in I : \A j \in I : j <= m
  BY <1>1, <1>2, GreatestIndex
<1>4. m \in DOMAIN tokens /\ Last(m)
  BY <1>1, <1>3
<1>5. PICK i \in DOMAIN tokens : i = (CHOOSE x \in DOMAIN tokens : Last(x)) /\ Last(i)
  BY <1>4
<1>6. ImageDst(tokens) = OffsetOf(tokens, i)
  BY <1>5 DEF ImageDst
<1>7. QED
  BY <1>5, <1>6

LEMMA ImageDstType ==
  ASSUME NEW tokens \in Tokens
  PROVE  ImageDst(tokens) \in Nat
<1>1. CASE HasPlaceholder(tokens)
  <2>1. PICK i \in DOMAIN tokens : ImageDst(tokens) = OffsetOf(tokens, i)
    BY <1>1, ImageDstIs
  <2>2. i \in Int
    BY DEF Tokens
  <2>3. QED
    BY <2>1, <2>2, OffsetType
<1>2. CASE ~HasPlaceholder(tokens)
  BY <1>2 DEF ImageDst
<1>3. QED
  BY <1>1, <1>2

-----------------------------------------------------------------------------
(* What is known of a call in progress from its name.                         *)

OpEncode  == [name : {"encode"}, k : 1 .. Len(Pipeline)]
OpBridge  == [name : {"bridge"}, tokens : Tokens, emb : Seq(RowSet)]
OpPrefill == [name : {"prefill"}, layer : Layers, tile : Nat, len : 1 .. MaxSeq]
OpDecode  == [name : {"decode"}, layer : Layers, pos : Nat, window : 1 .. MaxSeq]

LEMMA OpByName ==
  ASSUME op \in OpSet
  PROVE  /\ op.name = "idle" => op = IdleOp
         /\ op.name = "encode" => op \in OpEncode
         /\ op.name = "bridge" => op \in OpBridge /\ PromptLen(op.tokens) <= MaxSeq
         /\ op.name = "prefill" => op \in OpPrefill /\ op.tile < op.len
         /\ op.name = "decode" => op \in OpDecode
BY DEF OpSet, IdleOp, OpEncode, OpBridge, OpPrefill, OpDecode, Tokens

LEMMA OpIntro ==
  /\ IdleOp \in OpSet
  /\ OpEncode \subseteq OpSet
  /\ \A o \in OpBridge : PromptLen(o.tokens) <= MaxSeq => o \in OpSet
  /\ \A o \in OpPrefill : o.tile < o.len => o \in OpSet
  /\ OpDecode \subseteq OpSet
BY DEF OpSet, OpEncode, OpBridge, OpPrefill, OpDecode, Tokens

-----------------------------------------------------------------------------
(* One lemma per operation: it keeps RunnerTypeOK.                            *)

RetSet == [rc : {"none", "ok", "error"}, seq_len : 0 .. MaxSeq]

LEMMA RetTypes == {NoRet, Ok, Throws} \subseteq RetSet
BY RunnerAssumption DEF RetSet, NoRet, Ok, Throws

LEMMA RowTypes ==
  /\ Junk \in RowSet /\ Zeroed \in RowSet
  /\ \A w \in Owners, kind \in Kinds, idx \in Int : Row(w, kind, idx) \in RowSet
<1>1. \A w \in Owners, kind \in Kinds, idx \in Int : Row(w, kind, idx) \in RowSet
  BY DEF Row, RowSet
<1>2. NoOne \in Owners
  BY DEF Owners
<1>3. "junk" \in Kinds /\ "zero" \in Kinds
  BY DEF Kinds
<1>4. QED
  BY <1>1, <1>2, <1>3 DEF Junk, Zeroed

LEMMA InitType == Init => RunnerTypeOK
<1> SUFFICES ASSUME Init PROVE RunnerTypeOK
  OBVIOUS
<1>1. NoKv \in KvSet /\ NoLogits \in KvSet
  BY RowTypes DEF NoKv, NoLogits, KvSet
<1>2. NoImage \in VitSet
  BY DEF NoImage, Owners, VitSet
<1>3. QED
  BY <1>1, <1>2, RowTypes, RetTypes, OpIntro DEF Init, RunnerTypeOK, RetSet

LEMMA ReturnType ==
  ASSUME RunnerTypeOK, Return
  PROVE  RunnerTypeOK'
BY RetTypes DEF RunnerTypeOK, Return, RetSet

LEMMA WriteVisionPatchesType ==
  ASSUME RunnerTypeOK, NEW r \in Requests, NEW shape_ok \in BOOLEAN,
         WriteVisionPatches(r, shape_ok)
  PROVE  RunnerTypeOK'
<1>1. [who |-> r, done |-> <<>>] \in VitSet
  BY DEF Owners, VitSet
<1>2. vit' \in [{"act", "hidden", "tmp", "image_tokens"} -> VitSet]
  BY <1>1 DEF RunnerTypeOK, WriteVisionPatches, Xrt
<1>3. op' = IdleOp /\ ret' \in RetSet
  BY RetTypes DEF WriteVisionPatches, Xrt, Finish
<1>4. QED
  BY <1>2, <1>3, OpIntro DEF RunnerTypeOK, WriteVisionPatches, RetSet

LEMMA EncodeImageType ==
  ASSUME RunnerTypeOK, EncodeImage
  PROVE  RunnerTypeOK'
<1>1. [name |-> "encode", k |-> 1] \in OpEncode
  BY DEF OpEncode, Pipeline
<1>2. QED
  BY <1>1, OpIntro DEF RunnerTypeOK, EncodeImage, Callable

LEMMA EncodeLaunchType ==
  ASSUME RunnerTypeOK, EncodeLaunch
  PROVE  RunnerTypeOK'
<1>1. op \in OpEncode
  BY OpByName DEF RunnerTypeOK, EncodeLaunch
<1>2. op.k \in 1 .. 4 /\ Len(Pipeline) = 4
  BY <1>1 DEF OpEncode, Pipeline
<1>3. EncodeSrc[op.k] \in DOMAIN vit /\ EncodeDst[op.k] \in DOMAIN vit /\ Pipeline[op.k] \in {"patch", "qkv", "attn", "connector"}
  <2>1. op.k = 1 \/ op.k = 2 \/ op.k = 3 \/ op.k = 4
    BY <1>2
  <2>2. DOMAIN vit = {"act", "hidden", "tmp", "image_tokens"}
    BY DEF RunnerTypeOK
  <2>3. QED
    BY <2>1, <2>2 DEF EncodeSrc, EncodeDst, Pipeline
<1>4. Through(vit[EncodeSrc[op.k]], Pipeline[op.k]) \in VitSet
  <2>1. vit[EncodeSrc[op.k]] \in VitSet
    BY <1>3 DEF RunnerTypeOK
  <2>2. \A v \in VitSet, k \in {"patch", "qkv", "attn", "connector"} :
          Through(v, k) \in VitSet
    BY DEF Through, VitSet
  <2>3. QED
    BY <1>3, <2>1, <2>2
<1>5. op.k # 4 => [op EXCEPT !.k = @ + 1] \in OpSet
  BY <1>1, <1>2, OpIntro DEF OpEncode
<1>6. vit' \in [{"act", "hidden", "tmp", "image_tokens"} -> VitSet]
  BY <1>4 DEF RunnerTypeOK, EncodeLaunch, Xrt
<1>7. op' \in OpSet /\ ret' \in RetSet /\ (op' # IdleOp => ret' = NoRet)
  BY <1>1, <1>2, <1>5, RetTypes, OpIntro
     DEF RunnerTypeOK, EncodeLaunch, Xrt, Finish, Continue, RetSet, IdleOp, OpEncode
<1>8. QED
  BY <1>6, <1>7 DEF RunnerTypeOK, EncodeLaunch, RetSet

-----------------------------------------------------------------------------
(* The vision chain.                                                          *)

(* A launch of encode_image runs its kernel from the buffer the one before it *)
(* wrote into the one the next will read; act keeps the patches.              *)
LEMMA EncodeMoves ==
  ASSUME RunnerTypeOK, EncodeLaunch
  PROVE  /\ op.name = "encode" /\ op.k \in 1 .. 4 /\ vit[EncodeSrc[op.k]] \in VitSet
         /\ vit'["act"] = vit["act"]
         /\ \A b \in DOMAIN vit : vit'[b] \in {vit[b], Through(vit[EncodeSrc[op.k]], Pipeline[op.k])}
         /\ \/ op' = IdleOp /\ ret' = Throws
            \/ /\ op.k # 4 /\ op' = [name |-> "encode", k |-> op.k + 1] /\ ret' = NoRet
               /\ vit'[EncodeSrc[op.k + 1]] = Through(vit[EncodeSrc[op.k]], Pipeline[op.k])
            \/ /\ op.k = 4 /\ op' = IdleOp /\ ret' = Ok
               /\ vit'["image_tokens"] = Through(vit[EncodeSrc[op.k]], Pipeline[op.k])
<1>1. op \in OpEncode /\ op.name = "encode"
  BY OpByName DEF RunnerTypeOK, EncodeLaunch
<1>2. op.k \in 1 .. 4 /\ op.k \in {1, 2, 3, 4} /\ Len(Pipeline) = 4
  BY <1>1 DEF OpEncode, Pipeline
<1>3. /\ EncodeSrc[op.k] \in DOMAIN vit /\ EncodeDst[op.k] \in DOMAIN vit
      /\ EncodeDst[op.k] # "act"
      /\ op.k # 4 => EncodeSrc[op.k + 1] = EncodeDst[op.k]
      /\ op.k = 4 => EncodeDst[op.k] = "image_tokens"
  <2>1. DOMAIN vit = {"act", "hidden", "tmp", "image_tokens"}
    BY DEF RunnerTypeOK
  <2>2. CASE op.k = 1
    BY <2>1, <2>2 DEF EncodeSrc, EncodeDst
  <2>3. CASE op.k = 2
    BY <2>1, <2>3 DEF EncodeSrc, EncodeDst
  <2>4. CASE op.k = 3
    BY <2>1, <2>4 DEF EncodeSrc, EncodeDst
  <2>5. CASE op.k = 4
    BY <2>1, <2>5 DEF EncodeSrc, EncodeDst
  <2>6. QED
    BY <1>2, <2>2, <2>3, <2>4, <2>5
<1>4. vit[EncodeSrc[op.k]] \in VitSet
  BY <1>3 DEF RunnerTypeOK
<1> DEFINE through == Through(vit[EncodeSrc[op.k]], Pipeline[op.k])
           effect == vit' = [vit EXCEPT ![EncodeDst[op.k]] = through]
<1>5. ret = NoRet
  <2>1. op # IdleOp
    BY <1>1 DEF IdleOp
  <2>2. QED
    BY <2>1 DEF RunnerTypeOK
<1>6. /\ effect \/ UNCHANGED vit
      /\ \/ effect /\ op.k # 4 /\ op' = [op EXCEPT !.k = @ + 1] /\ ret' = NoRet
         \/ effect /\ op.k = 4 /\ op' = IdleOp /\ ret' = Ok
         \/ op' = IdleOp /\ ret' = Throws
  BY <1>2, <1>5 DEF EncodeLaunch, Xrt, Continue, Finish
<1> HIDE DEF through
<1>7. effect => vit'[EncodeDst[op.k]] = through /\ vit'["act"] = vit["act"]
  <2>1. "act" \in DOMAIN vit
    BY DEF RunnerTypeOK
  <2>2. QED
    BY <1>3, <2>1
<1>8. [op EXCEPT !.k = @ + 1] = [name |-> "encode", k |-> op.k + 1]
  BY <1>1 DEF OpEncode
<1>9. effect => \A b \in DOMAIN vit : vit'[b] \in {vit[b], through}
  BY <1>3
<1> HIDE DEF effect
<1>10. /\ vit'["act"] = vit["act"]
       /\ \A b \in DOMAIN vit : vit'[b] \in {vit[b], through}
  BY <1>6, <1>7, <1>9
<1>11. QED
  BY <1>1, <1>2, <1>3, <1>4, <1>6, <1>7, <1>8, <1>10 DEF through

(* The first n kernels an image goes through.                                 *)
Passed(n) == [i \in 1 .. n |-> Pipeline[i]]

(* A prefix of a sequence grows by the next element.                          *)
LEMMA PrefixGrows ==
  ASSUME NEW K, NEW s \in Seq(K), NEW n \in Nat, n < Len(s)
  PROVE  Append([i \in 1 .. n |-> s[i]], s[n + 1]) = [i \in 1 .. n + 1 |-> s[i]]
<1> DEFINE e == s[n + 1]
           q == [i \in 1 .. n |-> s[i]]
<1>1. e \in K /\ q \in Seq(K) /\ Len(q) = n
  OBVIOUS
<1>2. \A i \in 1 .. n : q[i] = s[i]
  OBVIOUS
<1> HIDE DEF q
<1>3. Append(q, e) = [i \in 1 .. n + 1 |-> IF i = n + 1 THEN e ELSE q[i]]
  BY <1>1
<1>4. Append(q, e) = [i \in 1 .. n + 1 |-> s[i]]
  BY <1>2, <1>3
<1>5. QED
  BY <1>4 DEF q

(* A launch of encode_image takes the image one kernel further.               *)
LEMMA EncodePasses ==
  ASSUME RunnerTypeOK, EncodeLaunch, vit[EncodeSrc[op.k]].done = Passed(op.k - 1)
  PROVE  /\ vit'["act"] = vit["act"]
         /\ \A b \in DOMAIN vit : vit'[b] = vit[b] \/ vit'[b].done = Passed(op.k)
         /\ op'.name = "encode" => vit'[EncodeSrc[op'.k]].done = Passed(op'.k - 1)
         /\ ret'.rc = "ok" => vit'["image_tokens"].done = Pipeline
         /\ op' = IdleOp \/ op'.name = "encode"
<1> DEFINE through == Through(vit[EncodeSrc[op.k]], Pipeline[op.k])
<1>1. through.done = Append(Passed(op.k - 1), Pipeline[op.k])
  BY EncodeMoves DEF Through, VitSet
<1>2. IdleOp.name # "encode" /\ Throws.rc # "ok" /\ NoRet.rc # "ok"
  BY DEF IdleOp, Throws, NoRet
<1>3. \A b \in DOMAIN vit : vit'[b] = vit[b] \/ vit'[b] = through
  BY EncodeMoves
<1>4. op.k \in 1 .. 4 /\ Len(Pipeline) = 4
  BY EncodeMoves DEF Pipeline
<1>5. Append(Passed(op.k - 1), Pipeline[op.k]) = Passed(op.k)
  <2>1. op.k - 1 \in Nat /\ op.k - 1 < Len(Pipeline) /\ op.k - 1 + 1 = op.k
    BY <1>4
  <2>2. Pipeline \in Seq({"patch", "qkv", "attn", "connector"})
    BY DEF Pipeline
  <2>3. QED
    BY <2>1, <2>2, PrefixGrows DEF Passed
<1>6. Passed(4) = Pipeline
  <2>1. \A K : \A s \in Seq(K) : s = [i \in 1 .. Len(s) |-> s[i]]
    OBVIOUS
  <2>2. Pipeline \in Seq({"patch", "qkv", "attn", "connector"})
    BY DEF Pipeline
  <2>3. QED
    BY <1>4, <2>1, <2>2 DEF Passed
<1>7. through.done = Passed(op.k) /\ (op.k = 4 => through.done = Pipeline)
  BY <1>1, <1>5, <1>6
<1> HIDE DEF through
<1>8. \A k \in 1 .. 4 : k + 1 - 1 = k
  OBVIOUS
<1>9. QED
  BY <1>2, <1>3, <1>4, <1>7, <1>8, EncodeMoves DEF through

-----------------------------------------------------------------------------
(* The prompt in the activation buffer.                                       *)

(* The embedding copied for a text token is one the caller handed in.         *)
LEMMA CopiedHere ==
  ASSUME NEW tokens \in Tokens, NEW emb, Embedded(tokens, emb),
         NEW pre \in Int, NEW t \in Int, NEW old,
         {i \in DOMAIN tokens : tokens[i] = "txt" /\ pre + OffsetOf(tokens, i) = t} # {}
  PROVE  \E k \in 1 .. Len(emb) : Copied(tokens, emb, pre, t, old) = emb[k]
<1> DEFINE here == {i \in DOMAIN tokens : tokens[i] = "txt" /\ pre + OffsetOf(tokens, i) = t}
<1>1. PICK i \in here : i = (CHOOSE x \in here : TRUE)
  OBVIOUS
<1>2. i \in Nat \ {0} /\ i < Len(tokens) + 1 /\ Len(tokens) + 1 \in Int /\ tokens[i] = "txt"
  BY DEF Tokens
<1>3. Before(tokens, i, "txt") + 1 <= Before(tokens, Len(tokens) + 1, "txt")
  BY <1>2, BeforeGrows
<1>4. Before(tokens, i, "txt") \in Nat /\ Before(tokens, Len(tokens) + 1, "txt") \in Nat
  <2>1. i \in Int
    BY <1>2
  <2>2. QED
    BY <1>2, <2>1, BeforeType
<1>5. Before(tokens, i, "txt") + 1 \in 1 .. Len(emb)
  BY <1>3, <1>4 DEF Embedded
<1>6. Copied(tokens, emb, pre, t, old) = emb[Before(tokens, i, "txt") + 1]
  BY <1>1 DEF Copied
<1>7. QED
  BY <1>5, <1>6

(* A row is what it was or such an embedding.                                 *)
LEMMA CopiedFrom ==
  ASSUME NEW tokens \in Tokens, NEW emb, Embedded(tokens, emb),
         NEW pre \in Int, NEW t \in Int, NEW old
  PROVE  \/ Copied(tokens, emb, pre, t, old) = old
         \/ \E k \in 1 .. Len(emb) : Copied(tokens, emb, pre, t, old) = emb[k]
<1> DEFINE here == {i \in DOMAIN tokens : tokens[i] = "txt" /\ pre + OffsetOf(tokens, i) = t}
<1>1. CASE here = {}
  BY <1>1 DEF Copied
<1>2. CASE here # {}
  BY <1>2, CopiedHere
<1>3. QED
  BY <1>1, <1>2

LEMMA CopiedType ==
  ASSUME NEW tokens \in Tokens, NEW emb, Embedded(tokens, emb),
         NEW pre \in Int, NEW t \in Int, NEW old \in RowSet
  PROVE  Copied(tokens, emb, pre, t, old) \in RowSet
<1>1. \A k \in 1 .. Len(emb) : emb[k] \in RowSet
  BY DEF Embedded
<1>2. QED
  BY <1>1, CopiedFrom

LEMMA StagedType ==
  ASSUME NEW tokens \in Tokens, NEW emb, Embedded(tokens, emb), NEW t \in Rows
  PROVE  FirstPass(tokens, emb, t) \in RowSet /\ Staged(tokens, emb, t) \in RowSet
<1>1. t \in Int /\ 0 \in Int /\ Prepended(tokens) \in Int
  BY RunnerAssumption DEF Rows, Prepended
<1>2. FirstPass(tokens, emb, t) \in RowSet
  BY <1>1, RowTypes, CopiedType DEF FirstPass
<1>3. QED
  BY <1>1, <1>2, CopiedType DEF Staged

LEMMA BuildPrefillActivationsType ==
  ASSUME RunnerTypeOK, NEW tokens \in Tokens, NEW emb, Embedded(tokens, emb),
         BuildPrefillActivations(tokens, emb)
  PROVE  RunnerTypeOK'
<1>1. host' \in [Rows -> RowSet]
  BY StagedType DEF BuildPrefillActivations
<1>2. act' \in [{"ping", "pong"} -> [Rows -> RowSet]]
  BY <1>1 DEF BuildPrefillActivations, RunnerTypeOK, Xrt
<1>3. PromptLen(tokens) <= MaxSeq => [name |-> "bridge", tokens |-> tokens, emb |-> emb] \in OpSet
  BY OpIntro DEF OpBridge, Embedded
<1>4. op' \in OpSet /\ ret' \in RetSet /\ (op' # IdleOp => ret' = NoRet)
  BY <1>3, RetTypes, OpIntro
     DEF BuildPrefillActivations, Xrt, Finish, Continue, Callable, RunnerTypeOK
<1>5. QED
  BY <1>1, <1>2, <1>4 DEF RunnerTypeOK, BuildPrefillActivations, RetSet

LEMMA BridgeLaunchType ==
  ASSUME RunnerTypeOK, BridgeLaunch
  PROVE  RunnerTypeOK'
<1>1. op \in OpBridge /\ PromptLen(op.tokens) <= MaxSeq
  BY OpByName DEF RunnerTypeOK, BridgeLaunch
<1>2. op.tokens \in Tokens
  BY <1>1 DEF OpBridge
<1>3. \A t \in Rows : BridgedRow(t) \in RowSet
  <2>1. vit["image_tokens"].who \in Owners
    BY DEF RunnerTypeOK, VitSet
  <2>2. \A t \in Rows : t + 1 - ImageDst(op.tokens) \in Int
    BY <1>2, ImageDstType DEF Rows
  <2>3. QED
    BY <2>1, <2>2, RowTypes DEF BridgedRow, Kinds
<1>4. act' \in [{"ping", "pong"} -> [Rows -> RowSet]]
  BY <1>3 DEF BridgeLaunch, RunnerTypeOK, Xrt
<1>5. [rc |-> "ok", seq_len |-> PromptLen(op.tokens)] \in RetSet
  BY <1>1, <1>2, PromptLenType, RunnerAssumption DEF RetSet
<1>6. op' = IdleOp /\ ret' \in RetSet
  BY <1>5, RetTypes DEF BridgeLaunch, Xrt, Finish
<1>7. QED
  BY <1>4, <1>6, OpIntro DEF RunnerTypeOK, BridgeLaunch, RetSet

LEMMA RunPrefillType ==
  ASSUME RunnerTypeOK, NEW length \in Nat, RunPrefill(length)
  PROVE  RunnerTypeOK'
<1>1. length \in 1 .. MaxSeq
        => [name |-> "prefill", layer |-> 0, tile |-> 0, len |-> length] \in OpSet
  BY OpIntro, RunnerAssumption DEF OpPrefill, Layers
<1>2. op' \in OpSet /\ ret' \in RetSet /\ (op' # IdleOp => ret' = NoRet)
  BY <1>1, RetTypes, OpIntro DEF RunPrefill, Callable, RunnerTypeOK
<1>3. QED
  BY <1>2 DEF RunnerTypeOK, RunPrefill, RetSet

LEMMA RunDecodeType ==
  ASSUME RunnerTypeOK, NEW pos \in Nat, NEW window \in 1 .. MaxSeq, RunDecode(pos, window)
  PROVE  RunnerTypeOK'
<1>1. [name |-> "decode", layer |-> 0, pos |-> pos, window |-> window] \in OpSet
  BY OpIntro, RunnerAssumption DEF OpDecode, Layers
<1>2. QED
  BY <1>1 DEF RunnerTypeOK, RunDecode, Callable

LEMMA WriteDecodeTokenActivationType ==
  ASSUME RunnerTypeOK, NEW pos \in Nat, NEW row \in RowSet,
         WriteDecodeTokenActivation(pos, row)
  PROVE  RunnerTypeOK'
<1>1. host' \in [Rows -> RowSet]
  BY DEF RunnerTypeOK, WriteDecodeTokenActivation
<1>2. act' \in [{"ping", "pong"} -> [Rows -> RowSet]]
  <2>1. CASE act' = [act EXCEPT !["ping"][pos] = host'[pos]] /\ pos < MaxSeq
    <3>1. pos \in Rows
      BY <2>1, RunnerAssumption DEF Rows
    <3>2. host'[pos] \in RowSet
      BY <1>1, <3>1
    <3>3. QED
      BY <2>1, <3>1, <3>2 DEF RunnerTypeOK
  <2>2. CASE UNCHANGED act
    BY <2>2 DEF RunnerTypeOK
  <2>3. QED
    BY <2>1, <2>2 DEF WriteDecodeTokenActivation, Xrt
<1>3. op' = IdleOp /\ ret' \in RetSet
  BY RetTypes DEF WriteDecodeTokenActivation, Xrt, Finish
<1>4. QED
  BY <1>1, <1>2, <1>3, OpIntro DEF RunnerTypeOK, WriteDecodeTokenActivation, RetSet

LEMMA ReadLogitsType ==
  ASSUME RunnerTypeOK, ReadLogits
  PROVE  RunnerTypeOK'
BY RetTypes DEF RunnerTypeOK, ReadLogits, Callable, RetSet

-----------------------------------------------------------------------------
(* Kernel launches of the decoder.                                            *)

LEMMA TileBounds ==
  ASSUME NEW len \in Nat, NEW tile \in Nat, tile < len
  PROVE  /\ TileSize(len, tile) \in Nat \ {0}
         /\ tile + TileSize(len, tile) <= len
BY RunnerAssumption DEF TileSize

(* One layer over rows that exist keeps the types of what it writes.          *)
LEMMA DecoderLayerType ==
  ASSUME RunnerTypeOK,
         NEW l \in Layers, NEW off \in Nat, NEW count \in Nat \ {0}, NEW pos \in Nat,
         NEW run_lmhead, off + count <= MaxSeq,
         DecoderLayer(l, off, count, pos, run_lmhead)
  PROVE  /\ act' \in [{"ping", "pong"} -> [Rows -> RowSet]]
         /\ kv' \in [Layers -> [KvPos -> KvSet]]
         /\ logits' \in KvSet
<1> DEFINE in == act[ActIn(l)]
           work == off .. off + count - 1
           wrote(c) == {t \in work : c \in KvCells(l, pos + t)}
<1>1. ActIn(l) \in {"ping", "pong"} /\ ActOut(l) \in {"ping", "pong"}
  BY DEF ActIn, ActOut, ArgPing, ArgPong
<1>2. in \in [Rows -> RowSet]
  BY <1>1 DEF RunnerTypeOK
<1>3. work \subseteq Rows /\ off + count - 1 \in work /\ work \subseteq Nat
  BY RunnerAssumption DEF Rows
<1>4. l + 1 \in Nat
  BY RunnerAssumption DEF Layers
<1>5. \A t \in Rows : [in[t] EXCEPT !.stage = l + 1] \in RowSet
  BY <1>2, <1>4 DEF RowSet
<1>6. act' \in [{"ping", "pong"} -> [Rows -> RowSet]]
  BY <1>1, <1>5 DEF DecoderLayer, RunnerTypeOK
<1>7. \A t \in work : [row |-> in[t], pos |-> pos + t] \in KvSet
  BY <1>2, <1>3 DEF KvSet
<1>8. ASSUME NEW m \in Layers, NEW p \in KvPos
      PROVE  (IF wrote(<<m, p>>) = {} THEN kv[m][p]
              ELSE LET t == CHOOSE t \in wrote(<<m, p>>) : TRUE
                   IN  [row |-> in[t], pos |-> pos + t]) \in KvSet
  <2>1. CASE wrote(<<m, p>>) = {}
    <3>1. kv[m][p] \in KvSet
      BY DEF RunnerTypeOK
    <3> HIDE DEF wrote
    <3>2. QED
      BY <2>1, <3>1
  <2>2. CASE wrote(<<m, p>>) # {}
    <3>1. \E t \in wrote(<<m, p>>) : TRUE
      BY <2>2
    <3>2. wrote(<<m, p>>) \subseteq work
      OBVIOUS
    <3> HIDE DEF wrote, work
    <3>3. (CHOOSE t \in wrote(<<m, p>>) : TRUE) \in work
      BY ONLY <3>1, <3>2
    <3>4. QED
      BY <2>2, <3>3, <1>7
  <2>3. QED
    BY <2>1, <2>2
<1>9. kv' \in [Layers -> [KvPos -> KvSet]]
  BY <1>8 DEF DecoderLayer
<1>10. logits' \in KvSet
  BY <1>3, <1>7 DEF DecoderLayer, RunnerTypeOK
<1>11. QED
  BY <1>6, <1>9, <1>10

(* A decoder layer changes of a row only its stage, and the scores are those   *)
(* of the last row it worked on.                                              *)
LEMMA LayerKeepsRows ==
  ASSUME RunnerTypeOK,
         NEW l \in Layers, NEW off \in Nat, NEW count \in Nat \ {0}, NEW pos \in Nat,
         NEW run_lmhead \in BOOLEAN, off + count <= MaxSeq,
         DecoderLayer(l, off, count, pos, run_lmhead)
  PROVE  /\ \A t \in Rows : /\ act'["ping"][t].who = act["ping"][t].who
                            /\ act'["ping"][t].kind = act["ping"][t].kind
                            /\ act'["ping"][t].idx = act["ping"][t].idx
         /\ run_lmhead => logits'.row = act["ping"][off + count - 1]
<1> DEFINE work == off .. off + count - 1
           out == [t \in Rows |->
                     IF t \in work THEN [act["ping"][t] EXCEPT !.stage = l + 1] ELSE act[ActOut(l)][t]]
<1>1. ActIn(l) = "ping" /\ ActOut(l) \in {"ping", "pong"}
  BY DEF ActIn, ActOut, ArgPing, ArgPong
<1>2. act' = [act EXCEPT ![ActOut(l)] = out]
  BY <1>1 DEF DecoderLayer
<1>3. \A t \in Rows : act["ping"][t] \in RowSet
  BY DEF RunnerTypeOK
<1>4. ActOut(l) = "ping" => \A t \in Rows : /\ out[t].who = act["ping"][t].who
                                            /\ out[t].kind = act["ping"][t].kind
                                            /\ out[t].idx = act["ping"][t].idx
  BY <1>3 DEF RowSet
<1> HIDE DEF out
<1>5. (act'["ping"] = out /\ ActOut(l) = "ping") \/ act'["ping"] = act["ping"]
  BY <1>1, <1>2 DEF RunnerTypeOK
<1>6. run_lmhead => logits'.row = act["ping"][off + count - 1]
  BY <1>1 DEF DecoderLayer
<1>7. QED
  BY <1>4, <1>5, <1>6

(* Within the cache's stride a layer writes the K/V of its rows at their      *)
(* positions, and nothing else.                                               *)
LEMMA LayerFillsCache ==
  ASSUME NEW l \in Layers, NEW off \in Nat, NEW count \in Nat \ {0}, NEW pos \in Nat,
         NEW run_lmhead, pos + off + count <= HwMaxSeq,
         DecoderLayer(l, off, count, pos, run_lmhead),
         NEW m \in Layers, NEW p \in KvPos
  PROVE  kv'[m][p] = IF m = l /\ p - pos \in off .. off + count - 1
                     THEN [row |-> act["ping"][p - pos], pos |-> p]
                     ELSE kv[m][p]
<1> DEFINE work == off .. off + count - 1
           wrote == {t \in work : <<m, p>> \in KvCells(l, pos + t)}
<1>1. ActIn(l) = "ping"
  BY DEF ActIn, ArgPing, ArgPong
<1>2. kv'[m][p] = IF wrote = {} THEN kv[m][p]
                  ELSE LET t == CHOOSE t \in wrote : TRUE
                       IN  [row |-> act["ping"][t], pos |-> pos + t]
  BY <1>1 DEF DecoderLayer
<1>3. p \in Int
  BY RunnerAssumption DEF KvPos
<1>4. \A t \in work : KvCells(l, pos + t) = {<<l, pos + t>>}
  BY RunnerAssumption DEF KvCells
<1>5. \A t \in work : <<m, p>> \in KvCells(l, pos + t) <=> (m = l /\ t = p - pos)
  <2>1. \A t \in work : <<m, p>> \in KvCells(l, pos + t) <=> (m = l /\ p = pos + t)
    BY <1>4
  <2>2. \A t \in work : t \in Int
    OBVIOUS
  <2>3. QED
    BY <1>3, <2>1, <2>2
<1>6. CASE m = l /\ p - pos \in work
  <2>1. wrote = {p - pos}
    BY <1>5, <1>6
  <2> HIDE DEF wrote
  <2>2. (CHOOSE t \in wrote : TRUE) = p - pos
    BY <2>1
  <2>3. pos + (p - pos) = p
    BY <1>3
  <2>4. QED
    BY <1>2, <1>6, <2>1, <2>2, <2>3
<1>7. CASE ~(m = l /\ p - pos \in work)
  <2>1. wrote = {}
    BY <1>5, <1>7
  <2>2. QED
    BY <1>2, <1>7, <2>1
<1>8. QED
  BY <1>6, <1>7

(* The cells of the cache that prefill has come to by the call in progress.   *)
PrefillReached(call, l, p) == l < call.layer \/ (l = call.layer /\ p < call.tile)

(* One tile after the other, one layer after the other; run_prefill ends well *)
(* only with the last tile of the last layer.                                 *)
LEMMA PrefillMoves ==
  ASSUME RunnerTypeOK, PrefillLaunch
  PROVE  /\ op'.name = "prefill" =>
              /\ op'.len = op.len
              /\ \A l \in Layers, p \in 0 .. op.len - 1 : PrefillReached(op', l, p) =>
                   \/ kv'[l][p] = [row |-> act["ping"][p], pos |-> p]
                   \/ kv'[l][p] = kv[l][p] /\ PrefillReached(op, l, p)
         /\ ret'.rc = "ok" => \A l \in Layers, p \in 0 .. op.len - 1 :
                                \/ kv'[l][p] = [row |-> act["ping"][p], pos |-> p]
                                \/ kv'[l][p] = kv[l][p] /\ PrefillReached(op, l, p)
         /\ \A t \in Rows : /\ act'["ping"][t].who = act["ping"][t].who
                            /\ act'["ping"][t].kind = act["ping"][t].kind
                            /\ act'["ping"][t].idx = act["ping"][t].idx
<1> DEFINE size == TileSize(op.len, op.tile)
           lm == FALSE
           layer == DecoderLayer(op.layer, op.tile, size, 0, lm)
           Cell(l, p) == \/ kv'[l][p] = [row |-> act["ping"][p], pos |-> p]
                         \/ kv'[l][p] = kv[l][p] /\ PrefillReached(op, l, p)
<1>1. op \in OpPrefill /\ op.tile < op.len /\ op.name = "prefill"
  BY OpByName DEF RunnerTypeOK, PrefillLaunch
<1>2. /\ op.layer \in Layers /\ op.layer \in Nat /\ op.tile \in Nat /\ op.len \in Nat
      /\ op.len <= MaxSeq /\ MaxSeq \in Nat /\ HwMaxSeq \in Nat /\ MaxSeq <= HwMaxSeq
      /\ NumLayers \in Nat
  BY <1>1, RunnerAssumption DEF OpPrefill, Layers
<1>3. size \in Nat \ {0} /\ op.tile + size <= op.len
  BY <1>1, <1>2, TileBounds
<1>4. size <= PrefillTile /\ (size = PrefillTile \/ op.tile + size = op.len)
  BY <1>2, RunnerAssumption DEF TileSize
<1>5. ret = NoRet /\ NoRet.rc # "ok" /\ Throws.rc # "ok" /\ IdleOp.name # "prefill"
  <2>1. op # IdleOp
    BY <1>1 DEF IdleOp
  <2>2. QED
    BY <2>1 DEF RunnerTypeOK, NoRet, Throws, IdleOp
<1>6. \/ layer /\ NextPrefillLaunch
      \/ (layer \/ UNCHANGED act) /\ op' = IdleOp /\ ret' = Throws
  BY DEF PrefillLaunch, Xrt, Finish
<1> HIDE DEF size
<1>7. \A t \in Rows : /\ act'["ping"][t].who = act["ping"][t].who
                      /\ act'["ping"][t].kind = act["ping"][t].kind
                      /\ act'["ping"][t].idx = act["ping"][t].idx
  <2>1. op.tile + size <= MaxSeq /\ 0 \in Nat /\ lm \in BOOLEAN
    BY <1>2, <1>3
  <2> HIDE DEF lm
  <2>2. layer => \A t \in Rows : /\ act'["ping"][t].who = act["ping"][t].who
                                 /\ act'["ping"][t].kind = act["ping"][t].kind
                                 /\ act'["ping"][t].idx = act["ping"][t].idx
    BY <1>2, <1>3, <2>1, LayerKeepsRows
  <2> HIDE DEF layer
  <2>3. QED
    BY <1>6, <2>2
<1>8. ASSUME layer, NEW l \in Layers, NEW p \in 0 .. op.len - 1,
             l < op.layer \/ (l = op.layer /\ p < op.tile + size)
      PROVE  Cell(l, p)
  <2>1. p \in KvPos /\ p \in Nat /\ p - 0 = p /\ l \in Nat
    BY <1>2 DEF KvPos, Layers
  <2>2. kv'[l][p] = IF l = op.layer /\ p \in op.tile .. op.tile + size - 1
                    THEN [row |-> act["ping"][p], pos |-> p]
                    ELSE kv[l][p]
    <3>1. 0 + op.tile + size <= HwMaxSeq /\ 0 \in Nat
      BY <1>2, <1>3
    <3>2. DecoderLayer(op.layer, op.tile, size, 0, lm)
      BY <1>8
    <3> HIDE DEF layer, lm
    <3>3. kv'[l][p] = IF l = op.layer /\ p - 0 \in op.tile .. op.tile + size - 1
                      THEN [row |-> act["ping"][p - 0], pos |-> p]
                      ELSE kv[l][p]
      BY <1>2, <1>3, <2>1, <3>1, <3>2, LayerFillsCache
    <3>4. QED
      BY <2>1, <3>3
  <2>3. CASE l = op.layer /\ p \in op.tile .. op.tile + size - 1
    BY <2>2, <2>3
  <2>4. CASE ~(l = op.layer /\ p \in op.tile .. op.tile + size - 1)
    <3>1. l < op.layer \/ (l = op.layer /\ p < op.tile)
      BY <1>2, <1>3, <1>8, <2>1, <2>4
    <3>2. QED
      BY <2>2, <2>4, <3>1 DEF PrefillReached
  <2>5. QED
    BY <2>3, <2>4
<1> HIDE DEF layer, Cell
<1>9. CASE layer /\ NextPrefillLaunch
  <2>1. CASE op.tile + PrefillTile < op.len
    <3>1. op' = [op EXCEPT !.tile = @ + PrefillTile] /\ ret' = NoRet
      BY <1>5, <1>9, <2>1 DEF NextPrefillLaunch, Continue
    <3>2. op'.layer = op.layer /\ op'.len = op.len /\ op'.tile = op.tile + PrefillTile
      BY <1>1, <3>1 DEF OpPrefill
    <3>3. size = PrefillTile
      BY <1>2, <1>3, <1>4, <2>1, RunnerAssumption
    <3>4. ASSUME NEW l \in Layers, NEW p \in 0 .. op.len - 1, PrefillReached(op', l, p)
          PROVE  Cell(l, p)
      <4>1. l < op.layer \/ (l = op.layer /\ p < op.tile + size)
        BY <3>2, <3>3, <3>4 DEF PrefillReached
      <4>2. QED
        BY <1>8, <1>9, <4>1
    <3>5. QED
      BY <1>5, <1>7, <3>1, <3>2, <3>4 DEF Cell
  <2>2. CASE ~(op.tile + PrefillTile < op.len) /\ op.layer + 1 < NumLayers
    <3>1. op' = [op EXCEPT !.layer = @ + 1, !.tile = 0] /\ ret' = NoRet
      BY <1>5, <1>9, <2>2 DEF NextPrefillLaunch, Continue
    <3>2. op'.layer = op.layer + 1 /\ op'.len = op.len /\ op'.tile = 0
      BY <1>1, <3>1 DEF OpPrefill
    <3>3. op.tile + size = op.len
      BY <1>2, <1>3, <1>4, <2>2, RunnerAssumption
    <3>4. ASSUME NEW l \in Layers, NEW p \in 0 .. op.len - 1, PrefillReached(op', l, p)
          PROVE  Cell(l, p)
      <4>1. l < op.layer + 1 \/ (l = op.layer + 1 /\ p < 0)
        BY <3>2, <3>4 DEF PrefillReached
      <4>2. l < op.layer \/ (l = op.layer /\ p < op.tile + size)
        BY <1>2, <3>3, <4>1 DEF Layers
      <4>3. QED
        BY <1>8, <1>9, <4>2
    <3>5. QED
      BY <1>5, <1>7, <3>1, <3>2, <3>4 DEF Cell
  <2>3. CASE ~(op.tile + PrefillTile < op.len) /\ ~(op.layer + 1 < NumLayers)
    <3>1. op' = IdleOp /\ ret' = Ok
      BY <1>9, <2>3 DEF NextPrefillLaunch, Finish
    <3>2. op.tile + size = op.len
      BY <1>2, <1>3, <1>4, <2>3, RunnerAssumption
    <3>3. ASSUME NEW l \in Layers, NEW p \in 0 .. op.len - 1
          PROVE  Cell(l, p)
      <4>1. l < op.layer \/ (l = op.layer /\ p < op.tile + size)
        BY <1>2, <2>3, <3>2 DEF Layers
      <4>2. QED
        BY <1>8, <1>9, <4>1
    <3>4. QED
      BY <1>5, <1>7, <3>1, <3>3 DEF Cell
  <2>4. QED
    BY <2>1, <2>2, <2>3
<1>10. CASE op' = IdleOp /\ ret' = Throws
  BY <1>5, <1>7, <1>10
<1>11. QED
  BY <1>6, <1>9, <1>10

LEMMA PrefillLaunchType ==
  ASSUME RunnerTypeOK, PrefillLaunch
  PROVE  RunnerTypeOK'
<1>1. op \in OpPrefill /\ op.tile < op.len
  BY OpByName DEF RunnerTypeOK, PrefillLaunch
<1>2. /\ op.layer \in Layers /\ op.tile \in Nat /\ op.len \in Nat /\ op.len <= MaxSeq
  BY <1>1, RunnerAssumption DEF OpPrefill
<1>3. /\ TileSize(op.len, op.tile) \in Nat \ {0}
      /\ op.tile + TileSize(op.len, op.tile) <= MaxSeq
  <2>1. op.tile + TileSize(op.len, op.tile) <= op.len
    BY <1>1, <1>2, TileBounds
  <2>2. TileSize(op.len, op.tile) \in Nat \ {0}
    BY <1>1, <1>2, TileBounds
  <2>3. QED
    BY <1>2, <2>1, <2>2, RunnerAssumption
<1>4. /\ act' \in [{"ping", "pong"} -> [Rows -> RowSet]]
      /\ kv' \in [Layers -> [KvPos -> KvSet]]
      /\ logits' \in KvSet
  <2>1. CASE UNCHANGED <<act, kv, logits>>
    BY <2>1 DEF RunnerTypeOK
  <2>2. CASE DecoderLayer(op.layer, op.tile, TileSize(op.len, op.tile), 0, FALSE)
    BY <2>2, <1>2, <1>3, DecoderLayerType
  <2>3. QED
    BY <2>1, <2>2 DEF PrefillLaunch, Xrt
<1>5. op.tile + PrefillTile < op.len => [op EXCEPT !.tile = @ + PrefillTile] \in OpSet
  <2>1. op.tile + PrefillTile \in Nat
    BY <1>2, RunnerAssumption
  <2>2. [op EXCEPT !.tile = @ + PrefillTile] \in OpPrefill
    BY <1>1, <2>1 DEF OpPrefill
  <2>3. QED
    BY <1>1, <2>2, OpIntro DEF OpPrefill
<1>6. op.layer + 1 < NumLayers => [op EXCEPT !.layer = @ + 1, !.tile = 0] \in OpSet
  <2>1. op.layer + 1 < NumLayers => op.layer + 1 \in Layers
    BY <1>2, RunnerAssumption DEF Layers
  <2>2. op.layer + 1 < NumLayers => [op EXCEPT !.layer = @ + 1, !.tile = 0] \in OpPrefill
    BY <1>1, <2>1 DEF OpPrefill
  <2>3. [op EXCEPT !.layer = @ + 1, !.tile = 0].tile = 0
    BY <1>1 DEF OpPrefill
  <2>4. [op EXCEPT !.layer = @ + 1, !.tile = 0].len = op.len /\ 0 < op.len
    BY <1>1, <1>2 DEF OpPrefill
  <2>5. QED
    BY <2>2, <2>3, <2>4, OpIntro
<1>7. op' \in OpSet /\ ret' \in RetSet /\ (op' # IdleOp => ret' = NoRet)
  <2>1. op # IdleOp
    BY <1>1 DEF OpPrefill, IdleOp
  <2>2. QED
    BY <2>1, <1>5, <1>6, RetTypes, OpIntro
       DEF RunnerTypeOK, PrefillLaunch, NextPrefillLaunch, Xrt, Finish, Continue, RetSet
<1>8. QED
  BY <1>4, <1>7 DEF RunnerTypeOK, PrefillLaunch, RetSet

LEMMA DecodeLaunchType ==
  ASSUME RunnerTypeOK, DecodeLaunch
  PROVE  RunnerTypeOK'
<1>1. op \in OpDecode
  BY OpByName DEF RunnerTypeOK, DecodeLaunch
<1>2. op.layer \in Layers /\ op.pos \in Nat /\ op.window \in Nat \ {0} /\ 0 + op.window <= MaxSeq
  BY <1>1, RunnerAssumption DEF OpDecode
<1>3. /\ act' \in [{"ping", "pong"} -> [Rows -> RowSet]]
      /\ kv' \in [Layers -> [KvPos -> KvSet]]
      /\ logits' \in KvSet
  <2>1. CASE UNCHANGED <<act, kv, logits>>
    BY <2>1 DEF RunnerTypeOK
  <2>2. CASE DecoderLayer(op.layer, 0, op.window, op.pos, op.layer = NumLayers - 1)
    BY <2>2, <1>2, DecoderLayerType
  <2>3. QED
    BY <2>1, <2>2 DEF DecodeLaunch, Xrt
<1>4. op.layer + 1 < NumLayers => [op EXCEPT !.layer = @ + 1] \in OpSet
  <2>1. op.layer + 1 < NumLayers => op.layer + 1 \in Layers
    BY <1>2, RunnerAssumption DEF Layers
  <2>2. QED
    BY <1>1, <2>1, OpIntro DEF OpDecode
<1>5. op' \in OpSet /\ ret' \in RetSet /\ (op' # IdleOp => ret' = NoRet)
  <2>1. op # IdleOp
    BY <1>1 DEF OpDecode, IdleOp
  <2>2. QED
    BY <2>1, <1>4, RetTypes, OpIntro
       DEF RunnerTypeOK, DecodeLaunch, Xrt, Finish, Continue, RetSet
<1>6. QED
  BY <1>3, <1>5 DEF RunnerTypeOK, DecodeLaunch, RetSet

-----------------------------------------------------------------------------
(* A kernel launch, whichever, keeps the types.                               *)
LEMMA StepType == RunnerTypeOK /\ Step => RunnerTypeOK'
BY EncodeLaunchType, BridgeLaunchType, PrefillLaunchType, DecodeLaunchType DEF Step

(* The generic caller hands in as many embeddings as there are text tokens.   *)
LEMMA CallerEmbeds ==
  ASSUME NEW r \in Requests, NEW tokens \in Tokens, NEW emb \in Embeddings(r, tokens)
  PROVE  Embedded(tokens, emb)
<1> DEFINE texts == Before(tokens, Len(tokens) + 1, "txt")
<1>1. Len(tokens) \in Nat /\ Len(tokens) + 1 \in Int
  BY DEF Tokens
<1>2. texts \in Nat
  BY <1>1, BeforeType
<1>3. texts <= Len(tokens)
  <2>1. {j \in 1 .. Len(tokens) + 1 - 1 : tokens[j] = "txt"} \subseteq 1 .. Len(tokens)
    BY <1>1
  <2>2. IsFiniteSet(1 .. Len(tokens)) /\ Cardinality(1 .. Len(tokens)) = Len(tokens)
    <3>1. \A n \in Nat : IsFiniteSet(1 .. n) /\ Cardinality(1 .. n) = IF 1 > n THEN 0 ELSE n - 1 + 1
      BY FS_Interval
    <3>2. \A n \in Nat : (IF 1 > n THEN 0 ELSE n - 1 + 1) = n
      OBVIOUS
    <3>3. QED
      BY ONLY <1>1, <3>1, <3>2
  <2>3. QED
    BY <2>1, <2>2, FS_Subset DEF Before
<1>4. \A n \in Nat : TextEmbeddings(r, n) \in Seq(RowSet) /\ Len(TextEmbeddings(r, n)) = n
  <2>1. \A k \in Int : Row(r, "txt", k) \in RowSet
    BY RowTypes DEF Owners, Kinds
  <2>2. QED
    BY <2>1 DEF TextEmbeddings
<1>5. \A n \in Nat : NoEmbeddings(n) \in Seq(RowSet) /\ Len(NoEmbeddings(n)) = n
  BY RowTypes DEF NoEmbeddings
<1>6. CASE emb = NoEmbeddings(Len(tokens))
  BY <1>1, <1>3, <1>5, <1>6 DEF Embedded
<1>7. CASE \E n \in texts .. Len(tokens) : emb = TextEmbeddings(r, n)
  BY <1>1, <1>2, <1>4, <1>7 DEF Embedded
<1>8. QED
  BY <1>6, <1>7 DEF Embeddings

(* The runner's variables keep their types whatever calls are made, in any    *)
(* order and with any of the arguments, and whatever fails: no launch works   *)
(* on rows that do not exist, and no call returns while one is in progress.   *)
THEOREM RunnerTypes == Spec => []RunnerTypeOK
<1>1. RunnerTypeOK /\ [Next]_vars => RunnerTypeOK'
  <2> SUFFICES ASSUME RunnerTypeOK, [Next]_vars PROVE RunnerTypeOK'
    OBVIOUS
  <2>1. ASSUME NEW r \in Requests, NEW shape_ok \in BOOLEAN, WriteVisionPatches(r, shape_ok)
        PROVE  RunnerTypeOK'
    BY <2>1, WriteVisionPatchesType
  <2>2. CASE EncodeImage
    BY <2>2, EncodeImageType
  <2>3. ASSUME NEW r \in Requests, NEW tokens \in Prompts, NEW emb \in Embeddings(r, tokens),
               BuildPrefillActivations(tokens, emb)
        PROVE  RunnerTypeOK'
    BY <2>3, CallerEmbeds, BuildPrefillActivationsType, RunnerAssumption DEF Tokens
  <2>4. ASSUME NEW length \in 0 .. MaxSeq + 1, RunPrefill(length)
        PROVE  RunnerTypeOK'
    BY <2>4, RunPrefillType, RunnerAssumption
  <2>5. ASSUME NEW pos \in 0 .. MaxSeq, NEW window \in Windows, RunDecode(pos, window)
        PROVE  RunnerTypeOK'
    BY <2>5, RunDecodeType, RunnerAssumption
  <2>6. ASSUME NEW pos \in 0 .. MaxSeq, NEW r \in Requests, NEW g \in 0 .. MaxSeq,
               WriteDecodeTokenActivation(pos, Row(r, "gen", g))
        PROVE  RunnerTypeOK'
    <3>1. Row(r, "gen", g) \in RowSet /\ pos \in Nat
      BY RowTypes, RunnerAssumption DEF Owners, Kinds
    <3>2. QED
      BY <2>6, <3>1, WriteDecodeTokenActivationType
  <2>7. CASE ReadLogits
    BY <2>7, ReadLogitsType
  <2>8. CASE Step
    BY <2>8, StepType
  <2>9. CASE Return
    BY <2>9, ReturnType
  <2>10. CASE UNCHANGED vars
    BY <2>10 DEF vars, RunnerTypeOK
  <2>11. QED
    BY <2>1, <2>2, <2>3, <2>4, <2>5, <2>6, <2>7, <2>8, <2>9, <2>10 DEF Next, Call
<1>2. QED
  BY <1>1, InitType, PTL DEF Spec


-----------------------------------------------------------------------------
(* The vision chain and the cache under a caller that calls in any order.     *)

(* Every vision buffer is some way down the chain, and the buffer an encode    *)
(* launch is about to read is just as far as the launch expects.              *)
ChainOK ==
  /\ vit["act"].done = <<>>
  /\ \A b \in DOMAIN vit : \E k \in 0 .. Len(Pipeline) : vit[b].done = Passed(k)
  /\ op.name = "encode" => vit[EncodeSrc[op.k]].done = Passed(op.k - 1)

(* A cell holds K/V of the row at its own position.                           *)
KvIs(l, p) ==
  /\ kv[l][p].pos = p
  /\ kv[l][p].row.who = act["ping"][p].who
  /\ kv[l][p].row.idx = act["ping"][p].idx

TilesOK ==
  op.name = "prefill" =>
    \A l \in Layers, p \in 0 .. op.len - 1 : PrefillReached(op, l, p) => KvIs(l, p)

LEMMA PipelineLen == Len(Pipeline) = 4
BY DEF Pipeline

LEMMA PassedNone == Passed(0) = <<>>
BY DEF Passed

LEMMA PassedPrefix ==
  ASSUME NEW k \in 0 .. Len(Pipeline)
  PROVE  Passed(k) = SubSeq(Pipeline, 1, k)
<1>1. Pipeline \in Seq({"patch", "qkv", "attn", "connector"}) /\ Len(Pipeline) = 4
  BY DEF Pipeline
<1>2. k \in Nat /\ k <= 4
  BY <1>1
<1>3. /\ SubSeq(Pipeline, 1, k) \in Seq({"patch", "qkv", "attn", "connector"})
      /\ Len(SubSeq(Pipeline, 1, k)) = k
      /\ \A i \in 1 .. k : SubSeq(Pipeline, 1, k)[i] = Pipeline[i]
  <2>1. \A i \in 1 .. k : Pipeline[i] \in {"patch", "qkv", "attn", "connector"} /\ 1 + i - 1 = i
    <3>1. \A K : \A s \in Seq(K) : \A i \in 1 .. Len(s) : s[i] \in K
      OBVIOUS
    <3>2. \A i \in 1 .. k : i \in 1 .. Len(Pipeline) /\ 1 + i - 1 = i
      BY <1>1, <1>2
    <3>3. QED
      BY <1>1, <3>1, <3>2
  <2>2. 1 \in Int /\ k \in Int /\ k - 1 + 1 = k /\ (IF 1 <= k THEN k - 1 + 1 ELSE 0) = k
    BY <1>2
  <2>3. /\ SubSeq(Pipeline, 1, k) \in Seq({"patch", "qkv", "attn", "connector"})
        /\ Len(SubSeq(Pipeline, 1, k)) = IF 1 <= k THEN k - 1 + 1 ELSE 0
        /\ \A i \in 1 .. k - 1 + 1 : SubSeq(Pipeline, 1, k)[i] = Pipeline[1 + i - 1]
    BY <2>1, <2>2, SubSeqProperties
  <2>4. QED
    BY <2>1, <2>2, <2>3
<1>4. \A K : \A s \in Seq(K) : s = [i \in 1 .. Len(s) |-> s[i]]
  OBVIOUS
<1>5. QED
  BY <1>3, <1>4 DEF Passed

(* A step that leaves the vision buffers alone and starts or continues no     *)
(* encode and no prefill.                                                     *)
LEMMA ElsewhereFrame ==
  ASSUME ChainOK, UNCHANGED vit, op'.name \notin {"encode", "prefill"}
  PROVE  ChainOK' /\ TilesOK'
BY DEF ChainOK, TilesOK

LEMMA ChainCalls ==
  ASSUME RunnerTypeOK, ChainOK
  PROVE  /\ (\E r \in Requests, shape_ok \in BOOLEAN : WriteVisionPatches(r, shape_ok))
              => ChainOK' /\ TilesOK'
         /\ EncodeImage => ChainOK' /\ TilesOK'
         /\ EncodeLaunch => ChainOK' /\ TilesOK'
<1>1. DOMAIN vit = {"act", "hidden", "tmp", "image_tokens"}
  BY DEF RunnerTypeOK
<1>2. ASSUME NEW r \in Requests, NEW shape_ok \in BOOLEAN, WriteVisionPatches(r, shape_ok)
      PROVE  ChainOK' /\ TilesOK'
  <2>1. op' = IdleOp /\ IdleOp.name = "idle"
    BY <1>2 DEF WriteVisionPatches, Xrt, Finish, IdleOp
  <2>2. CASE UNCHANGED vit
    BY <2>1, <2>2, ElsewhereFrame
  <2>3. CASE vit' = [vit EXCEPT !["act"] = [who |-> r, done |-> <<>>]]
    <3>1. DOMAIN vit' = DOMAIN vit
      BY <2>3
    <3>2. vit'["act"].done = <<>> /\ \A b \in DOMAIN vit : b # "act" => vit'[b] = vit[b]
      BY <1>1, <2>3
    <3>3. \A b \in DOMAIN vit : \E k \in 0 .. Len(Pipeline) : vit'[b].done = Passed(k)
      BY <3>2 DEF ChainOK
    <3>4. QED
      BY <2>1, <3>1, <3>2, <3>3 DEF ChainOK, TilesOK
  <2>4. QED
    BY <1>2, <2>2, <2>3 DEF WriteVisionPatches, Xrt
<1>3. ASSUME EncodeImage
      PROVE  ChainOK' /\ TilesOK'
  <2>1. op'.name = "encode" /\ op'.k = 1 /\ UNCHANGED vit
    BY <1>3 DEF EncodeImage
  <2>2. EncodeSrc[1] = "act" /\ 1 - 1 = 0
    BY DEF EncodeSrc
  <2>3. vit'[EncodeSrc[op'.k]].done = Passed(op'.k - 1)
    BY <2>1, <2>2, PassedNone DEF ChainOK
  <2>4. QED
    BY <2>1, <2>3 DEF ChainOK, TilesOK
<1>4. ASSUME EncodeLaunch
      PROVE  ChainOK' /\ TilesOK'
  <2>1. op.name = "encode" /\ op.k \in 0 .. Len(Pipeline)
    BY <1>4, EncodeMoves, PipelineLen
  <2>2. vit[EncodeSrc[op.k]].done = Passed(op.k - 1)
    BY <2>1 DEF ChainOK
  <2>3. DOMAIN vit' = DOMAIN vit
    BY <1>1, <1>4, EncodeLaunchType DEF RunnerTypeOK
  <2>4. \A b \in DOMAIN vit : \E k \in 0 .. Len(Pipeline) : vit'[b].done = Passed(k)
    BY <1>4, <2>1, <2>2, EncodePasses DEF ChainOK
  <2>5. vit'["act"].done = <<>>
    BY <1>4, <2>2, EncodePasses DEF ChainOK
  <2>6. op'.name = "encode" => vit'[EncodeSrc[op'.k]].done = Passed(op'.k - 1)
    BY <1>4, <2>2, EncodePasses
  <2>7. op'.name # "prefill"
    BY <1>4, <2>2, EncodePasses DEF IdleOp
  <2>8. QED
    BY <2>3, <2>4, <2>5, <2>6, <2>7 DEF ChainOK, TilesOK
<1>5. QED
  BY <1>2, <1>3, <1>4

LEMMA TilesCalls ==
  ASSUME RunnerTypeOK, ChainOK, TilesOK
  PROVE  /\ (\E length \in 0 .. MaxSeq + 1 : RunPrefill(length)) => ChainOK' /\ TilesOK'
         /\ PrefillLaunch => ChainOK' /\ TilesOK'
<1>1. ASSUME NEW length \in 0 .. MaxSeq + 1, RunPrefill(length)
      PROVE  ChainOK' /\ TilesOK'
  <2>1. UNCHANGED vit
    BY <1>1 DEF RunPrefill
  <2>2. CASE UNCHANGED op
    <3>1. op'.name = "idle"
      BY <1>1, <2>2 DEF RunPrefill, Callable, IdleOp
    <3>2. QED
      BY <2>1, <3>1, ElsewhereFrame
  <2>3. CASE op' = [name |-> "prefill", layer |-> 0, tile |-> 0, len |-> length]
    <3>1. op'.name = "prefill" /\ op'.layer = 0 /\ op'.tile = 0 /\ op'.len = length
      BY <2>3
    <3>2. \A l \in Layers, p \in 0 .. op'.len - 1 : ~PrefillReached(op', l, p)
      BY <3>1, RunnerAssumption DEF PrefillReached, Layers
    <3>3. QED
      BY <2>1, <3>1, <3>2 DEF ChainOK, TilesOK
  <2>4. QED
    BY <1>1, <2>2, <2>3 DEF RunPrefill
<1>2. ASSUME PrefillLaunch
      PROVE  ChainOK' /\ TilesOK'
  <2>1. op \in OpPrefill /\ op.name = "prefill"
    BY <1>2, OpByName DEF RunnerTypeOK, PrefillLaunch
  <2>2. UNCHANGED vit /\ op'.name # "encode"
    <3>1. [op EXCEPT !.tile = @ + PrefillTile].name = "prefill"
      BY <2>1 DEF OpPrefill
    <3>2. [op EXCEPT !.layer = @ + 1, !.tile = 0].name = "prefill"
      BY <2>1 DEF OpPrefill
    <3>3. \/ op' = IdleOp
          \/ op' = [op EXCEPT !.tile = @ + PrefillTile]
          \/ op' = [op EXCEPT !.layer = @ + 1, !.tile = 0]
      BY <1>2 DEF PrefillLaunch, Xrt, NextPrefillLaunch, Finish, Continue
    <3>4. UNCHANGED vit
      BY <1>2 DEF PrefillLaunch
    <3>5. QED
      <4>1. IdleOp.name = "idle"
        BY DEF IdleOp
      <4>2. op'.name \in {"idle", "prefill"}
        BY <3>1, <3>2, <3>3, <4>1
      <4>3. QED
        BY <3>4, <4>2
  <2>3. ChainOK'
    BY <2>2 DEF ChainOK
  <2>4. ASSUME op'.name = "prefill",
               NEW l \in Layers, NEW p \in 0 .. op.len - 1, PrefillReached(op', l, p)
        PROVE  KvIs(l, p)'
    <3>1. p \in Rows
      BY <2>1, RunnerAssumption DEF OpPrefill, Rows
    <3>2. act'["ping"][p].who = act["ping"][p].who /\ act'["ping"][p].idx = act["ping"][p].idx
      BY <1>2, <3>1, PrefillMoves
    <3>3. CASE kv'[l][p] = [row |-> act["ping"][p], pos |-> p]
      BY <3>2, <3>3 DEF KvIs
    <3>4. CASE kv'[l][p] = kv[l][p] /\ PrefillReached(op, l, p)
      BY <2>1, <3>2, <3>4 DEF KvIs, TilesOK
    <3>5. QED
      BY <1>2, <2>4, <3>3, <3>4, PrefillMoves
  <2>5. op'.name = "prefill" => op'.len = op.len
    BY <1>2, PrefillMoves
  <2>6. QED
    BY <2>3, <2>4, <2>5 DEF TilesOK
<1>3. QED
  BY <1>1, <1>2

(* No operation of the runner breaks the chain or leaves a gap in the cache.  *)
LEMMA NextKeepsChain ==
  ASSUME RunnerTypeOK, ChainOK, TilesOK, [Next]_vars
  PROVE  ChainOK' /\ TilesOK'
<1>1. CASE \/ \E r \in Requests, shape_ok \in BOOLEAN : WriteVisionPatches(r, shape_ok)
           \/ EncodeImage \/ EncodeLaunch
  BY <1>1, ChainCalls
<1>2. CASE (\E length \in 0 .. MaxSeq + 1 : RunPrefill(length)) \/ PrefillLaunch
  BY <1>2, TilesCalls
<1>3. ASSUME NEW r \in Requests, NEW tokens \in Prompts, NEW emb \in Embeddings(r, tokens),
             BuildPrefillActivations(tokens, emb)
      PROVE  ChainOK' /\ TilesOK'
  BY <1>3, ElsewhereFrame DEF BuildPrefillActivations, Xrt, Finish, Continue, IdleOp
<1>4. CASE BridgeLaunch
  BY <1>4, ElsewhereFrame DEF BridgeLaunch, Xrt, Finish, IdleOp
<1>5. ASSUME NEW pos \in 0 .. MaxSeq, NEW window \in Windows, RunDecode(pos, window)
      PROVE  ChainOK' /\ TilesOK'
  BY <1>5, ElsewhereFrame DEF RunDecode
<1>6. CASE DecodeLaunch
  <2>1. op \in OpDecode
    BY <1>6, OpByName DEF RunnerTypeOK, DecodeLaunch
  <2>2. op'.name \in {"idle", "decode"} /\ UNCHANGED vit
    BY <1>6, <2>1 DEF DecodeLaunch, Xrt, Finish, Continue, IdleOp, OpDecode
  <2>3. QED
    BY <2>2, ElsewhereFrame
<1>7. ASSUME NEW pos \in 0 .. MaxSeq, NEW r \in Requests, NEW g \in 0 .. MaxSeq,
             WriteDecodeTokenActivation(pos, Row(r, "gen", g))
      PROVE  ChainOK' /\ TilesOK'
  BY <1>7, ElsewhereFrame DEF WriteDecodeTokenActivation, Xrt, Finish, IdleOp
<1>8. CASE ReadLogits
  BY <1>8, ElsewhereFrame DEF ReadLogits, Callable, IdleOp
<1>9. CASE Return
  BY <1>9 DEF Return, ChainOK, TilesOK, KvIs
<1>10. CASE UNCHANGED vars
  BY <1>10 DEF vars, ChainOK, TilesOK, KvIs
<1>11. QED
  BY <1>1, <1>2, <1>3, <1>4, <1>5, <1>6, <1>7, <1>8, <1>9, <1>10 DEF Next, Call, Step

LEMMA ChainInvariant == Spec => [](RunnerTypeOK /\ ChainOK /\ TilesOK)
<1>1. Init => ChainOK /\ TilesOK
  <2> SUFFICES ASSUME Init PROVE ChainOK /\ TilesOK
    OBVIOUS
  <2>1. op.name = "idle"
    BY DEF Init, IdleOp
  <2>2. \A b \in DOMAIN vit : vit[b].done = Passed(0)
    BY PassedNone DEF Init, NoImage
  <2>3. vit["act"].done = <<>> /\ 0 \in 0 .. Len(Pipeline)
    BY PipelineLen DEF Init, NoImage
  <2>4. QED
    BY <2>1, <2>2, <2>3 DEF ChainOK, TilesOK
<1>2. QED
  BY <1>1, NextKeepsChain, RunnerTypes, PTL DEF Spec

(* Every vision buffer holds patches that have gone through a prefix of the   *)
(* chain of kernels, in their order: no encode launch reads a buffer that an  *)
(* earlier encode, a failed one included, or a later stage has left behind.   *)
THEOREM RunnerEncodeOrder == Spec => []EncodeOrder
<1>1. ChainOK => EncodeOrder
  BY PassedPrefix DEF ChainOK, EncodeOrder
<1>2. QED
  BY <1>1, ChainInvariant, PTL

(* A prefill that returns ok, whatever was called and has failed before it,   *)
(* leaves no gap in the cache: each layer holds, at each position of the      *)
(* prompt, K/V of the row at that position.                                   *)
THEOREM RunnerPrefillFillsKv == Spec => PrefillFillsKv
<1> DEFINE Ends == op.name = "prefill" /\ ret'.rc = "ok"
           Filled == \A l \in Layers, p \in 0 .. op.len - 1 :
                       /\ kv'[l][p].pos = p
                       /\ kv'[l][p].row.who = act'["ping"][p].who
                       /\ kv'[l][p].row.idx = act'["ping"][p].idx
<1>1. RunnerTypeOK /\ TilesOK /\ [Next]_vars => [Ends => Filled]_vars
  <2> SUFFICES ASSUME RunnerTypeOK, TilesOK, Next, Ends
               PROVE  Filled
    OBVIOUS
  <2>1. op \in OpPrefill /\ op # IdleOp /\ ret = NoRet
    BY OpByName DEF RunnerTypeOK, IdleOp
  <2>2. PrefillLaunch
    <3>1. ~Call
      BY <2>1 DEF Call, WriteVisionPatches, EncodeImage, BuildPrefillActivations, RunPrefill,
                  RunDecode, WriteDecodeTokenActivation, ReadLogits, Callable
    <3>2. ~Return
      BY <2>1 DEF Return
    <3>3. ~EncodeLaunch /\ ~BridgeLaunch /\ ~DecodeLaunch
      BY DEF EncodeLaunch, BridgeLaunch, DecodeLaunch
    <3>4. QED
      BY <3>1, <3>2, <3>3 DEF Next, Step
  <2>3. ASSUME NEW l \in Layers, NEW p \in 0 .. op.len - 1
        PROVE  /\ kv'[l][p].pos = p
               /\ kv'[l][p].row.who = act'["ping"][p].who
               /\ kv'[l][p].row.idx = act'["ping"][p].idx
    <3>1. p \in Rows
      BY <2>1, RunnerAssumption DEF OpPrefill, Rows
    <3>2. act'["ping"][p].who = act["ping"][p].who /\ act'["ping"][p].idx = act["ping"][p].idx
      BY <2>2, <3>1, PrefillMoves
    <3>3. CASE kv'[l][p] = [row |-> act["ping"][p], pos |-> p]
      BY <3>2, <3>3
    <3>4. CASE kv'[l][p] = kv[l][p] /\ PrefillReached(op, l, p)
      BY <3>2, <3>4 DEF KvIs, TilesOK
    <3>5. QED
      BY <2>2, <3>3, <3>4, PrefillMoves
  <2>4. QED
    BY <2>3
<1>2. QED
  BY <1>1, ChainInvariant, PTL DEF Spec, PrefillFillsKv

-----------------------------------------------------------------------------
(* The completion path.                                                       *)

Stages == {"patches", "encode", "build", "prefill", "decode", "logits", "embed"}
Serving == pc \in Stages \cup {"send"}

GenSet == [who : Owners, pos : Nat]
TaskSet == [who : Requests, tokens : Seq({"txt", "img", "lit", "aud"})]
AnswerSet == [status : {"waiting", "cpu", "error", "result"}, tokens : Seq(GenSet)]

-----------------------------------------------------------------------------
(* The inductive invariant, in parts.                                         *)

ServerOK ==
  /\ pc \in Stages \cup {"idle", "send", "crashed"}
  /\ pc = "idle" => task = NoTask
  /\ Serving => task \in TaskSet
  /\ seq_len \in 0 .. MaxSeq /\ cur_pos \in 0 .. MaxSeq
  /\ generated \in Seq(GenSet)
  /\ answer \in [Requests -> AnswerSet]
  /\ embeddable \in BOOLEAN

(* Which call can be in progress at which stage, and what it has left behind  *)
(* when it returns.                                                           *)
StageOK ==
  /\ pc \notin Stages => Callable
  /\ pc \in {"logits", "embed"} => op = IdleOp
  /\ pc = "decode" => op = IdleOp \/ op.name = "decode"
  /\ op.name = "decode" => pc = "decode" /\ op.pos = cur_pos /\ op.window = 1
  /\ (pc = "decode" /\ ret.rc = "ok") => logits.pos = cur_pos
  /\ pc = "logits" => logits.pos = cur_pos
  /\ (pc = "embed" /\ ret.rc = "ok") => cur_pos < MaxSeq

(* How far the token loop can have come at each stage.                        *)
TokensOK ==
  /\ Len(generated) <= NPredict
  /\ pc \in {"patches", "encode", "build", "prefill"} => generated = <<>>
  /\ pc \in {"decode", "logits"} =>
       /\ Len(generated) < NPredict
       /\ ~embeddable => generated = <<>>
       /\ \A i \in 1 .. Len(generated) : generated[i].pos < MaxSeq
  /\ pc = "embed" =>
       /\ embeddable
       /\ generated # <<>> /\ generated[Len(generated)].pos = cur_pos
  /\ ~embeddable => Len(generated) <= 1
  /\ \A i \in 1 .. Len(generated) - 1 : generated[i].pos < MaxSeq

AnswersOK ==
  /\ Serving => answer[task.who] = Waiting
  /\ OnlyLastTokenPastLimit
  /\ NoEmbeddingNoSecondToken

IInv == RunnerTypeOK /\ ServerOK /\ StageOK /\ TokensOK /\ AnswersOK


-----------------------------------------------------------------------------
(* Helpers.                                                                   *)

(* A call in progress is not idle, and has not returned.                      *)
LEMMA InProgress ==
  ASSUME RunnerTypeOK
  PROVE  /\ Step => op # IdleOp
         /\ ret # NoRet => op = IdleOp
<1>1. op.name \in {"encode", "bridge", "prefill", "decode"} => op # IdleOp
  BY DEF IdleOp
<1>2. Step => op.name \in {"encode", "bridge", "prefill", "decode"}
  BY DEF Step, EncodeLaunch, BridgeLaunch, PrefillLaunch, DecodeLaunch
<1>3. QED
  BY <1>1, <1>2 DEF RunnerTypeOK

(* Reading the return code leaves the session callable.                       *)
LEMMA ReturnFrees ==
  ASSUME RunnerTypeOK, Return
  PROVE  RunnerTypeOK' /\ Callable' /\ op = IdleOp /\ UNCHANGED logits
BY InProgress, ReturnType DEF Return, Callable

(* The server leaves the session alone.                                       *)
LEMMA VarsKept ==
  ASSUME RunnerTypeOK, UNCHANGED vars
  PROVE  RunnerTypeOK' /\ (Callable => Callable') /\ UNCHANGED <<op, ret, logits>>
BY DEF vars, RunnerTypeOK, Callable

(* Nothing is said of the answers but by Send, and a sent answer stays.       *)
LEMMA SendType ==
  ASSUME answer \in [Requests -> AnswerSet], NEW r \in Requests,
         NEW status \in {"waiting", "cpu", "error", "result"}, NEW toks \in Seq(GenSet),
         Send(r, status, toks)
  PROVE  /\ answer' \in [Requests -> AnswerSet]
         /\ answer'[r].tokens = toks
         /\ \A s \in Requests \ {r} : answer'[s] = answer[s]
BY DEF AnswerSet, Send

(* The server's parts when only the session moves.                            *)
LEMMA ServerKept ==
  ASSUME ServerOK, TokensOK, AnswersOK, UNCHANGED server
  PROVE  ServerOK' /\ TokensOK' /\ AnswersOK'
<1>1. UNCHANGED <<pc, task, seq_len, cur_pos, generated, answer, embeddable>>
  BY DEF server
<1>2. ServerOK'
  BY <1>1 DEF ServerOK, Serving
<1>3. TokensOK'
  BY <1>1 DEF TokensOK
<1>4. OnlyLastTokenPastLimit'
  BY <1>1 DEF AnswersOK, OnlyLastTokenPastLimit
<1>5. NoEmbeddingNoSecondToken'
  BY <1>1 DEF AnswersOK, NoEmbeddingNoSecondToken
<1>6. QED
  BY <1>1, <1>2, <1>3, <1>4, <1>5 DEF AnswersOK, Serving

-----------------------------------------------------------------------------
(* The calls.                                                                 *)

(* The id sequence and the embeddings of a task are what                      *)
(* build_prefill_activations is owed.                                         *)
LEMMA TaskEmbedded ==
  ASSUME NEW t \in TaskSet
  PROVE  TokenIds(t.tokens) \in Tokens /\ Embedded(TokenIds(t.tokens), TaskEmbeddings(t))
<1> DEFINE tokens == t.tokens
           ids == TokenIds(tokens)
           texts == {j \in 1 .. Len(ids) + 1 - 1 : ids[j] = "txt"}
           n == Cardinality(TextTokens(tokens))
<1>1. tokens \in Seq({"txt", "img", "lit", "aud"}) /\ t.who \in Requests
  BY DEF TaskSet
<1>2. ids \in Tokens /\ Len(ids) = Len(tokens) /\ Len(tokens) \in Nat
  BY <1>1 DEF TokenIds, Tokens
<1>3. IsFiniteSet(TextTokens(tokens)) /\ n \in Nat
  <2>1. TextTokens(tokens) \subseteq 1 .. Len(tokens)
    BY <1>1 DEF TextTokens
  <2>2. IsFiniteSet(1 .. Len(tokens))
    BY <1>2, FS_Interval
  <2>3. QED
    BY <2>1, <2>2, FS_Subset, FS_CardinalityType
<1>4. Cardinality(texts) <= n
  <2>1. texts \subseteq TextTokens(tokens)
    BY <1>1, <1>2 DEF TextTokens, IsText, TokenIds
  <2>2. QED
    BY <1>3, <2>1, FS_Subset
<1>5. \A k \in Int : Row(t.who, "txt", k) \in RowSet
  BY <1>1, RowTypes DEF Owners, Kinds
<1>6. TaskEmbeddings(t) \in Seq(RowSet) /\ Len(TaskEmbeddings(t)) = n
  BY <1>3, <1>5 DEF TaskEmbeddings, TextEmbeddings
<1>7. Before(ids, Len(ids) + 1, "txt") <= Len(TaskEmbeddings(t))
  BY <1>4, <1>6 DEF Before
<1>8. QED
  BY <1>2, <1>6, <1>7 DEF Embedded

(* A call keeps the session's types.                                          *)
LEMMA CallKeepsTypes ==
  ASSUME RunnerTypeOK, ServerOK, CallSession
  PROVE  RunnerTypeOK'
<1>1. pc \in Stages => task \in TaskSet /\ task.who \in Requests
  BY DEF ServerOK, Serving, TaskSet
<1>2. seq_len \in Nat /\ cur_pos \in Nat /\ Len(generated) \in Nat
  BY RunnerAssumption DEF ServerOK
<1>3. CASE pc = "patches" /\ \E shape_ok \in BOOLEAN : WriteVisionPatches(task.who, shape_ok)
  BY <1>1, <1>3, WriteVisionPatchesType DEF Stages
<1>4. CASE pc = "encode" /\ EncodeImage
  BY <1>4, EncodeImageType
<1>5. CASE pc = "build" /\ BuildPrefillActivations(TokenIds(task.tokens), TaskEmbeddings(task))
  <2>1. /\ TokenIds(task.tokens) \in Tokens
        /\ Embedded(TokenIds(task.tokens), TaskEmbeddings(task))
    BY <1>1, <1>5, TaskEmbedded DEF Stages
  <2>2. QED
    BY <1>5, <2>1, BuildPrefillActivationsType
<1>6. CASE pc = "prefill" /\ RunPrefill(seq_len)
  BY <1>2, <1>6, RunPrefillType
<1>7. CASE pc = "decode" /\ RunDecode(cur_pos, 1)
  <2>1. 1 \in 1 .. MaxSeq
    BY RunnerAssumption
  <2>2. QED
    BY <1>2, <1>7, <2>1, RunDecodeType
<1>8. CASE pc = "logits" /\ ReadLogits
  BY <1>8, ReadLogitsType
<1>9. CASE pc = "embed" /\ WriteDecodeTokenActivation(cur_pos, Row(task.who, "gen", Len(generated)))
  <2>1. Row(task.who, "gen", Len(generated)) \in RowSet
    BY <1>1, <1>2, <1>9, RowTypes DEF Owners, Kinds, Stages
  <2>2. QED
    BY <1>2, <1>9, <2>1, WriteDecodeTokenActivationType
<1>10. QED
  BY <1>3, <1>4, <1>5, <1>6, <1>7, <1>8, <1>9 DEF CallSession

(* A call other than run_decode does not start a decode; it is made only when *)
(* the session is callable.                                                   *)
LEMMA CallFrame ==
  ASSUME CallSession
  PROVE  /\ pc \in Stages /\ Callable /\ UNCHANGED <<server, logits>>
         /\ pc # "decode" => op'.name # "decode"
         /\ pc = "decode" => op' = [name |-> "decode", layer |-> 0, pos |-> cur_pos, window |-> 1]
         /\ pc = "decode" => UNCHANGED ret
         /\ pc \in {"logits", "embed"} => op' = IdleOp
         /\ (pc = "embed" /\ ret'.rc = "ok") => cur_pos < MaxSeq
<1>1. IdleOp.name # "decode" /\ Throws.rc # "ok"
  BY DEF IdleOp, Throws
<1>2. CASE pc = "patches" /\ \E shape_ok \in BOOLEAN : WriteVisionPatches(task.who, shape_ok)
  BY <1>1, <1>2 DEF CallSession, WriteVisionPatches, Xrt, Finish, Stages
<1>3. CASE pc = "encode" /\ EncodeImage
  BY <1>1, <1>3 DEF CallSession, EncodeImage, Stages
<1>4. CASE pc = "build" /\ BuildPrefillActivations(TokenIds(task.tokens), TaskEmbeddings(task))
  <2>1. op' = IdleOp \/ op'.name = "bridge"
    BY <1>4 DEF BuildPrefillActivations, Xrt, Finish, Continue
  <2>2. Callable /\ UNCHANGED logits
    BY <1>4 DEF BuildPrefillActivations
  <2>3. QED
    BY <1>1, <1>4, <2>1, <2>2 DEF CallSession, Stages
<1>5. CASE pc = "prefill" /\ RunPrefill(seq_len)
  BY <1>1, <1>5 DEF CallSession, RunPrefill, Callable, Stages
<1>6. CASE pc = "decode" /\ RunDecode(cur_pos, 1)
  BY <1>1, <1>6 DEF CallSession, RunDecode, Stages
<1>7. CASE pc = "logits" /\ ReadLogits
  BY <1>1, <1>7 DEF CallSession, ReadLogits, Callable, Stages
<1>8. CASE pc = "embed" /\ WriteDecodeTokenActivation(cur_pos, Row(task.who, "gen", Len(generated)))
  BY <1>1, <1>8 DEF CallSession, WriteDecodeTokenActivation, Xrt, Finish, Stages
<1>9. QED
  BY <1>2, <1>3, <1>4, <1>5, <1>6, <1>7, <1>8 DEF CallSession

LEMMA CallSessionKeeps == IInv /\ CallSession => IInv'
<1> SUFFICES ASSUME IInv, CallSession PROVE IInv'
  OBVIOUS
<1>1. RunnerTypeOK'
  BY CallKeepsTypes DEF IInv
<1>2. ServerOK' /\ TokensOK' /\ AnswersOK'
  BY CallFrame, ServerKept DEF IInv
<1>3. UNCHANGED <<pc, cur_pos, logits>> /\ pc \in Stages
  BY CallFrame DEF server
<1>4. op = IdleOp /\ ret = NoRet
  BY CallFrame DEF Callable
<1>5. CASE pc = "decode"
  <2>1. op' = [name |-> "decode", layer |-> 0, pos |-> cur_pos, window |-> 1] /\ ret' = NoRet
    BY <1>4, <1>5, CallFrame
  <2>2. QED
    BY <1>1, <1>2, <1>3, <1>5, <2>1 DEF IInv, StageOK, NoRet, Stages
<1>6. CASE pc # "decode"
  <2>1. op'.name # "decode" /\ (pc \in {"logits", "embed"} => op' = IdleOp)
    BY <1>6, CallFrame
  <2>2. (pc = "embed" /\ ret'.rc = "ok") => cur_pos < MaxSeq
    BY CallFrame
  <2>3. StageOK'
    BY <1>3, <1>6, <2>1, <2>2 DEF IInv, StageOK
  <2>4. QED
    BY <1>1, <1>2, <2>3 DEF IInv
<1>7. QED
  BY <1>5, <1>6

-----------------------------------------------------------------------------
(* The launches.                                                              *)

(* A decode ends well only with its last layer, which copies the scores of    *)
(* the row at its position; no other call touches them.                       *)
LEMMA DecodeScores ==
  ASSUME RunnerTypeOK, DecodeLaunch, op.window = 1
  PROVE  /\ ret'.rc = "ok" => logits'.pos = op.pos
         /\ op' = IdleOp \/ op' = [op EXCEPT !.layer = @ + 1]
<1>1. op \in OpDecode
  BY OpByName DEF RunnerTypeOK, DecodeLaunch
<1>2. op.layer \in Layers /\ op.pos \in Nat /\ op # IdleOp
  BY <1>1, RunnerAssumption DEF OpDecode, IdleOp
<1>3. ret = NoRet /\ NoRet.rc # "ok" /\ Throws.rc # "ok"
  BY <1>2 DEF RunnerTypeOK, NoRet, Throws
<1>4. ret'.rc = "ok" =>
        /\ ~ (op.layer + 1 < NumLayers)
        /\ DecoderLayer(op.layer, 0, op.window, op.pos, op.layer = NumLayers - 1)
  BY <1>3 DEF DecodeLaunch, Xrt, Finish, Continue
<1>5. ret'.rc = "ok" => op.layer = NumLayers - 1
  BY <1>2, <1>4, RunnerAssumption DEF Layers
<1>6. ret'.rc = "ok" => logits' = [row |-> act[ActIn(op.layer)][0 + 1 - 1], pos |-> op.pos + (0 + 1 - 1)]
  BY <1>4, <1>5 DEF DecoderLayer
<1>7. op' = IdleOp \/ op' = [op EXCEPT !.layer = @ + 1]
  BY DEF DecodeLaunch, Xrt, Finish, Continue
<1>8. QED
  BY <1>2, <1>6, <1>7

(* The other launches continue their own call.                                *)
LEMMA OtherLaunches ==
  ASSUME RunnerTypeOK, EncodeLaunch \/ BridgeLaunch \/ PrefillLaunch
  PROVE  op.name # "decode" /\ op'.name # "decode" /\ op # IdleOp
<1>1. IdleOp.name = "idle"
  BY DEF IdleOp
<1>2. CASE EncodeLaunch
  <2>1. op \in OpEncode
    BY <1>2, OpByName DEF RunnerTypeOK, EncodeLaunch
  <2>2. op' = IdleOp \/ op' = [op EXCEPT !.k = @ + 1]
    BY <1>2 DEF EncodeLaunch, Xrt, Finish, Continue
  <2>3. QED
    BY <1>1, <2>1, <2>2 DEF OpEncode
<1>3. CASE BridgeLaunch
  <2>1. op.name = "bridge" /\ op' = IdleOp
    BY <1>3 DEF BridgeLaunch, Xrt, Finish
  <2>2. QED
    BY <1>1, <2>1
<1>4. CASE PrefillLaunch
  <2>1. op \in OpPrefill
    BY <1>4, OpByName DEF RunnerTypeOK, PrefillLaunch
  <2>2. \/ op' = IdleOp
        \/ op' = [op EXCEPT !.tile = @ + PrefillTile]
        \/ op' = [op EXCEPT !.layer = @ + 1, !.tile = 0]
    BY <1>4 DEF PrefillLaunch, NextPrefillLaunch, Xrt, Finish, Continue
  <2>3. QED
    BY <1>1, <2>1, <2>2 DEF OpPrefill
<1>5. QED
  BY <1>2, <1>3, <1>4

LEMMA SessionStepKeeps == IInv /\ SessionStep => IInv'
<1> SUFFICES ASSUME IInv, Step, UNCHANGED server PROVE IInv'
  BY DEF SessionStep
<1>1. RunnerTypeOK'
  BY StepType DEF IInv
<1>2. ServerOK' /\ TokensOK' /\ AnswersOK'
  BY ServerKept DEF IInv
<1>3. UNCHANGED <<pc, cur_pos>>
  BY DEF server
<1>4. op # IdleOp
  BY InProgress DEF IInv
<1>5. pc \in Stages \ {"logits", "embed"}
  BY <1>4 DEF IInv, StageOK, ServerOK, Callable, Stages
<1>6. CASE DecodeLaunch
  <2>1. op.name = "decode" /\ op \in OpDecode
    BY <1>6, OpByName DEF DecodeLaunch, IInv, RunnerTypeOK
  <2>2. pc = "decode" /\ op.pos = cur_pos /\ op.window = 1
    BY <2>1 DEF IInv, StageOK
  <2>3. /\ ret'.rc = "ok" => logits'.pos = cur_pos
        /\ op' = IdleOp \/ op' = [op EXCEPT !.layer = @ + 1]
    BY <1>6, <2>2, DecodeScores DEF IInv
  <2>4. \/ op' = IdleOp /\ op'.name = "idle"
        \/ op'.name = "decode" /\ op'.pos = cur_pos /\ op'.window = 1
    BY <2>1, <2>2, <2>3 DEF OpDecode, IdleOp
  <2>5. StageOK'
    BY <1>3, <2>2, <2>3, <2>4 DEF StageOK, Stages
  <2>6. QED
    BY <1>1, <1>2, <2>5 DEF IInv
<1>7. CASE EncodeLaunch \/ BridgeLaunch \/ PrefillLaunch
  <2>1. op.name # "decode" /\ op'.name # "decode"
    BY <1>7, OtherLaunches DEF IInv
  <2>2. pc # "decode"
    BY <1>4, <2>1 DEF IInv, StageOK
  <2>3. StageOK'
    BY <1>3, <1>5, <2>1, <2>2 DEF StageOK
  <2>4. QED
    BY <1>1, <1>2, <2>3 DEF IInv
<1>8. QED
  BY <1>6, <1>7 DEF Step


-----------------------------------------------------------------------------
(* Admission.                                                                 *)

(* An answer without tokens, sent while nobody is served.                     *)
LEMMA RefusalKeeps ==
  ASSUME IInv, pc = "idle", NEW r \in Requests, NEW status \in {"cpu", "error"},
         Send(r, status, <<>>),
         UNCHANGED <<vars, pc, task, seq_len, cur_pos, generated, embeddable>>
  PROVE  IInv'
<1>1. RunnerTypeOK' /\ UNCHANGED <<op, ret, logits>> /\ (Callable => Callable')
  BY VarsKept DEF IInv
<1>2. /\ answer' \in [Requests -> AnswerSet]
      /\ answer'[r].tokens = <<>>
      /\ \A s \in Requests \ {r} : answer'[s] = answer[s]
  <2>1. <<>> \in Seq(GenSet) /\ status \in {"waiting", "cpu", "error", "result"}
    OBVIOUS
  <2>2. answer \in [Requests -> AnswerSet]
    BY DEF IInv, ServerOK
  <2>3. QED
    BY <2>1, <2>2, SendType, Zenon
<1>3. ServerOK'
  BY <1>2 DEF IInv, ServerOK, Serving
<1>4. StageOK'
  BY <1>1 DEF IInv, StageOK
<1>5. TokensOK'
  BY DEF IInv, TokensOK
<1>6. \A s \in Requests : Len(answer'[s].tokens) = 0 \/ answer'[s] = answer[s]
  BY <1>2
<1>7. OnlyLastTokenPastLimit' /\ NoEmbeddingNoSecondToken'
  BY <1>6 DEF IInv, AnswersOK, OnlyLastTokenPastLimit, NoEmbeddingNoSecondToken
<1>8. AnswersOK'
  BY <1>7 DEF AnswersOK, Serving, Stages
<1>9. QED
  BY <1>1, <1>3, <1>4, <1>5, <1>8 DEF IInv

LEMMA AdmitKeeps ==
  ASSUME IInv, NEW r \in Requests, NEW tokens \in Tasks, NEW stream \in BOOLEAN,
         Admit(r, tokens, stream)
  PROVE  IInv'
<1>1. RunnerTypeOK' /\ UNCHANGED <<op, ret, logits>> /\ Callable
  BY VarsKept DEF IInv, Admit, StageOK, Stages
<1>2. task' \in TaskSet /\ task'.who = r /\ generated' = <<>> /\ pc' = "patches"
  BY CompletionAssumption DEF Admit, TaskSet
<1>3. ServerOK'
  BY <1>2 DEF Admit, IInv, ServerOK, Stages
<1>4. StageOK'
  BY <1>1, <1>2 DEF StageOK, Callable, IdleOp, Stages
<1>5. TokensOK'
  BY <1>2, CompletionAssumption DEF TokensOK
<1>6. AnswersOK'
  BY <1>2 DEF Admit, IInv, AnswersOK, OnlyLastTokenPastLimit, NoEmbeddingNoSecondToken
<1>7. QED
  BY <1>1, <1>3, <1>4, <1>5, <1>6 DEF IInv

LEMMA CrashKeeps ==
  ASSUME IInv, NEW r \in Requests, NEW tokens \in Tasks, NEW stream \in BOOLEAN,
         Crash(r, tokens, stream)
  PROVE  IInv'
<1>1. RunnerTypeOK' /\ UNCHANGED <<op, ret, logits>> /\ Callable /\ Callable'
  BY VarsKept DEF IInv, Crash, StageOK, Stages
<1>2. pc' = "crashed" /\ UNCHANGED <<task, seq_len, cur_pos, generated, answer, embeddable>>
  BY DEF Crash
<1>3. ServerOK'
  BY <1>2 DEF IInv, ServerOK, Serving, Stages
<1>4. StageOK'
  BY <1>1, <1>2 DEF StageOK, Callable, IdleOp
<1>5. TokensOK'
  BY <1>2 DEF IInv, TokensOK
<1>6. AnswersOK'
  BY <1>2 DEF IInv, AnswersOK, OnlyLastTokenPastLimit, NoEmbeddingNoSecondToken, Serving, Stages
<1>7. QED
  BY <1>1, <1>3, <1>4, <1>5, <1>6 DEF IInv

-----------------------------------------------------------------------------
(* What the task does with a return code.                                     *)

(* The session at the next stage, whichever it is.                            *)
LEMMA ReturnKeeps ==
  ASSUME IInv, Return, pc' \in Stages \cup {"idle", "send", "crashed"},
         pc' = "logits" => logits.pos = cur_pos /\ UNCHANGED cur_pos
  PROVE  RunnerTypeOK' /\ StageOK'
<1>1. RunnerTypeOK' /\ Callable' /\ UNCHANGED logits
  BY ReturnFrees DEF IInv
<1>2. op' = IdleOp /\ op'.name # "decode" /\ ret'.rc # "ok"
  BY <1>1 DEF Callable, IdleOp, NoRet
<1>3. QED
  BY <1>1, <1>2 DEF StageOK

LEMMA CallFailedKeeps == IInv /\ CallFailed => IInv'
<1> SUFFICES ASSUME IInv, CallFailed PROVE IInv'
  OBVIOUS
<1>1. RunnerTypeOK' /\ StageOK'
  BY ReturnKeeps DEF CallFailed
<1>2. op = IdleOp /\ ret # NoRet
  BY ReturnFrees DEF CallFailed, IInv, Return
<1>3. Serving /\ task \in TaskSet /\ task.who \in Requests
  BY <1>2 DEF IInv, StageOK, ServerOK, Serving, Callable, TaskSet
<1>4. /\ answer' \in [Requests -> AnswerSet]
      /\ answer'[task.who].tokens = <<>>
      /\ \A s \in Requests \ {task.who} : answer'[s] = answer[s]
  <2>1. <<>> \in Seq(GenSet) /\ "error" \in {"waiting", "cpu", "error", "result"}
    OBVIOUS
  <2>2. answer \in [Requests -> AnswerSet]
    BY DEF IInv, ServerOK
  <2>3. Send(task.who, "error", <<>>)
    BY DEF CallFailed
  <2>4. QED
    BY <1>3, <2>1, <2>2, <2>3, SendType, Zenon
<1>5. ServerOK'
  BY <1>4 DEF CallFailed, IInv, ServerOK, Serving, Stages
<1>6. TokensOK'
  BY DEF CallFailed, IInv, TokensOK
<1>7. \A s \in Requests : Len(answer'[s].tokens) = 0 \/ answer'[s] = answer[s]
  BY <1>4
<1>8. OnlyLastTokenPastLimit' /\ NoEmbeddingNoSecondToken'
  BY <1>7 DEF CallFailed, IInv, AnswersOK, OnlyLastTokenPastLimit, NoEmbeddingNoSecondToken
<1>9. AnswersOK'
  BY <1>8 DEF CallFailed, AnswersOK, Serving, Stages
<1>10. QED
  BY <1>1, <1>5, <1>6, <1>9 DEF IInv

(* The answers while a task is served.                                        *)
LEMMA AnswersKept ==
  ASSUME AnswersOK, Serving, UNCHANGED <<task, answer, embeddable>>
  PROVE  AnswersOK'
<1>1. OnlyLastTokenPastLimit' /\ NoEmbeddingNoSecondToken'
  BY DEF AnswersOK, OnlyLastTokenPastLimit, NoEmbeddingNoSecondToken
<1>2. QED
  BY <1>1 DEF AnswersOK

LEMMA StageDoneKeeps == IInv /\ StageDone => IInv'
<1> SUFFICES ASSUME IInv, StageDone PROVE IInv'
  OBVIOUS
<1>1. Return /\ ret.rc = "ok" /\ UNCHANGED <<task, seq_len, cur_pos, generated, answer, embeddable>>
  BY DEF StageDone, After
<1>2. \/ pc = "patches" /\ pc' = "encode"
      \/ pc = "encode" /\ pc' = "build"
      \/ pc = "decode" /\ pc' = "logits"
  BY DEF StageDone, After
<1>3. pc' = "logits" => logits.pos = cur_pos
  BY <1>1, <1>2 DEF IInv, StageOK
<1>4. RunnerTypeOK' /\ StageOK'
  BY <1>1, <1>2, <1>3, ReturnKeeps DEF Stages
<1>5. ServerOK'
  BY <1>1, <1>2 DEF IInv, ServerOK, Serving, Stages
<1>6. TokensOK'
  BY <1>1, <1>2 DEF IInv, TokensOK
<1>7. AnswersOK'
  BY <1>1, <1>2, AnswersKept DEF IInv, Serving, Stages
<1>8. QED
  BY <1>4, <1>5, <1>6, <1>7 DEF IInv

LEMMA BuildDoneKeeps == IInv /\ BuildDone => IInv'
<1> SUFFICES ASSUME IInv, BuildDone PROVE IInv'
  OBVIOUS
<1>1. /\ Return /\ pc = "build" /\ pc' = "prefill" /\ seq_len' = ret.seq_len
      /\ UNCHANGED <<task, cur_pos, generated, answer, embeddable>>
  BY DEF BuildDone, After
<1>2. RunnerTypeOK' /\ StageOK'
  BY <1>1, ReturnKeeps DEF Stages
<1>3. seq_len' \in 0 .. MaxSeq
  BY <1>1 DEF IInv, RunnerTypeOK
<1>4. ServerOK'
  BY <1>1, <1>3 DEF IInv, ServerOK, Serving, Stages
<1>5. TokensOK'
  BY <1>1 DEF IInv, TokensOK
<1>6. AnswersOK'
  BY <1>1, AnswersKept DEF IInv, Serving, Stages
<1>7. QED
  BY <1>2, <1>4, <1>5, <1>6 DEF IInv

LEMMA PrefillDoneKeeps == IInv /\ PrefillDone => IInv'
<1> SUFFICES ASSUME IInv, PrefillDone PROVE IInv'
  OBVIOUS
<1>1. /\ Return /\ pc = "prefill" /\ pc' = "decode" /\ cur_pos' = seq_len
      /\ UNCHANGED <<task, seq_len, generated, answer, embeddable>>
  BY DEF PrefillDone, After
<1>2. RunnerTypeOK' /\ StageOK'
  BY <1>1, ReturnKeeps DEF Stages
<1>3. ServerOK'
  BY <1>1 DEF IInv, ServerOK, Serving, Stages
<1>4. TokensOK'
  BY <1>1, CompletionAssumption DEF IInv, TokensOK
<1>5. AnswersOK'
  BY <1>1, AnswersKept DEF IInv, Serving, Stages
<1>6. QED
  BY <1>2, <1>3, <1>4, <1>5 DEF IInv

LEMMA SampleKeeps == IInv /\ Sample => IInv'
<1> SUFFICES ASSUME IInv, Sample PROVE IInv'
  OBVIOUS
<1> DEFINE new == [who |-> logits.row.who, pos |-> logits.pos]
<1>1. /\ Return /\ pc = "logits" /\ generated' = Append(generated, new)
      /\ UNCHANGED <<task, seq_len, cur_pos, answer, embeddable>>
  BY DEF Sample, After
<1>2. \/ pc' = "send"
      \/ pc' = "embed" /\ embeddable
      \/ pc' = "crashed" /\ ~embeddable
  BY DEF Sample
<1>3. new \in GenSet /\ new.pos = cur_pos
  BY <1>1 DEF IInv, StageOK, RunnerTypeOK, KvSet, RowSet, GenSet
<1>4. RunnerTypeOK' /\ StageOK'
  BY <1>1, <1>2, ReturnKeeps DEF Stages
<1>5. generated \in Seq(GenSet)
  BY DEF IInv, ServerOK
<1>6. ServerOK'
  BY <1>1, <1>2, <1>3, <1>5 DEF IInv, ServerOK, Serving, Stages
<1>7. /\ Len(generated) < NPredict
      /\ ~embeddable => generated = <<>>
      /\ \A i \in 1 .. Len(generated) : generated[i].pos < MaxSeq
  BY <1>1 DEF IInv, TokensOK
<1> HIDE DEF new
<1>8. /\ Len(generated') = Len(generated) + 1
      /\ generated'[Len(generated) + 1] = new
      /\ \A i \in 1 .. Len(generated) : generated'[i] = generated[i]
  BY <1>1, <1>3, <1>5
<1>9. Len(generated') <= NPredict /\ (~embeddable => Len(generated') = 1)
  <2>1. Len(generated) \in Nat
    BY <1>5
  <2>2. QED
    BY <2>1, <1>7, <1>8, CompletionAssumption
<1>10. \A i \in 1 .. Len(generated') - 1 : generated'[i].pos < MaxSeq
  BY <1>5, <1>7, <1>8
<1>11. TokensOK'
  BY <1>1, <1>2, <1>3, <1>5, <1>8, <1>9, <1>10 DEF TokensOK
<1>12. AnswersOK'
  BY <1>1, AnswersKept DEF IInv, Serving, Stages
<1>13. QED
  BY <1>4, <1>6, <1>11, <1>12 DEF IInv

LEMMA TokenWrittenKeeps == IInv /\ TokenWritten => IInv'
<1> SUFFICES ASSUME IInv, TokenWritten PROVE IInv'
  OBVIOUS
<1>1. /\ Return /\ pc = "embed" /\ ret.rc = "ok" /\ cur_pos' = cur_pos + 1
      /\ UNCHANGED <<task, seq_len, generated, answer, embeddable>>
  BY DEF TokenWritten, After
<1>2. \/ pc' = "decode" /\ Len(generated) < NPredict
      \/ pc' = "send"
  BY DEF TokenWritten
<1>3. cur_pos \in Nat /\ cur_pos < MaxSeq
  BY <1>1, RunnerAssumption DEF IInv, StageOK, ServerOK
<1>4. RunnerTypeOK' /\ StageOK'
  BY <1>1, <1>2, ReturnKeeps DEF Stages
<1>5. cur_pos' \in 0 .. MaxSeq
  BY <1>1, <1>3, RunnerAssumption
<1>6. ServerOK'
  BY <1>1, <1>2, <1>5 DEF IInv, ServerOK, Serving, Stages
<1>7. \A i \in 1 .. Len(generated) : generated[i].pos < MaxSeq
  <2>1. generated[Len(generated)].pos = cur_pos
    BY <1>1 DEF IInv, TokensOK
  <2>2. \A i \in 1 .. Len(generated) - 1 : generated[i].pos < MaxSeq
    BY DEF IInv, TokensOK
  <2>3. Len(generated) \in Nat
    BY DEF IInv, ServerOK
  <2>4. QED
    BY <1>3, <2>1, <2>2, <2>3
<1>8. TokensOK'
  BY <1>1, <1>2, <1>7 DEF IInv, TokensOK
<1>9. AnswersOK'
  BY <1>1, AnswersKept DEF IInv, Serving, Stages
<1>10. QED
  BY <1>4, <1>6, <1>8, <1>9 DEF IInv

LEMMA SendResultKeeps == IInv /\ SendResult => IInv'
<1> SUFFICES ASSUME IInv, SendResult PROVE IInv'
  OBVIOUS
<1>1. /\ pc = "send" /\ pc' = "idle" /\ task' = NoTask
      /\ UNCHANGED <<vars, seq_len, cur_pos, generated, embeddable>>
      /\ Send(task.who, "result", generated)
  BY DEF SendResult
<1>2. task.who \in Requests /\ generated \in Seq(GenSet)
  BY <1>1 DEF IInv, ServerOK, Serving, TaskSet
<1>3. /\ answer' \in [Requests -> AnswerSet]
      /\ answer'[task.who].tokens = generated
      /\ \A s \in Requests \ {task.who} : answer'[s] = answer[s]
  BY <1>1, <1>2, SendType DEF IInv, ServerOK
<1>4. RunnerTypeOK' /\ StageOK'
  <2>1. RunnerTypeOK' /\ Callable'
    BY <1>1, VarsKept DEF IInv, StageOK, Stages
  <2>2. QED
    BY <1>1, <2>1 DEF StageOK, Callable, IdleOp
<1>5. ServerOK'
  BY <1>1, <1>3 DEF IInv, ServerOK, Serving, Stages
<1>6. TokensOK'
  BY <1>1 DEF IInv, TokensOK
<1>7. \A s \in Requests : answer'[s].tokens = generated \/ answer'[s] = answer[s]
  BY <1>3
<1>8. /\ \A i \in 1 .. Len(generated) - 1 : generated[i].pos < MaxSeq
      /\ ~embeddable => Len(generated) <= 1
  BY DEF IInv, TokensOK
<1>9. OnlyLastTokenPastLimit' /\ NoEmbeddingNoSecondToken'
  BY <1>1, <1>7, <1>8 DEF IInv, AnswersOK, OnlyLastTokenPastLimit, NoEmbeddingNoSecondToken
<1>10. AnswersOK'
  BY <1>1, <1>9 DEF AnswersOK, Serving, Stages
<1>11. QED
  BY <1>4, <1>5, <1>6, <1>10 DEF IInv

-----------------------------------------------------------------------------
(* The theorems.                                                              *)

LEMMA InitServerOK == InitServer => IInv
<1> SUFFICES ASSUME InitServer PROVE IInv
  OBVIOUS
<1>1. RunnerTypeOK /\ Callable
  BY InitType DEF InitServer, Init, Callable
<1>2. answer \in [Requests -> AnswerSet] /\ \A r \in Requests : Len(answer[r].tokens) = 0
  BY DEF InitServer, Waiting, AnswerSet
<1>3. ServerOK
  BY <1>2, RunnerAssumption DEF InitServer, ServerOK, Serving, Stages
<1>4. StageOK
  BY <1>1 DEF InitServer, StageOK, Callable, IdleOp, Stages
<1>5. TokensOK
  BY CompletionAssumption DEF InitServer, TokensOK
<1>6. AnswersOK
  BY <1>2 DEF InitServer, AnswersOK, Serving, Stages, OnlyLastTokenPastLimit, NoEmbeddingNoSecondToken
<1>7. QED
  BY <1>1, <1>3, <1>4, <1>5, <1>6 DEF IInv

LEMMA StutterKeeps == IInv /\ UNCHANGED allvars => IInv'
<1> SUFFICES ASSUME IInv, UNCHANGED allvars PROVE IInv'
  OBVIOUS
<1>1. UNCHANGED vars /\ UNCHANGED server
  BY DEF allvars
<1>2. RunnerTypeOK' /\ (Callable => Callable') /\ UNCHANGED <<op, ret, logits>>
  BY <1>1, VarsKept DEF IInv
<1>3. ServerOK' /\ TokensOK' /\ AnswersOK'
  BY <1>1, ServerKept DEF IInv
<1>4. StageOK'
  BY <1>1, <1>2 DEF server, IInv, StageOK
<1>5. QED
  BY <1>2, <1>3, <1>4 DEF IInv

LEMMA NextServerKeeps == IInv /\ [NextServer]_allvars => IInv'
<1> SUFFICES ASSUME IInv, [NextServer]_allvars PROVE IInv'
  OBVIOUS
<1>1. ASSUME NEW r \in Requests, NEW tokens \in Tasks, FallBack(r, tokens) PROVE IInv'
  BY <1>1, RefusalKeeps DEF FallBack
<1>2. ASSUME NEW r \in Requests, NEW tokens \in Tasks, NEW stream \in BOOLEAN,
             Reject(r, tokens, stream)
      PROVE  IInv'
  BY <1>2, RefusalKeeps DEF Reject
<1>3. ASSUME NEW r \in Requests, NEW tokens \in Tasks, NEW stream \in BOOLEAN,
             Admit(r, tokens, stream) \/ Crash(r, tokens, stream)
      PROVE  IInv'
  BY <1>3, AdmitKeeps, CrashKeeps
<1>4. CASE RunTask
  BY <1>4, CallSessionKeeps, SessionStepKeeps, CallFailedKeeps, StageDoneKeeps,
     BuildDoneKeeps, PrefillDoneKeeps, SampleKeeps, TokenWrittenKeeps, SendResultKeeps
     DEF RunTask
<1>5. CASE UNCHANGED allvars
  BY <1>5, StutterKeeps
<1>6. QED
  BY <1>1, <1>2, <1>3, <1>4, <1>5 DEF NextServer

LEMMA Inductive == SpecServer => []IInv
BY InitServerOK, NextServerKeeps, PTL DEF SpecServer

(* The server's variables keep their types, and no more than NPredict tokens  *)
(* are generated, whatever fails.                                             *)
THEOREM ServerTypes == SpecServer => []TypeOK
<1>1. IInv => TypeOK
  BY DEF IInv, ServerOK, TokensOK, TypeOK, Serving, Stages, TaskSet, AnswerSet
<1>2. QED
  BY <1>1, Inductive, PTL

(* With an embedding table the path cannot read, no answer has a second       *)
(* token: the one exit from the token loop before the lookup is the only one  *)
(* that sends (server.cpp:3347-3380).                                         *)
THEOREM OneTokenWithoutEmbedding == SpecServer => []NoEmbeddingNoSecondToken
<1>1. IInv => NoEmbeddingNoSecondToken
  BY DEF IInv, AnswersOK
<1>2. QED
  BY <1>1, Inductive, PTL

(* run_decode_ttft bounds no position; still only an answer's last token is   *)
(* decoded past the rows, for every number of rows and length of prompt.      *)
THEOREM PastLimitOnlyLast == SpecServer => []OnlyLastTokenPastLimit
<1>1. IInv => OnlyLastTokenPastLimit
  BY DEF IInv, AnswersOK
<1>2. QED
  BY <1>1, Inductive, PTL

(* Whatever the calls return, a request that has been answered is not         *)
(* answered again: an error ends the task, and no stage sends to a request    *)
(* that is not the one being served.                                          *)
THEOREM AnsweredOnce == SpecServer => AnswerOnce
<1> DEFINE Kept == \A r \in Requests : answer[r] # Waiting => answer'[r] = answer[r]
<1>1. ASSUME IInv, [NextServer]_allvars PROVE Kept
  <2>1. ASSUME NEW r \in Requests, answer[r] = Waiting,
               NEW status, NEW toks, Send(r, status, toks)
        PROVE  Kept
    BY <1>1, <2>1 DEF Send, IInv, ServerOK
  <2>2. ASSUME NEW r \in Requests, NEW tokens \in Tasks, NEW stream \in BOOLEAN,
               FallBack(r, tokens) \/ Reject(r, tokens, stream)
        PROVE  Kept
    BY <2>1, <2>2 DEF FallBack, Reject
  <2>3. ASSUME NEW r \in Requests, NEW tokens \in Tasks, NEW stream \in BOOLEAN,
               Admit(r, tokens, stream) \/ Crash(r, tokens, stream)
        PROVE  Kept
    BY <2>3 DEF Admit, Crash
  <2>4. CASE CallFailed \/ SendResult
    <3>1. Serving
      <4>1. CallFailed => ~Callable
        BY DEF CallFailed, Return, Callable
      <4>2. QED
        BY <1>1, <2>4, <4>1 DEF IInv, StageOK, ServerOK, Serving, SendResult
    <3>2. task.who \in Requests /\ answer[task.who] = Waiting
      BY <1>1, <3>1 DEF IInv, ServerOK, AnswersOK, TaskSet
    <3>3. QED
      BY <2>1, <2>4, <3>2 DEF CallFailed, SendResult
  <2>5. CASE CallSession \/ SessionStep \/ StageDone \/ BuildDone \/ PrefillDone \/ Sample \/ TokenWritten
    <3>1. UNCHANGED answer
      BY <2>5, CallFrame DEF SessionStep, StageDone, BuildDone, PrefillDone, Sample, TokenWritten, server
    <3>2. QED
      BY <3>1
  <2>6. CASE UNCHANGED allvars
    BY <2>6 DEF allvars, server
  <2>7. QED
    BY <1>1, <2>2, <2>3, <2>4, <2>5, <2>6 DEF NextServer, RunTask
<1>2. QED
  BY <1>1, Inductive, PTL DEF SpecServer, AnswerOnce

-----------------------------------------------------------------------------
(***************************************************************************)
(* The completion path implements CompletionService, step by step, for      *)
(* every value of the constants: in particular no token is sampled from     *)
(* what another request left in a buffer.                                   *)
(***************************************************************************)

(* Data of the request being served, or of nobody (zeroed rows).              *)
Own(row) == row.who \in {task.who, NoOne}

-----------------------------------------------------------------------------
(* The inductive invariant, added to IInv.                                    *)

CallOK ==
  /\ op.name = "encode" => pc = "encode"
  /\ op.name = "bridge" => pc = "build"
  /\ op.name = "prefill" => pc = "prefill"

(* Each vision buffer an encode launch is about to read has this request's    *)
(* image in it.                                                               *)
VisionOK ==
  /\ (pc = "patches" /\ ret.rc = "ok") \/ pc = "encode" => vit["act"].who = task.who
  /\ op.name = "encode" => vit[EncodeSrc[op.k]].who = task.who
  /\ (pc = "encode" /\ ret.rc = "ok") \/ pc = "build" => vit["image_tokens"].who = task.who

(* Once the prompt is staged nothing of another request is in act_ping_, the  *)
(* buffer every layer reads.                                                  *)
RowsOK ==
  /\ \/ pc = "build" /\ (op.name = "bridge" \/ ret.rc = "ok")
     \/ pc \in {"prefill", "decode", "logits", "embed"}
     => \A t \in Rows : Own(act["ping"][t])
  /\ (pc = "decode" /\ ret.rc = "ok") \/ pc = "logits" => Own(logits.row)

(* The tokens generated so far, at consecutive positions.                     *)
HistoryOK ==
  /\ Serving => \A i \in 1 .. Len(generated) : Own(generated[i])
  /\ pc \in {"decode", "logits"} /\ generated # <<>>
       => cur_pos = generated[Len(generated)].pos + 1
  /\ pc = "send" => generated # <<>>

DataOK == CallOK /\ VisionOK /\ RowsOK /\ HistoryOK


-----------------------------------------------------------------------------
(* What the calls and launches leave in the buffers.                          *)

(* The text tokens of a prompt can be counted.                                *)
LEMMA TextTokensCounted ==
  ASSUME task \in TaskSet
  PROVE  Cardinality(TextTokens(task.tokens)) \in Nat
<1>1. TextTokens(task.tokens) \subseteq 1 .. Len(task.tokens) /\ Len(task.tokens) \in Nat
  BY DEF TextTokens, TaskSet
<1>2. IsFiniteSet(1 .. Len(task.tokens))
  BY <1>1, FS_Interval
<1>3. QED
  BY <1>1, <1>2, FS_Subset, FS_CardinalityType

(* Every row build_prefill_activations stages is the request's own.           *)
LEMMA StagedOwn ==
  ASSUME task \in TaskSet, NEW t \in Rows
  PROVE  Own(Staged(TokenIds(task.tokens), TaskEmbeddings(task), t))
<1> DEFINE tokens == TokenIds(task.tokens)
           emb == TaskEmbeddings(task)
<1>1. tokens \in Tokens /\ Embedded(tokens, emb)
  BY TaskEmbedded
<1>2. \A k \in 1 .. Len(emb) : Own(emb[k])
  <2>1. Cardinality(TextTokens(task.tokens)) \in Nat
    BY TextTokensCounted
  <2>2. QED
    BY <2>1 DEF TaskEmbeddings, TextEmbeddings, Row, Own
<1>3. t \in Int /\ 0 \in Int /\ Prepended(tokens) \in Int
  BY RunnerAssumption DEF Rows, Prepended
<1>4. Own(Zeroed)
  BY DEF Own, Zeroed, Row
<1> HIDE DEF tokens, emb
<1>5. Own(FirstPass(tokens, emb, t))
  <2>1. \/ FirstPass(tokens, emb, t) = Zeroed
        \/ \E k \in 1 .. Len(emb) : FirstPass(tokens, emb, t) = emb[k]
    BY <1>1, <1>3, CopiedFrom DEF FirstPass
  <2>2. QED
    BY <1>2, <1>4, <2>1
<1>6. Own(Staged(tokens, emb, t))
  <2>1. \/ Staged(tokens, emb, t) = FirstPass(tokens, emb, t)
        \/ \E k \in 1 .. Len(emb) : Staged(tokens, emb, t) = emb[k]
    BY <1>1, <1>3, CopiedFrom DEF Staged
  <2>2. QED
    BY <1>2, <1>5, <2>1
<1>7. QED
  BY <1>6 DEF tokens, emb

LEMMA BuildLeaves ==
  ASSUME RunnerTypeOK, task \in TaskSet,
         BuildPrefillActivations(TokenIds(task.tokens), TaskEmbeddings(task))
  PROVE  /\ op'.name = "bridge" => \A t \in Rows : Own(act'["ping"][t])
         /\ op' = IdleOp \/ op'.name = "bridge"
         /\ ret'.rc # "ok"
<1> DEFINE staged == [t \in Rows |-> Staged(TokenIds(task.tokens), TaskEmbeddings(task), t)]
<1>1. IdleOp.name # "bridge" /\ Throws.rc # "ok" /\ NoRet.rc # "ok"
  BY DEF IdleOp, Throws, NoRet
<1>2. \A t \in Rows : Own(staged[t])
  BY StagedOwn
<1> HIDE DEF staged
<1>3. \/ op'.name = "bridge" /\ UNCHANGED ret /\ act' = [act EXCEPT !["ping"] = staged]
      \/ op' = IdleOp /\ ret' = Throws
  BY DEF BuildPrefillActivations, Xrt, Continue, Finish, staged
<1>4. ret = NoRet
  BY DEF BuildPrefillActivations, Callable
<1>5. act' = [act EXCEPT !["ping"] = staged] => act'["ping"] = staged
  BY DEF RunnerTypeOK
<1>6. QED
  BY <1>1, <1>2, <1>3, <1>4, <1>5

LEMMA EncodeLeaves ==
  ASSUME RunnerTypeOK, EncodeLaunch, VisionOK, pc = "encode"
  PROVE  /\ vit'["act"].who = task.who
         /\ op'.name = "encode" => vit'[EncodeSrc[op'.k]].who = task.who
         /\ ret'.rc = "ok" => vit'["image_tokens"].who = task.who
         /\ op' = IdleOp \/ op'.name = "encode"
<1> DEFINE through == Through(vit[EncodeSrc[op.k]], Pipeline[op.k])
<1>1. through.who = task.who
  BY EncodeMoves DEF VisionOK, Through, VitSet
<1>2. IdleOp.name # "encode" /\ Throws.rc # "ok" /\ NoRet.rc # "ok"
  BY DEF IdleOp, Throws, NoRet
<1>3. vit["act"].who = task.who
  BY DEF VisionOK
<1> HIDE DEF through
<1>4. QED
  BY <1>1, <1>2, <1>3, EncodeMoves DEF through

(* The bridge puts this request's image in the placeholder's rows.            *)
LEMMA BridgeLeaves ==
  ASSUME RunnerTypeOK, BridgeLaunch, vit["image_tokens"].who = task.who,
         \A t \in Rows : Own(act["ping"][t])
  PROVE  (\A t \in Rows : Own(act'["ping"][t])) /\ op' = IdleOp
<1>1. \A t \in Rows : Own(BridgedRow(t))
  BY DEF BridgedRow, Row, Own
<1>2. op' = IdleOp
  BY DEF BridgeLaunch, Xrt, Finish
<1> DEFINE dst == ImageDst(op.tokens) .. ImageDst(op.tokens) + ImageTokens - 1
           bridged == [t \in Rows |-> IF t \in dst THEN BridgedRow(t) ELSE act["ping"][t]]
<1>3. act' = [act EXCEPT !["ping"] = bridged] \/ UNCHANGED act
  BY DEF BridgeLaunch, Xrt
<1>4. \A t \in Rows : Own(bridged[t])
  BY <1>1
<1> HIDE DEF bridged
<1>5. CASE act' = [act EXCEPT !["ping"] = bridged]
  <2>1. act'["ping"] = bridged
    BY <1>5 DEF RunnerTypeOK
  <2>2. QED
    BY <1>2, <1>4, <2>1
<1>6. CASE UNCHANGED act
  BY <1>2, <1>6
<1>7. QED
  BY <1>3, <1>5, <1>6

(* A decoder layer takes its rows from act_ping_, whatever its parity, and     *)
(* adds nothing of its own to them.                                           *)
LEMMA LayerLeaves ==
  ASSUME RunnerTypeOK,
         NEW l \in Layers, NEW off \in Nat, NEW count \in Nat \ {0}, NEW pos \in Nat,
         NEW run_lmhead \in BOOLEAN, off + count <= MaxSeq,
         DecoderLayer(l, off, count, pos, run_lmhead),
         \A t \in Rows : Own(act["ping"][t])
  PROVE  /\ \A t \in Rows : Own(act'["ping"][t])
         /\ run_lmhead => Own(logits'.row)
<1> DEFINE work == off .. off + count - 1
           out == [t \in Rows |->
                     IF t \in work THEN [act["ping"][t] EXCEPT !.stage = l + 1] ELSE act[ActOut(l)][t]]
<1>1. ActIn(l) = "ping" /\ ActOut(l) \in {"ping", "pong"}
  BY DEF ActIn, ActOut, ArgPing, ArgPong
<1>2. act' = [act EXCEPT ![ActOut(l)] = out]
  BY <1>1 DEF DecoderLayer
<1>3. ASSUME NEW t \in Rows PROVE Own([act["ping"][t] EXCEPT !.stage = l + 1])
  <2>1. act["ping"][t] \in RowSet
    BY DEF RunnerTypeOK
  <2>2. Own(act["ping"][t])
    OBVIOUS
  <2>3. QED
    BY <2>1, <2>2 DEF RowSet, Own
<1>4. \A t \in Rows : ActOut(l) = "ping" => Own(out[t])
  BY <1>3
<1> HIDE DEF out
<1>5. (act'["ping"] = out /\ ActOut(l) = "ping") \/ act'["ping"] = act["ping"]
  BY <1>1, <1>2 DEF RunnerTypeOK
<1>6. \A t \in Rows : Own(act'["ping"][t])
  BY <1>4, <1>5
<1>7. run_lmhead => Own(logits'.row)
  <2>1. off + count - 1 \in Rows
    BY RunnerAssumption DEF Rows
  <2>2. run_lmhead => logits'.row = act["ping"][off + count - 1]
    BY <1>1 DEF DecoderLayer
  <2>3. QED
    BY <2>1, <2>2
<1>8. QED
  BY <1>6, <1>7

LEMMA PrefillLeaves ==
  ASSUME RunnerTypeOK, PrefillLaunch, \A t \in Rows : Own(act["ping"][t])
  PROVE  (\A t \in Rows : Own(act'["ping"][t])) /\ (op' = IdleOp \/ op'.name = "prefill")
<1>1. op \in OpPrefill /\ op.tile < op.len
  BY OpByName DEF RunnerTypeOK, PrefillLaunch
<1>2. /\ op.layer \in Layers /\ op.tile \in Nat /\ op.len \in Nat /\ op.len <= MaxSeq
  BY <1>1, RunnerAssumption DEF OpPrefill
<1>3. /\ TileSize(op.len, op.tile) \in Nat \ {0}
      /\ op.tile + TileSize(op.len, op.tile) <= MaxSeq
  <2>1. op.tile + TileSize(op.len, op.tile) <= op.len
    BY <1>1, <1>2, TileBounds
  <2>2. TileSize(op.len, op.tile) \in Nat \ {0}
    BY <1>1, <1>2, TileBounds
  <2>3. QED
    BY <1>2, <2>1, <2>2, RunnerAssumption
<1>4. \A t \in Rows : Own(act'["ping"][t])
  <2>1. CASE UNCHANGED act
    BY <2>1
  <2>2. CASE DecoderLayer(op.layer, op.tile, TileSize(op.len, op.tile), 0, FALSE)
    BY <1>2, <1>3, <2>2, LayerLeaves
  <2>3. QED
    BY <2>1, <2>2 DEF PrefillLaunch, Xrt
<1>5. op' = IdleOp \/ op'.name = "prefill"
  <2>1. \/ op' = IdleOp
        \/ op' = [op EXCEPT !.tile = @ + PrefillTile]
        \/ op' = [op EXCEPT !.layer = @ + 1, !.tile = 0]
    BY DEF PrefillLaunch, NextPrefillLaunch, Xrt, Finish, Continue
  <2>2. QED
    BY <1>1, <2>1 DEF OpPrefill
<1>6. QED
  BY <1>4, <1>5

LEMMA DecodeLeaves ==
  ASSUME RunnerTypeOK, DecodeLaunch, \A t \in Rows : Own(act["ping"][t])
  PROVE  /\ \A t \in Rows : Own(act'["ping"][t])
         /\ ret'.rc = "ok" => Own(logits'.row)
<1>1. op \in OpDecode
  BY OpByName DEF RunnerTypeOK, DecodeLaunch
<1>2. op.layer \in Layers /\ op.pos \in Nat /\ op.window \in Nat \ {0} /\ 0 + op.window <= MaxSeq
  BY <1>1, RunnerAssumption DEF OpDecode
<1> DEFINE last == op.layer = NumLayers - 1
           layer == DecoderLayer(op.layer, 0, op.window, op.pos, last)
<1>3. ret.rc # "ok" /\ Throws.rc # "ok"
  <2>1. op # IdleOp
    BY <1>1 DEF OpDecode, IdleOp
  <2>2. QED
    BY <2>1 DEF RunnerTypeOK, NoRet, Throws
<1>4. /\ layer \/ UNCHANGED <<act, kv, logits>>
      /\ ret'.rc = "ok" => layer /\ ~ (op.layer + 1 < NumLayers)
  BY <1>3 DEF DecodeLaunch, Xrt, Finish, Continue
<1>5. ret'.rc = "ok" => last
  BY <1>2, <1>4, RunnerAssumption DEF Layers
<1>6. layer => (\A t \in Rows : Own(act'["ping"][t])) /\ (last => Own(logits'.row))
  <2>1. last \in BOOLEAN /\ 0 \in Nat
    OBVIOUS
  <2> HIDE DEF last
  <2>2. QED
    BY <1>2, <2>1, LayerLeaves
<1> HIDE DEF layer, last
<1>7. QED
  BY <1>4, <1>5, <1>6


-----------------------------------------------------------------------------
(* Every step keeps DataOK.                                                   *)

Inv == IInv /\ DataOK

(* The history when only the session moves.                                   *)
LEMMA HistoryKept ==
  ASSUME HistoryOK, UNCHANGED server
  PROVE  HistoryOK'
BY DEF HistoryOK, server, Serving, Own

LEMMA CallKeepsData == Inv /\ CallSession => DataOK'
<1> SUFFICES ASSUME Inv, CallSession PROVE DataOK'
  OBVIOUS
<1>1. /\ pc \in Stages /\ op = IdleOp /\ ret = NoRet /\ UNCHANGED logits
      /\ UNCHANGED <<pc, task, seq_len, cur_pos, generated, answer, embeddable>>
  BY CallFrame DEF Callable, server
<1>2. HistoryOK'
  BY CallFrame, HistoryKept DEF Inv, DataOK
<1>3. task \in TaskSet /\ RunnerTypeOK
  BY <1>1 DEF Inv, IInv, ServerOK, Serving
<1>4. IdleOp.name = "idle" /\ NoRet.rc = "none" /\ Throws.rc = "error"
  BY DEF IdleOp, NoRet, Throws
<1>5. CASE pc = "patches" /\ \E shape_ok \in BOOLEAN : WriteVisionPatches(task.who, shape_ok)
  <2>1. op' = IdleOp /\ (ret'.rc = "ok" => vit'["act"].who = task.who)
    BY <1>3, <1>4, <1>5 DEF WriteVisionPatches, Xrt, Finish, RunnerTypeOK
  <2>2. CallOK' /\ VisionOK' /\ RowsOK'
    BY <1>1, <1>4, <1>5, <2>1 DEF CallOK, VisionOK, RowsOK
  <2>3. QED
    BY <1>2, <2>2 DEF DataOK
<1>6. CASE pc = "encode" /\ EncodeImage
  <2>1. op' = [name |-> "encode", k |-> 1] /\ UNCHANGED <<vit, ret>> /\ EncodeSrc[1] = "act"
    BY <1>6 DEF EncodeImage, EncodeSrc
  <2>2. vit["act"].who = task.who
    BY <1>6 DEF Inv, DataOK, VisionOK
  <2>3. CallOK' /\ VisionOK' /\ RowsOK'
    BY <1>1, <1>4, <1>6, <2>1, <2>2 DEF CallOK, VisionOK, RowsOK
  <2>4. QED
    BY <1>2, <2>3 DEF DataOK
<1>7. CASE pc = "build" /\ BuildPrefillActivations(TokenIds(task.tokens), TaskEmbeddings(task))
  <2>1. /\ op'.name = "bridge" => \A t \in Rows : Own(act'["ping"][t])
        /\ op' = IdleOp \/ op'.name = "bridge"
        /\ ret'.rc # "ok"
    BY <1>3, <1>7, BuildLeaves
  <2>2. UNCHANGED vit
    BY <1>7 DEF BuildPrefillActivations
  <2>3. vit["image_tokens"].who = task.who
    BY <1>7 DEF Inv, DataOK, VisionOK
  <2>4. CallOK' /\ VisionOK' /\ RowsOK'
    BY <1>1, <1>4, <1>7, <2>1, <2>2, <2>3 DEF CallOK, VisionOK, RowsOK, Own
  <2>5. QED
    BY <1>2, <2>4 DEF DataOK
<1>8. CASE \/ pc = "prefill" /\ RunPrefill(seq_len)
           \/ pc = "decode" /\ RunDecode(cur_pos, 1)
           \/ pc = "logits" /\ ReadLogits
  <2>1. UNCHANGED <<act, vit>> /\ op'.name \in {"idle", "prefill", "decode"}
    BY <1>1, <1>4, <1>8 DEF RunPrefill, RunDecode, ReadLogits
  <2>2. op'.name = "prefill" => pc = "prefill"
    BY <1>1, <1>4, <1>8 DEF RunPrefill, RunDecode, ReadLogits
  <2>3. \A t \in Rows : Own(act["ping"][t])
    BY <1>8 DEF Inv, DataOK, RowsOK
  <2>4. pc = "logits" => Own(logits.row)
    BY DEF Inv, DataOK, RowsOK
  <2>5. pc = "decode" => ret'.rc # "ok"
    BY <1>1, <1>4, <1>8 DEF RunDecode
  <2>6. CallOK' /\ VisionOK' /\ RowsOK'
    BY <1>1, <1>4, <1>8, <2>1, <2>2, <2>3, <2>4, <2>5 DEF CallOK, VisionOK, RowsOK, Own
  <2>7. QED
    BY <1>2, <2>6 DEF DataOK
<1>9. CASE pc = "embed" /\ WriteDecodeTokenActivation(cur_pos, Row(task.who, "gen", Len(generated)))
  <2> DEFINE row == Row(task.who, "gen", Len(generated))
  <2>1. op' = IdleOp /\ UNCHANGED vit
    BY <1>9 DEF WriteDecodeTokenActivation, Xrt, Finish
  <2>2. Own(row)
    BY DEF Row, Own
  <2> HIDE DEF row
  <2>3. UNCHANGED act \/ (act' = [act EXCEPT !["ping"][cur_pos] = row] /\ cur_pos \in Rows)
    <3>1. cur_pos < MaxSeq => cur_pos \in Rows
      BY RunnerAssumption DEF Inv, IInv, ServerOK, Rows
    <3>2. cur_pos < MaxSeq /\ host' = [host EXCEPT ![cur_pos] = row] => host'[cur_pos] = row
      BY <1>3, <3>1 DEF RunnerTypeOK
    <3>3. QED
      BY <1>9, <3>1, <3>2 DEF WriteDecodeTokenActivation, Xrt, row
  <2>4. \A t \in Rows : Own(act["ping"][t])
    BY <1>9 DEF Inv, DataOK, RowsOK
  <2>5. \A t \in Rows : Own(act'["ping"][t])
    BY <1>3, <2>2, <2>3, <2>4 DEF RunnerTypeOK
  <2>6. CallOK' /\ VisionOK' /\ RowsOK'
    BY <1>1, <1>4, <1>9, <2>1, <2>5 DEF CallOK, VisionOK, RowsOK, Own
  <2>7. QED
    BY <1>2, <2>6 DEF DataOK
<1>10. QED
  BY <1>5, <1>6, <1>7, <1>8, <1>9 DEF CallSession

LEMMA LaunchKeepsData == Inv /\ SessionStep => DataOK'
<1> SUFFICES ASSUME Inv, Step, UNCHANGED server PROVE DataOK'
  BY DEF SessionStep
<1>1. UNCHANGED <<pc, task, seq_len, cur_pos, generated, answer, embeddable>>
  BY DEF server
<1>2. HistoryOK'
  BY HistoryKept DEF Inv, DataOK
<1>3. RunnerTypeOK
  BY DEF Inv, IInv
<1>4. IdleOp.name = "idle"
  BY DEF IdleOp
<1>5. CASE EncodeLaunch
  <2>1. op.name = "encode" /\ pc = "encode"
    BY <1>5 DEF EncodeLaunch, Inv, DataOK, CallOK
  <2>2. /\ vit'["act"].who = task.who
        /\ op'.name = "encode" => vit'[EncodeSrc[op'.k]].who = task.who
        /\ ret'.rc = "ok" => vit'["image_tokens"].who = task.who
        /\ op' = IdleOp \/ op'.name = "encode"
    BY <1>3, <1>5, <2>1, EncodeLeaves DEF Inv, DataOK
  <2>3. CallOK' /\ VisionOK' /\ RowsOK'
    BY <1>1, <1>4, <2>1, <2>2 DEF CallOK, VisionOK, RowsOK
  <2>4. QED
    BY <1>2, <2>3 DEF DataOK
<1>6. CASE BridgeLaunch
  <2>1. op.name = "bridge" /\ pc = "build" /\ UNCHANGED vit
    BY <1>6 DEF BridgeLaunch, Inv, DataOK, CallOK
  <2>2. vit["image_tokens"].who = task.who /\ \A t \in Rows : Own(act["ping"][t])
    BY <2>1 DEF Inv, DataOK, VisionOK, RowsOK
  <2>3. (\A t \in Rows : Own(act'["ping"][t])) /\ op' = IdleOp
    BY <1>3, <1>6, <2>2, BridgeLeaves
  <2>4. CallOK' /\ VisionOK' /\ RowsOK'
    BY <1>1, <1>4, <2>1, <2>2, <2>3 DEF CallOK, VisionOK, RowsOK, Own
  <2>5. QED
    BY <1>2, <2>4 DEF DataOK
<1>7. CASE PrefillLaunch
  <2>1. op.name = "prefill" /\ pc = "prefill" /\ UNCHANGED vit
    BY <1>7 DEF PrefillLaunch, Inv, DataOK, CallOK
  <2>2. \A t \in Rows : Own(act["ping"][t])
    BY <2>1 DEF Inv, DataOK, RowsOK
  <2>3. (\A t \in Rows : Own(act'["ping"][t])) /\ (op' = IdleOp \/ op'.name = "prefill")
    BY <1>3, <1>7, <2>2, PrefillLeaves
  <2>4. CallOK' /\ VisionOK' /\ RowsOK'
    BY <1>1, <1>4, <2>1, <2>3 DEF CallOK, VisionOK, RowsOK, Own
  <2>5. QED
    BY <1>2, <2>4 DEF DataOK
<1>8. CASE DecodeLaunch
  <2>1. op.name = "decode" /\ pc = "decode" /\ UNCHANGED vit
    BY <1>8 DEF DecodeLaunch, Inv, IInv, StageOK
  <2>2. \A t \in Rows : Own(act["ping"][t])
    BY <2>1 DEF Inv, DataOK, RowsOK
  <2>3. (\A t \in Rows : Own(act'["ping"][t])) /\ (ret'.rc = "ok" => Own(logits'.row))
    BY <1>3, <1>8, <2>2, DecodeLeaves
  <2>4. op' = IdleOp \/ op'.name = "decode"
    <3>1. op \in OpDecode
      BY <1>3, <2>1, OpByName DEF RunnerTypeOK
    <3>2. op' = IdleOp \/ op' = [op EXCEPT !.layer = @ + 1]
      BY <1>8 DEF DecodeLaunch, Xrt, Finish, Continue
    <3>3. QED
      BY <3>1, <3>2 DEF OpDecode
  <2>5. CallOK' /\ VisionOK' /\ RowsOK'
    BY <1>1, <1>4, <2>1, <2>3, <2>4 DEF CallOK, VisionOK, RowsOK, Own
  <2>6. QED
    BY <1>2, <2>5 DEF DataOK
<1>9. QED
  BY <1>5, <1>6, <1>7, <1>8 DEF Step

(* Nobody is served, so nothing is said of the buffers.                       *)
LEMMA NobodyServed ==
  ASSUME Callable', pc' \in {"idle", "crashed"}
  PROVE  DataOK'
<1>1. op'.name = "idle" /\ ret'.rc # "ok"
  BY DEF Callable, IdleOp, NoRet
<1>2. CallOK' /\ VisionOK' /\ RowsOK' /\ HistoryOK'
  BY <1>1 DEF CallOK, VisionOK, RowsOK, HistoryOK, Serving, Stages
<1>3. QED
  BY <1>2 DEF DataOK

(* The server's own steps.                                                    *)
LEMMA ServerKeepsData ==
  ASSUME Inv,
         \/ StageDone \/ BuildDone \/ PrefillDone \/ Sample \/ TokenWritten
  PROVE  DataOK'
<1>1. Return /\ UNCHANGED <<task, answer, embeddable>> /\ ret.rc = "ok" /\ pc' # pc
  BY DEF StageDone, BuildDone, PrefillDone, Sample, TokenWritten, After
<1>2. Callable' /\ UNCHANGED <<act, vit, logits>>
  BY <1>1, ReturnFrees DEF Inv, IInv, Return
<1>3. op'.name = "idle" /\ ret'.rc # "ok"
  BY <1>2 DEF Callable, IdleOp, NoRet
<1>4. generated \in Seq(GenSet)
  BY DEF Inv, IInv, ServerOK
<1>5. CASE StageDone \/ BuildDone \/ PrefillDone
  <2>1. /\ UNCHANGED generated
        /\ \/ pc = "patches" /\ pc' = "encode"
           \/ pc = "encode" /\ pc' = "build"
           \/ pc = "build" /\ pc' = "prefill"
           \/ pc = "prefill" /\ pc' = "decode"
           \/ pc = "decode" /\ pc' = "logits" /\ UNCHANGED cur_pos
    BY <1>5 DEF StageDone, BuildDone, PrefillDone, After
  <2>2. pc = "prefill" => generated = <<>>
    BY DEF Inv, IInv, TokensOK
  <2>3. CallOK' /\ VisionOK'
    BY <1>1, <1>2, <1>3, <2>1 DEF CallOK, VisionOK, Inv, DataOK
  <2>4. RowsOK'
    BY <1>1, <1>2, <1>3, <2>1 DEF RowsOK, Own, Inv, DataOK
  <2>5. HistoryOK'
    BY <1>1, <2>1, <2>2 DEF HistoryOK, Own, Serving, Stages, Inv, DataOK
  <2>6. QED
    BY <2>3, <2>4, <2>5 DEF DataOK
<1>6. CASE Sample
  <2> DEFINE new == [who |-> logits.row.who, pos |-> logits.pos]
  <2>1. pc = "logits" /\ generated' = Append(generated, new) /\ pc' \in {"send", "embed", "crashed"}
    BY <1>6 DEF Sample, After
  <2>2. Own(new)
    BY <2>1 DEF Inv, DataOK, RowsOK, Own
  <2>3. new \in GenSet
    BY DEF Inv, IInv, RunnerTypeOK, KvSet, RowSet, GenSet
  <2>4. \A i \in 1 .. Len(generated) : Own(generated[i])
    BY <2>1 DEF Inv, DataOK, HistoryOK, Serving, Stages
  <2> HIDE DEF new
  <2>5. generated' # <<>> /\ \A i \in 1 .. Len(generated') : Own(generated'[i])
    <3>1. /\ Len(generated') = Len(generated) + 1 /\ generated'[Len(generated) + 1] = new
          /\ \A i \in 1 .. Len(generated) : generated'[i] = generated[i]
      BY <1>4, <2>1, <2>3
    <3>2. Len(generated) \in Nat
      BY <1>4
    <3>3. QED
      BY <2>2, <2>4, <3>1, <3>2
  <2>6. CallOK' /\ VisionOK'
    BY <1>3, <2>1 DEF CallOK, VisionOK
  <2>7. RowsOK'
    BY <1>1, <1>2, <1>3, <2>1 DEF RowsOK, Own, Inv, DataOK
  <2>8. HistoryOK'
    BY <1>1, <2>1, <2>5 DEF HistoryOK, Own
  <2>9. QED
    BY <2>6, <2>7, <2>8 DEF DataOK
<1>7. CASE TokenWritten
  <2>1. pc = "embed" /\ UNCHANGED generated /\ cur_pos' = cur_pos + 1 /\ pc' \in {"decode", "send"}
    BY <1>7 DEF TokenWritten, After
  <2>2. generated # <<>> /\ generated[Len(generated)].pos = cur_pos
    BY <2>1 DEF Inv, IInv, TokensOK
  <2>3. CallOK' /\ VisionOK'
    BY <1>3, <2>1 DEF CallOK, VisionOK
  <2>4. RowsOK'
    BY <1>1, <1>2, <1>3, <2>1 DEF RowsOK, Own, Inv, DataOK
  <2>5. HistoryOK'
    BY <1>1, <2>1, <2>2 DEF HistoryOK, Own, Serving, Stages, Inv, DataOK
  <2>6. QED
    BY <2>3, <2>4, <2>5 DEF DataOK
<1>8. QED
  BY <1>5, <1>6, <1>7

LEMMA AdmitKeepsData ==
  ASSUME Inv, NEW r \in Requests, NEW tokens \in Tasks, NEW stream \in BOOLEAN,
         Admit(r, tokens, stream)
  PROVE  DataOK'
<1>1. Callable /\ Callable' /\ pc' = "patches" /\ generated' = <<>>
  BY VarsKept DEF Inv, IInv, StageOK, Admit, Stages
<1>2. op'.name = "idle" /\ ret'.rc # "ok"
  BY <1>1 DEF Callable, IdleOp, NoRet
<1>3. CallOK' /\ VisionOK' /\ RowsOK' /\ HistoryOK'
  BY <1>1, <1>2 DEF CallOK, VisionOK, RowsOK, HistoryOK
<1>4. QED
  BY <1>3 DEF DataOK

LEMMA StutterKeepsData == Inv /\ UNCHANGED allvars => DataOK'
BY DEF Inv, DataOK, CallOK, VisionOK, RowsOK, HistoryOK, Own, Serving, allvars, vars, server

LEMMA InitData == InitServer => DataOK
<1> SUFFICES ASSUME InitServer PROVE DataOK
  OBVIOUS
<1>1. op.name = "idle" /\ ret.rc # "ok" /\ pc = "idle"
  BY DEF InitServer, Init, IdleOp, NoRet
<1>2. CallOK /\ VisionOK /\ RowsOK /\ HistoryOK
  BY <1>1 DEF CallOK, VisionOK, RowsOK, HistoryOK, Serving, Stages
<1>3. QED
  BY <1>2 DEF DataOK

LEMMA NextKeepsInv == Inv /\ [NextServer]_allvars => Inv'
<1> SUFFICES ASSUME Inv, [NextServer]_allvars PROVE DataOK'
  BY NextServerKeeps DEF Inv
<1>1. IInv'
  BY NextServerKeeps DEF Inv
<1>2. ASSUME NEW r \in Requests, NEW tokens \in Tasks, NEW stream \in BOOLEAN,
             FallBack(r, tokens) \/ Reject(r, tokens, stream) \/ Crash(r, tokens, stream)
      PROVE  DataOK'
  <2>1. pc' \in {"idle", "crashed"}
    BY <1>2 DEF FallBack, Reject, Crash
  <2>2. QED
    BY <1>1, <2>1, NobodyServed DEF IInv, StageOK, Stages
<1>3. ASSUME NEW r \in Requests, NEW tokens \in Tasks, NEW stream \in BOOLEAN,
             Admit(r, tokens, stream)
      PROVE  DataOK'
  BY <1>3, AdmitKeepsData
<1>4. CASE CallFailed \/ SendResult
  <2>1. pc' = "idle"
    BY <1>4 DEF CallFailed, SendResult
  <2>2. QED
    BY <1>1, <2>1, NobodyServed DEF IInv, StageOK, Stages
<1>5. CASE CallSession \/ SessionStep
  BY <1>5, CallKeepsData, LaunchKeepsData
<1>6. CASE StageDone \/ BuildDone \/ PrefillDone \/ Sample \/ TokenWritten
  BY <1>6, ServerKeepsData
<1>7. CASE UNCHANGED allvars
  BY <1>7, StutterKeepsData
<1>8. QED
  BY <1>2, <1>3, <1>4, <1>5, <1>6, <1>7 DEF NextServer, RunTask

-----------------------------------------------------------------------------
(* The refinement.                                                            *)

(* Where nothing the clients see changes.                                     *)
LEMMA Unseen ==
  ASSUME ServerOK, UNCHANGED <<task, answer, generated>>, Serving <=> Serving',
         pc = "crashed" <=> pc' = "crashed", pc' \in Stages \cup {"idle", "send", "crashed"}
  PROVE  UNCHANGED Service!vars
<1>1. pc \in {"idle", "crashed"} <=> ~ Serving
  BY DEF ServerOK, Serving, Stages
<1>2. pc' \in {"idle", "crashed"} <=> ~ Serving'
  BY DEF Serving, Stages
<1>3. QED
  BY <1>1, <1>2 DEF Service!vars

(* A refusal sent to r: by then r is served or nobody is.                     *)
LEMMA RefusalMaps ==
  ASSUME NEW r \in Requests, NEW status \in {"cpu", "error"}, Send(r, status, <<>>),
         answer[r] = Waiting, pc # "crashed", pc = "idle" \/ task.who = r, pc' = "idle"
  PROVE  Service!Next
<1>1. Service!Refuse(r)
  BY DEF Service!Refuse, Service!Nobody, Service!Waiting, Service!Refusal, Waiting, Send
<1>2. QED
  BY <1>1 DEF Service!Next, Service!Work

(* A sampled token: this request's, at the position after the last one.       *)
LEMMA SampleMaps ==
  ASSUME Inv, Sample, pc' \in {"send", "embed"}
  PROVE  Service!Next
<1> DEFINE new == [who |-> logits.row.who, pos |-> logits.pos]
<1>1. /\ pc = "logits" /\ generated' = Append(generated, new)
      /\ UNCHANGED <<task, answer>>
  BY DEF Sample, After
<1>2. generated \in Seq(GenSet) /\ Len(generated) \in Nat /\ Len(generated) < NPredict
  BY <1>1 DEF Inv, IInv, ServerOK, TokensOK
<1>3. new \in GenSet /\ new.pos = cur_pos /\ new.who \in {task.who, NoOne}
  BY <1>1 DEF Inv, IInv, StageOK, RunnerTypeOK, KvSet, RowSet, GenSet, DataOK, RowsOK, Own
<1>4. generated # <<>> => new.pos = generated[Len(generated)].pos + 1
  BY <1>1, <1>3 DEF Inv, DataOK, HistoryOK
<1>5. task.who \in Requests
  BY <1>1 DEF Inv, IInv, ServerOK, Serving, Stages, TaskSet
<1> HIDE DEF new
<1>6. /\ Len(generated') = Len(generated) + 1
      /\ SubSeq(generated', 1, Len(generated)) = generated
      /\ generated'[Len(generated')] = new
  BY <1>1, <1>2, <1>3
<1>7. new.who \notin Requests \ {task.who}
  BY <1>3, CompletionAssumption
<1>8. Service!Emit
  BY <1>1, <1>2, <1>4, <1>6, <1>7 DEF Service!Emit, Service!Nobody
<1>9. QED
  BY <1>1, <1>8 DEF Service!Next, Service!Work

LEMMA ResultMaps ==
  ASSUME Inv, SendResult
  PROVE  Service!Next
<1>1. /\ pc = "send" /\ pc' = "idle"
      /\ answer' = [answer EXCEPT ![task.who] = [status |-> "result", tokens |-> generated]]
  BY DEF SendResult, Send
<1>2. generated # <<>>
  BY <1>1 DEF Inv, DataOK, HistoryOK
<1>3. Service!Deliver
  BY <1>1, <1>2 DEF Service!Deliver, Service!Nobody
<1>4. QED
  BY <1>1, <1>3 DEF Service!Next, Service!Work

(* Whatever is called, fails or crashes, the path does only what              *)
(* CompletionService allows: it starts requests that wait, one at a time,     *)
(* samples tokens at consecutive positions from rows that are not another     *)
(* request's, sends each answer once, and does nothing after a crash.         *)
THEOREM PathImplementsService ==
  SpecServer => Service!Init /\ [][Service!Next]_(Service!vars)
<1>1. InitServer => Service!Init
  BY DEF InitServer, Service!Init, Service!Waiting, Service!Nobody, Waiting
<1>2. Inv /\ [NextServer]_allvars => [Service!Next]_(Service!vars)
  <2> SUFFICES ASSUME Inv, [NextServer]_allvars PROVE Service!Next \/ UNCHANGED Service!vars
    OBVIOUS
  <2>1. ServerOK /\ ServerOK'
    BY NextKeepsInv DEF Inv, IInv
  <2>2. ASSUME NEW r \in Requests, NEW tokens \in Tasks, NEW stream \in BOOLEAN,
               FallBack(r, tokens) \/ Reject(r, tokens, stream)
        PROVE  Service!Next
    BY <2>2, RefusalMaps DEF FallBack, Reject
  <2>3. ASSUME NEW r \in Requests, NEW tokens \in Tasks, NEW stream \in BOOLEAN,
               Admit(r, tokens, stream)
        PROVE  Service!Next
    <3>1. Service!Serve(r)
      BY <2>3 DEF Admit, Service!Serve, Service!Nobody, Service!Waiting, Waiting
    <3>2. QED
      BY <2>3, <3>1 DEF Admit, Service!Next, Service!Work
  <2>4. ASSUME NEW r \in Requests, NEW tokens \in Tasks, NEW stream \in BOOLEAN,
               Crash(r, tokens, stream)
        PROVE  Service!Next
    BY <2>4 DEF Crash, Service!Next, Service!Crash, Service!Nobody
  <2>5. CASE CallSession \/ SessionStep \/ UNCHANGED allvars
    <3>1. UNCHANGED <<pc, task, answer, generated>>
      BY <2>5, CallFrame DEF SessionStep, allvars, server
    <3>2. QED
      BY <2>1, <3>1, Unseen DEF ServerOK, Serving
  <2>6. CASE CallFailed
    <3>1. Serving
      <4>1. ~ Callable
        BY <2>6 DEF CallFailed, Return, Callable
      <4>2. QED
        BY <4>1 DEF Inv, IInv, StageOK, Serving
    <3>2. /\ task.who \in Requests /\ answer[task.who] = Waiting
          /\ Send(task.who, "error", <<>>) /\ pc # "crashed" /\ pc' = "idle"
      BY <2>6, <3>1 DEF CallFailed, Inv, IInv, ServerOK, AnswersOK, TaskSet, Serving, Stages
    <3>3. QED
      BY <3>2, RefusalMaps
  <2>7. CASE StageDone \/ BuildDone \/ PrefillDone \/ TokenWritten
    <3>1. UNCHANGED <<task, answer, generated>> /\ pc \in Stages /\ pc' \in Stages \cup {"send"}
      BY <2>7 DEF StageDone, BuildDone, PrefillDone, TokenWritten, After, Stages
    <3>2. QED
      BY <2>1, <3>1, Unseen DEF Serving, Stages
  <2>8. CASE Sample
    <3>1. pc' = "crashed" => Service!Crash
      BY <2>8 DEF Sample, After, Service!Crash, Service!Nobody
    <3>2. QED
      BY <2>8, <3>1, SampleMaps DEF Sample, Service!Next
  <2>9. CASE SendResult
    BY <2>9, ResultMaps
  <2>10. QED
    BY <2>2, <2>3, <2>4, <2>5, <2>6, <2>7, <2>8, <2>9 DEF NextServer, RunTask
<1>3. QED
  BY <1>1, <1>2, InitServerOK, InitData, NextKeepsInv, PTL DEF SpecServer, Inv

-----------------------------------------------------------------------------
(* One request's data from buffer to buffer: the rows staged for prefill are  *)
(* the request's own prompt, every cache position a decode reads was written   *)
(* by this request at that position, and the scores that are sampled are its   *)
(* own, whatever earlier requests and failed calls left behind.               *)

PromptIds == TokenIds(task.tokens)
PromptRows == PromptLen(PromptIds)

(* The rows of the last placeholder.                                          *)
ImageRows == ImageDst(PromptIds) .. ImageDst(PromptIds) + ImageTokens - 1

-----------------------------------------------------------------------------
(* The inductive invariant, added to Inv.                                     *)

(* The call at each stage works on this request's prompt.                     *)
PromptOK ==
  /\ Serving => HasMedia(task.tokens)
  /\ op.name = "bridge" => op.tokens = PromptIds
  /\ (pc = "build" /\ ret.rc = "ok") => ret.seq_len = PromptRows
  /\ pc \in {"prefill", "decode", "logits", "embed"} => seq_len = PromptRows
  /\ op.name = "prefill" => op.len = seq_len

EncodedOK ==
  /\ (pc = "patches" /\ ret.rc = "ok") \/ pc = "encode" => vit["act"].done = <<>>
  /\ op.name = "encode" => vit[EncodeSrc[op.k]].done = Passed(op.k - 1)
  /\ (pc = "encode" /\ ret.rc = "ok") \/ pc = "build" => vit["image_tokens"].done = Pipeline

(* What the token loop leaves in row t: a text row of the request, or a zeroed *)
(* row that the bridge fills unless it belongs to an earlier placeholder.      *)
LaidOut(row, t) ==
  \/ row.who = task.who /\ row.kind = "txt"
  \/ row.kind = "zero" /\ (SeveralPlaceholders \/ t \in ImageRows)

RowsLaidOut == \A t \in 0 .. PromptRows - 1 : LaidOut(act["ping"][t], t)
RowsStaged  == \A t \in 0 .. PromptRows - 1 : act["ping"][t].kind \in {"txt", "img", "zero"}
RowsOwn     == \A t \in 0 .. PromptRows - 1 : OwnRow(act["ping"][t])
ScoresOwn   == OwnRow(logits.row)

StagedOK ==
  /\ op.name = "bridge" => RowsLaidOut
  /\ (pc = "build" /\ ret.rc = "ok") \/ pc = "prefill" => RowsStaged
  /\ (pc = "build" /\ ret.rc = "ok") \/ pc \in {"prefill", "decode", "logits", "embed"} => RowsOwn
  /\ (pc = "decode" /\ ret.rc = "ok") \/ pc = "logits" => ScoresOwn

KvOwn(l, p) == OwnRow(kv[l][p].row) /\ kv[l][p].pos = p

(* How far prefill, and then decode, have filled each layer of the cache.     *)
PrefilledSoFar ==
  \A l \in Layers, p \in 0 .. op.len - 1 :
    PrefillReached(op, l, p) => KvOwn(l, p)
Prefilled == \A l \in Layers, p \in 0 .. seq_len - 1 : KvOwn(l, p)
Decoded(l) == \/ op.name = "decode" /\ l < op.layer
              \/ pc = "decode" /\ ret.rc = "ok"
              \/ pc \in {"logits", "embed"}
DecodedSoFar ==
  \A l \in Layers, p \in 0 .. cur_pos : p < cur_pos \/ Decoded(l) => KvOwn(l, p)

CacheOK ==
  /\ op.name = "prefill" => PrefilledSoFar
  /\ (pc = "prefill" /\ ret.rc = "ok") => Prefilled
  /\ (pc \in {"decode", "logits", "embed"} /\ cur_pos < HwMaxSeq) => DecodedSoFar

RequestOK == PromptOK /\ EncodedOK /\ StagedOK /\ CacheOK

-----------------------------------------------------------------------------
(* The rows a prompt is laid out in.                                          *)

(* Counting one token further.                                                *)
LEMMA BeforeNext ==
  ASSUME NEW tokens, NEW i \in Nat \ {0}, NEW tok
  PROVE  Before(tokens, i + 1, tok) = Before(tokens, i, tok) + (IF tokens[i] = tok THEN 1 ELSE 0)
<1> DEFINE S == {j \in 1 .. i - 1 : tokens[j] = tok}
           T == {j \in 1 .. i + 1 - 1 : tokens[j] = tok}
<1>1. IsFiniteSet(S)
  <2>1. IsFiniteSet(1 .. i - 1)
    BY ONLY i \in Nat \ {0}, FS_Interval
  <2>2. S \subseteq 1 .. i - 1
    OBVIOUS
  <2> HIDE DEF S
  <2>3. QED
    BY ONLY <2>1, <2>2, FS_Subset
<1>2. i \notin S /\ T = IF tokens[i] = tok THEN S \cup {i} ELSE S
  OBVIOUS
<1>3. Cardinality(S \cup {i}) = Cardinality(S) + 1
  BY <1>1, <1>2, FS_AddElement
<1>4. Cardinality(S) \in Nat
  BY <1>1, FS_CardinalityType
<1> HIDE DEF S, T
<1>5. Cardinality(T) = Cardinality(S) + (IF tokens[i] = tok THEN 1 ELSE 0)
  <2>1. CASE tokens[i] = tok
    BY <1>2, <1>3, <2>1
  <2>2. CASE tokens[i] # tok
    BY <1>2, <1>4, <2>2
  <2>3. QED
    BY <2>1, <2>2
<1>6. QED
  BY <1>5 DEF Before, S, T

(* A text token takes one row, a placeholder those of an image.               *)
LEMMA OffsetNext ==
  ASSUME NEW tokens \in Tokens, NEW i \in 1 .. Len(tokens)
  PROVE  OffsetOf(tokens, i + 1)
           = OffsetOf(tokens, i) + (IF tokens[i] = "txt" THEN 1 ELSE ImageTokens)
<1>1. i \in Nat \ {0} /\ tokens[i] \in {"txt", "img"}
  BY DEF Tokens
<1> DEFINE txt == Before(tokens, i, "txt")
           img == Before(tokens, i, "img")
<1>2. txt \in Nat /\ img \in Nat
  <2>1. i \in Int
    BY <1>1
  <2>2. QED
    BY <2>1, BeforeType
<1>3. /\ Before(tokens, i + 1, "txt") = txt + (IF tokens[i] = "txt" THEN 1 ELSE 0)
      /\ Before(tokens, i + 1, "img") = img + (IF tokens[i] = "img" THEN 1 ELSE 0)
  BY <1>1, BeforeNext
<1> HIDE DEF txt, img
<1>4. OffsetOf(tokens, i) = txt + ImageTokens * img
  BY DEF OffsetOf, txt, img
<1>5. \A n, m \in Nat : n * (m + 1) = n * m + n /\ n * m \in Nat
  OBVIOUS
<1>6. ImageTokens \in Nat
  BY RunnerAssumption
<1>7. CASE tokens[i] = "txt"
  <2>1. OffsetOf(tokens, i + 1) = (txt + 1) + ImageTokens * img
    BY <1>2, <1>3, <1>7 DEF OffsetOf
  <2>2. QED
    BY <1>2, <1>4, <1>5, <1>6, <1>7, <2>1
<1>8. CASE tokens[i] = "img"
  <2>1. OffsetOf(tokens, i + 1) = txt + ImageTokens * (img + 1)
    BY <1>2, <1>3, <1>8 DEF OffsetOf
  <2>2. QED
    BY <1>2, <1>4, <1>5, <1>6, <1>8, <2>1
<1>9. QED
  BY <1>1, <1>7, <1>8

(* The first token is at the first row.                                       *)
LEMMA OffsetFirst ==
  ASSUME NEW tokens
  PROVE  OffsetOf(tokens, 1) = 0
<1>1. \A tok : Before(tokens, 1, tok) = 0
  <2>1. \A tok : {j \in 1 .. 1 - 1 : tokens[j] = tok} = {}
    OBVIOUS
  <2>2. QED
    BY <2>1, FS_EmptySet DEF Before
<1>2. ImageTokens * 0 = 0
  BY RunnerAssumption
<1>3. QED
  BY <1>1, <1>2 DEF OffsetOf

(* Every row of a prompt's tokens belongs to one of them.                     *)
LEMMA RowOfToken ==
  ASSUME NEW tokens \in Tokens, NEW t \in 0 .. OffsetOf(tokens, Len(tokens) + 1) - 1
  PROVE  \E i \in 1 .. Len(tokens) : OffsetOf(tokens, i) <= t /\ t < OffsetOf(tokens, i + 1)
<1> DEFINE I == {i \in 1 .. Len(tokens) : OffsetOf(tokens, i) <= t}
<1>1. Len(tokens) \in Nat
  BY DEF Tokens
<1>2. \A i \in 1 .. Len(tokens) + 1 : OffsetOf(tokens, i) \in Nat
  BY <1>1, OffsetType
<1>3. t \in Nat /\ t < OffsetOf(tokens, Len(tokens) + 1)
  <2>1. OffsetOf(tokens, Len(tokens) + 1) \in Nat
    BY <1>1, <1>2
  <2>2. QED
    BY <2>1
<1>4. Len(tokens) >= 1
  <2>1. Len(tokens) = 0 => OffsetOf(tokens, Len(tokens) + 1) = 0
    BY OffsetFirst
  <2>2. QED
    BY <1>1, <1>3, <2>1
<1>5. 1 \in I
  BY <1>1, <1>3, <1>4, OffsetFirst
<1>6. I \in SUBSET (1 .. Len(tokens)) /\ I # {}
  BY <1>5
<1>7. PICK i \in I : \A j \in I : j <= i
  BY <1>1, <1>6, GreatestIndex
<1>8. t < OffsetOf(tokens, i + 1)
  <2>1. CASE i = Len(tokens)
    BY <1>3, <2>1
  <2>2. CASE i # Len(tokens)
    <3>1. i + 1 \in 1 .. Len(tokens) /\ ~(i + 1 <= i)
      BY <1>1, <2>2
    <3>2. i + 1 \notin I
      BY <1>7, <3>1
    <3>3. OffsetOf(tokens, i + 1) \in Nat
      BY <1>2, <3>1
    <3>4. QED
      BY <1>3, <3>1, <3>2, <3>3
  <2>3. QED
    BY <2>1, <2>2
<1>9. QED
  BY <1>8

(* Two placeholders are counted as two.                                       *)
LEMMA TwoAreSeveral ==
  ASSUME NEW tokens \in Tokens, NEW i \in 1 .. Len(tokens), NEW k \in 1 .. Len(tokens),
         i < k, tokens[i] = "img", tokens[k] = "img"
  PROVE  Before(tokens, Len(tokens) + 1, "img") > 1
<1>1. /\ i \in Nat \ {0} /\ k \in Nat \ {0} /\ i \in Int /\ k \in Int
      /\ Len(tokens) + 1 \in Int /\ k < Len(tokens) + 1
  BY DEF Tokens
<1>2. /\ Before(tokens, i, "img") \in Nat
      /\ Before(tokens, k, "img") \in Nat
      /\ Before(tokens, Len(tokens) + 1, "img") \in Nat
  BY <1>1, BeforeType
<1>3. Before(tokens, i, "img") + 1 <= Before(tokens, k, "img")
  BY <1>1, BeforeGrows
<1>4. Before(tokens, k, "img") + 1 <= Before(tokens, Len(tokens) + 1, "img")
  BY <1>1, BeforeGrows
<1>5. QED
  BY <1>2, <1>3, <1>4

(* A prompt with an image has rows.                                           *)
LEMMA PromptHasRows ==
  ASSUME NEW tokens \in Tokens, HasPlaceholder(tokens)
  PROVE  PromptLen(tokens) \in Nat \ {0}
<1>1. PICK k \in 1 .. Len(tokens) : tokens[k] = "img"
  BY DEF HasPlaceholder, Tokens
<1>2. Before(tokens, Len(tokens) + 1, "img") \in Nat \ {0}
  <2>1. /\ k \in Nat \ {0} /\ k \in Int /\ Len(tokens) + 1 \in Int /\ k < Len(tokens) + 1
    BY DEF Tokens
  <2>2. /\ Before(tokens, k, "img") \in Nat
        /\ Before(tokens, Len(tokens) + 1, "img") \in Nat
    BY <2>1, BeforeType
  <2>3. Before(tokens, k, "img") + 1 <= Before(tokens, Len(tokens) + 1, "img")
    BY <1>1, <2>1, BeforeGrows
  <2>4. QED
    BY <2>2, <2>3
<1>3. Before(tokens, Len(tokens) + 1, "txt") \in Nat
  <2>1. Len(tokens) + 1 \in Int
    BY DEF Tokens
  <2>2. QED
    BY <2>1, BeforeType
<1>4. \A n, m \in Nat \ {0} : n * m \in Nat \ {0}
  OBVIOUS
<1>5. ImageTokens * Before(tokens, Len(tokens) + 1, "img") \in Nat \ {0}
  BY <1>2, <1>4, RunnerAssumption
<1>6. OffsetOf(tokens, Len(tokens) + 1) \in Nat \ {0}
  BY <1>3, <1>5 DEF OffsetOf
<1>7. QED
  BY <1>6 DEF PromptLen, Prepended

(* Where a text token lands nothing else is left; elsewhere the row stays.    *)
LEMMA TaskStaged ==
  ASSUME task \in TaskSet, HasMedia(task.tokens), NEW t \in Rows
  PROVE  t \in 0 .. PromptRows - 1
           => LaidOut(Staged(PromptIds, TaskEmbeddings(task), t), t)
<1> DEFINE emb == TaskEmbeddings(task)
           here == {i \in DOMAIN PromptIds : PromptIds[i] = "txt" /\ 0 + OffsetOf(PromptIds, i) = t}
<1> SUFFICES ASSUME t \in 0 .. PromptRows - 1
             PROVE  LaidOut(Staged(PromptIds, emb, t), t)
  OBVIOUS
<1>1. PromptIds \in Tokens /\ Embedded(PromptIds, emb)
  BY TaskEmbedded DEF PromptIds
<1>2. HasPlaceholder(PromptIds)
  BY DEF HasMedia, HasPlaceholder, PromptIds, TokenIds
<1>3. Staged(PromptIds, emb, t) = Copied(PromptIds, emb, 0, t, Copied(PromptIds, emb, 0, t, Zeroed))
  BY <1>2 DEF Staged, FirstPass, Prepended
<1>4. \A k \in 1 .. Len(emb) : emb[k].who = task.who /\ emb[k].kind = "txt"
  <2>1. Cardinality(TextTokens(task.tokens)) \in Nat
    BY TextTokensCounted
  <2>2. QED
    BY <2>1 DEF TaskEmbeddings, TextEmbeddings, Row
<1>5. DOMAIN PromptIds = 1 .. Len(PromptIds) /\ t \in Int /\ 0 \in Int
  BY <1>1 DEF Tokens, Rows
<1>6. PICK i \in 1 .. Len(PromptIds) :
        OffsetOf(PromptIds, i) <= t /\ t < OffsetOf(PromptIds, i + 1)
  <2>1. OffsetOf(PromptIds, Len(PromptIds) + 1) \in Nat
    BY <1>1, <1>5, OffsetType DEF Tokens
  <2>2. PromptRows = OffsetOf(PromptIds, Len(PromptIds) + 1)
    BY <1>2, <2>1 DEF PromptRows, PromptLen, Prepended
  <2>3. QED
    BY <1>1, <2>2, RowOfToken
<1>7. OffsetOf(PromptIds, i) \in Nat
  <2>1. i \in Int
    BY <1>1 DEF Tokens
  <2>2. QED
    BY <2>1, OffsetType
<1>8. PromptIds[i] \in {"txt", "img"}
  BY <1>1 DEF Tokens
<1>9. OffsetOf(PromptIds, i + 1)
        = OffsetOf(PromptIds, i) + (IF PromptIds[i] = "txt" THEN 1 ELSE ImageTokens)
  BY <1>1, OffsetNext
<1>10. CASE here # {}
  <2>1. \E k \in 1 .. Len(emb) :
          Copied(PromptIds, emb, 0, t, Copied(PromptIds, emb, 0, t, Zeroed)) = emb[k]
    BY <1>1, <1>5, <1>10, CopiedHere
  <2>2. QED
    BY <1>3, <1>4, <2>1 DEF LaidOut
<1>11. CASE here = {}
  <2>1. Staged(PromptIds, emb, t) = Zeroed /\ Zeroed.kind = "zero"
    BY <1>3, <1>11 DEF Copied, Zeroed, Row
  <2>2. PromptIds[i] = "img"
    <3>1. SUFFICES ASSUME PromptIds[i] = "txt" PROVE FALSE
      BY <1>8
    <3>2. OffsetOf(PromptIds, i) = t
      BY <1>5, <1>6, <1>7, <1>9, <3>1
    <3>3. i \in here
      BY <1>5, <1>7, <3>1, <3>2
    <3>4. QED
      BY <1>11, <3>3
  <2>3. t \in OffsetOf(PromptIds, i) .. OffsetOf(PromptIds, i) + ImageTokens - 1
    BY <1>5, <1>6, <1>7, <1>9, <2>2, RunnerAssumption
  <2>4. PICK k \in DOMAIN PromptIds : ImageDst(PromptIds) = OffsetOf(PromptIds, k) /\ PromptIds[k] = "img"
    BY <1>1, <1>2, ImageDstIs
  <2>5. i = k \/ SeveralPlaceholders
    <3>1. Len(PromptIds) = Len(task.tokens)
      BY DEF PromptIds, TokenIds, TaskSet
    <3>2. i # k => Before(PromptIds, Len(PromptIds) + 1, "img") > 1
      <4>1. i < k \/ k < i \/ i = k
        BY <1>1, <1>5 DEF Tokens
      <4>2. QED
        BY <1>1, <1>5, <2>2, <2>4, <4>1, TwoAreSeveral
    <3>3. QED
      BY <3>1, <3>2 DEF SeveralPlaceholders, PromptIds
  <2>6. QED
    BY <2>1, <2>3, <2>4, <2>5 DEF LaidOut, ImageRows
<1>12. QED
  BY <1>10, <1>11

-----------------------------------------------------------------------------
(* Frames.                                                                    *)

(* The prompt is the task's.                                                  *)
LEMMA TaskFrame ==
  ASSUME UNCHANGED task
  PROVE  /\ PromptIds' = PromptIds /\ PromptRows' = PromptRows
         /\ SeveralPlaceholders' <=> SeveralPlaceholders
         /\ \A t : t \in ImageRows' <=> t \in ImageRows
         /\ \A row : OwnRow(row)' <=> OwnRow(row)
<1>1. PromptIds' = PromptIds
  BY DEF PromptIds, TokenIds
<1>2. PromptRows' = PromptRows
  BY <1>1 DEF PromptRows, PromptLen, Prepended, HasPlaceholder, OffsetOf, Before
<1>3. SeveralPlaceholders' <=> SeveralPlaceholders
  BY DEF SeveralPlaceholders, TokenIds, Before
<1>4. ImageRows' = ImageRows
  BY <1>1 DEF ImageRows, ImageDst, HasPlaceholder, OffsetOf, Before
<1>5. \A row : OwnRow(row)' <=> OwnRow(row)
  BY <1>3 DEF OwnRow
<1>6. QED
  BY <1>1, <1>2, <1>3, <1>4, <1>5

(* Rows that keep their owners and kinds.                                     *)
LEMMA RowsFrame ==
  ASSUME UNCHANGED task,
         \A t \in 0 .. PromptRows - 1 : /\ act'["ping"][t].who = act["ping"][t].who
                                       /\ act'["ping"][t].kind = act["ping"][t].kind
  PROVE  (RowsOwn => RowsOwn') /\ (RowsStaged => RowsStaged')
<1>1. PromptRows' = PromptRows /\ (SeveralPlaceholders' <=> SeveralPlaceholders)
  BY TaskFrame
<1>2. RowsOwn => RowsOwn'
  BY <1>1 DEF RowsOwn, OwnRow
<1>3. RowsStaged => RowsStaged'
  BY <1>1 DEF RowsStaged
<1>4. QED
  BY <1>2, <1>3

LEMMA CacheFrame ==
  ASSUME UNCHANGED <<task, kv>>, NEW l, NEW p, KvOwn(l, p)
  PROVE  KvOwn(l, p)'
<1>1. SeveralPlaceholders' <=> SeveralPlaceholders
  BY TaskFrame
<1>2. QED
  BY <1>1 DEF KvOwn, OwnRow

LEMMA ScoresFrame ==
  ASSUME UNCHANGED task, ScoresOwn, UNCHANGED logits
  PROVE  ScoresOwn'
<1>1. SeveralPlaceholders' <=> SeveralPlaceholders
  BY TaskFrame
<1>2. QED
  BY <1>1 DEF ScoresOwn, OwnRow

-----------------------------------------------------------------------------
(* What the calls and launches leave in the buffers.                          *)

(* A launch of encode_image takes the image one kernel further.               *)
LEMMA EncodeAdvances ==
  ASSUME RunnerTypeOK, EncodeLaunch, EncodedOK, pc = "encode"
  PROVE  /\ vit'["act"].done = <<>>
         /\ op'.name = "encode" => vit'[EncodeSrc[op'.k]].done = Passed(op'.k - 1)
         /\ ret'.rc = "ok" => vit'["image_tokens"].done = Pipeline
         /\ op' = IdleOp \/ op'.name = "encode"
<1>1. vit[EncodeSrc[op.k]].done = Passed(op.k - 1) /\ vit["act"].done = <<>>
  BY EncodeMoves DEF EncodedOK
<1>2. QED
  BY <1>1, EncodePasses

LEMMA BuildLaysOut ==
  ASSUME RunnerTypeOK, task \in TaskSet, HasMedia(task.tokens), UNCHANGED task,
         BuildPrefillActivations(PromptIds, TaskEmbeddings(task))
  PROVE  /\ op'.name = "bridge" => op'.tokens = PromptIds /\ RowsLaidOut'
         /\ op' = IdleOp \/ op'.name = "bridge"
         /\ ret'.rc # "ok"
<1> DEFINE staged == [t \in Rows |-> Staged(PromptIds, TaskEmbeddings(task), t)]
<1>1. IdleOp.name # "bridge" /\ Throws.rc # "ok" /\ NoRet.rc # "ok"
  BY DEF IdleOp, Throws, NoRet
<1>2. PromptRows <= MaxSeq => \A t \in 0 .. PromptRows - 1 : LaidOut(staged[t], t)
  <2>1. PromptRows \in Nat
    BY TaskEmbedded, PromptLenType DEF PromptIds, PromptRows
  <2>2. PromptRows <= MaxSeq => 0 .. PromptRows - 1 \subseteq Rows
    BY <2>1, RunnerAssumption DEF Rows
  <2>3. QED
    BY <2>2, TaskStaged
<1> HIDE DEF staged
<1>3. \/ /\ PromptRows <= MaxSeq
         /\ \/ /\ op' = [name |-> "bridge", tokens |-> PromptIds, emb |-> TaskEmbeddings(task)]
               /\ UNCHANGED ret /\ act' = [act EXCEPT !["ping"] = staged]
            \/ op' = IdleOp /\ ret' = Throws
      \/ op' = IdleOp /\ ret' = Throws
  BY DEF BuildPrefillActivations, Xrt, Continue, Finish, staged, PromptRows
<1>4. ret = NoRet
  BY DEF BuildPrefillActivations, Callable
<1>5. ASSUME PromptRows <= MaxSeq, act' = [act EXCEPT !["ping"] = staged]
      PROVE  RowsLaidOut'
  <2>1. act'["ping"] = staged
    BY <1>5 DEF RunnerTypeOK
  <2>2. /\ PromptRows' = PromptRows
        /\ SeveralPlaceholders' <=> SeveralPlaceholders
        /\ \A t : t \in ImageRows' <=> t \in ImageRows
    BY TaskFrame
  <2>3. QED
    BY <1>2, <1>5, <2>1, <2>2 DEF RowsLaidOut, LaidOut
<1>6. QED
  BY <1>1, <1>3, <1>4, <1>5

(* The bridge fills the last placeholder with this request's encoded image.   *)
LEMMA BridgeFills ==
  ASSUME RunnerTypeOK, BridgeLaunch, UNCHANGED task, op.tokens = PromptIds,
         0 .. PromptRows - 1 \subseteq Rows,
         vit["image_tokens"].who = task.who, vit["image_tokens"].done = Pipeline,
         RowsLaidOut, ret'.rc = "ok"
  PROVE  RowsOwn' /\ RowsStaged' /\ ret'.seq_len = PromptRows
<1> DEFINE bridged == [s \in Rows |-> IF s \in ImageRows THEN BridgedRow(s) ELSE act["ping"][s]]
<1>1. ret.rc # "ok" /\ Throws.rc # "ok"
  <2>1. op # IdleOp
    BY DEF BridgeLaunch, IdleOp
  <2>2. QED
    BY <2>1 DEF RunnerTypeOK, NoRet, Throws
<1>2. /\ act' = [act EXCEPT !["ping"] = bridged]
      /\ ret' = [rc |-> "ok", seq_len |-> PromptRows]
  BY <1>1 DEF BridgeLaunch, Xrt, Finish, ImageRows, PromptRows
<1>3. \A t \in Rows : BridgedRow(t).who = task.who /\ BridgedRow(t).kind = "img"
  BY DEF BridgedRow, Row
<1>4. \A t \in 0 .. PromptRows - 1 :
        OwnRow(bridged[t]) /\ bridged[t].kind \in {"txt", "img", "zero"}
  BY <1>3 DEF OwnRow, RowsLaidOut, LaidOut
<1> HIDE DEF bridged
<1>5. act'["ping"] = bridged
  BY <1>2 DEF RunnerTypeOK
<1>6. PromptRows' = PromptRows /\ (SeveralPlaceholders' <=> SeveralPlaceholders)
  BY TaskFrame
<1>7. RowsOwn' /\ RowsStaged'
  BY <1>4, <1>5, <1>6 DEF RowsOwn, RowsStaged, OwnRow
<1>8. QED
  BY <1>2, <1>7

-----------------------------------------------------------------------------
(* How the cache fills.                                                       *)

(* A cell of the cache that keeps its contents, or takes an own row at its    *)
(* own position, is the request's.                                            *)
LEMMA CellStaysOwn ==
  ASSUME UNCHANGED task, NEW l \in Layers, NEW p \in KvPos,
         \/ kv'[l][p] = kv[l][p] /\ KvOwn(l, p)
         \/ \E row : kv'[l][p] = [row |-> row, pos |-> p] /\ OwnRow(row)
  PROVE  KvOwn(l, p)'
<1>1. \A row : OwnRow(row) <=> row.who = task'.who \/ (SeveralPlaceholders' /\ row.kind = "zero")
  BY DEF OwnRow, SeveralPlaceholders, TokenIds, Before
<1>2. OwnRow(kv'[l][p].row) /\ kv'[l][p].pos = p
  <2>1. \A row : [row |-> row, pos |-> p].row = row /\ [row |-> row, pos |-> p].pos = p
    OBVIOUS
  <2>2. KvOwn(l, p) => OwnRow(kv[l][p].row) /\ kv[l][p].pos = p
    BY DEF KvOwn
  <2>3. CASE kv'[l][p] = kv[l][p] /\ KvOwn(l, p)
    BY <2>2, <2>3
  <2>4. CASE \E row : kv'[l][p] = [row |-> row, pos |-> p] /\ OwnRow(row)
    <3>1. PICK row : kv'[l][p] = [row |-> row, pos |-> p] /\ OwnRow(row)
      BY <2>4
    <3>2. kv'[l][p].row = row /\ kv'[l][p].pos = p
      BY <2>1, <3>1
    <3>3. QED
      BY <3>1, <3>2
  <2>5. QED
    BY <2>3, <2>4
<1>3. QED
  BY <1>1, <1>2 DEF KvOwn, OwnRow

(* run_prefill fills the cache from rows that are the request's.              *)
LEMMA PrefillFills ==
  ASSUME RunnerTypeOK, PrefillLaunch, UNCHANGED task,
         \A t \in 0 .. op.len - 1 : OwnRow(act["ping"][t]),
         \A l \in Layers, p \in 0 .. op.len - 1 : PrefillReached(op, l, p) => KvOwn(l, p)
  PROVE  /\ op'.name = "prefill" =>
              /\ op'.len = op.len
              /\ \A l \in Layers, p \in 0 .. op'.len - 1 :
                   PrefillReached(op', l, p) => KvOwn(l, p)'
         /\ ret'.rc = "ok" => \A l \in Layers, p \in 0 .. op.len - 1 : KvOwn(l, p)'
         /\ \A t \in Rows : /\ act'["ping"][t].who = act["ping"][t].who
                            /\ act'["ping"][t].kind = act["ping"][t].kind
<1>1. \A p \in 0 .. op.len - 1 : p \in KvPos
  <2>1. op \in OpPrefill
    BY OpByName DEF RunnerTypeOK, PrefillLaunch
  <2>2. QED
    BY <2>1, RunnerAssumption DEF OpPrefill, KvPos
<1>2. ASSUME NEW l \in Layers, NEW p \in 0 .. op.len - 1,
             \/ kv'[l][p] = [row |-> act["ping"][p], pos |-> p]
             \/ kv'[l][p] = kv[l][p] /\ PrefillReached(op, l, p)
      PROVE  KvOwn(l, p)'
  BY <1>1, <1>2, CellStaysOwn
<1>3. QED
  BY <1>2, PrefillMoves

(* A decode adds its position, layer after layer, and scores row 0.           *)
LEMMA DecodeFills ==
  ASSUME RunnerTypeOK, DecodeLaunch, UNCHANGED task, op.window = 1,
         OwnRow(act["ping"][0]), NEW pos \in Nat, op.pos = pos,
         pos < HwMaxSeq =>
           \A l \in Layers, p \in 0 .. pos : p < pos \/ l < op.layer => KvOwn(l, p)
  PROVE  /\ op'.name = "decode" => op'.layer = op.layer + 1
         /\ pos < HwMaxSeq =>
              \A l \in Layers, p \in 0 .. pos :
                p < pos \/ (op'.name = "decode" /\ l < op'.layer) \/ ret'.rc = "ok"
                => KvOwn(l, p)'
         /\ ret'.rc = "ok" => logits'.row = act["ping"][0]
         /\ \A t \in Rows : /\ act'["ping"][t].who = act["ping"][t].who
                            /\ act'["ping"][t].kind = act["ping"][t].kind
<1> DEFINE last == op.layer = NumLayers - 1
           layer == DecoderLayer(op.layer, 0, 1, pos, last)
<1>1. op \in OpDecode /\ op.name = "decode"
  BY OpByName DEF RunnerTypeOK, DecodeLaunch
<1>2. /\ op.layer \in Layers /\ op.layer \in Nat /\ NumLayers \in Nat
      /\ 0 + 1 <= MaxSeq /\ 0 \in Nat /\ 1 \in Nat \ {0} /\ HwMaxSeq \in Nat
  BY <1>1, RunnerAssumption DEF OpDecode, Layers
<1>3. ret = NoRet /\ NoRet.rc # "ok" /\ Throws.rc # "ok" /\ IdleOp.name # "decode"
  <2>1. op # IdleOp
    BY <1>1 DEF IdleOp
  <2>2. QED
    BY <2>1 DEF RunnerTypeOK, NoRet, Throws, IdleOp
<1>4. \/ /\ layer
         /\ \/ op.layer + 1 < NumLayers /\ op' = [op EXCEPT !.layer = @ + 1] /\ ret' = NoRet
            \/ ~(op.layer + 1 < NumLayers) /\ op' = IdleOp /\ ret' = Ok
      \/ /\ layer \/ UNCHANGED <<act, kv>>
         /\ op' = IdleOp /\ ret' = Throws
  BY <1>3 DEF DecodeLaunch, Xrt, Finish, Continue
<1>5. layer => /\ \A t \in Rows : /\ act'["ping"][t].who = act["ping"][t].who
                                  /\ act'["ping"][t].kind = act["ping"][t].kind
               /\ last => logits'.row = act["ping"][0]
  <2>1. last \in BOOLEAN /\ 0 + 1 - 1 = 0
    OBVIOUS
  <2> HIDE DEF last
  <2>2. ASSUME DecoderLayer(op.layer, 0, 1, pos, last)
        PROVE  /\ \A t \in Rows : /\ act'["ping"][t].who = act["ping"][t].who
                                  /\ act'["ping"][t].kind = act["ping"][t].kind
               /\ last => logits'.row = act["ping"][0 + 1 - 1]
    BY <1>2, <2>1, <2>2, LayerKeepsRows
  <2>3. QED
    BY <2>1, <2>2
<1>6. ASSUME layer, pos < HwMaxSeq, NEW l \in Layers, NEW p \in 0 .. pos
      PROVE  kv'[l][p] = IF l = op.layer /\ p = pos THEN [row |-> act["ping"][0], pos |-> p]
                                                    ELSE kv[l][p]
  <2>1. p \in KvPos /\ (p - pos \in 0 .. 0 + 1 - 1 <=> p = pos) /\ (p = pos => p - pos = 0)
    BY <1>2, <1>6 DEF KvPos
  <2>2. pos + 0 + 1 <= HwMaxSeq
    BY <1>2, <1>6
  <2>3. kv'[l][p] = IF l = op.layer /\ p - pos \in 0 .. 0 + 1 - 1
                    THEN [row |-> act["ping"][p - pos], pos |-> p]
                    ELSE kv[l][p]
    <3> HIDE DEF last
    <3>1. QED
      BY <1>2, <1>6, <2>1, <2>2, LayerFillsCache
  <2>4. QED
    BY <2>1, <2>3
<1> HIDE DEF layer
<1>7. ASSUME pos < HwMaxSeq, NEW l \in Layers, NEW p \in 0 .. pos,
             p < pos \/ l < op.layer, layer \/ UNCHANGED kv
      PROVE  KvOwn(l, p)'
  <2>1. p \in KvPos /\ KvOwn(l, p) /\ ~(l = op.layer /\ p = pos)
    BY <1>2, <1>7 DEF KvPos, Layers
  <2>2. kv'[l][p] = kv[l][p]
    BY <1>6, <1>7, <2>1
  <2>3. QED
    BY <2>1, <2>2, CellStaysOwn
<1>8. ASSUME pos < HwMaxSeq, NEW l \in Layers, NEW p \in 0 .. pos, l <= op.layer, layer
      PROVE  KvOwn(l, p)'
  <2>1. CASE l = op.layer /\ p = pos
    <3>1. p \in KvPos /\ kv'[l][p] = [row |-> act["ping"][0], pos |-> p]
      BY <1>2, <1>6, <1>8, <2>1 DEF KvPos
    <3>2. QED
      BY <3>1, CellStaysOwn
  <2>2. CASE ~(l = op.layer /\ p = pos)
    <3>1. p < pos \/ l < op.layer
      BY <1>2, <1>8, <2>2 DEF Layers
    <3>2. QED
      BY <1>7, <1>8, <3>1
  <2>3. QED
    BY <2>1, <2>2
<1>9. CASE layer /\ op.layer + 1 < NumLayers /\ op' = [op EXCEPT !.layer = @ + 1] /\ ret' = NoRet
  <2>1. op'.layer = op.layer + 1 /\ op'.name = "decode"
    BY <1>1, <1>9 DEF OpDecode
  <2>2. \A l \in Layers : l < op.layer + 1 => l <= op.layer
    BY <1>2 DEF Layers
  <2>3. QED
    BY <1>3, <1>5, <1>7, <1>8, <1>9, <2>1, <2>2
<1>10. CASE layer /\ ~(op.layer + 1 < NumLayers) /\ op' = IdleOp /\ ret' = Ok
  <2>1. last /\ \A l \in Layers : l <= op.layer
    BY <1>2, <1>10 DEF Layers
  <2>2. QED
    BY <1>3, <1>5, <1>7, <1>8, <1>10, <2>1
<1>11. CASE (layer \/ UNCHANGED <<act, kv>>) /\ op' = IdleOp /\ ret' = Throws
  <2>1. \A t \in Rows : /\ act'["ping"][t].who = act["ping"][t].who
                        /\ act'["ping"][t].kind = act["ping"][t].kind
    BY <1>5, <1>11
  <2>2. QED
    BY <1>3, <1>7, <1>11, <2>1
<1>12. QED
  BY <1>4, <1>9, <1>10, <1>11

-----------------------------------------------------------------------------
(* Every step keeps RequestOK.                                                *)

(* What holds of a request being served.                                      *)
LEMMA ServedPrompt ==
  ASSUME Inv, RequestOK, Serving
  PROVE  /\ task \in TaskSet /\ HasMedia(task.tokens) /\ PromptIds \in Tokens
         /\ PromptRows \in Nat \ {0}
         /\ pc \in {"prefill", "decode", "logits", "embed"} => 0 .. PromptRows - 1 \subseteq Rows
<1>1. task \in TaskSet /\ HasMedia(task.tokens)
  BY DEF Inv, IInv, ServerOK, RequestOK, PromptOK
<1>2. PromptIds \in Tokens
  BY <1>1, TaskEmbedded DEF PromptIds
<1>3. HasPlaceholder(PromptIds)
  BY <1>1 DEF HasMedia, HasPlaceholder, PromptIds, TokenIds
<1>4. PromptRows \in Nat \ {0}
  BY <1>2, <1>3, PromptHasRows DEF PromptRows
<1>5. pc \in {"prefill", "decode", "logits", "embed"} => PromptRows <= MaxSeq
  BY RunnerAssumption DEF Inv, IInv, ServerOK, RequestOK, PromptOK
<1>6. QED
  BY <1>1, <1>2, <1>4, <1>5, RunnerAssumption DEF Rows

(* The cache when a step neither writes it nor moves on.                      *)
LEMMA DecodedFrame ==
  ASSUME UNCHANGED <<task, kv>>, DecodedSoFar, UNCHANGED cur_pos,
         \A l \in Layers : Decoded(l)' => Decoded(l)
  PROVE  DecodedSoFar'
BY CacheFrame DEF DecodedSoFar

LEMMA CallKeepsRequest ==
  ASSUME Inv, RequestOK, CallSession
  PROVE  RequestOK'
<1>1. /\ pc \in Stages /\ op = IdleOp /\ ret = NoRet /\ UNCHANGED logits
      /\ UNCHANGED <<pc, task, seq_len, cur_pos, generated, answer, embeddable>>
  BY CallFrame DEF Callable, server
<1>2. Serving /\ RunnerTypeOK /\ (Serving' => Serving)
  BY <1>1 DEF Inv, IInv, Serving
<1>3. task \in TaskSet /\ HasMedia(task.tokens)
  BY <1>2, ServedPrompt
<1>4. /\ IdleOp.name = "idle" /\ NoRet.rc = "none" /\ Throws.rc = "error"
      /\ PromptRows' = PromptRows /\ PromptIds' = PromptIds
  BY <1>1, TaskFrame DEF IdleOp, NoRet, Throws
<1>5. HasMedia(task.tokens)'
  BY <1>1, <1>3 DEF HasMedia
<1>6. CASE pc = "patches" /\ \E shape_ok \in BOOLEAN : WriteVisionPatches(task.who, shape_ok)
  <2>1. op' = IdleOp /\ (ret'.rc = "ok" => vit'["act"].done = <<>>)
    BY <1>2, <1>4, <1>6 DEF WriteVisionPatches, Xrt, Finish, RunnerTypeOK
  <2>2. PromptOK'
    BY <1>1, <1>4, <1>5, <1>6, <2>1 DEF PromptOK
  <2>3. EncodedOK'
    BY <1>1, <1>4, <1>6, <2>1 DEF EncodedOK
  <2>4. StagedOK' /\ CacheOK'
    BY <1>1, <1>4, <1>6, <2>1 DEF StagedOK, CacheOK
  <2>5. QED
    BY <2>2, <2>3, <2>4 DEF RequestOK
<1>7. CASE pc = "encode" /\ EncodeImage
  <2>1. /\ op' = [name |-> "encode", k |-> 1] /\ UNCHANGED <<vit, ret>>
        /\ EncodeSrc[1] = "act" /\ Passed(1 - 1) = <<>>
    BY <1>7 DEF EncodeImage, EncodeSrc, Passed
  <2>2. vit["act"].done = <<>>
    BY <1>7 DEF RequestOK, EncodedOK
  <2>3. PromptOK'
    BY <1>1, <1>4, <1>5, <1>7, <2>1 DEF PromptOK
  <2>4. EncodedOK'
    BY <1>1, <1>4, <1>7, <2>1, <2>2 DEF EncodedOK
  <2>5. StagedOK' /\ CacheOK'
    BY <1>1, <1>4, <1>7, <2>1 DEF StagedOK, CacheOK
  <2>6. QED
    BY <2>3, <2>4, <2>5 DEF RequestOK
<1>8. CASE pc = "build" /\ BuildPrefillActivations(TokenIds(task.tokens), TaskEmbeddings(task))
  <2>1. /\ op'.name = "bridge" => op'.tokens = PromptIds /\ RowsLaidOut'
        /\ op' = IdleOp \/ op'.name = "bridge"
        /\ ret'.rc # "ok"
    BY <1>1, <1>2, <1>3, <1>8, BuildLaysOut DEF PromptIds
  <2>2. UNCHANGED vit /\ vit["image_tokens"].done = Pipeline
    BY <1>8 DEF BuildPrefillActivations, RequestOK, EncodedOK
  <2>3. PromptOK'
    BY <1>1, <1>4, <1>5, <1>8, <2>1 DEF PromptOK
  <2>4. EncodedOK'
    BY <1>1, <1>4, <1>8, <2>1, <2>2 DEF EncodedOK
  <2>5. StagedOK' /\ CacheOK'
    BY <1>1, <1>4, <1>8, <2>1 DEF StagedOK, CacheOK
  <2>6. QED
    BY <2>3, <2>4, <2>5 DEF RequestOK
<1>9. CASE pc = "prefill" /\ RunPrefill(seq_len)
  <2>1. /\ UNCHANGED <<act, vit, kv>>
        /\ \/ op' = IdleOp /\ ret'.rc = "ok" => seq_len = 0
           \/ op' = [name |-> "prefill", layer |-> 0, tile |-> 0, len |-> seq_len] /\ ret' = NoRet
    BY <1>1, <1>4, <1>9 DEF RunPrefill
  <2>2. RowsOwn /\ RowsStaged /\ seq_len = PromptRows
    BY <1>9 DEF RequestOK, StagedOK, PromptOK
  <2>3. RowsOwn' /\ RowsStaged'
    BY <1>1, <2>1, <2>2, RowsFrame
  <2>4. PrefilledSoFar' \/ op'.name # "prefill"
    <3>1. \A l \in Layers : ~(l < 0)
      BY RunnerAssumption DEF Layers
    <3>2. \A p \in 0 .. seq_len - 1 : ~(p < 0)
      OBVIOUS
    <3>3. op'.name = "prefill" => op'.layer = 0 /\ op'.tile = 0 /\ op'.len = seq_len
      BY <1>4, <1>1, <1>9, <2>1 DEF RunPrefill
    <3>4. QED
      BY <3>1, <3>2, <3>3 DEF PrefilledSoFar, PrefillReached
  <2>5. ret'.rc # "ok"
    <3>1. seq_len # 0 /\ Ok.rc = "ok"
      BY <1>2, <2>2, ServedPrompt DEF Ok
    <3>2. QED
      BY <1>1, <1>4, <1>9, <3>1 DEF RunPrefill
  <2>6. op'.name \in {"idle", "prefill"} /\ (op'.name = "prefill" => op'.len = seq_len)
    BY <1>1, <1>4, <1>9 DEF RunPrefill
  <2>7. PromptOK'
    BY <1>1, <1>4, <1>5, <1>9, <2>2, <2>6 DEF PromptOK
  <2>8. EncodedOK'
    BY <1>1, <1>4, <1>9, <2>6 DEF EncodedOK
  <2>9. StagedOK' /\ CacheOK'
    BY <1>1, <1>9, <2>3, <2>4, <2>5, <2>6 DEF StagedOK, CacheOK
  <2>10. QED
    BY <2>7, <2>8, <2>9 DEF RequestOK
<1>10. CASE pc = "decode" /\ RunDecode(cur_pos, 1)
  <2>1. /\ UNCHANGED <<act, vit, kv, ret>>
        /\ op' = [name |-> "decode", layer |-> 0, pos |-> cur_pos, window |-> 1]
    BY <1>10 DEF RunDecode
  <2>2. op'.name = "decode" /\ op'.layer = 0
    BY <2>1
  <2>3. RowsOwn' /\ seq_len = PromptRows
    <3>1. RowsOwn /\ seq_len = PromptRows
      BY <1>10 DEF RequestOK, StagedOK, PromptOK
    <3>2. QED
      BY <1>1, <2>1, <3>1, RowsFrame
  <2>4. cur_pos < HwMaxSeq => DecodedSoFar'
    <3>1. \A l \in Layers : ~ Decoded(l)'
      <4>1. \A l \in Layers : ~(l < 0)
        BY RunnerAssumption DEF Layers
      <4>2. QED
        BY <1>1, <1>4, <1>10, <2>1, <2>2, <4>1 DEF Decoded
    <3>2. cur_pos < HwMaxSeq => DecodedSoFar
      BY <1>10 DEF RequestOK, CacheOK
    <3>3. QED
      BY <1>1, <2>1, <3>1, <3>2, DecodedFrame
  <2>5. PromptOK'
    BY <1>1, <1>4, <1>5, <1>10, <2>2, <2>3 DEF PromptOK
  <2>6. EncodedOK'
    BY <1>1, <1>4, <1>10, <2>2 DEF EncodedOK
  <2>7. StagedOK'
    BY <1>1, <1>4, <1>10, <2>1, <2>2, <2>3 DEF StagedOK
  <2>8. CacheOK'
    BY <1>1, <1>10, <2>2, <2>4 DEF CacheOK
  <2>9. QED
    BY <2>5, <2>6, <2>7, <2>8 DEF RequestOK
<1>11. CASE \/ pc = "logits" /\ ReadLogits
            \/ pc = "embed" /\ WriteDecodeTokenActivation(cur_pos, Row(task.who, "gen", Len(generated)))
  <2>1. op' = IdleOp /\ UNCHANGED <<vit, kv>>
    BY <1>1, <1>11 DEF ReadLogits, WriteDecodeTokenActivation, Xrt, Finish
  <2>2. RowsOwn /\ seq_len = PromptRows
    BY <1>11 DEF RequestOK, StagedOK, PromptOK
  <2>3. RowsOwn'
    <3>1. CASE UNCHANGED act
      BY <1>1, <2>2, <3>1, RowsFrame
    <3>2. CASE pc = "embed" /\ ~ UNCHANGED act
      <4> DEFINE row == Row(task.who, "gen", Len(generated))
      <4>1. cur_pos < MaxSeq => cur_pos \in Rows
        BY RunnerAssumption DEF Inv, IInv, ServerOK, Rows
      <4>2. row.who = task.who
        BY DEF Row
      <4> HIDE DEF row
      <4>3. cur_pos < MaxSeq /\ host' = [host EXCEPT ![cur_pos] = row] => host'[cur_pos] = row
        BY <1>2, <4>1 DEF RunnerTypeOK
      <4>4. act' = [act EXCEPT !["ping"][cur_pos] = row] /\ cur_pos \in Rows
        BY <1>11, <3>2, <4>1, <4>3 DEF WriteDecodeTokenActivation, Xrt, row
      <4>5. \A t \in Rows : act'["ping"][t] = IF t = cur_pos THEN row ELSE act["ping"][t]
        BY <1>2, <4>4 DEF RunnerTypeOK
      <4>6. 0 .. PromptRows - 1 \subseteq Rows
        BY <1>2, <3>2, ServedPrompt
      <4>7. SeveralPlaceholders' <=> SeveralPlaceholders
        BY <1>1, TaskFrame
      <4>8. QED
        BY <1>1, <1>4, <2>2, <4>2, <4>5, <4>6, <4>7 DEF RowsOwn, OwnRow
    <3>3. QED
      BY <1>11, <3>1, <3>2 DEF ReadLogits
  <2>4. cur_pos < HwMaxSeq => DecodedSoFar'
    <3>1. cur_pos < HwMaxSeq => DecodedSoFar
      BY <1>11 DEF RequestOK, CacheOK
    <3>2. \A l \in Layers : Decoded(l)
      BY <1>11 DEF Decoded
    <3>3. QED
      BY <1>1, <2>1, <3>1, <3>2, DecodedFrame
  <2>5. pc = "logits" => ScoresOwn'
    <3>1. pc = "logits" => ScoresOwn
      BY DEF RequestOK, StagedOK
    <3>2. QED
      BY <1>1, <3>1, ScoresFrame
  <2>6. PromptOK'
    BY <1>1, <1>4, <1>5, <1>11, <2>1, <2>2 DEF PromptOK
  <2>7. EncodedOK'
    BY <1>1, <1>4, <1>11, <2>1 DEF EncodedOK
  <2>8. StagedOK'
    BY <1>1, <1>4, <1>11, <2>1, <2>3, <2>5 DEF StagedOK
  <2>9. CacheOK'
    BY <1>1, <1>4, <1>11, <2>1, <2>4 DEF CacheOK
  <2>10. QED
    BY <2>6, <2>7, <2>8, <2>9 DEF RequestOK
<1>12. QED
  BY <1>6, <1>7, <1>8, <1>9, <1>10, <1>11 DEF CallSession

LEMMA LaunchKeepsRequest ==
  ASSUME Inv, RequestOK, SessionStep
  PROVE  RequestOK'
<1>1. UNCHANGED <<pc, task, seq_len, cur_pos, generated, answer, embeddable>> /\ Step
  BY DEF SessionStep, server
<1>2. RunnerTypeOK /\ op # IdleOp /\ ret = NoRet
  BY <1>1, InProgress DEF Inv, IInv, RunnerTypeOK
<1>3. pc \in Stages \ {"logits", "embed"}
  BY <1>2 DEF Inv, IInv, StageOK, ServerOK, Callable, Stages
<1>4. Serving
  BY <1>3 DEF Serving
<1>5. task \in TaskSet /\ HasMedia(task.tokens) /\ PromptIds \in Tokens
  BY <1>4, ServedPrompt
<1>6. /\ IdleOp.name = "idle" /\ NoRet.rc = "none" /\ Throws.rc = "error"
      /\ PromptRows' = PromptRows /\ PromptIds' = PromptIds /\ HasMedia(task.tokens)'
  BY <1>1, <1>5, TaskFrame DEF IdleOp, NoRet, Throws, HasMedia
<1>7. CASE EncodeLaunch
  <2>1. op.name = "encode" /\ pc = "encode"
    BY <1>7 DEF EncodeLaunch, Inv, DataOK, CallOK
  <2>2. /\ vit'["act"].done = <<>>
        /\ op'.name = "encode" => vit'[EncodeSrc[op'.k]].done = Passed(op'.k - 1)
        /\ ret'.rc = "ok" => vit'["image_tokens"].done = Pipeline
        /\ op' = IdleOp \/ op'.name = "encode"
    BY <1>2, <1>7, <2>1, EncodeAdvances DEF RequestOK
  <2>3. PromptOK'
    BY <1>1, <1>6, <2>1, <2>2 DEF PromptOK
  <2>4. EncodedOK'
    BY <1>1, <1>6, <2>1, <2>2 DEF EncodedOK
  <2>5. StagedOK' /\ CacheOK'
    BY <1>1, <1>6, <2>1, <2>2 DEF StagedOK, CacheOK
  <2>6. QED
    BY <2>3, <2>4, <2>5 DEF RequestOK
<1>8. CASE BridgeLaunch
  <2>1. op.name = "bridge" /\ pc = "build" /\ UNCHANGED vit /\ op' = IdleOp
    BY <1>8 DEF BridgeLaunch, Xrt, Finish, Inv, DataOK, CallOK
  <2>2. /\ vit["image_tokens"].who = task.who /\ vit["image_tokens"].done = Pipeline
        /\ op.tokens = PromptIds /\ RowsLaidOut
    BY <2>1 DEF Inv, DataOK, VisionOK, RequestOK, EncodedOK, StagedOK, PromptOK
  <2>3. 0 .. PromptRows - 1 \subseteq Rows
    <3>1. PromptLen(op.tokens) <= MaxSeq
      BY <1>2, <2>1, OpByName DEF RunnerTypeOK
    <3>2. PromptRows <= MaxSeq /\ PromptRows \in Nat
      BY <1>4, <2>2, <3>1, ServedPrompt DEF PromptRows
    <3>3. QED
      BY <3>2, RunnerAssumption DEF Rows
  <2>4. ret'.rc = "ok" => RowsOwn' /\ RowsStaged' /\ ret'.seq_len = PromptRows
    BY <1>1, <1>2, <1>5, <1>8, <2>2, <2>3, BridgeFills
  <2>5. PromptOK'
    BY <1>1, <1>6, <2>1, <2>4 DEF PromptOK
  <2>6. EncodedOK'
    BY <1>1, <1>6, <2>1, <2>2 DEF EncodedOK
  <2>7. StagedOK'
    BY <1>1, <1>6, <2>1, <2>4 DEF StagedOK
  <2>8. CacheOK'
    BY <1>1, <1>6, <2>1 DEF CacheOK
  <2>9. QED
    BY <2>5, <2>6, <2>7, <2>8 DEF RequestOK
<1>9. CASE PrefillLaunch
  <2>1. op.name = "prefill" /\ pc = "prefill" /\ UNCHANGED vit
    BY <1>9 DEF PrefillLaunch, Inv, DataOK, CallOK
  <2>2. RowsOwn /\ RowsStaged /\ PrefilledSoFar /\ op.len = seq_len /\ seq_len = PromptRows
    BY <2>1 DEF RequestOK, StagedOK, CacheOK, PromptOK
  <2>3. 0 .. PromptRows - 1 \subseteq Rows
    BY <1>4, <2>1, ServedPrompt
  <2>4. \A t \in 0 .. op.len - 1 : OwnRow(act["ping"][t])
    BY <2>2 DEF RowsOwn
  <2>5. /\ op'.name = "prefill" => op'.len = op.len /\ PrefilledSoFar'
        /\ ret'.rc = "ok" => \A l \in Layers, p \in 0 .. op.len - 1 : KvOwn(l, p)'
        /\ \A t \in Rows : /\ act'["ping"][t].who = act["ping"][t].who
                           /\ act'["ping"][t].kind = act["ping"][t].kind
    BY <1>1, <1>2, <1>9, <2>2, <2>4, PrefillFills DEF PrefilledSoFar
  <2>6. RowsOwn' /\ RowsStaged'
    BY <1>1, <2>2, <2>3, <2>5, RowsFrame
  <2>7. ret'.rc = "ok" => Prefilled'
    BY <1>1, <2>2, <2>5 DEF Prefilled
  <2>8. op'.name \in {"idle", "prefill"}
    <3>1. \A t \in Rows : Own(act["ping"][t])
      BY <2>1 DEF Inv, DataOK, RowsOK
    <3>2. QED
      BY <1>2, <1>6, <1>9, <3>1, PrefillLeaves
  <2>9. PromptOK'
    BY <1>1, <1>6, <2>1, <2>2, <2>5, <2>8 DEF PromptOK
  <2>10. EncodedOK'
    BY <1>1, <1>6, <2>1, <2>8 DEF EncodedOK
  <2>11. StagedOK'
    BY <1>1, <2>1, <2>6, <2>8 DEF StagedOK
  <2>12. CacheOK'
    BY <1>1, <2>1, <2>5, <2>7 DEF CacheOK
  <2>13. QED
    BY <2>9, <2>10, <2>11, <2>12 DEF RequestOK
<1>10. CASE DecodeLaunch
  <2>1. op.name = "decode" /\ pc = "decode" /\ UNCHANGED vit /\ op.pos = cur_pos /\ op.window = 1
    BY <1>10 DEF DecodeLaunch, Inv, IInv, StageOK
  <2>2. RowsOwn /\ seq_len = PromptRows /\ (cur_pos < HwMaxSeq => DecodedSoFar)
    BY <2>1 DEF RequestOK, StagedOK, CacheOK, PromptOK
  <2>3. 0 .. PromptRows - 1 \subseteq Rows /\ 0 \in 0 .. PromptRows - 1
    BY <1>4, <2>1, ServedPrompt
  <2>4. OwnRow(act["ping"][0]) /\ cur_pos \in Nat
    BY <2>2, <2>3, RunnerAssumption DEF RowsOwn, Inv, IInv, ServerOK
  <2>5. cur_pos < HwMaxSeq =>
          \A l \in Layers, p \in 0 .. cur_pos : p < cur_pos \/ l < op.layer => KvOwn(l, p)
    BY <2>1, <2>2 DEF DecodedSoFar, Decoded
  <2>6. /\ cur_pos < HwMaxSeq =>
             \A l \in Layers, p \in 0 .. cur_pos :
               p < cur_pos \/ (op'.name = "decode" /\ l < op'.layer) \/ ret'.rc = "ok"
               => KvOwn(l, p)'
        /\ ret'.rc = "ok" => logits'.row = act["ping"][0]
        /\ \A t \in Rows : /\ act'["ping"][t].who = act["ping"][t].who
                           /\ act'["ping"][t].kind = act["ping"][t].kind
    BY <1>1, <1>2, <1>10, <2>1, <2>4, <2>5, DecodeFills
  <2>7. RowsOwn'
    BY <1>1, <2>2, <2>3, <2>6, RowsFrame
  <2>8. ret'.rc = "ok" => ScoresOwn'
    <3>1. SeveralPlaceholders' <=> SeveralPlaceholders
      BY <1>1, TaskFrame
    <3>2. QED
      BY <1>1, <2>4, <2>6, <3>1 DEF ScoresOwn, OwnRow
  <2>9. cur_pos < HwMaxSeq => DecodedSoFar'
    BY <1>1, <2>1, <2>6 DEF DecodedSoFar, Decoded
  <2>10. op'.name \in {"idle", "decode"}
    <3>1. op \in OpDecode
      BY <1>2, <2>1, OpByName DEF RunnerTypeOK
    <3>2. op' = IdleOp \/ op' = [op EXCEPT !.layer = @ + 1]
      BY <1>10 DEF DecodeLaunch, Xrt, Finish, Continue
    <3>3. QED
      BY <1>6, <3>1, <3>2 DEF OpDecode
  <2>11. PromptOK'
    BY <1>1, <1>6, <2>1, <2>2, <2>10 DEF PromptOK
  <2>12. EncodedOK'
    BY <1>1, <1>6, <2>1, <2>10 DEF EncodedOK
  <2>13. StagedOK'
    BY <1>1, <2>1, <2>7, <2>8, <2>10 DEF StagedOK
  <2>14. CacheOK'
    BY <1>1, <2>1, <2>9, <2>10 DEF CacheOK
  <2>15. QED
    BY <2>11, <2>12, <2>13, <2>14 DEF RequestOK
<1>11. QED
  BY <1>1, <1>7, <1>8, <1>9, <1>10 DEF Step

(* The server's own steps hand the buffers from one stage to the next.        *)
LEMMA ServerKeepsRequest ==
  ASSUME Inv, RequestOK,
         \/ StageDone \/ BuildDone \/ PrefillDone \/ Sample \/ TokenWritten
  PROVE  RequestOK'
<1>1. Return /\ UNCHANGED <<task, answer, embeddable>> /\ ret.rc = "ok"
  BY DEF StageDone, BuildDone, PrefillDone, Sample, TokenWritten, After
<1>2. Callable' /\ op = IdleOp /\ UNCHANGED <<act, vit, logits, kv>>
  BY <1>1, ReturnFrees DEF Inv, IInv, Return
<1>3. op'.name = "idle" /\ op.name = "idle" /\ ret'.rc # "ok"
  BY <1>2 DEF Callable, IdleOp, NoRet
<1>4. \/ pc = "patches" /\ pc' = "encode" /\ UNCHANGED <<seq_len, cur_pos>>
      \/ pc = "encode" /\ pc' = "build" /\ UNCHANGED <<seq_len, cur_pos>>
      \/ pc = "decode" /\ pc' = "logits" /\ UNCHANGED <<seq_len, cur_pos>>
      \/ pc = "build" /\ pc' = "prefill" /\ seq_len' = ret.seq_len /\ UNCHANGED cur_pos
      \/ pc = "prefill" /\ pc' = "decode" /\ cur_pos' = seq_len /\ UNCHANGED seq_len
      \/ pc = "logits" /\ pc' \in {"send", "embed", "crashed"} /\ UNCHANGED <<seq_len, cur_pos>>
      \/ pc = "embed" /\ pc' \in {"decode", "send"} /\ cur_pos' = cur_pos + 1 /\ UNCHANGED seq_len
  BY DEF StageDone, BuildDone, PrefillDone, Sample, TokenWritten, After
<1>5. pc \in Stages
  BY <1>4 DEF Stages
<1>6. Serving
  BY <1>5 DEF Serving
<1>7. PromptRows' = PromptRows /\ PromptIds' = PromptIds /\ HasMedia(task.tokens)'
  <2>1. HasMedia(task.tokens)
    BY <1>6, ServedPrompt
  <2>2. QED
    BY <1>1, <2>1, TaskFrame DEF HasMedia
<1>8. cur_pos \in Nat /\ seq_len \in Nat /\ HwMaxSeq \in Nat
  BY RunnerAssumption DEF Inv, IInv, ServerOK
<1>9. PromptOK'
  <2>1. pc' \in {"prefill", "decode", "logits", "embed"} => seq_len' = PromptRows
    BY <1>1, <1>4 DEF RequestOK, PromptOK
  <2>2. QED
    BY <1>3, <1>7, <2>1 DEF PromptOK
<1>10. EncodedOK'
  BY <1>1, <1>2, <1>3, <1>4 DEF EncodedOK, RequestOK
<1>11. StagedOK'
  <2>1. pc' = "prefill" => RowsStaged
    BY <1>1, <1>4 DEF RequestOK, StagedOK
  <2>2. pc' \in {"prefill", "decode", "logits", "embed"} => RowsOwn
    BY <1>1, <1>4 DEF RequestOK, StagedOK
  <2>3. pc' = "logits" => ScoresOwn
    BY <1>1, <1>4 DEF RequestOK, StagedOK
  <2>4. (RowsStaged => RowsStaged') /\ (RowsOwn => RowsOwn')
    BY <1>1, <1>2, RowsFrame
  <2>5. ScoresOwn => ScoresOwn'
    BY <1>1, <1>2, ScoresFrame
  <2>6. QED
    BY <1>3, <2>1, <2>2, <2>3, <2>4, <2>5 DEF StagedOK
<1>12. ASSUME pc' \in {"decode", "logits", "embed"}, cur_pos' < HwMaxSeq
       PROVE  DecodedSoFar'
  <2>1. ASSUME NEW l \in Layers, NEW p \in 0 .. cur_pos', p < cur_pos' \/ Decoded(l)'
        PROVE  KvOwn(l, p)
    <3>1. CASE pc = "prefill" /\ pc' = "decode" /\ cur_pos' = seq_len
      <4>1. Prefilled
        BY <1>1, <3>1 DEF RequestOK, CacheOK
      <4>2. p < seq_len
        BY <1>3, <2>1, <3>1 DEF Decoded
      <4>3. p \in 0 .. seq_len - 1
        BY <1>8, <3>1, <4>2
      <4>4. QED
        BY <4>1, <4>3 DEF Prefilled
    <3>2. CASE pc \in {"decode", "logits"} /\ UNCHANGED cur_pos
      <4>1. DecodedSoFar /\ Decoded(l)
        BY <1>1, <1>12, <3>2 DEF RequestOK, CacheOK, Decoded
      <4>2. QED
        BY <2>1, <3>2, <4>1 DEF DecodedSoFar
    <3>3. CASE pc = "embed" /\ pc' = "decode" /\ cur_pos' = cur_pos + 1
      <4>1. cur_pos < HwMaxSeq
        BY <1>8, <1>12, <3>3
      <4>2. DecodedSoFar /\ Decoded(l)
        BY <3>3, <4>1 DEF RequestOK, CacheOK, Decoded
      <4>3. p < cur_pos'
        BY <1>3, <2>1, <3>3 DEF Decoded
      <4>4. p \in 0 .. cur_pos
        BY <1>8, <3>3, <4>3
      <4>5. QED
        BY <4>2, <4>4 DEF DecodedSoFar
    <3>4. QED
      BY <1>4, <1>12, <3>1, <3>2, <3>3
  <2>2. \A l \in Layers, p \in 0 .. cur_pos' : p < cur_pos' \/ Decoded(l)' => KvOwn(l, p)'
    BY <1>1, <1>2, <2>1, CacheFrame
  <2>3. QED
    BY <2>2 DEF DecodedSoFar
<1>13. CacheOK'
  BY <1>3, <1>12 DEF CacheOK
<1>14. QED
  BY <1>9, <1>10, <1>11, <1>13 DEF RequestOK

(* Between requests nothing is said of the buffers.                           *)
LEMMA NobodysRequest ==
  ASSUME Callable', pc' \in {"idle", "crashed"}
  PROVE  RequestOK'
<1>1. op'.name = "idle" /\ ret'.rc # "ok"
  BY DEF Callable, IdleOp, NoRet
<1>2. PromptOK' /\ EncodedOK' /\ StagedOK' /\ CacheOK'
  BY <1>1 DEF PromptOK, EncodedOK, StagedOK, CacheOK, Serving, Stages
<1>3. QED
  BY <1>2 DEF RequestOK

LEMMA AdmitKeepsRequest ==
  ASSUME Inv, NEW r \in Requests, NEW tokens \in Tasks, NEW stream \in BOOLEAN,
         Admit(r, tokens, stream)
  PROVE  RequestOK'
<1>1. Callable' /\ pc' = "patches" /\ task' = [who |-> r, tokens |-> tokens] /\ HasMedia(tokens)
  BY VarsKept DEF Inv, IInv, StageOK, Admit, Stages
<1>2. op'.name = "idle" /\ ret'.rc # "ok"
  BY <1>1 DEF Callable, IdleOp, NoRet
<1>3. HasMedia(task.tokens)'
  BY <1>1 DEF HasMedia
<1>4. PromptOK' /\ EncodedOK' /\ StagedOK' /\ CacheOK'
  BY <1>1, <1>2, <1>3 DEF PromptOK, EncodedOK, StagedOK, CacheOK
<1>5. QED
  BY <1>4 DEF RequestOK

LEMMA StutterKeepsRequest == RequestOK /\ UNCHANGED allvars => RequestOK'
<1> SUFFICES ASSUME RequestOK, UNCHANGED allvars PROVE RequestOK'
  OBVIOUS
<1>1. /\ UNCHANGED <<host, act, vit, kv, logits, op, ret>>
      /\ UNCHANGED <<pc, task, seq_len, cur_pos, generated, answer, embeddable>>
  BY DEF allvars, vars, server
<1>2. /\ PromptRows' = PromptRows /\ PromptIds' = PromptIds
      /\ SeveralPlaceholders' <=> SeveralPlaceholders
      /\ \A t : t \in ImageRows' <=> t \in ImageRows
  BY <1>1, TaskFrame
<1>3. PromptOK'
  BY <1>1, <1>2 DEF RequestOK, PromptOK, Serving, HasMedia
<1>4. EncodedOK'
  BY <1>1 DEF RequestOK, EncodedOK
<1>5. /\ RowsLaidOut => RowsLaidOut'
      /\ RowsOwn => RowsOwn'
      /\ RowsStaged => RowsStaged'
      /\ ScoresOwn => ScoresOwn'
  BY <1>1, <1>2, RowsFrame, ScoresFrame DEF RowsLaidOut, LaidOut
<1>6. StagedOK'
  BY <1>1, <1>5 DEF RequestOK, StagedOK
<1>7. \A l, p : KvOwn(l, p) => KvOwn(l, p)'
  BY <1>1, CacheFrame
<1>8. /\ PrefilledSoFar => PrefilledSoFar'
      /\ Prefilled => Prefilled'
      /\ DecodedSoFar => DecodedSoFar'
  BY <1>1, <1>7 DEF PrefilledSoFar, Prefilled, DecodedSoFar, Decoded
<1>9. CacheOK'
  BY <1>1, <1>8 DEF RequestOK, CacheOK
<1>10. QED
  BY <1>3, <1>4, <1>6, <1>9 DEF RequestOK

LEMMA InitRequest == InitServer => RequestOK
<1> SUFFICES ASSUME InitServer PROVE RequestOK
  OBVIOUS
<1>1. op.name = "idle" /\ ret.rc # "ok" /\ pc = "idle"
  BY DEF InitServer, Init, IdleOp, NoRet
<1>2. PromptOK /\ EncodedOK /\ StagedOK /\ CacheOK
  BY <1>1 DEF PromptOK, EncodedOK, StagedOK, CacheOK, Serving, Stages
<1>3. QED
  BY <1>2 DEF RequestOK

LEMMA NextKeepsRequest == Inv /\ RequestOK /\ [NextServer]_allvars => RequestOK'
<1> SUFFICES ASSUME Inv, RequestOK, [NextServer]_allvars PROVE RequestOK'
  OBVIOUS
<1>1. pc' \in {"idle", "crashed"} => Callable'
  BY NextKeepsInv DEF Inv, IInv, StageOK, Stages
<1>2. ASSUME NEW r \in Requests, NEW tokens \in Tasks, NEW stream \in BOOLEAN,
             FallBack(r, tokens) \/ Reject(r, tokens, stream) \/ Crash(r, tokens, stream)
      PROVE  RequestOK'
  <2>1. pc' \in {"idle", "crashed"}
    BY <1>2 DEF FallBack, Reject, Crash
  <2>2. QED
    BY <1>1, <2>1, NobodysRequest
<1>3. ASSUME NEW r \in Requests, NEW tokens \in Tasks, NEW stream \in BOOLEAN,
             Admit(r, tokens, stream)
      PROVE  RequestOK'
  BY <1>3, AdmitKeepsRequest
<1>4. CASE CallFailed \/ SendResult
  <2>1. pc' = "idle"
    BY <1>4 DEF CallFailed, SendResult
  <2>2. QED
    BY <1>1, <2>1, NobodysRequest
<1>5. CASE CallSession \/ SessionStep
  BY <1>5, CallKeepsRequest, LaunchKeepsRequest
<1>6. CASE StageDone \/ BuildDone \/ PrefillDone \/ Sample \/ TokenWritten
  BY <1>6, ServerKeepsRequest
<1>7. CASE UNCHANGED allvars
  BY <1>7, StutterKeepsRequest
<1>8. QED
  BY <1>2, <1>3, <1>4, <1>5, <1>6, <1>7 DEF NextServer, RunTask

-----------------------------------------------------------------------------
(* The theorems.                                                              *)

LEMMA RequestInvariant == SpecServer => [](Inv /\ RequestOK)
BY InitServerOK, InitData, InitRequest, NextKeepsInv, NextKeepsRequest, PTL DEF SpecServer, Inv

(* Whatever earlier requests and failed calls left in the buffers, the rows    *)
(* run_prefill starts from are the request's: its text embeddings and its      *)
(* fully encoded image, for every prompt, tile and image size.                 *)
THEOREM PathStagesOwn == SpecServer => []StagedIsOwn
<1>1. Inv /\ RequestOK => StagedIsOwn
  <2> SUFFICES ASSUME Inv, RequestOK, op.name = "prefill",
                      NEW t \in 0 .. op.len - 1
               PROVE  OwnRow(act["ping"][t]) /\ act["ping"][t].kind \in {"txt", "img", "zero"}
    BY DEF StagedIsOwn
  <2>1. pc = "prefill"
    BY DEF Inv, DataOK, CallOK
  <2>2. RowsOwn /\ RowsStaged /\ op.len = PromptRows
    BY <2>1 DEF RequestOK, StagedOK, PromptOK
  <2>3. QED
    BY <2>2 DEF RowsOwn, RowsStaged
<1>2. QED
  BY <1>1, RequestInvariant, PTL

(* At every decode launch the cache of its layer holds this request's K/V at   *)
(* every earlier position, prompt and generated tokens alike.                  *)
THEOREM PathHistoryOwn == SpecServer => []HistoryIsOwn
<1>1. Inv /\ RequestOK => HistoryIsOwn
  <2> SUFFICES ASSUME Inv, RequestOK, op.name = "decode", op.pos < HwMaxSeq,
                      NEW p \in 0 .. op.pos - 1
               PROVE  OwnRow(kv[op.layer][p].row) /\ kv[op.layer][p].pos = p
    BY DEF HistoryIsOwn
  <2>1. pc = "decode" /\ op.pos = cur_pos /\ cur_pos \in Nat
    BY RunnerAssumption DEF Inv, IInv, StageOK, ServerOK
  <2>2. DecodedSoFar
    BY <2>1 DEF RequestOK, CacheOK
  <2>3. op.layer \in Layers
    BY OpByName DEF Inv, IInv, RunnerTypeOK, OpDecode
  <2>4. p \in 0 .. cur_pos /\ p < cur_pos
    BY <2>1
  <2>5. KvOwn(op.layer, p)
    BY <2>2, <2>3, <2>4 DEF DecodedSoFar
  <2>6. QED
    BY <2>5 DEF KvOwn
<1>2. QED
  BY <1>1, RequestInvariant, PTL

(* The scores a token is sampled from were computed by this request's decode   *)
(* of the current position.                                                    *)
THEOREM PathScoresOwn == SpecServer => []LogitsOfThisStep
<1>1. Inv /\ RequestOK => LogitsOfThisStep
  BY DEF Inv, IInv, StageOK, RequestOK, StagedOK, ScoresOwn, LogitsOfThisStep
<1>2. QED
  BY <1>1, RequestInvariant, PTL

-----------------------------------------------------------------------------
(* The layout of a prompt, for a caller that calls in any order.              *)

(* What holds of 0 and of the successor of each number it holds of.           *)
LEMMA Upwards ==
  ASSUME NEW S \in SUBSET Nat, 0 \in S, \A n \in S : n + 1 \in S
  PROVE  \A n \in Nat : n \in S
<1> SUFFICES ASSUME Nat \ S # {} PROVE FALSE
  OBVIOUS
<1>1. PICK d \in Nat \ S : \A e \in Nat \ S : ~(<<e, d>> \in OpToRel(<, Nat))
  BY NatLessThanWellFounded, WFMin, Zenon
<1>2. \A e \in Nat \ S : ~(e < d)
  BY <1>1 DEF OpToRel
<1>3. d - 1 \in S
  BY <1>2
<1>4. (d - 1) + 1 = d
  OBVIOUS
<1>5. QED
  BY <1>3, <1>4

(* No token lies in front of an earlier one.                                  *)
LEMMA OffsetGrows ==
  ASSUME NEW tokens, NEW i \in Nat \ {0}, NEW k \in Nat, i <= k
  PROVE  OffsetOf(tokens, i) <= OffsetOf(tokens, k)
<1>1. ASSUME NEW tok
      PROVE  /\ Before(tokens, i, tok) \in Nat /\ Before(tokens, k, tok) \in Nat
             /\ Before(tokens, i, tok) <= Before(tokens, k, tok)
  <2> DEFINE S == {j \in 1 .. i - 1 : tokens[j] = tok}
             T == {j \in 1 .. k - 1 : tokens[j] = tok}
  <2>1. IsFiniteSet(1 .. k - 1)
    BY ONLY k \in Nat, FS_Interval
  <2>2. T \subseteq 1 .. k - 1 /\ S \subseteq T
    OBVIOUS
  <2>3. Before(tokens, i, tok) = Cardinality(S) /\ Before(tokens, k, tok) = Cardinality(T)
    BY DEF Before
  <2> HIDE DEF S, T
  <2>4. IsFiniteSet(T)
    BY ONLY <2>1, <2>2, FS_Subset
  <2>5. IsFiniteSet(S) /\ Cardinality(S) <= Cardinality(T)
    BY ONLY <2>2, <2>4, FS_Subset
  <2>6. Cardinality(S) \in Nat /\ Cardinality(T) \in Nat
    BY ONLY <2>4, <2>5, FS_CardinalityType
  <2>7. QED
    BY <2>3, <2>5, <2>6
<1> DEFINE a == Before(tokens, i, "txt")
           b == Before(tokens, k, "txt")
           c == Before(tokens, i, "img")
           d == Before(tokens, k, "img")
<1>2. a \in Nat /\ b \in Nat /\ c \in Nat /\ d \in Nat /\ a <= b /\ c <= d
  BY <1>1
<1>3. OffsetOf(tokens, i) = a + ImageTokens * c /\ OffsetOf(tokens, k) = b + ImageTokens * d
  BY DEF OffsetOf
<1> HIDE DEF a, b, c, d
<1>4. ImageTokens \in Nat
  BY RunnerAssumption
<1>5. /\ ImageTokens * c <= ImageTokens * d
      /\ ImageTokens * c \in Nat /\ ImageTokens * d \in Nat
  <2>1. \A m, x, y \in Nat : x <= y => m * x <= m * y /\ m * x \in Nat /\ m * y \in Nat
    OBVIOUS
  <2>2. QED
    BY ONLY <1>2, <1>4, <2>1
<1>6. QED
  BY ONLY <1>2, <1>3, <1>5

(* The rows of two tokens are disjoint.                                       *)
LEMMA OneTokenARow ==
  ASSUME NEW tokens \in Tokens, NEW i \in 1 .. Len(tokens), NEW k \in 1 .. Len(tokens), NEW t \in Int,
         OffsetOf(tokens, i) <= t, t < OffsetOf(tokens, i + 1),
         OffsetOf(tokens, k) <= t, t < OffsetOf(tokens, k + 1)
  PROVE  i = k
<1>1. /\ i \in Nat \ {0} /\ k \in Nat \ {0} /\ i + 1 \in Nat \ {0} /\ k + 1 \in Nat \ {0}
      /\ i \in Int /\ k \in Int /\ i + 1 \in Int /\ k + 1 \in Int
  BY DEF Tokens
<1>2. /\ OffsetOf(tokens, i) \in Nat /\ OffsetOf(tokens, k) \in Nat
      /\ OffsetOf(tokens, i + 1) \in Nat /\ OffsetOf(tokens, k + 1) \in Nat
  BY ONLY <1>1, OffsetType
<1>3. i + 1 <= k => OffsetOf(tokens, i + 1) <= OffsetOf(tokens, k)
  BY <1>1, OffsetGrows
<1>4. k + 1 <= i => OffsetOf(tokens, k + 1) <= OffsetOf(tokens, i)
  BY <1>1, OffsetGrows
<1>5. QED
  BY <1>1, <1>2, <1>3, <1>4

(* The row a text token is copied to holds its embedding.                     *)
LEMMA StagedText ==
  ASSUME NEW tokens \in Tokens, NEW emb, NEW i \in 1 .. Len(tokens), tokens[i] = "txt"
  PROVE  Staged(tokens, emb, Prepended(tokens) + OffsetOf(tokens, i)) = emb[Before(tokens, i, "txt") + 1]
<1> DEFINE t == Prepended(tokens) + OffsetOf(tokens, i)
           here == {j \in DOMAIN tokens : tokens[j] = "txt" /\ Prepended(tokens) + OffsetOf(tokens, j) = t}
<1>1. DOMAIN tokens = 1 .. Len(tokens) /\ Len(tokens) \in Nat
  BY DEF Tokens
<1>2. Prepended(tokens) \in Nat
  BY RunnerAssumption DEF Prepended
<1>3. \A j \in 1 .. Len(tokens) : OffsetOf(tokens, j) \in Nat
  BY <1>1, OffsetType
<1>4. ASSUME NEW j \in here PROVE j = i
  <2>1. j \in 1 .. Len(tokens) /\ tokens[j] = "txt" /\ OffsetOf(tokens, j) = OffsetOf(tokens, i)
    BY <1>1, <1>2, <1>3
  <2>2. /\ OffsetOf(tokens, i + 1) = OffsetOf(tokens, i) + 1
        /\ OffsetOf(tokens, j + 1) = OffsetOf(tokens, j) + 1
    BY <2>1, OffsetNext
  <2> HIDE DEF here, t
  <2> DEFINE o == OffsetOf(tokens, i)
  <2>3. o \in Nat /\ o < o + 1 /\ o <= o
    BY <1>3
  <2>4. /\ OffsetOf(tokens, i) <= o /\ o < OffsetOf(tokens, i + 1)
        /\ OffsetOf(tokens, j) <= o /\ o < OffsetOf(tokens, j + 1)
    BY <2>1, <2>2, <2>3
  <2> HIDE DEF o
  <2>5. o \in Int
    BY <2>3
  <2>6. QED
    BY <2>1, <2>4, <2>5, OneTokenARow
<1>5. i \in here
  BY <1>1
<1>6. (CHOOSE j \in here : TRUE) = i
  <2> HIDE DEF here
  <2>1. QED
    BY <1>4, <1>5
<1>7. here # {}
  BY <1>5
<1>8. Staged(tokens, emb, t) = IF here = {} THEN FirstPass(tokens, emb, t)
                               ELSE emb[Before(tokens, CHOOSE j \in here : TRUE, "txt") + 1]
  BY DEF Staged, Copied
<1> HIDE DEF here, t
<1>9. Staged(tokens, emb, t) = emb[Before(tokens, i, "txt") + 1]
  BY ONLY <1>6, <1>7, <1>8
<1>10. QED
  BY ONLY <1>9 DEF t

-----------------------------------------------------------------------------
(* Reading a prompt from left to right.                                       *)

(* The recursion of Denoted, up to m.                                         *)
Unread(tokens, image) == [rows |-> IF HasPlaceholder(tokens) THEN <<>> ELSE image, texts |-> 0]
Reads(g, tokens, emb, image, m) ==
  g = [n \in 0 .. m |-> IF n = 0 THEN Unread(tokens, image) ELSE ReadToken(g[n - 1], tokens[n], emb, image)]

LEMMA ReadingExists ==
  ASSUME NEW tokens, NEW emb, NEW image, NEW m \in Nat
  PROVE  \E g : Reads(g, tokens, emb, image, m)
<1> DEFINE read(acc, n) == ReadToken(acc, tokens[n], emb, image)
           start == Unread(tokens, image)
           S == {n \in Nat : \E g : g = [i \in 0 .. n |-> IF i = 0 THEN start ELSE read(g[i - 1], i)]}
<1> HIDE DEF read, start
<1>1. 0 \in S
  <2> DEFINE g == [i \in 0 .. 0 |-> start]
  <2>1. g = [i \in 0 .. 0 |-> IF i = 0 THEN start ELSE read(g[i - 1], i)]
    OBVIOUS
  <2>2. QED
    BY <2>1
<1>2. ASSUME NEW n \in S PROVE n + 1 \in S
  <2>1. PICK g : g = [i \in 0 .. n |-> IF i = 0 THEN start ELSE read(g[i - 1], i)]
    OBVIOUS
  <2> DEFINE h == [i \in 0 .. n + 1 |-> IF i <= n THEN g[i] ELSE read(g[n], n + 1)]
  <2>2. \A i \in 0 .. n : g[i] = IF i = 0 THEN start ELSE read(g[i - 1], i)
    BY <2>1
  <2>3. ASSUME NEW i \in 0 .. n + 1
        PROVE  h[i] = IF i = 0 THEN start ELSE read(h[i - 1], i)
    <3>1. CASE i <= n
      BY <2>2, <3>1
    <3>2. CASE i = n + 1
      <4>1. h[i] = read(g[n], n + 1) /\ h[i - 1] = g[n] /\ i # 0
        BY <3>2
      <4>2. QED
        BY <3>2, <4>1
    <3>3. QED
      BY <3>1, <3>2
  <2>4. h = [i \in 0 .. n + 1 |-> h[i]] /\ n + 1 \in Nat
    OBVIOUS
  <2> HIDE DEF h
  <2>5. h = [i \in 0 .. n + 1 |-> IF i = 0 THEN start ELSE read(h[i - 1], i)]
    BY <2>3, <2>4
  <2>6. QED
    BY <2>4, <2>5
<1>3. m \in S
  <2> HIDE DEF S
  <2>1. S \in SUBSET Nat
    BY DEF S
  <2>2. QED
    BY <1>1, <1>2, <2>1, Upwards
<1>4. QED
  BY <1>3 DEF Reads, read, start

(* Denoted is what the reading has after the last token.                      *)
LEMMA DenotedReads ==
  ASSUME NEW tokens \in Tokens, NEW emb, NEW image
  PROVE  \E g : /\ Reads(g, tokens, emb, image, Len(tokens))
                /\ Denoted(tokens, emb, image) = g[Len(tokens)].rows
<1> DEFINE H == CHOOSE g : g = [n \in 0 .. Len(tokens) |->
                                  IF n = 0 THEN [rows |-> IF HasPlaceholder(tokens) THEN <<>> ELSE image, texts |-> 0]
                                           ELSE ReadToken(g[n - 1], tokens[n], emb, image)]
<1>1. Len(tokens) \in Nat
  BY DEF Tokens
<1>2. \E g : g = [n \in 0 .. Len(tokens) |->
                    IF n = 0 THEN [rows |-> IF HasPlaceholder(tokens) THEN <<>> ELSE image, texts |-> 0]
                             ELSE ReadToken(g[n - 1], tokens[n], emb, image)]
  <2>1. PICK g : Reads(g, tokens, emb, image, Len(tokens))
    BY <1>1, ReadingExists
  <2> HIDE DEF H
  <2>2. g = [n \in 0 .. Len(tokens) |->
               IF n = 0 THEN [rows |-> IF HasPlaceholder(tokens) THEN <<>> ELSE image, texts |-> 0]
                        ELSE ReadToken(g[n - 1], tokens[n], emb, image)]
    BY <2>1 DEF Reads, Unread
  <2>3. QED
    BY ONLY <2>2
<1>3. H = [n \in 0 .. Len(tokens) |->
             IF n = 0 THEN [rows |-> IF HasPlaceholder(tokens) THEN <<>> ELSE image, texts |-> 0]
                      ELSE ReadToken(H[n - 1], tokens[n], emb, image)]
  BY <1>2
<1>4. Denoted(tokens, emb, image) = H[Len(tokens)].rows
  BY Zenon DEF Denoted
<1> HIDE DEF H
<1>5. QED
  BY <1>3, <1>4 DEF Reads, Unread

(* The rows of a token, and those in front of all tokens.                     *)
Placed(rows, tokens, emb, image, i) ==
  IF tokens[i] = "txt"
  THEN rows[Prepended(tokens) + OffsetOf(tokens, i) + 1] = emb[Before(tokens, i, "txt") + 1]
  ELSE \A j \in 1 .. ImageTokens : rows[Prepended(tokens) + OffsetOf(tokens, i) + j] = image[j]
InFront(rows, tokens, image) ==
  ~HasPlaceholder(tokens) => \A j \in 1 .. ImageTokens : rows[j] = image[j]

ReadSoFar(sofar, tokens, emb, image, n) ==
  /\ sofar.texts = Before(tokens, n + 1, "txt")
  /\ Len(sofar.rows) = Prepended(tokens) + OffsetOf(tokens, n + 1)
  /\ InFront(sofar.rows, tokens, image)
  /\ \A i \in 1 .. n : Placed(sofar.rows, tokens, emb, image, i)

(* Where a token of a prompt is, seen from a later one.                       *)
LEMMA TokenBefore ==
  ASSUME NEW tokens \in Tokens, NEW n \in 0 .. Len(tokens), NEW i \in 1 .. n
  PROVE  /\ OffsetOf(tokens, i) \in Nat /\ OffsetOf(tokens, n + 1) \in Nat
         /\ tokens[i] = "txt" => OffsetOf(tokens, i) + 1 <= OffsetOf(tokens, n + 1)
         /\ tokens[i] # "txt" => OffsetOf(tokens, i) + ImageTokens <= OffsetOf(tokens, n + 1)
<1>1. /\ i \in 1 .. Len(tokens) /\ i + 1 \in Nat \ {0} /\ n + 1 \in Nat /\ i + 1 <= n + 1
      /\ i \in Int /\ n + 1 \in Int
  BY DEF Tokens
<1>2. OffsetOf(tokens, i) \in Nat /\ OffsetOf(tokens, n + 1) \in Nat
  BY ONLY <1>1, OffsetType
<1>3. OffsetOf(tokens, i + 1) <= OffsetOf(tokens, n + 1)
  BY ONLY <1>1, OffsetGrows
<1>4. OffsetOf(tokens, i + 1) = OffsetOf(tokens, i) + (IF tokens[i] = "txt" THEN 1 ELSE ImageTokens)
  BY <1>1, OffsetNext
<1>5. QED
  BY <1>2, <1>3, <1>4

(* Rows further on change nothing of what is in front of them.                *)
LEMMA ReadStays ==
  ASSUME NEW tokens \in Tokens, NEW emb, NEW image, NEW n \in 0 .. Len(tokens),
         NEW rows, NEW more,
         Len(rows) = Prepended(tokens) + OffsetOf(tokens, n + 1),
         \A x \in 1 .. Len(rows) : more[x] = rows[x],
         InFront(rows, tokens, image), \A i \in 1 .. n : Placed(rows, tokens, emb, image, i)
  PROVE  InFront(more, tokens, image) /\ \A i \in 1 .. n : Placed(more, tokens, emb, image, i)
<1>1. n + 1 \in Int
  BY DEF Tokens
<1>2. OffsetOf(tokens, n + 1) \in Nat
  BY <1>1, OffsetType
<1>3. Prepended(tokens) \in Nat /\ ImageTokens \in Nat
  BY RunnerAssumption DEF Prepended
<1>4. ~HasPlaceholder(tokens) => ImageTokens <= Len(rows)
  BY <1>2, <1>3 DEF Prepended
<1>5. InFront(more, tokens, image)
  BY <1>3, <1>4 DEF InFront
<1>6. ASSUME NEW i \in 1 .. n PROVE Placed(more, tokens, emb, image, i)
  <2> DEFINE o == OffsetOf(tokens, i)
  <2>1. /\ o \in Nat
        /\ tokens[i] = "txt" => o + 1 <= OffsetOf(tokens, n + 1)
        /\ tokens[i] # "txt" => o + ImageTokens <= OffsetOf(tokens, n + 1)
    BY TokenBefore
  <2>2. Placed(rows, tokens, emb, image, i)
    OBVIOUS
  <2>3. CASE tokens[i] = "txt"
    <3>1. Prepended(tokens) + o + 1 \in 1 .. Len(rows)
      BY <1>2, <1>3, <2>1, <2>3
    <3>2. more[Prepended(tokens) + o + 1] = rows[Prepended(tokens) + o + 1]
      BY <3>1
    <3>3. QED
      BY <2>2, <2>3, <3>2 DEF Placed
  <2>4. CASE tokens[i] # "txt"
    <3>1. ASSUME NEW j \in 1 .. ImageTokens
          PROVE  more[Prepended(tokens) + o + j] = image[j]
      <4>1. Prepended(tokens) + o + j \in 1 .. Len(rows)
        BY <1>2, <1>3, <2>1, <2>4
      <4>2. more[Prepended(tokens) + o + j] = rows[Prepended(tokens) + o + j]
        BY <4>1
      <4>3. rows[Prepended(tokens) + o + j] = image[j]
        BY <2>2, <2>4 DEF Placed
      <4>4. QED
        BY <4>2, <4>3
    <3>2. QED
      BY <2>4, <3>1 DEF Placed
  <2>5. QED
    BY <2>3, <2>4
<1>7. QED
  BY <1>5, <1>6

(* A text token read, and a placeholder.                                      *)
LEMMA ReadText ==
  ASSUME NEW T, NEW tokens \in Tokens, NEW emb, NEW image, NEW n \in 0 .. Len(tokens) - 1,
         \A k \in Nat : emb[k] \in T,
         NEW sofar \in [rows : Seq(T), texts : Nat], ReadSoFar(sofar, tokens, emb, image, n),
         tokens[n + 1] = "txt"
  PROVE  LET next == ReadToken(sofar, tokens[n + 1], emb, image)
         IN  next \in [rows : Seq(T), texts : Nat] /\ ReadSoFar(next, tokens, emb, image, n + 1)
<1> DEFINE rows == sofar.rows
           more == Append(rows, emb[sofar.texts + 1])
           next == [rows |-> more, texts |-> sofar.texts + 1]
<1>1. ReadToken(sofar, tokens[n + 1], emb, image) = next
  BY DEF ReadToken
<1>2. rows \in Seq(T) /\ sofar.texts \in Nat /\ emb[sofar.texts + 1] \in T
  OBVIOUS
<1>3. /\ more \in Seq(T) /\ Len(more) = Len(rows) + 1 /\ more[Len(rows) + 1] = emb[sofar.texts + 1]
      /\ \A x \in 1 .. Len(rows) : more[x] = rows[x]
  BY <1>2, AppendProperties
<1>4. n \in 0 .. Len(tokens) /\ n + 1 \in 1 .. Len(tokens) /\ n + 1 \in Nat \ {0} /\ n + 1 \in Int
  BY DEF Tokens
<1>5. sofar.texts = Before(tokens, n + 1, "txt") /\ Len(rows) = Prepended(tokens) + OffsetOf(tokens, n + 1)
  BY DEF ReadSoFar
<1>6. Before(tokens, (n + 1) + 1, "txt") = sofar.texts + 1
  BY <1>4, <1>5, BeforeNext
<1>7. OffsetOf(tokens, (n + 1) + 1) = OffsetOf(tokens, n + 1) + 1
  BY <1>4, OffsetNext
<1>8. OffsetOf(tokens, n + 1) \in Nat /\ Prepended(tokens) \in Nat
  BY <1>4, OffsetType, RunnerAssumption DEF Prepended
<1>9. next \in [rows : Seq(T), texts : Nat] /\ next.rows = more /\ next.texts = sofar.texts + 1
  BY <1>2, <1>3
<1> HIDE DEF more, next, rows
<1>10. Len(more) = Prepended(tokens) + OffsetOf(tokens, (n + 1) + 1)
  BY <1>3, <1>5, <1>7, <1>8
<1>11. InFront(rows, tokens, image) /\ \A i \in 1 .. n : Placed(rows, tokens, emb, image, i)
  BY DEF ReadSoFar, rows
<1>12. InFront(more, tokens, image) /\ \A i \in 1 .. n : Placed(more, tokens, emb, image, i)
  BY <1>3, <1>4, <1>5, <1>11, ReadStays
<1>13. Placed(more, tokens, emb, image, n + 1)
  BY <1>3, <1>5 DEF Placed
<1>14. \A i \in 1 .. n + 1 : Placed(more, tokens, emb, image, i)
  BY <1>4, <1>12, <1>13
<1>15. QED
  BY <1>1, <1>6, <1>9, <1>10, <1>12, <1>14 DEF ReadSoFar

LEMMA ReadImage ==
  ASSUME NEW T, NEW tokens \in Tokens, NEW emb, NEW image \in Seq(T), Len(image) = ImageTokens,
         NEW n \in 0 .. Len(tokens) - 1,
         NEW sofar \in [rows : Seq(T), texts : Nat], ReadSoFar(sofar, tokens, emb, image, n),
         tokens[n + 1] = "img"
  PROVE  LET next == ReadToken(sofar, tokens[n + 1], emb, image)
         IN  next \in [rows : Seq(T), texts : Nat] /\ ReadSoFar(next, tokens, emb, image, n + 1)
<1> DEFINE rows == sofar.rows
           more == rows \o image
           next == [sofar EXCEPT !.rows = more]
<1>1. ReadToken(sofar, tokens[n + 1], emb, image) = next
  BY DEF ReadToken
<1>2. rows \in Seq(T) /\ sofar.texts \in Nat
  OBVIOUS
<1>3. /\ more \in Seq(T) /\ Len(more) = Len(rows) + ImageTokens
      /\ \A x \in 1 .. Len(rows) : more[x] = rows[x]
      /\ \A j \in 1 .. ImageTokens : more[Len(rows) + j] = image[j]
  <2>1. Len(rows) \in Nat /\ ImageTokens \in Nat
    BY <1>2, RunnerAssumption
  <2> HIDE DEF rows
  <2>2. /\ rows \o image \in Seq(T) /\ Len(rows \o image) = Len(rows) + ImageTokens
        /\ \A x \in 1 .. Len(rows) + ImageTokens :
             (rows \o image)[x] = IF x <= Len(rows) THEN rows[x] ELSE image[x - Len(rows)]
    <3>1. rows \in Seq(T) /\ image \in Seq(T)
      BY <1>2
    <3> HIDE DEF more, next
    <3>2. /\ rows \o image \in Seq(T) /\ Len(rows \o image) = Len(rows) + Len(image)
          /\ \A x \in 1 .. Len(rows) + Len(image) :
               (rows \o image)[x] = IF x <= Len(rows) THEN rows[x] ELSE image[x - Len(rows)]
      BY ONLY <3>1, ConcatProperties
    <3>3. Len(image) = ImageTokens
      OBVIOUS
    <3>4. QED
      BY ONLY <3>2, <3>3
  <2>3. ASSUME NEW j \in 1 .. ImageTokens PROVE more[Len(rows) + j] = image[j]
    <3>1. /\ Len(rows) + j \in 1 .. Len(rows) + ImageTokens /\ ~(Len(rows) + j <= Len(rows))
          /\ (Len(rows) + j) - Len(rows) = j
      BY ONLY <2>1, j \in 1 .. ImageTokens
    <3>2. QED
      BY <2>2, <3>1
  <2>4. \A x \in 1 .. Len(rows) : more[x] = rows[x]
    BY <2>1, <2>2
  <2>5. QED
    BY <2>2, <2>3, <2>4
<1>4. n \in 0 .. Len(tokens) /\ n + 1 \in 1 .. Len(tokens) /\ n + 1 \in Nat \ {0} /\ n + 1 \in Int
  BY DEF Tokens
<1>5. sofar.texts = Before(tokens, n + 1, "txt") /\ Len(rows) = Prepended(tokens) + OffsetOf(tokens, n + 1)
  BY DEF ReadSoFar
<1>6. Before(tokens, (n + 1) + 1, "txt") = sofar.texts
  <2>1. Before(tokens, (n + 1) + 1, "txt") = Before(tokens, n + 1, "txt") + 0
    BY <1>4, BeforeNext
  <2>2. QED
    BY <1>2, <1>5, <2>1
<1>7. OffsetOf(tokens, (n + 1) + 1) = OffsetOf(tokens, n + 1) + ImageTokens
  BY <1>4, OffsetNext
<1>8. OffsetOf(tokens, n + 1) \in Nat /\ Prepended(tokens) \in Nat /\ ImageTokens \in Nat
  BY <1>4, OffsetType, RunnerAssumption DEF Prepended
<1>9. next \in [rows : Seq(T), texts : Nat] /\ next.rows = more /\ next.texts = sofar.texts
  BY <1>2, <1>3
<1> HIDE DEF more, next, rows
<1>10. Len(more) = Prepended(tokens) + OffsetOf(tokens, (n + 1) + 1)
  BY <1>3, <1>5, <1>7, <1>8
<1>11. InFront(rows, tokens, image) /\ \A i \in 1 .. n : Placed(rows, tokens, emb, image, i)
  BY DEF ReadSoFar, rows
<1>12. InFront(more, tokens, image) /\ \A i \in 1 .. n : Placed(more, tokens, emb, image, i)
  BY <1>3, <1>4, <1>5, <1>11, ReadStays
<1>13. Placed(more, tokens, emb, image, n + 1)
  BY <1>3, <1>5 DEF Placed
<1>14. \A i \in 1 .. n + 1 : Placed(more, tokens, emb, image, i)
  BY <1>4, <1>12, <1>13
<1>15. QED
  BY <1>1, <1>6, <1>9, <1>10, <1>12, <1>14 DEF ReadSoFar

(* So the reading has every token in its place after the last one.            *)
LEMMA DenotedPlaces ==
  ASSUME NEW T, NEW tokens \in Tokens, NEW emb, NEW image \in Seq(T), Len(image) = ImageTokens,
         \A k \in Nat : emb[k] \in T
  PROVE  LET want == Denoted(tokens, emb, image)
         IN  /\ Len(want) = PromptLen(tokens)
             /\ InFront(want, tokens, image)
             /\ \A i \in 1 .. Len(tokens) : Placed(want, tokens, emb, image, i)
<1>1. Len(tokens) \in Nat
  BY DEF Tokens
<1>2. PICK g : /\ Reads(g, tokens, emb, image, Len(tokens))
               /\ Denoted(tokens, emb, image) = g[Len(tokens)].rows
  BY DenotedReads
<1> DEFINE Good(n) == g[n] \in [rows : Seq(T), texts : Nat] /\ ReadSoFar(g[n], tokens, emb, image, n)
           S == {n \in Nat : n <= Len(tokens) => Good(n)}
<1>3. g[0] = Unread(tokens, image)
  BY <1>1, <1>2 DEF Reads
<1>4. ASSUME NEW n \in 0 .. Len(tokens) - 1
      PROVE  g[n + 1] = ReadToken(g[n], tokens[n + 1], emb, image)
  <2>1. n + 1 \in 0 .. Len(tokens) /\ n + 1 # 0 /\ (n + 1) - 1 = n
    BY <1>1
  <2>2. g[n + 1] = ReadToken(g[(n + 1) - 1], tokens[n + 1], emb, image)
    BY <1>2, <2>1 DEF Reads
  <2>3. QED
    BY <2>1, <2>2
<1>5. Good(0)
  <2> DEFINE front == IF HasPlaceholder(tokens) THEN <<>> ELSE image
  <2>1. front \in Seq(T) /\ Len(front) = Prepended(tokens)
    BY DEF Prepended
  <2>2. \A tok : Before(tokens, 1, tok) = 0
    <3>1. \A tok : {j \in 1 .. 1 - 1 : tokens[j] = tok} = {}
      OBVIOUS
    <3>2. QED
      BY <3>1, FS_EmptySet DEF Before
  <2>3. OffsetOf(tokens, 0 + 1) = 0 /\ Prepended(tokens) + 0 = Prepended(tokens)
    BY OffsetFirst, RunnerAssumption DEF Prepended
  <2>4. InFront(front, tokens, image)
    BY DEF InFront
  <2>5. g[0] = [rows |-> front, texts |-> 0]
    BY <1>3 DEF Unread
  <2> HIDE DEF front
  <2>6. g[0] \in [rows : Seq(T), texts : Nat] /\ g[0].rows = front /\ g[0].texts = 0
    BY <2>1, <2>5
  <2>7. Before(tokens, 0 + 1, "txt") = 0 /\ \A i \in 1 .. 0 : Placed(front, tokens, emb, image, i)
    BY <2>2
  <2>8. QED
    BY <2>1, <2>3, <2>4, <2>6, <2>7 DEF ReadSoFar
<1>6. ASSUME NEW n \in S PROVE n + 1 \in S
  <2> SUFFICES ASSUME n + 1 <= Len(tokens) PROVE Good(n + 1)
    OBVIOUS
  <2>1. n \in 0 .. Len(tokens) - 1 /\ Good(n)
    BY <1>1
  <2>2. tokens[n + 1] \in {"txt", "img"}
    BY <1>1, <2>1 DEF Tokens
  <2>3. g[n + 1] = ReadToken(g[n], tokens[n + 1], emb, image)
    BY <1>4, <2>1
  <2> HIDE DEF S
  <2>4. CASE tokens[n + 1] = "txt"
    BY <2>1, <2>3, <2>4, ReadText
  <2>5. CASE tokens[n + 1] = "img"
    BY <2>1, <2>3, <2>5, ReadImage
  <2>6. QED
    BY <2>2, <2>4, <2>5
<1>7. Good(Len(tokens))
  <2>1. 0 \in S /\ S \in SUBSET Nat
    BY <1>5
  <2> HIDE DEF S, Good
  <2>2. Len(tokens) \in S
    BY <1>1, <1>6, <2>1, Upwards
  <2>3. QED
    BY <1>1, <2>2 DEF S
<1>8. QED
  BY <1>2, <1>7 DEF ReadSoFar, PromptLen

-----------------------------------------------------------------------------
(* What the device holds while the bridge is about to run.                    *)

BridgeOK ==
  op.name = "bridge" => \A t \in Rows : act["ping"][t] = Staged(op.tokens, op.emb, t)

(* A step after which no bridge is in progress, or the one before still is.   *)
LEMMA BridgeFrame ==
  ASSUME BridgeOK, op'.name # "bridge" \/ UNCHANGED <<act, op>>
  PROVE  BridgeOK'
BY DEF BridgeOK

LEMMA BuildStages ==
  ASSUME RunnerTypeOK, NEW tokens, NEW emb, BuildPrefillActivations(tokens, emb)
  PROVE  BridgeOK'
<1>1. CASE op' = IdleOp
  BY <1>1 DEF BridgeOK, IdleOp
<1>2. CASE /\ host' = [t \in Rows |-> Staged(tokens, emb, t)] /\ act' = [act EXCEPT !["ping"] = host']
           /\ op' = [name |-> "bridge", tokens |-> tokens, emb |-> emb]
  <2>1. op'.tokens = tokens /\ op'.emb = emb
    BY <1>2
  <2>2. act'["ping"] = host'
    BY <1>2 DEF RunnerTypeOK
  <2>3. \A t \in Rows : act'["ping"][t] = Staged(tokens, emb, t)
    BY <1>2, <2>2
  <2>4. QED
    BY <2>1, <2>3 DEF BridgeOK
<1>3. QED
  BY <1>1, <1>2 DEF BuildPrefillActivations, Xrt, Finish, Continue

LEMMA NextKeepsBridge ==
  ASSUME RunnerTypeOK, BridgeOK, [Next]_vars
  PROVE  BridgeOK'
<1>1. ASSUME NEW r \in Requests, NEW shape_ok \in BOOLEAN, WriteVisionPatches(r, shape_ok)
      PROVE  BridgeOK'
  BY <1>1, BridgeFrame DEF WriteVisionPatches, Xrt, Finish, IdleOp
<1>2. CASE EncodeImage
  BY <1>2, BridgeFrame DEF EncodeImage
<1>3. CASE EncodeLaunch
  <2>1. op \in OpEncode
    BY <1>3, OpByName DEF RunnerTypeOK, EncodeLaunch
  <2>2. op' = IdleOp \/ op' = [op EXCEPT !.k = @ + 1]
    BY <1>3 DEF EncodeLaunch, Xrt, Finish, Continue
  <2>3. op'.name \in {"idle", "encode"}
    BY <2>1, <2>2 DEF OpEncode, IdleOp
  <2>4. QED
    BY <2>3, BridgeFrame
<1>4. ASSUME NEW r \in Requests, NEW tokens \in Prompts, NEW emb \in Embeddings(r, tokens),
             BuildPrefillActivations(tokens, emb)
      PROVE  BridgeOK'
  BY <1>4, BuildStages
<1>5. CASE BridgeLaunch
  BY <1>5, BridgeFrame DEF BridgeLaunch, Xrt, Finish, IdleOp
<1>6. ASSUME NEW length \in 0 .. MaxSeq + 1, RunPrefill(length)
      PROVE  BridgeOK'
  BY <1>6, BridgeFrame DEF RunPrefill, Callable, IdleOp
<1>7. CASE PrefillLaunch
  <2>1. op \in OpPrefill
    BY <1>7, OpByName DEF RunnerTypeOK, PrefillLaunch
  <2>2. \/ op' = IdleOp
        \/ op' = [op EXCEPT !.tile = @ + PrefillTile]
        \/ op' = [op EXCEPT !.layer = @ + 1, !.tile = 0]
    BY <1>7 DEF PrefillLaunch, Xrt, NextPrefillLaunch, Finish, Continue
  <2>3. op'.name \in {"idle", "prefill"}
    <3>1. [op EXCEPT !.tile = @ + PrefillTile].name = "prefill"
      BY <2>1 DEF OpPrefill
    <3>2. [op EXCEPT !.layer = @ + 1, !.tile = 0].name = "prefill"
      BY <2>1 DEF OpPrefill
    <3>3. IdleOp.name = "idle"
      BY DEF IdleOp
    <3>4. QED
      BY <2>2, <3>1, <3>2, <3>3
  <2>4. QED
    BY <2>3, BridgeFrame
<1>8. ASSUME NEW pos \in 0 .. MaxSeq, NEW window \in Windows, RunDecode(pos, window)
      PROVE  BridgeOK'
  BY <1>8, BridgeFrame DEF RunDecode
<1>9. CASE DecodeLaunch
  <2>1. op \in OpDecode
    BY <1>9, OpByName DEF RunnerTypeOK, DecodeLaunch
  <2>2. op'.name \in {"idle", "decode"}
    BY <1>9, <2>1 DEF DecodeLaunch, Xrt, Finish, Continue, IdleOp, OpDecode
  <2>3. QED
    BY <2>2, BridgeFrame
<1>10. ASSUME NEW pos \in 0 .. MaxSeq, NEW r \in Requests, NEW g \in 0 .. MaxSeq,
              WriteDecodeTokenActivation(pos, Row(r, "gen", g))
       PROVE  BridgeOK'
  BY <1>10, BridgeFrame DEF WriteDecodeTokenActivation, Xrt, Finish, IdleOp
<1>11. CASE ReadLogits
  BY <1>11, BridgeFrame DEF ReadLogits, Callable, IdleOp
<1>12. CASE Return
  BY <1>12, BridgeFrame DEF Return
<1>13. CASE UNCHANGED vars
  BY <1>13, BridgeFrame DEF vars
<1>14. QED
  BY <1>1, <1>2, <1>3, <1>4, <1>5, <1>6, <1>7, <1>8, <1>9, <1>10, <1>11, <1>12, <1>13
     DEF Next, Call, Step

(* The launch that ends a build: the image goes to its rows, and to no other. *)
LEMMA BridgeCompletes ==
  ASSUME RunnerTypeOK, BridgeOK, BridgeLaunch, ret'.rc = "ok"
  PROVE  LET dst == ImageDst(op.tokens) .. ImageDst(op.tokens) + ImageTokens - 1
         IN  /\ ret'.seq_len = PromptLen(op.tokens)
             /\ \A t \in Rows : act'["ping"][t] = IF t \in dst THEN BridgedRow(t)
                                                  ELSE Staged(op.tokens, op.emb, t)
<1> DEFINE dst == ImageDst(op.tokens) .. ImageDst(op.tokens) + ImageTokens - 1
           ok == [rc |-> "ok", seq_len |-> PromptLen(op.tokens)]
           effect == act' = [act EXCEPT !["ping"] = [t \in Rows |-> IF t \in dst THEN BridgedRow(t) ELSE @[t]]]
<1>1. ret' # Throws
  BY DEF Throws
<1>2. effect /\ ret' = ok
  BY <1>1 DEF BridgeLaunch, Xrt, Finish
<1>3. ret'.seq_len = PromptLen(op.tokens)
  BY <1>2
<1>4. act'["ping"] = [t \in Rows |-> IF t \in dst THEN BridgedRow(t) ELSE act["ping"][t]]
  BY <1>2 DEF RunnerTypeOK
<1> HIDE DEF effect, ok
<1>5. \A t \in Rows : act["ping"][t] = Staged(op.tokens, op.emb, t)
  BY DEF BridgeOK, BridgeLaunch
<1>6. QED
  BY <1>3, <1>4, <1>5

(* The two passes and the bridge agree with the reading, row by row, for a    *)
(* prompt with at most one placeholder.                                       *)
LEMMA RowsAgree ==
  ASSUME NEW tokens \in Tokens, NEW emb, NEW image, NEW want, NEW t \in 0 .. PromptLen(tokens) - 1,
         Before(tokens, Len(tokens) + 1, "img") <= 1,
         InFront(want, tokens, image), \A i \in 1 .. Len(tokens) : Placed(want, tokens, emb, image, i)
  PROVE  LET dst == ImageDst(tokens) .. ImageDst(tokens) + ImageTokens - 1
         IN  want[t + 1] = IF t \in dst THEN image[t + 1 - ImageDst(tokens)] ELSE Staged(tokens, emb, t)
<1> DEFINE d == ImageDst(tokens)
           p == Prepended(tokens)
           end == OffsetOf(tokens, Len(tokens) + 1)
<1>1. d \in Nat /\ p \in Nat /\ ImageTokens \in Nat
  BY ImageDstType, RunnerAssumption DEF Prepended
<1>2. Len(tokens) \in Nat /\ DOMAIN tokens = 1 .. Len(tokens) /\ end \in Nat
  <2>1. Len(tokens) \in Nat /\ DOMAIN tokens = 1 .. Len(tokens) /\ Len(tokens) + 1 \in Int
    BY DEF Tokens
  <2>2. QED
    BY <2>1, OffsetType
<1>3. t \in Nat /\ t < p + end
  BY <1>1, <1>2 DEF PromptLen
<1>4. ~HasPlaceholder(tokens) => d = 0 /\ p = ImageTokens
  BY DEF ImageDst, Prepended
<1>5. HasPlaceholder(tokens) => p = 0
  BY DEF Prepended
<1> HIDE DEF d, p, end
<1>6. CASE ~HasPlaceholder(tokens) /\ t < ImageTokens
  <2>1. t \in d .. d + ImageTokens - 1 /\ t + 1 - d = t + 1 /\ t + 1 \in 1 .. ImageTokens
    BY <1>1, <1>3, <1>4, <1>6
  <2>2. want[t + 1] = image[t + 1]
    BY <1>6, <2>1 DEF InFront
  <2>3. QED
    BY <2>1, <2>2 DEF d
<1>7. CASE HasPlaceholder(tokens) \/ t >= ImageTokens
  <2> DEFINE u == t - p
  <2>1. u \in 0 .. end - 1 /\ t = p + u
    BY <1>1, <1>2, <1>3, <1>4, <1>5, <1>7
  <2> HIDE DEF u
  <2>2. PICK i \in 1 .. Len(tokens) : OffsetOf(tokens, i) <= u /\ u < OffsetOf(tokens, i + 1)
    BY <2>1, RowOfToken DEF end
  <2> DEFINE o == OffsetOf(tokens, i)
  <2>3. o \in Nat /\ u \in Int /\ tokens[i] \in {"txt", "img"}
    <3>1. i \in Int
      BY <1>2
    <3>2. QED
      BY <1>2, <2>1, <3>1, OffsetType DEF Tokens
  <2>4. OffsetOf(tokens, i + 1) = o + (IF tokens[i] = "txt" THEN 1 ELSE ImageTokens)
    BY OffsetNext
  <2>5. HasPlaceholder(tokens)
          => \E k \in 1 .. Len(tokens) : d = OffsetOf(tokens, k) /\ tokens[k] = "img"
    BY <1>2, ImageDstIs DEF d
  <2>6. ASSUME tokens[i] = "txt"
        PROVE  t \notin d .. d + ImageTokens - 1
    <3>1. CASE ~HasPlaceholder(tokens)
      BY <1>1, <1>3, <1>4, <1>7, <3>1
    <3>2. CASE HasPlaceholder(tokens)
      <4>1. PICK k \in 1 .. Len(tokens) : d = OffsetOf(tokens, k) /\ tokens[k] = "img"
        BY <2>5, <3>2
      <4>2. OffsetOf(tokens, k + 1) = d + ImageTokens
        BY <4>1, OffsetNext
      <4>3. t = u
        BY <1>1, <1>3, <1>5, <2>1, <2>3, <3>2
      <4>4. i # k
        BY <2>6, <4>1
      <4>5. ~(OffsetOf(tokens, k) <= u /\ u < OffsetOf(tokens, k + 1))
        BY <2>2, <2>3, <4>4, OneTokenARow
      <4>6. QED
        BY <1>1, <2>3, <4>1, <4>2, <4>3, <4>5
    <3>3. QED
      BY <3>1, <3>2
  <2>7. CASE tokens[i] = "txt"
    <3>1. u = o
      BY <2>2, <2>3, <2>4, <2>7
    <3>2. want[p + o + 1] = emb[Before(tokens, i, "txt") + 1]
      BY <2>7 DEF Placed, p
    <3>3. Staged(tokens, emb, p + o) = emb[Before(tokens, i, "txt") + 1]
      BY <2>7, StagedText DEF p
    <3>4. want[t + 1] = Staged(tokens, emb, t)
      BY <2>1, <3>1, <3>2, <3>3
    <3>5. QED
      BY <2>6, <2>7, <3>4 DEF d
  <2>8. CASE tokens[i] = "img"
    <3>1. HasPlaceholder(tokens)
      BY <1>2, <2>8 DEF HasPlaceholder
    <3>2. PICK k \in 1 .. Len(tokens) : d = OffsetOf(tokens, k) /\ tokens[k] = "img"
      BY <2>5, <3>1
    <3>3. i = k
      <4>1. Before(tokens, Len(tokens) + 1, "img") \in Nat
        <5>1. Len(tokens) + 1 \in Int
          BY ONLY <1>2
        <5>2. QED
          BY <5>1, BeforeType
      <4>2. ~(i < k) /\ ~(k < i)
        BY <2>8, <3>2, <4>1, TwoAreSeveral
      <4>3. QED
        BY <1>2, <4>2
    <3>4. d = o /\ p = 0 /\ t = u
      BY <1>3, <1>5, <2>1, <2>3, <3>1, <3>2, <3>3
    <3> HIDE DEF o
    <3> DEFINE j == t + 1 - d
    <3>5. j \in 1 .. ImageTokens /\ p + o + j = t + 1 /\ t \in d .. d + ImageTokens - 1
      BY <1>1, <1>3, <2>2, <2>3, <2>4, <2>8, <3>4 DEF o
    <3> HIDE DEF j
    <3>6. want[p + o + j] = image[j]
      BY <2>8, <3>5 DEF Placed, p, o
    <3>7. want[t + 1] = image[j]
      BY <3>5, <3>6
    <3>8. QED
      BY <3>5, <3>7 DEF d, j
  <2>9. QED
    BY <2>3, <2>7, <2>8
<1>8. QED
  BY <1>1, <1>3, <1>6, <1>7

(* When build_prefill_activations returns ok, whatever was called and has     *)
(* failed before it, act_ping_ holds exactly the prompt: the text embeddings  *)
(* in their order and the image in the place of its placeholder or, without   *)
(* one, in front.  The memset, the two copies with their two offsets, the     *)
(* sync and the bridge come to what a left-to-right reading says, for prompts *)
(* of any length and images of any number of rows.                            *)
THEOREM RunnerLaysOutPrompt == Spec => PrefillLayout
<1> DEFINE One == op.name = "bridge" /\ ret'.rc = "ok" /\ Before(op.tokens, Len(op.tokens) + 1, "img") <= 1
           want == Denoted(op.tokens, op.emb, EncodedImage)
           AsRead == /\ ret'.seq_len = Len(want)
                     /\ \A t \in 1 .. Len(want) : act'["ping"][t - 1] = want[t]
<1>1. RunnerTypeOK /\ BridgeOK /\ [Next]_vars => [One => AsRead]_vars
  <2> SUFFICES ASSUME RunnerTypeOK, BridgeOK, Next, One
               PROVE  AsRead
    OBVIOUS
  <2>1. op \in OpBridge /\ PromptLen(op.tokens) <= MaxSeq /\ op # IdleOp /\ ret = NoRet
    BY OpByName DEF RunnerTypeOK, IdleOp
  <2>2. BridgeLaunch
    <3>1. ~Call
      BY <2>1 DEF Call, WriteVisionPatches, EncodeImage, BuildPrefillActivations, RunPrefill,
                  RunDecode, WriteDecodeTokenActivation, ReadLogits, Callable
    <3>2. ~Return
      BY <2>1 DEF Return
    <3>3. ~EncodeLaunch /\ ~PrefillLaunch /\ ~DecodeLaunch
      BY DEF EncodeLaunch, PrefillLaunch, DecodeLaunch
    <3>4. QED
      BY <3>1, <3>2, <3>3 DEF Next, Step
  <2> DEFINE tokens == op.tokens
             emb == op.emb
             image == EncodedImage
             T == {emb[k] : k \in Nat} \cup {image[j] : j \in 1 .. ImageTokens}
  <2>3. tokens \in Tokens
    BY <2>1 DEF OpBridge
  <2>4. image \in Seq(T) /\ Len(image) = ImageTokens /\ \A k \in Nat : emb[k] \in T
    <3>1. ImageTokens \in Nat /\ image = [j \in 1 .. ImageTokens |-> image[j]]
      BY RunnerAssumption DEF EncodedImage
    <3> HIDE DEF image, emb
    <3>2. image \in Seq(T) /\ Len(image) = ImageTokens
      BY <3>1
    <3>3. QED
      BY <3>2
  <2>5. \A t \in Rows : /\ t + 1 - ImageDst(tokens) \in 1 .. ImageTokens
                             => BridgedRow(t) = image[t + 1 - ImageDst(tokens)]
    BY DEF BridgedRow, EncodedImage
  <2>6. /\ ret'.seq_len = PromptLen(tokens)
        /\ \A t \in Rows : act'["ping"][t] =
             IF t \in ImageDst(tokens) .. ImageDst(tokens) + ImageTokens - 1
             THEN BridgedRow(t) ELSE Staged(tokens, emb, t)
    BY <2>2, BridgeCompletes
  <2> HIDE DEF tokens, emb, image, T
  <2>7. /\ Len(Denoted(tokens, emb, image)) = PromptLen(tokens)
        /\ InFront(Denoted(tokens, emb, image), tokens, image)
        /\ \A i \in 1 .. Len(tokens) : Placed(Denoted(tokens, emb, image), tokens, emb, image, i)
    BY <2>3, <2>4, DenotedPlaces
  <2>8. PromptLen(tokens) \in Nat /\ ImageDst(tokens) \in Nat /\ ImageTokens \in Nat
        /\ PromptLen(tokens) <= MaxSeq /\ MaxSeq \in Nat
    BY <2>1, <2>3, PromptLenType, ImageDstType, RunnerAssumption DEF tokens
  <2>9. ASSUME NEW t \in 0 .. PromptLen(tokens) - 1
        PROVE  act'["ping"][t] = Denoted(tokens, emb, image)[t + 1]
    <3>1. Before(tokens, Len(tokens) + 1, "img") <= 1
      BY DEF tokens
    <3>2. Denoted(tokens, emb, image)[t + 1] =
            IF t \in ImageDst(tokens) .. ImageDst(tokens) + ImageTokens - 1
            THEN image[t + 1 - ImageDst(tokens)] ELSE Staged(tokens, emb, t)
      <4> DEFINE w == Denoted(tokens, emb, image)
      <4>1. InFront(w, tokens, image) /\ \A i \in 1 .. Len(tokens) : Placed(w, tokens, emb, image, i)
        BY <2>7
      <4> HIDE DEF w
      <4>2. w[t + 1] = IF t \in ImageDst(tokens) .. ImageDst(tokens) + ImageTokens - 1
                       THEN image[t + 1 - ImageDst(tokens)] ELSE Staged(tokens, emb, t)
        BY ONLY <2>3, <3>1, <4>1, t \in 0 .. PromptLen(tokens) - 1, RowsAgree
      <4>3. QED
        BY <4>2 DEF w
    <3>3. t \in Rows
      BY <2>8 DEF Rows
    <3>4. t \in ImageDst(tokens) .. ImageDst(tokens) + ImageTokens - 1
            => t + 1 - ImageDst(tokens) \in 1 .. ImageTokens
      BY <2>8
    <3>5. QED
      BY <2>5, <2>6, <3>2, <3>3, <3>4
  <2>10. want = Denoted(tokens, emb, image)
    BY DEF tokens, emb, image
  <2> HIDE DEF want
  <2>11. ASSUME NEW t \in 1 .. Len(want) PROVE act'["ping"][t - 1] = want[t]
    <3>1. t - 1 \in 0 .. PromptLen(tokens) - 1 /\ (t - 1) + 1 = t
      BY <2>7, <2>8, <2>10
    <3>2. QED
      BY <2>9, <2>10, <3>1
  <2>12. QED
    BY <2>6, <2>7, <2>10, <2>11
<1>2. Init => BridgeOK
  BY DEF Init, IdleOp, BridgeOK
<1>3. Spec => []BridgeOK
  BY <1>2, NextKeepsBridge, RunnerTypes, PTL DEF Spec
<1>4. QED
  BY <1>1, <1>3, RunnerTypes, PTL DEF Spec, PrefillLayout

=============================================================================
