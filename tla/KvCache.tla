-------------------------------- MODULE KvCache --------------------------------
(***************************************************************************)
(* The K/V cache of the decoder kernel: multi_head_attention, one KV head  *)
(* after the other, loads a head's history from DDR into a bank of kv_buf, *)
(* writes the launch's own tokens to the bank and to DDR, and attends over *)
(* the bank.  The client is the runner's launch sequence: a prefill in     *)
(* token tiles, layer by layer, then one decode after the other, request   *)
(* after request, over a cache and banks nobody clears.  A session has as  *)
(* many rows as the layout has positions (the server opens it with 2048):  *)
(* a sequence may fill the layout, and is then decoded once at the         *)
(* position behind it.  K and V are read and written side by side at the   *)
(* same indices: one of them is modelled.                                  *)
(***************************************************************************)
EXTENDS Integers

CONSTANTS
  Requests,     \* identities of the sequences decoded
  NumLayers,    \* NUM_LAYERS
  HKv,          \* H_KV
  MaxSeq,       \* MAX_SEQ, and max_seq_ of the session
  Groups,       \* D_HEAD / GRP: packed 128-bit halves per head and position
  PrefillTile   \* kPrefillTokenTile

NoOne == "nobody"

ASSUME KvAssumption ==
  /\ NoOne \notin Requests
  /\ NumLayers \in Nat \ {0}
  /\ HKv \in Nat \ {0}
  /\ MaxSeq \in Nat \ {0}
  /\ Groups \in Nat \ {0}
  /\ PrefillTile \in Nat \ {0}

VARIABLES
  ddr,     \* the cache, by half index
  buf,     \* kv_buf, by bank and buf_idx
  bank,    \* the bank in use
  head,    \* the KV head being processed
  phase,   \* what multi_head_attention does next for it
  req,     \* the sequence the host is decoding
  len,     \* its positions: seq_len in prefill, pos in decode
  job,     \* the run_* call the launch belongs to
  layer,   \* layer_id of the launch
  tile     \* token_tile_offset of a prefill launch

kernel == <<ddr, buf, bank, head, phase>>
host   == <<req, len, job, layer, tile>>
vars   == <<kernel, host>>

-----------------------------------------------------------------------------
(* Addresses.                                                                 *)

Layers == 0 .. NumLayers - 1
Heads  == 0 .. HKv - 1
Pos    == 0 .. MaxSeq - 1
Group  == 0 .. Groups - 1

HalfIndexes == 0 .. NumLayers * HKv * MaxSeq * Groups - 1
BufIndexes  == 0 .. MaxSeq * Groups - 1

BufIndex(p, g) == p * Groups + g

(* Mutant: heads are laid out one position too close.                         *)
HalfIndex_ShortHead(l, h, p, g) ==
  l * HKv * MaxSeq * Groups + h * (MaxSeq - 1) * Groups + p * Groups + g

HalfIndex(l, h, p, g) ==
  l * HKv * MaxSeq * Groups + h * MaxSeq * Groups + p * Groups + g

(* A packed half, by where it comes from.                                     *)
Half(r, l, h, p, g) == [who |-> r, layer |-> l, head |-> h, pos |-> p, group |-> g]
Junk == Half(NoOne, 0, 0, 0, 0)

-----------------------------------------------------------------------------
(* Arguments of the launch.                                                   *)

TileSize == IF len - tile < PrefillTile THEN len - tile ELSE PrefillTile

CurPos == IF job = "prefill" THEN tile ELSE len
QLen   == IF job = "prefill" THEN TileSize ELSE 1
KvLen  == IF job = "prefill" THEN len ELSE len + 1

(* The launch's own positions; a decode of a full layout has one behind it.   *)
OwnPos   == CurPos .. CurPos + QLen - 1
Overruns == job = "decode" /\ len = MaxSeq

Init ==
  /\ ddr = [i \in HalfIndexes |-> Junk]
  /\ buf = [b \in 0 .. 1 |-> [i \in BufIndexes |-> Junk]]
  /\ bank = 0 /\ head = 0 /\ phase = "idle"
  /\ req = NoOne /\ len = 0 /\ job = "idle" /\ layer = 0 /\ tile = 0

-----------------------------------------------------------------------------
(* The kernel.                                                                *)

(* What a store loop over positions and groups leaves at index i: the new     *)
(* value where the loop stores one, otherwise the old.                        *)
Stored(i, index(_, _), positions, new(_, _), old) ==
  LET here == {pg \in positions \X Group : index(pg[1], pg[2]) = i}
  IN  IF here = {} THEN old
      ELSE LET pg == CHOOSE pg \in here : TRUE IN new(pg[1], pg[2])

(* Mutant: the load leaves out the position just before the new tokens.       *)
LoadHead_ShortByOne ==
  /\ phase = "load"
  /\ buf' = [buf EXCEPT ![bank] = [i \in BufIndexes |->
       Stored(i, BufIndex, 0 .. CurPos - 2,
              LAMBDA p, g : ddr[HalfIndex(layer, head, p, g)], buf[bank][i])]]
  /\ phase' = "write"
  /\ UNCHANGED <<ddr, bank, head, host>>

(* kv_cache_load_head, for the positions before the launch's own.             *)
LoadHead ==
  /\ phase = "load"
  /\ buf' = [buf EXCEPT ![bank] = [i \in BufIndexes |->
       Stored(i, BufIndex, 0 .. CurPos - 1,
              LAMBDA p, g : ddr[HalfIndex(layer, head, p, g)], buf[bank][i])]]
  /\ phase' = "write"
  /\ UNCHANGED <<ddr, bank, head, host>>

(* kv_cache_write: token t of the launch goes to position CurPos + t.  The    *)
(* position behind the layout is position 0 of the next head in the cache, or *)
(* behind the last head of whatever buffer follows (next_is_v: K's is          *)
(* followed by V's).  A bank has no place for it: the store is out of bounds, *)
(* and the build decides which banks it hits at position 0, if any.           *)
WriteHead ==
  /\ phase = "write"
  /\ LET new(p, g) == Half(req, layer, head, p, g)
         behind_last == Overruns /\ layer + 1 = NumLayers /\ head + 1 = HKv
     IN  \E hit \in SUBSET (0 .. 1), next_is_v \in BOOLEAN :
           /\ hit # {} => Overruns
           /\ next_is_v => behind_last
           /\ buf' = [b \in 0 .. 1 |-> [i \in BufIndexes |->
                IF b \in hit /\ i \in Group THEN new(MaxSeq, i)
                ELSE IF b = bank THEN Stored(i, BufIndex, OwnPos, new, buf[b][i])
                ELSE buf[b][i]]]
           /\ ddr' = [i \in HalfIndexes |->
                IF next_is_v /\ i \in Group THEN new(MaxSeq, i)
                ELSE Stored(i, LAMBDA p, g : HalfIndex(layer, head, p, g), OwnPos, new, ddr[i])]
  /\ phase' = "attend"
  /\ UNCHANGED <<bank, head, host>>

Launch(l, t) ==
  /\ layer' = l /\ tile' = t
  /\ bank' = 0 /\ head' = 0 /\ phase' = "load"

(* Mutant: the row of the next token is written without looking at its place. *)
Done_Unchecked ==
  /\ phase' = "idle" /\ job' = "idle"
  /\ len' = IF job = "decode" THEN len + 1 ELSE len
  /\ UNCHANGED <<bank, head, req, layer, tile>>

(* The call returns.  After a decode the host writes the row of the next      *)
(* token and knows one more position; behind the last row that fails and      *)
(* ends the request, if the end of the sequence has not ended it before.      *)
Done ==
  /\ phase' = "idle" /\ job' = "idle"
  /\ \/ job = "prefill" /\ UNCHANGED <<req, len>>
     \/ job = "decode" /\ len < MaxSeq /\ len' = len + 1 /\ UNCHANGED req
     \/ job = "decode" /\ len >= MaxSeq /\ req' = NoOne /\ len' = 0
  /\ UNCHANGED <<bank, head, layer, tile>>

(* flash_attention_head reads the bank; then the next head in the other bank, *)
(* or the end of the launch and the next one.                                 *)
AttendNextHead ==
  /\ phase = "attend" /\ head + 1 < HKv
  /\ head' = head + 1 /\ bank' = 1 - bank /\ phase' = "load"
  /\ UNCHANGED <<ddr, buf, host>>

AttendLastHead ==
  /\ phase = "attend" /\ head + 1 = HKv
  /\ IF job = "prefill" /\ tile + PrefillTile < len
     THEN Launch(layer, tile + PrefillTile) /\ UNCHANGED <<req, len, job>>
     ELSE IF layer + 1 < NumLayers
          THEN Launch(layer + 1, 0) /\ UNCHANGED <<req, len, job>>
          ELSE Done
  /\ UNCHANGED <<ddr, buf>>

-----------------------------------------------------------------------------
(* The host.                                                                  *)

Prefill(r, n) ==
  /\ job = "idle"
  /\ req' = r /\ len' = n /\ job' = "prefill"
  /\ Launch(0, 0)
  /\ UNCHANGED <<ddr, buf>>

(* Nothing bounds the position: a full layout is decoded like any other.      *)
Decode ==
  /\ job = "idle" /\ req # NoOne
  /\ job' = "decode"
  /\ Launch(0, 0)
  /\ UNCHANGED <<ddr, buf, req, len>>

(* A launch throws: the request is given up, and what it wrote stays.         *)
GiveUp ==
  /\ phase = "load" /\ head = 0
  /\ req' = NoOne /\ len' = 0 /\ job' = "idle" /\ phase' = "idle"
  /\ UNCHANGED <<ddr, buf, bank, head, layer, tile>>

Next ==
  \/ LoadHead \/ WriteHead \/ AttendNextHead \/ AttendLastHead
  \/ \E r \in Requests, n \in 1 .. MaxSeq : Prefill(r, n)
  \/ Decode
  \/ GiveUp

Spec == Init /\ [][Next]_vars

-----------------------------------------------------------------------------
(* Properties.                                                                *)

Halves == [who : Requests \cup {NoOne}, layer : Layers, head : Heads, pos : 0 .. MaxSeq,
           group : Group]

(* Types of the cache, the banks and the launch; a launch under way has at    *)
(* least one token, and a decode works at most one position behind the        *)
(* layout, because a token without a row is never decoded (prefill's check of *)
(* seq_len, write_decode_token_activation's of pos).                          *)
KvTypeOK ==
  /\ ddr \in [HalfIndexes -> Halves]
  /\ buf \in [0 .. 1 -> [BufIndexes -> Halves]]
  /\ bank \in 0 .. 1 /\ head \in Heads
  /\ phase \in {"idle", "load", "write", "attend"}
  /\ req \in Requests \cup {NoOne}
  /\ len \in 0 .. MaxSeq
  /\ job \in {"idle", "prefill", "decode"}
  /\ layer \in Layers /\ tile \in Nat
  /\ phase # "idle" => /\ job # "idle" /\ req \in Requests
                       /\ QLen > 0
                       /\ CurPos + QLen <= IF job = "prefill" THEN MaxSeq ELSE MaxSeq + 1

(* K/V of the position behind the layout, of the head in front of head h of   *)
(* layer l; in front of the first head of all is, of the V cache, the last    *)
(* one of the K cache.                                                        *)
FromHeadInFront(half, l, h, g) ==
  LET it == half.layer * HKv + half.head
  IN  /\ half.pos = MaxSeq /\ half.group = g
      /\ l * HKv + h = IF it + 1 = NumLayers * HKv THEN 0 ELSE it + 1

(* What the flat layout keeps apart, and what it does not: whatever has been  *)
(* written, and for whichever request, a half of the cache holds nothing but  *)
(* K/V of the layer, head, position and group it is the half of; only a       *)
(* decode at position MAX_SEQ gets into position 0 of the next head.          *)
CacheIsOwn ==
  \A l \in Layers, h \in Heads, p \in Pos, g \in Group :
    LET half == ddr[HalfIndex(l, h, p, g)]
    IN  half.who # NoOne => \/ half = Half(half.who, l, h, p, g)
                            \/ p = 0 /\ FromHeadInFront(half, l, h, g)

(* Position p has a place in the bank and holds there this request's K/V, of  *)
(* this layer and head.                                                       *)
OwnInBank(p) ==
  p \in Pos /\ \A g \in Group : buf[bank][BufIndex(p, g)] = Half(req, layer, head, p, g)

(* When a head is attended, the bank holds this request's K/V at every        *)
(* position up to the launch's last token: nothing another request, another   *)
(* head or an earlier launch left in the cache or in the bank.  The one       *)
(* exception is the decode behind a full layout: there position 0 may be      *)
(* another head's, and the token's own position has no place in the bank.     *)
(* No later request is touched by what such a decode has overwritten.         *)
AttendsOwn ==
  phase = "attend" =>
    \A p \in 0 .. CurPos + QLen - 1 : OwnInBank(p) \/ (CurPos = MaxSeq /\ p \in {0, MaxSeq})

(* DecoderConfig: kv_len is the "valid length of the KV cache, this output    *)
(* included": every position attended over holds this request's K/V.  Prefill *)
(* passes the whole prompt's length with every tile.                          *)
KvLenIsValid == phase = "attend" => \A p \in 0 .. KvLen - 1 : OwnInBank(p)

=============================================================================
