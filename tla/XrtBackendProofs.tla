--------------------------- MODULE XrtBackendProofs ---------------------------
(***************************************************************************)
(* The ggml-xrt backend, for every number of threads, weights and graphs:   *)
(* types; a launched weight was unpacked from Q8_0 blocks; a product whose   *)
(* thread was alone is launched in buffers that fit it and reads back its   *)
(* own result, whatever has failed and whatever was left in the scratch.    *)
(***************************************************************************)
EXTENDS XrtBackend, WellFoundedInduction, TLAPS

Product == [w : Tensors, m : Nat]
ContentSet == [by : Threads \cup {"nobody"}, op : Product \cup {"none"}]
ScratchSet ==
  [key : Nat \X Nat \X Nat, act : Nat, out : Nat, q8 : Nat, out_host : Nat,
   packed : ContentSet, device : ContentSet, product : ContentSet]

Busy(t) == InMulMat(t) \/ At(t, "enter")

-----------------------------------------------------------------------------
(* The inductive invariant, in parts.                                         *)

Types ==
  /\ once \in Threads \cup {"new", "done"}
  /\ rt \in [ready : BOOLEAN, sidecar : SUBSET Sidecar, dispatch : BOOLEAN]
  /\ pc \in [Threads -> {"idle", "ask", "init", "enter"} \cup MulMat]
  /\ DOMAIN nodes = Threads
  /\ scratch \in ScratchSet
  /\ extra \in [Tensors -> {"none", "gguf", "sidecar", "foreign"}]
  /\ solo \in [Threads -> BOOLEAN] /\ whole \in BOOLEAN

(* A graph's products keep their type, and those that have come here are      *)
(* supported by a runtime that does not change any more.                      *)
NodesOK(t) ==
  /\ DOMAIN nodes[t] \subseteq Nat
  /\ \A i \in DOMAIN nodes[t] : nodes[t][i] \in Product
  /\ At(t, "init") => once = t
  /\ Busy(t) => /\ once = "done" /\ ~NothingLeft(t)
                /\ \A i \in DOMAIN nodes[t] : SupportsOp(nodes[t][i])

(* From its unpacking on the weight is there.                                 *)
WeightOK(t) == pc[t] \in {"quantise", "sync", "launch"} => extra[Op(t).w] # "none"

(* How far a thread that was alone has brought the scratch to its product.    *)
Mine(t) == [by |-> t, op |-> Op(t)]
ScratchIs(t) ==
  /\ pc[t] \in {"out_bo", "host"} => scratch.act = ActSize(Key(Op(t)))
  /\ At(t, "host") => scratch.out = OutSize(Key(Op(t)))
  /\ pc[t] \in {"weight", "unpack", "quantise", "sync", "launch"} => scratch.key = Key(Op(t))
  /\ At(t, "sync") => scratch.packed = Mine(t)
  /\ At(t, "launch") => scratch.device = Mine(t)
  /\ At(t, "read") => scratch.product = Mine(t)

ThreadOK(t) == NodesOK(t) /\ WeightOK(t) /\ (solo[t] => ScratchIs(t))

(* Of two threads in mul_mat neither was alone.                               *)
AloneOK == \A t, u \in Threads : t # u /\ InMulMat(t) /\ InMulMat(u) => ~solo[t]

NothingForeign == \A w \in Tensors : extra[w] # "foreign"

(* The buffers fit the key they are kept under, unless a rekey is under way   *)
(* or the last one did not go through alone.                                  *)
FitsKey ==
  /\ scratch.act >= ActSize(scratch.key) /\ scratch.out >= OutSize(scratch.key)
  /\ scratch.q8 >= ActSize(scratch.key) /\ scratch.out_host >= OutSize(scratch.key)
RekeyOK ==
  /\ \A t \in Threads : pc[t] \in {"out_bo", "host"} => ~whole
  /\ whole => FitsKey

XInv == Types /\ (\A t \in Threads : ThreadOK(t)) /\ AloneOK /\ NothingForeign /\ RekeyOK

-----------------------------------------------------------------------------
(* Arithmetic of shapes and sizes, and the current product.                   *)

LEMMA LeastIndex ==
  ASSUME NEW D \in SUBSET Nat, D # {}
  PROVE  \E d \in D : \A e \in D : d <= e
<1>1. PICK d \in D : \A e \in D : ~(<<e, d>> \in OpToRel(<, Nat))
  BY NatLessThanWellFounded, WFMin, Zenon
<1>2. \A e \in D : ~(e < d)
  BY <1>1 DEF OpToRel
<1>3. QED
  BY <1>2

LEMMA CurrentProduct ==
  ASSUME NEW t \in Threads, NodesOK(t), ~NothingLeft(t)
  PROVE  First(t) \in DOMAIN nodes[t] /\ Op(t) \in Product /\ Op(t) = nodes[t][First(t)]
<1>1. DOMAIN nodes[t] \in SUBSET Nat /\ DOMAIN nodes[t] # {}
  BY DEF NodesOK, NothingLeft
<1>2. \E d \in DOMAIN nodes[t] : \A e \in DOMAIN nodes[t] : d <= e
  BY <1>1, LeastIndex
<1>3. First(t) \in DOMAIN nodes[t]
  BY <1>2 DEF First
<1>4. QED
  BY <1>3 DEF NodesOK, Op

LEMMA NatProduct ==
  ASSUME NEW a \in Nat, NEW b \in Nat
  PROVE  a * b \in Nat
OBVIOUS

LEMMA PadMType ==
  ASSUME NEW m \in Nat
  PROVE  PadM(m) \in Nat
<1>1. TileM \in Nat \ {0}
  BY XrtAssumption
<1>2. m + TileM - 1 \in Nat
  BY <1>1
<1>3. \A a \in Nat, b \in Nat \ {0} : a \div b \in Nat
  OBVIOUS
<1>4. (m + TileM - 1) \div TileM \in Nat
  BY <1>1, <1>2, <1>3
<1>5. QED
  BY <1>1, <1>4, NatProduct DEF PadM

LEMMA SizeTypes ==
  ASSUME NEW op \in Product
  PROVE  /\ Key(op) \in Nat \X Nat \X Nat
         /\ ActSize(Key(op)) \in Nat /\ OutSize(Key(op)) \in Nat
<1>1. PadM(op.m) \in Nat
  BY PadMType DEF Product
<1>2. K[op.w] \in Nat /\ N[op.w] \in Nat
  BY XrtAssumption DEF Product
<1>3. Key(op) \in Nat \X Nat \X Nat
  BY <1>1, <1>2 DEF Key
<1>4. Key(op)[1] = PadM(op.m) /\ Key(op)[2] = K[op.w] /\ Key(op)[3] = N[op.w]
  BY DEF Key
<1>5. QED
  BY <1>1, <1>2, <1>3, <1>4, NatProduct DEF ActSize, OutSize

LEMMA LargerType ==
  ASSUME NEW a \in Nat, NEW b \in Nat
  PROVE  Larger(a, b) \in Nat /\ Larger(a, b) >= b /\ Smaller(a, b) \in Nat
BY DEF Larger, Smaller


-----------------------------------------------------------------------------
(* Frames.                                                                    *)

LEMMA Move ==
  ASSUME Types, NEW t \in Threads, NEW b, b \in {"idle", "ask", "init", "enter"} \cup MulMat, Goto(t, b)
  PROVE  /\ pc' \in [Threads -> {"idle", "ask", "init", "enter"} \cup MulMat]
         /\ pc'[t] = b
         /\ \A u \in Threads : u # t => pc'[u] = pc[u]
BY DEF Types, Goto

(* What a thread knows does not change by the step of another one that does   *)
(* not touch the scratch while this thread has it to itself.                  *)
LEMMA OtherThread ==
  ASSUME NEW u \in Threads, ThreadOK(u),
         pc'[u] = pc[u], nodes'[u] = nodes[u], solo'[u] => solo[u],
         At(u, "init") => once' = once,
         Busy(u) => UNCHANGED <<once, rt>>,
         \A w : extra[w] # "none" => extra'[w] # "none",
         (InMulMat(u) /\ solo'[u]) => UNCHANGED scratch
  PROVE  ThreadOK(u)'
<1>1. /\ Op(u)' = Op(u) /\ (Busy(u)' <=> Busy(u)) /\ (InMulMat(u)' <=> InMulMat(u))
      /\ (NothingLeft(u)' <=> NothingLeft(u))
  BY DEF Op, First, Busy, InMulMat, At, NothingLeft
<1>2. NodesOK(u)'
  <2>1. Busy(u) => \A i \in DOMAIN nodes[u] : SupportsOp(nodes[u][i])' 
    BY DEF SupportsOp, ThreadOK, NodesOK
  <2>2. At(u, "init")' => once' = u
    BY DEF ThreadOK, NodesOK, At
  <2>3. QED
    BY <1>1, <2>1, <2>2 DEF ThreadOK, NodesOK
<1>3. WeightOK(u)'
  BY <1>1 DEF ThreadOK, WeightOK
<1>4. ASSUME solo'[u]
      PROVE  ScratchIs(u)'
  <2>1. CASE InMulMat(u)
    <3>1. UNCHANGED scratch /\ ScratchIs(u)
      BY <1>4, <2>1 DEF ThreadOK
    <3>2. Mine(u)' = Mine(u)
      BY <1>1 DEF Mine
    <3>3. QED
      BY <1>1, <3>1, <3>2 DEF ScratchIs, At
  <2>2. CASE ~InMulMat(u)
    BY <2>2 DEF ScratchIs, InMulMat, MulMat, At
  <2>3. QED
    BY <2>1, <2>2
<1>5. QED
  BY <1>2, <1>3, <1>4 DEF ThreadOK

(* Inside mul_mat a thread that has company is not alone, so what it does to   *)
(* the scratch is nothing to a thread that is.                                *)
LEMMA OthersInMulMat ==
  ASSUME XInv, NEW t \in Threads, InMulMat(t),
         \A u \in Threads : u # t => pc'[u] = pc[u] /\ nodes'[u] = nodes[u] /\ solo'[u] = solo[u],
         UNCHANGED <<once, rt>>, \A w : extra[w] # "none" => extra'[w] # "none"
  PROVE  \A u \in Threads : u # t => ThreadOK(u)'
<1> SUFFICES ASSUME NEW u \in Threads, u # t
             PROVE  ThreadOK(u)'
  OBVIOUS
<1>1. InMulMat(u) => ~solo[u]
  BY DEF XInv, AloneOK
<1>2. ThreadOK(u)
  BY DEF XInv
<1>3. QED
  BY <1>1, <1>2, OtherThread

(* A step within mul_mat, to the next place or out by an exception.           *)
LEMMA HereStep ==
  ASSUME XInv, NEW t \in Threads, NEW a \in MulMat, NEW b \in MulMat, Here(t, a, b),
         UNCHANGED <<once, rt>>, \A w : extra[w] # "none" => extra'[w] # "none"
  PROVE  /\ pc[t] = a /\ pc'[t] = b /\ Op(t)' = Op(t) /\ Mine(t)' = Mine(t)
         /\ solo' = solo /\ NodesOK(t)' /\ AloneOK'
         /\ pc' \in [Threads -> {"idle", "ask", "init", "enter"} \cup MulMat] /\ DOMAIN nodes' = Threads
         /\ \A u \in Threads : u # t => pc'[u] = pc[u] /\ ThreadOK(u)'
<1>1. /\ pc[t] = a /\ UNCHANGED <<nodes, solo>> /\ Goto(t, b)
  BY DEF Here, At
<1>2. /\ pc' \in [Threads -> {"idle", "ask", "init", "enter"} \cup MulMat] /\ pc'[t] = b
      /\ \A u \in Threads : u # t => pc'[u] = pc[u]
  BY <1>1, Move DEF XInv
<1>3. InMulMat(t) /\ InMulMat(t)'
  BY <1>1, <1>2 DEF InMulMat
<1>4. Op(t)' = Op(t) /\ Mine(t)' = Mine(t)
  BY <1>1 DEF Op, First, Mine
<1>5. AloneOK'
  <2>1. \A u \in Threads : InMulMat(u)' <=> InMulMat(u)
    BY <1>2, <1>3 DEF InMulMat
  <2>2. QED
    BY <1>1, <2>1 DEF XInv, AloneOK
<1>6. NodesOK(t)'
  <2>1. NodesOK(t) /\ Busy(t)
    BY <1>3 DEF XInv, ThreadOK, Busy
  <2>2. \A i \in DOMAIN nodes[t] : SupportsOp(nodes[t][i])'
    BY <1>1, <2>1 DEF NodesOK, SupportsOp
  <2>3. ~At(t, "init")'
    BY <1>2 DEF At, MulMat
  <2>4. QED
    BY <1>1, <2>1, <2>2, <2>3 DEF NodesOK, NothingLeft
<1>7. \A u \in Threads : u # t => ThreadOK(u)'
  BY <1>1, <1>2, <1>3, OthersInMulMat
<1>8. DOMAIN nodes' = Threads
  BY <1>1 DEF XInv, Types
<1>9. QED
  BY <1>1, <1>2, <1>4, <1>5, <1>6, <1>7, <1>8

LEMMA ThrowStep ==
  ASSUME XInv, NEW t \in Threads, InMulMat(t), Throw(t),
         UNCHANGED <<once, rt>>, UNCHANGED extra
  PROVE  /\ AloneOK' /\ (\A u \in Threads : ThreadOK(u)')
         /\ pc' \in [Threads -> {"idle", "ask", "init", "enter"} \cup MulMat] /\ DOMAIN nodes' = Threads
         /\ solo' \in [Threads -> BOOLEAN]
         /\ \A u \in Threads : pc'[u] = "idle" \/ pc'[u] = pc[u]
<1>1. /\ pc' \in [Threads -> {"idle", "ask", "init", "enter"} \cup MulMat] /\ pc'[t] = "idle"
      /\ \A u \in Threads : u # t => pc'[u] = pc[u]
  BY Move DEF XInv, Throw
<1>2. /\ DOMAIN nodes' = Threads /\ nodes'[t] = <<>>
      /\ \A u \in Threads : u # t => nodes'[u] = nodes[u]
  BY DEF XInv, Types, Throw
<1>3. /\ solo' \in [Threads -> BOOLEAN]
      /\ \A u \in Threads : u # t => solo'[u] = solo[u]
  BY DEF XInv, Types, Throw
<1>4. AloneOK'
  <2>1. \A u \in Threads : InMulMat(u)' => u # t /\ InMulMat(u)
    BY <1>1 DEF InMulMat, MulMat
  <2>2. QED
    BY <1>3, <2>1 DEF XInv, AloneOK
<1>5. ThreadOK(t)'
  <2>1. DOMAIN <<>> = {}
    OBVIOUS
  <2>2. QED
    BY <1>1, <1>2, <2>1 DEF ThreadOK, NodesOK, WeightOK, ScratchIs, Busy, InMulMat, MulMat, At
<1>6. \A u \in Threads : u # t => ThreadOK(u)'
  BY <1>1, <1>2, <1>3, OthersInMulMat
<1>7. QED
  BY <1>1, <1>2, <1>3, <1>4, <1>5, <1>6


-----------------------------------------------------------------------------
(* Every step keeps the invariant.                                            *)

(* What is left to show of a step of mul_mat that goes on.                    *)
LEMMA HereKeeps ==
  ASSUME XInv, NEW t \in Threads, NEW a \in MulMat, NEW b \in MulMat, Here(t, a, b),
         UNCHANGED <<once, rt>>, \A w : extra[w] # "none" => extra'[w] # "none",
         scratch' \in ScratchSet, extra' \in [Tensors -> {"none", "gguf", "sidecar", "foreign"}],
         whole' \in BOOLEAN, NothingForeign', RekeyOK', WeightOK(t)', solo[t] => ScratchIs(t)'
  PROVE  XInv'
<1>1. Types'
  BY HereStep DEF XInv, Types
<1>2. ThreadOK(t)'
  BY HereStep DEF ThreadOK
<1>3. \A u \in Threads : ThreadOK(u)'
  BY <1>2, HereStep
<1>4. AloneOK'
  BY HereStep
<1>5. QED
  BY <1>1, <1>3, <1>4 DEF XInv

LEMMA ThrowKeeps ==
  ASSUME XInv, NEW t \in Threads, InMulMat(t), Throw(t), UNCHANGED <<once, rt, extra>>,
         scratch' \in ScratchSet, whole' \in BOOLEAN, whole' => whole /\ UNCHANGED scratch
  PROVE  XInv'
<1>1. /\ AloneOK' /\ (\A u \in Threads : ThreadOK(u)')
      /\ pc' \in [Threads -> {"idle", "ask", "init", "enter"} \cup MulMat] /\ DOMAIN nodes' = Threads
      /\ solo' \in [Threads -> BOOLEAN]
      /\ \A u \in Threads : pc'[u] = "idle" \/ pc'[u] = pc[u]
  BY ThrowStep
<1>2. Types'
  BY <1>1 DEF XInv, Types
<1>3. NothingForeign'
  BY DEF XInv, NothingForeign
<1>4. RekeyOK'
  BY <1>1 DEF XInv, RekeyOK, FitsKey
<1>5. QED
  BY <1>1, <1>2, <1>3, <1>4 DEF XInv

(* What is known of a thread in mul_mat.                                      *)
LEMMA InsideFacts ==
  ASSUME XInv, NEW t \in Threads, InMulMat(t)
  PROVE  /\ Op(t) \in Product /\ Mine(t) \in ContentSet /\ SupportsOp(Op(t))
         /\ ActSize(Key(Op(t))) \in Nat /\ OutSize(Key(Op(t))) \in Nat
         /\ Key(Op(t)) \in Nat \X Nat \X Nat
         /\ scratch \in ScratchSet /\ whole \in BOOLEAN
         /\ extra \in [Tensors -> {"none", "gguf", "sidecar", "foreign"}]
<1>1. NodesOK(t) /\ ~NothingLeft(t)
  BY DEF XInv, ThreadOK, NodesOK, Busy
<1>2. Op(t) \in Product /\ SupportsOp(Op(t))
  BY <1>1, CurrentProduct DEF XInv, ThreadOK, NodesOK, Busy
<1>3. Mine(t) \in ContentSet
  BY <1>2 DEF Mine, ContentSet
<1>4. QED
  BY <1>2, <1>3, SizeTypes DEF XInv, Types

LEMMA Places ==
  /\ \A p \in {"act_bo", "out_bo", "host", "weight", "unpack", "quantise", "sync", "launch", "read"} :
       p \in MulMat
  /\ \A t, p : At(t, p) /\ p \in MulMat => InMulMat(t)
BY DEF MulMat, InMulMat, At

LEMMA AllocActKeeps ==
  ASSUME XInv, NEW t \in Threads, AllocAct(t)
  PROVE  XInv'
<1> DEFINE size == ActSize(Key(Op(t)))
<1>1. At(t, "act_bo") /\ InMulMat(t) /\ UNCHANGED <<once, rt, extra>>
  BY Places DEF AllocAct, Here
<1>2. size \in Nat /\ scratch \in ScratchSet /\ whole \in BOOLEAN
      /\ extra \in [Tensors -> {"none", "gguf", "sidecar", "foreign"}]
  BY <1>1, InsideFacts
<1>3. CASE Here(t, "act_bo", "out_bo") /\ scratch' = [scratch EXCEPT !.act = size] /\ whole' = FALSE
  <2>1. scratch' \in ScratchSet /\ scratch'.act = size
    BY <1>2, <1>3 DEF ScratchSet
  <2>2. pc'[t] = "out_bo" /\ Op(t)' = Op(t)
    BY <1>1, <1>3, HereStep, Places
  <2>3. WeightOK(t)' /\ ScratchIs(t)'
    BY <2>1, <2>2 DEF WeightOK, ScratchIs, At, Key, ActSize, PadM
  <2>4. RekeyOK' /\ NothingForeign'
    BY <1>1, <1>3 DEF RekeyOK, XInv, NothingForeign
  <2>5. QED
    BY <1>1, <1>2, <1>3, <2>1, <2>3, <2>4, HereKeeps, Places
<1>4. CASE Throw(t) /\ UNCHANGED <<scratch, whole>>
  BY <1>1, <1>2, <1>4, ThrowKeeps
<1>5. CASE Throw(t) /\ scratch' = [scratch EXCEPT !.act = Smaller(@, size)] /\ whole' = FALSE
  <2>1. Smaller(scratch.act, size) \in Nat
    BY <1>2, LargerType DEF ScratchSet
  <2>2. scratch' \in ScratchSet
    BY <1>2, <1>5, <2>1 DEF ScratchSet
  <2>3. QED
    BY <1>1, <1>5, <2>2, ThrowKeeps
<1>6. QED
  BY <1>3, <1>4, <1>5 DEF AllocAct

LEMMA AllocOutKeeps ==
  ASSUME XInv, NEW t \in Threads, AllocOut(t)
  PROVE  XInv'
<1> DEFINE size == OutSize(Key(Op(t)))
<1>1. At(t, "out_bo") /\ InMulMat(t) /\ UNCHANGED <<once, rt, extra, whole>>
  BY Places DEF AllocOut, Here
<1>2. size \in Nat /\ scratch \in ScratchSet /\ whole = FALSE
      /\ extra \in [Tensors -> {"none", "gguf", "sidecar", "foreign"}]
  BY <1>1, InsideFacts DEF XInv, RekeyOK, At
<1>3. CASE Here(t, "out_bo", "host") /\ scratch' = [scratch EXCEPT !.out = size]
  <2>1. scratch' \in ScratchSet /\ scratch'.out = size /\ scratch'.act = scratch.act
    BY <1>2, <1>3 DEF ScratchSet
  <2>2. pc'[t] = "host" /\ Op(t)' = Op(t)
    BY <1>1, <1>3, HereStep, Places
  <2>3. solo[t] => scratch.act = ActSize(Key(Op(t)))
    BY <1>1 DEF XInv, ThreadOK, ScratchIs, At
  <2>4. WeightOK(t)' /\ (solo[t] => ScratchIs(t)')
    BY <2>1, <2>2, <2>3 DEF WeightOK, ScratchIs, At, Key, ActSize, OutSize, PadM
  <2>5. RekeyOK' /\ NothingForeign'
    BY <1>1, <1>2 DEF RekeyOK, XInv, NothingForeign
  <2>6. QED
    BY <1>1, <1>2, <1>3, <2>1, <2>4, <2>5, HereKeeps, Places
<1>4. CASE Throw(t) /\ UNCHANGED scratch
  BY <1>1, <1>2, <1>4, ThrowKeeps
<1>5. QED
  BY <1>3, <1>4 DEF AllocOut

(* The rekey goes through: with the new key come buffers that fit it, if the  *)
(* thread was alone.                                                          *)
LEMMA ResizeHostKeeps ==
  ASSUME XInv, NEW t \in Threads, ResizeHost(t)
  PROVE  XInv'
<1> DEFINE act == Larger(scratch.q8, ActSize(Key(Op(t))))
           out == Larger(scratch.out_host, OutSize(Key(Op(t))))
           key == Key(Op(t))
<1>1. At(t, "host") /\ InMulMat(t) /\ UNCHANGED <<once, rt, extra>>
  BY Places DEF ResizeHost, Here
<1>2. /\ ActSize(key) \in Nat /\ OutSize(key) \in Nat /\ key \in Nat \X Nat \X Nat
      /\ scratch \in ScratchSet /\ whole = FALSE
      /\ extra \in [Tensors -> {"none", "gguf", "sidecar", "foreign"}]
  BY <1>1, InsideFacts DEF XInv, RekeyOK, At
<1>3. act \in Nat /\ act >= ActSize(key) /\ out \in Nat /\ out >= OutSize(key)
  BY <1>2, LargerType DEF ScratchSet
<1> HIDE DEF act, out, key
<1>4. CASE /\ Here(t, "host", "weight") /\ whole' = solo[t]
           /\ scratch' = [scratch EXCEPT !.q8 = act, !.out_host = out, !.key = key]
  <2>1. /\ scratch' \in ScratchSet /\ scratch'.key = key /\ scratch'.q8 = act /\ scratch'.out_host = out
        /\ scratch'.act = scratch.act /\ scratch'.out = scratch.out
    BY <1>2, <1>3, <1>4 DEF ScratchSet
  <2>2. /\ pc'[t] = "weight" /\ Op(t)' = Op(t) /\ solo[t] \in BOOLEAN
        /\ \A u \in Threads : u # t => pc'[u] = pc[u]
    BY <1>1, <1>4, HereStep, Places DEF XInv, Types
  <2>3. Key(Op(t))' = key
    BY <2>2 DEF Key, PadM, key
  <2>4. WeightOK(t)' /\ ScratchIs(t)'
    BY <2>1, <2>2, <2>3 DEF WeightOK, ScratchIs, At
  <2>5. solo[t] => scratch.act = ActSize(key) /\ scratch.out = OutSize(key)
    BY <1>1 DEF XInv, ThreadOK, ScratchIs, At, key
  <2>6. whole' => FitsKey'
    BY <1>2, <1>3, <1>4, <2>1, <2>5 DEF FitsKey, ActSize, OutSize
  <2>7. \A u \in Threads : pc'[u] \in {"out_bo", "host"} => ~whole'
    <3>1. SUFFICES ASSUME NEW u \in Threads, pc'[u] \in {"out_bo", "host"}
                   PROVE  ~solo[t]
      BY <1>4
    <3>2. u # t /\ InMulMat(u)
      BY <2>2, <3>1 DEF InMulMat, MulMat
    <3>3. QED
      BY <1>1, <3>2 DEF XInv, AloneOK
  <2>8. RekeyOK' /\ NothingForeign'
    BY <1>1, <2>6, <2>7 DEF RekeyOK, XInv, NothingForeign
  <2>9. QED
    BY <1>1, <1>2, <1>4, <2>1, <2>2, <2>4, <2>8, HereKeeps, Places
<1>5. CASE Throw(t) /\ UNCHANGED <<scratch, whole>>
  BY <1>1, <1>2, <1>5, ThrowKeeps
<1>6. CASE Throw(t) /\ scratch' = [scratch EXCEPT !.q8 = act] /\ UNCHANGED whole
  <2>1. scratch' \in ScratchSet
    BY <1>2, <1>3, <1>6 DEF ScratchSet
  <2>2. QED
    BY <1>1, <1>2, <1>6, <2>1, ThrowKeeps
<1>7. QED
  BY <1>4, <1>5, <1>6 DEF ResizeHost, act, out, key


LEMMA FindWeightKeeps ==
  ASSUME XInv, NEW t \in Threads, FindWeight(t)
  PROVE  XInv'
<1> DEFINE next == IF extra[Op(t).w] = "none" THEN "unpack" ELSE "quantise"
<1>1. /\ At(t, "weight") /\ InMulMat(t) /\ Here(t, "weight", next) /\ next \in MulMat
      /\ UNCHANGED <<once, rt, extra, scratch, whole>>
  BY Places DEF FindWeight, Here, caches
<1>2. /\ scratch \in ScratchSet /\ whole \in BOOLEAN
      /\ extra \in [Tensors -> {"none", "gguf", "sidecar", "foreign"}]
  BY <1>1, InsideFacts
<1> HIDE DEF next
<1>3. /\ pc'[t] = next /\ Op(t)' = Op(t)
      /\ \A u \in Threads : u # t => pc'[u] = pc[u]
  BY <1>1, HereStep, Places
<1>4. WeightOK(t)'
  BY <1>1, <1>3 DEF WeightOK, next
<1>5. solo[t] => ScratchIs(t)'
  <2>1. next \in {"unpack", "quantise"}
    BY DEF next
  <2>2. solo[t] => scratch.key = Key(Op(t))
    BY <1>1 DEF XInv, ThreadOK, ScratchIs, At
  <2>3. QED
    BY <1>1, <1>3, <2>1, <2>2 DEF ScratchIs, At, Key, PadM
<1>6. RekeyOK' /\ NothingForeign'
  <2>1. \A u \in Threads : pc'[u] \in {"out_bo", "host"} => pc[u] \in {"out_bo", "host"}
    BY <1>3 DEF next
  <2>2. QED
    BY <1>1, <2>1 DEF XInv, RekeyOK, FitsKey, NothingForeign
<1>7. QED
  BY <1>1, <1>2, <1>4, <1>5, <1>6, HereKeeps, Places

(* A supported weight is unpacked from Q8_0 blocks.                           *)
LEMMA UnpackWeightKeeps ==
  ASSUME XInv, NEW t \in Threads, UnpackWeight(t)
  PROVE  XInv'
<1>1. At(t, "unpack") /\ InMulMat(t) /\ UNCHANGED <<once, rt, scratch, whole>>
  BY Places DEF UnpackWeight, Here
<1>2. /\ scratch \in ScratchSet /\ whole \in BOOLEAN /\ Op(t) \in Product /\ SupportsOp(Op(t))
      /\ extra \in [Tensors -> {"none", "gguf", "sidecar", "foreign"}]
  BY <1>1, InsideFacts
<1>3. CASE /\ Here(t, "unpack", "quantise")
           /\ extra' = [extra EXCEPT ![Op(t).w] = UnpackedFrom(Op(t).w)]
  <2>1. UnpackedFrom(Op(t).w) \in {"gguf", "sidecar"}
    BY <1>2 DEF SupportsOp, UnpackedFrom
  <2>2. Op(t).w \in Tensors
    BY <1>2 DEF Product
  <2>3. /\ extra' \in [Tensors -> {"none", "gguf", "sidecar", "foreign"}]
        /\ extra'[Op(t).w] # "none"
        /\ \A w \in Tensors : extra[w] # "foreign" => extra'[w] # "foreign"
    BY <1>2, <1>3, <2>1, <2>2
  <2>4. \A w : extra[w] # "none" => extra'[w] # "none"
    BY <1>2, <1>3, <2>1, <2>2
  <2>5. /\ pc'[t] = "quantise" /\ Op(t)' = Op(t)
        /\ \A u \in Threads : u # t => pc'[u] = pc[u]
    BY <1>1, <1>3, <2>4, HereStep, Places
  <2>6. WeightOK(t)'
    BY <2>3, <2>5 DEF WeightOK
  <2>7. solo[t] => ScratchIs(t)'
    <3>1. solo[t] => scratch.key = Key(Op(t))
      BY <1>1 DEF XInv, ThreadOK, ScratchIs, At
    <3>2. QED
      BY <1>1, <2>5, <3>1 DEF ScratchIs, At, Key, PadM
  <2>8. RekeyOK' /\ NothingForeign'
    BY <1>1, <2>3, <2>5 DEF XInv, RekeyOK, FitsKey, NothingForeign
  <2>9. QED
    BY <1>1, <1>2, <1>3, <2>3, <2>4, <2>6, <2>7, <2>8, HereKeeps, Places
<1>4. CASE Throw(t) /\ UNCHANGED extra
  BY <1>1, <1>2, <1>4, ThrowKeeps
<1>5. QED
  BY <1>3, <1>4 DEF UnpackWeight

(* A step that changes what the scratch holds, not its sizes.                 *)
LEMMA ContentKeeps ==
  ASSUME XInv, NEW t \in Threads, NEW a \in MulMat, NEW b \in {"sync", "launch", "read"}, Here(t, a, b),
         UNCHANGED <<once, rt, extra, whole>>, scratch' \in ScratchSet,
         scratch'.key = scratch.key, scratch'.act = scratch.act, scratch'.out = scratch.out,
         scratch'.q8 = scratch.q8, scratch'.out_host = scratch.out_host,
         WeightOK(t), a \in {"quantise", "sync", "launch"},
         solo[t] => /\ b = "sync" => scratch'.packed = Mine(t)
                    /\ b = "launch" => scratch'.device = Mine(t)
                    /\ b = "read" => scratch'.product = Mine(t)
  PROVE  XInv'
<1>1. InMulMat(t) /\ b \in MulMat
  BY Places DEF Here, InMulMat, At
<1>2. whole \in BOOLEAN /\ extra \in [Tensors -> {"none", "gguf", "sidecar", "foreign"}]
  BY <1>1, InsideFacts
<1>3. /\ pc[t] = a /\ pc'[t] = b /\ Op(t)' = Op(t) /\ Mine(t)' = Mine(t)
      /\ \A u \in Threads : u # t => pc'[u] = pc[u]
  BY <1>1, HereStep
<1>4. WeightOK(t)'
  BY <1>3 DEF WeightOK
<1>5. solo[t] => ScratchIs(t)'
  <2>1. solo[t] => scratch'.key = Key(Op(t))
    BY <1>3 DEF XInv, ThreadOK, ScratchIs, At
  <2>2. Key(Op(t))' = Key(Op(t))
    BY <1>3 DEF Key, PadM
  <2>3. QED
    BY <1>3, <2>1, <2>2 DEF ScratchIs, At
<1>6. RekeyOK' /\ NothingForeign'
  BY <1>3 DEF XInv, RekeyOK, FitsKey, NothingForeign
<1>7. QED
  BY <1>1, <1>2, <1>4, <1>5, <1>6, HereKeeps

LEMMA QuantiseKeeps ==
  ASSUME XInv, NEW t \in Threads, Quantise(t)
  PROVE  XInv'
<1>1. InMulMat(t) /\ WeightOK(t)
  BY Places DEF Quantise, Here, XInv, ThreadOK
<1>2. Mine(t) \in ContentSet /\ scratch \in ScratchSet
  BY <1>1, InsideFacts
<1>3. scratch' = [scratch EXCEPT !.packed = Mine(t)]
  BY DEF Quantise, Mine
<1>4. /\ scratch' \in ScratchSet /\ scratch'.packed = Mine(t)
      /\ scratch'.key = scratch.key /\ scratch'.act = scratch.act /\ scratch'.out = scratch.out
      /\ scratch'.q8 = scratch.q8 /\ scratch'.out_host = scratch.out_host
  BY <1>2, <1>3 DEF ScratchSet
<1>5. QED
  BY <1>1, <1>4, ContentKeeps, Places DEF Quantise

LEMMA SyncKeeps ==
  ASSUME XInv, NEW t \in Threads, Sync(t)
  PROVE  XInv'
<1>1. At(t, "sync") /\ InMulMat(t) /\ WeightOK(t) /\ UNCHANGED <<once, rt, extra, whole>>
  BY Places DEF Sync, Here, XInv, ThreadOK
<1>2. scratch \in ScratchSet /\ whole \in BOOLEAN
  BY <1>1, InsideFacts
<1>3. CASE Here(t, "sync", "launch") /\ scratch' = [scratch EXCEPT !.device = scratch.packed]
  <2>1. /\ scratch' \in ScratchSet /\ scratch'.device = scratch.packed
        /\ scratch'.key = scratch.key /\ scratch'.act = scratch.act /\ scratch'.out = scratch.out
        /\ scratch'.q8 = scratch.q8 /\ scratch'.out_host = scratch.out_host
    BY <1>2, <1>3 DEF ScratchSet
  <2>2. solo[t] => scratch.packed = Mine(t)
    BY <1>1 DEF XInv, ThreadOK, ScratchIs
  <2>3. QED
    BY <1>1, <1>3, <2>1, <2>2, ContentKeeps, Places
<1>4. CASE Throw(t) /\ UNCHANGED scratch
  BY <1>1, <1>2, <1>4, ThrowKeeps
<1>5. QED
  BY <1>3, <1>4 DEF Sync

LEMMA LaunchKeeps ==
  ASSUME XInv, NEW t \in Threads, Launch(t)
  PROVE  XInv'
<1>1. At(t, "launch") /\ InMulMat(t) /\ WeightOK(t) /\ UNCHANGED <<once, rt, extra, whole>>
  BY Places DEF Launch, Here, XInv, ThreadOK
<1>2. scratch \in ScratchSet /\ whole \in BOOLEAN
  BY <1>1, InsideFacts
<1>3. CASE Here(t, "launch", "read") /\ scratch' = [scratch EXCEPT !.product = scratch.device]
  <2>1. /\ scratch' \in ScratchSet /\ scratch'.product = scratch.device
        /\ scratch'.key = scratch.key /\ scratch'.act = scratch.act /\ scratch'.out = scratch.out
        /\ scratch'.q8 = scratch.q8 /\ scratch'.out_host = scratch.out_host
    BY <1>2, <1>3 DEF ScratchSet
  <2>2. solo[t] => scratch.device = Mine(t)
    BY <1>1 DEF XInv, ThreadOK, ScratchIs
  <2>3. QED
    BY <1>1, <1>3, <2>1, <2>2, ContentKeeps, Places
<1>4. CASE Throw(t) /\ UNCHANGED scratch
  BY <1>1, <1>2, <1>4, ThrowKeeps
<1>5. QED
  BY <1>3, <1>4 DEF Launch


-----------------------------------------------------------------------------
(* Steps outside mul_mat.                                                     *)

(* A step of a thread that is not in mul_mat before and after it.             *)
LEMMA OutsideKeeps ==
  ASSUME XInv, NEW t \in Threads, ~InMulMat(t), ~InMulMat(t)', UNCHANGED <<caches, solo>>,
         \A u \in Threads : u # t => pc'[u] = pc[u] /\ nodes'[u] = nodes[u],
         pc' \in [Threads -> {"idle", "ask", "init", "enter"} \cup MulMat], DOMAIN nodes' = Threads,
         once' \in Threads \cup {"new", "done"},
         rt' \in [ready : BOOLEAN, sidecar : SUBSET Sidecar, dispatch : BOOLEAN],
         NodesOK(t)',
         \A u \in Threads : u # t => (At(u, "init") => once' = once) /\ (Busy(u) => UNCHANGED <<once, rt>>)
  PROVE  XInv'
<1>1. UNCHANGED <<scratch, extra, whole>>
  BY DEF caches
<1>2. Types'
  BY <1>1 DEF XInv, Types
<1>3. ThreadOK(t)'
  BY DEF ThreadOK, WeightOK, ScratchIs, InMulMat, MulMat, At
<1>4. ASSUME NEW u \in Threads, u # t
      PROVE  ThreadOK(u)'
  BY <1>1, <1>4, OtherThread DEF XInv
<1>5. \A u \in Threads : InMulMat(u)' <=> InMulMat(u)
  BY DEF InMulMat
<1>6. AloneOK'
  BY <1>5 DEF XInv, AloneOK
<1>7. NothingForeign' 
  BY <1>1 DEF XInv, NothingForeign
<1>8. RekeyOK'
  <2>1. \A u \in Threads : pc'[u] \in {"out_bo", "host"} => pc[u] \in {"out_bo", "host"}
    BY DEF InMulMat, MulMat
  <2>2. QED
    BY <1>1, <2>1 DEF XInv, RekeyOK, FitsKey
<1>9. QED
  BY <1>2, <1>3, <1>4, <1>6, <1>7, <1>8 DEF XInv

LEMMA StartKeeps ==
  ASSUME XInv, NEW t \in Threads, NEW g \in Graphs, Start(t, g)
  PROVE  XInv'
<1>1. At(t, "idle") /\ Goto(t, "ask") /\ UNCHANGED <<once, rt, caches, solo>>
  BY DEF Start
<1>2. /\ pc' \in [Threads -> {"idle", "ask", "init", "enter"} \cup MulMat] /\ pc'[t] = "ask"
      /\ \A u \in Threads : u # t => pc'[u] = pc[u]
  BY <1>1, Move DEF XInv
<1>3. /\ DOMAIN nodes' = Threads /\ nodes'[t] = g
      /\ \A u \in Threads : u # t => nodes'[u] = nodes[u]
  BY DEF XInv, Types, Start
<1>4. DOMAIN g \subseteq Nat /\ \A i \in DOMAIN g : g[i] \in Product
  <2>1. g \in Seq(Product)
    BY XrtAssumption DEF Product
  <2>2. QED
    BY <2>1
<1>5. ~InMulMat(t) /\ ~InMulMat(t)' /\ ~Busy(t)' /\ ~At(t, "init")'
  BY <1>1, <1>2 DEF InMulMat, MulMat, Busy, At
<1>6. NodesOK(t)'
  BY <1>3, <1>4, <1>5 DEF NodesOK
<1>7. QED
  BY <1>1, <1>2, <1>3, <1>5, <1>6, OutsideKeeps DEF XInv, Types

LEMMA EnterOnceKeeps ==
  ASSUME XInv, NEW t \in Threads, EnterOnce(t)
  PROVE  XInv'
<1>1. /\ At(t, "ask") /\ once = "new" /\ once' = t /\ Goto(t, "init")
      /\ UNCHANGED <<rt, nodes, caches, solo>>
  BY DEF EnterOnce
<1>2. /\ pc' \in [Threads -> {"idle", "ask", "init", "enter"} \cup MulMat] /\ pc'[t] = "init"
      /\ \A u \in Threads : u # t => pc'[u] = pc[u]
  BY <1>1, Move DEF XInv
<1>3. ~InMulMat(t) /\ ~InMulMat(t)' /\ ~Busy(t)'
  BY <1>1, <1>2 DEF InMulMat, MulMat, Busy, At
<1>4. NodesOK(t)'
  BY <1>1, <1>3 DEF XInv, ThreadOK, NodesOK
<1>5. \A u \in Threads : ~At(u, "init") /\ ~Busy(u)
  BY <1>1, XrtAssumption DEF XInv, ThreadOK, NodesOK
<1>6. QED
  BY <1>1, <1>2, <1>3, <1>4, <1>5, OutsideKeeps DEF XInv, Types

LEMMA InitOnceKeeps ==
  ASSUME XInv, NEW t \in Threads, InitOnce(t)
  PROVE  XInv'
<1>1. /\ At(t, "init") /\ once' = "done" /\ Goto(t, "ask")
      /\ UNCHANGED <<nodes, caches, solo>>
  BY DEF InitOnce
<1>2. /\ pc' \in [Threads -> {"idle", "ask", "init", "enter"} \cup MulMat] /\ pc'[t] = "ask"
      /\ \A u \in Threads : u # t => pc'[u] = pc[u]
  BY <1>1, Move DEF XInv
<1>3. rt' \in [ready : BOOLEAN, sidecar : SUBSET Sidecar, dispatch : BOOLEAN]
  <2>1. rt \in [ready : BOOLEAN, sidecar : SUBSET Sidecar, dispatch : BOOLEAN]
    BY DEF XInv, Types
  <2>2. \/ UNCHANGED rt
        \/ \E sidecar \in SUBSET Sidecar : rt' = [rt EXCEPT !.ready = TRUE, !.sidecar = sidecar]
    BY DEF InitOnce, LoadSidecarManifest
  <2>3. QED
    BY <2>1, <2>2
<1>4. ~InMulMat(t) /\ ~InMulMat(t)' /\ ~Busy(t)' /\ ~At(t, "init")'
  BY <1>1, <1>2 DEF InMulMat, MulMat, Busy, At
<1>5. NodesOK(t)'
  BY <1>1, <1>4 DEF XInv, ThreadOK, NodesOK
<1>6. \A u \in Threads : u # t => ~At(u, "init") /\ ~Busy(u)
  BY <1>1, XrtAssumption DEF XInv, ThreadOK, NodesOK
<1>7. QED
  BY <1>1, <1>2, <1>3, <1>4, <1>5, <1>6, OutsideKeeps DEF XInv, Types

LEMMA ScheduleKeeps ==
  ASSUME XInv, NEW t \in Threads, Schedule(t)
  PROVE  XInv'
<1> DEFINE next == IF NothingLeft(t)' THEN "idle" ELSE "enter"
<1>1. /\ At(t, "ask") /\ once = "done" /\ Goto(t, next) /\ next \in {"idle", "enter"}
      /\ UNCHANGED <<once, rt, caches, solo>>
  BY DEF Schedule
<1>2. next = "enter" => ~NothingLeft(t)'
  OBVIOUS
<1> HIDE DEF next
<1>3. /\ pc' \in [Threads -> {"idle", "ask", "init", "enter"} \cup MulMat] /\ pc'[t] = next
      /\ \A u \in Threads : u # t => pc'[u] = pc[u]
  BY <1>1, Move DEF XInv
<1>4. /\ DOMAIN nodes' = Threads /\ nodes'[t] = Supports(nodes[t])
      /\ \A u \in Threads : u # t => nodes'[u] = nodes[u]
  BY DEF XInv, Types, Schedule
<1>5. /\ DOMAIN nodes'[t] = {i \in DOMAIN nodes[t] : SupportsOp(nodes[t][i])}
      /\ \A i \in DOMAIN nodes'[t] : nodes'[t][i] = nodes[t][i]
  BY <1>4 DEF Supports, Restrict
<1>6. \A i \in DOMAIN nodes'[t] : SupportsOp(nodes[t][i])
  BY <1>5
<1>7. ~InMulMat(t) /\ ~InMulMat(t)' /\ ~At(t, "init")' /\ (Busy(t)' => next = "enter")
  BY <1>1, <1>3 DEF InMulMat, MulMat, Busy, At
<1>8. NodesOK(t)'
  <2>1. NodesOK(t)
    BY DEF XInv, ThreadOK
  <2>2. (\A i \in DOMAIN nodes[t] : SupportsOp(nodes[t][i]))'
    BY <1>1, <1>5, <1>6 DEF SupportsOp
  <2>3. /\ DOMAIN nodes'[t] \subseteq Nat
        /\ \A i \in DOMAIN nodes'[t] : nodes'[t][i] \in Product
    BY <1>5, <2>1 DEF NodesOK
  <2>4. once' = "done"
    BY <1>1
  <2>5. QED
    BY <1>2, <1>7, <2>2, <2>3, <2>4 DEF NodesOK
<1>9. QED
  BY <1>1, <1>3, <1>4, <1>7, <1>8, OutsideKeeps DEF XInv, Types

-----------------------------------------------------------------------------
(* Into mul_mat and out of it.                                                *)

LEMMA EnterKeeps ==
  ASSUME XInv, NEW t \in Threads, Enter(t)
  PROVE  XInv'
<1> DEFINE next == IF SameShape(Op(t)) THEN "weight" ELSE "act_bo"
           others == {u \in Threads \ {t} : InMulMat(u)}
<1>1. /\ At(t, "enter") /\ Goto(t, next) /\ next \in {"weight", "act_bo"}
      /\ UNCHANGED <<once, rt, nodes, scratch, extra, whole>>
  BY DEF Enter, caches
<1>2. next = "weight" => scratch.key = Key(Op(t))
  BY DEF SameShape
<1>3. /\ solo' \in [Threads -> BOOLEAN] /\ (solo'[t] => others = {})
      /\ \A u \in Threads : u # t => /\ solo'[u] => solo[u]
                                     /\ InMulMat(u) => ~solo'[u]
  BY DEF Enter, XInv, Types
<1> HIDE DEF next
<1>4. /\ pc' \in [Threads -> {"idle", "ask", "init", "enter"} \cup MulMat] /\ pc'[t] = next
      /\ \A u \in Threads : u # t => pc'[u] = pc[u]
  BY <1>1, Places, Move DEF XInv
<1>5. Types'
  BY <1>1, <1>3, <1>4 DEF XInv, Types
<1>6. AloneOK'
  <2> SUFFICES ASSUME NEW u \in Threads, NEW v \in Threads, u # v, InMulMat(u)', InMulMat(v)'
               PROVE  ~solo'[u]
    BY DEF AloneOK
  <2>1. CASE u = t
    <3>1. InMulMat(v) /\ v \in others
      BY <1>4, <2>1 DEF InMulMat
    <3>2. QED
      BY <1>3, <2>1, <3>1
  <2>2. CASE u # t
    <3>1. InMulMat(u)
      BY <1>4, <2>2 DEF InMulMat
    <3>2. QED
      BY <1>3, <2>2, <3>1
  <2>3. QED
    BY <2>1, <2>2
<1>7. ThreadOK(t)'
  <2>1. Op(t)' = Op(t) /\ Key(Op(t))' = Key(Op(t))
    BY <1>1 DEF Op, First, Key, PadM
  <2>2. NodesOK(t) /\ Busy(t)
    BY <1>1 DEF XInv, ThreadOK, Busy
  <2>3. \A i \in DOMAIN nodes[t] : SupportsOp(nodes[t][i])'
    BY <1>1, <2>2 DEF NodesOK, SupportsOp
  <2>4. NodesOK(t)'
    BY <1>1, <1>4, <2>2, <2>3 DEF NodesOK, NothingLeft, At
  <2>5. WeightOK(t)'
    BY <1>1, <1>4 DEF WeightOK
  <2>6. ScratchIs(t)'
    BY <1>1, <1>2, <1>4, <2>1 DEF ScratchIs, At
  <2>7. QED
    BY <2>4, <2>5, <2>6 DEF ThreadOK
<1>8. ASSUME NEW u \in Threads, u # t
      PROVE  ThreadOK(u)'
  BY <1>1, <1>3, <1>4, <1>8, OtherThread DEF XInv
<1>9. NothingForeign'
  BY <1>1 DEF XInv, NothingForeign
<1>10. RekeyOK'
  <2>1. \A u \in Threads : pc'[u] \in {"out_bo", "host"} => pc[u] \in {"out_bo", "host"}
    BY <1>1, <1>4
  <2>2. QED
    BY <1>1, <2>1 DEF XInv, RekeyOK, FitsKey
<1>11. QED
  BY <1>5, <1>6, <1>7, <1>8, <1>9, <1>10 DEF XInv

LEMMA ReadBackKeeps ==
  ASSUME XInv, NEW t \in Threads, ReadBack(t)
  PROVE  XInv'
<1> DEFINE next == IF NothingLeft(t)' THEN "idle" ELSE "enter"
<1>1. At(t, "read") /\ InMulMat(t) /\ UNCHANGED <<once, rt, scratch, extra, whole>>
  BY Places DEF ReadBack, caches
<1>2. scratch \in ScratchSet /\ whole \in BOOLEAN
  BY <1>1, InsideFacts
<1>3. CASE Throw(t)
  BY <1>1, <1>2, <1>3, ThrowKeeps
<1>4. CASE /\ nodes' = [nodes EXCEPT ![t] = Restrict(@, DOMAIN @ \ {First(t)})]
           /\ Goto(t, next) /\ solo' = [solo EXCEPT ![t] = TRUE]
  <2>1. next \in {"idle", "enter"} /\ (next = "enter" => ~NothingLeft(t)')
    OBVIOUS
  <2> HIDE DEF next
  <2>2. /\ pc' \in [Threads -> {"idle", "ask", "init", "enter"} \cup MulMat] /\ pc'[t] = next
        /\ \A u \in Threads : u # t => pc'[u] = pc[u]
    BY <1>4, <2>1, Move DEF XInv
  <2>3. /\ solo' \in [Threads -> BOOLEAN]
        /\ \A u \in Threads : u # t => solo'[u] = solo[u]
    BY <1>4 DEF XInv, Types
  <2>4. /\ DOMAIN nodes' = Threads
        /\ nodes'[t] = Restrict(nodes[t], DOMAIN nodes[t] \ {First(t)})
        /\ \A u \in Threads : u # t => nodes'[u] = nodes[u]
    BY <1>4 DEF XInv, Types
  <2>5. Types'
    BY <1>1, <2>2, <2>3, <2>4 DEF XInv, Types
  <2>6. ~InMulMat(t)' /\ ~At(t, "init")' /\ (Busy(t)' => next = "enter")
    BY <2>1, <2>2 DEF InMulMat, MulMat, Busy, At
  <2>7. AloneOK'
    <3>1. \A u \in Threads : InMulMat(u)' => u # t /\ InMulMat(u)
      BY <2>2, <2>6 DEF InMulMat
    <3>2. QED
      BY <2>3, <3>1 DEF XInv, AloneOK
  <2>8. NodesOK(t)'
    <3>1. NodesOK(t) /\ Busy(t)
      BY <1>1 DEF XInv, ThreadOK, Busy
    <3>2. /\ DOMAIN nodes'[t] = DOMAIN nodes[t] \ {First(t)}
          /\ \A i \in DOMAIN nodes'[t] : nodes'[t][i] = nodes[t][i]
      BY <2>4 DEF Restrict
    <3>3. \A i \in DOMAIN nodes[t] : SupportsOp(nodes[t][i])
      BY <3>1 DEF NodesOK
    <3>4. (\A i \in DOMAIN nodes[t] : SupportsOp(nodes[t][i]))'
      BY <1>1, <3>2, <3>3 DEF SupportsOp
    <3>5. /\ DOMAIN nodes'[t] \subseteq Nat
          /\ \A i \in DOMAIN nodes'[t] : nodes'[t][i] \in Product
      BY <3>1, <3>2 DEF NodesOK
    <3>6. once' = "done"
      BY <1>1, <3>1 DEF NodesOK
    <3>7. QED
      BY <2>1, <2>6, <3>4, <3>5, <3>6 DEF NodesOK
  <2>9. ThreadOK(t)'
    BY <2>1, <2>2, <2>8 DEF ThreadOK, WeightOK, ScratchIs, At
  <2>10. \A u \in Threads : u # t => ThreadOK(u)'
    BY <1>1, <2>2, <2>3, <2>4, OthersInMulMat
  <2>11. NothingForeign'
    BY <1>1 DEF XInv, NothingForeign
  <2>12. RekeyOK'
    <3>1. \A u \in Threads : pc'[u] \in {"out_bo", "host"} => pc[u] \in {"out_bo", "host"}
      BY <2>1, <2>2
    <3>2. QED
      BY <1>1, <3>1 DEF XInv, RekeyOK, FitsKey
  <2>13. QED
    BY <2>5, <2>7, <2>9, <2>10, <2>11, <2>12 DEF XInv
<1>5. QED
  BY <1>3, <1>4 DEF ReadBack

-----------------------------------------------------------------------------
(* The invariant and what follows from it.                                    *)

LEMMA InitXrt == Init => XInv
<1> SUFFICES ASSUME Init PROVE XInv
  OBVIOUS
<1>1. NoRows \in ContentSet
  BY DEF NoRows, ContentSet
<1>2. Types
  BY <1>1 DEF Init, Types, ScratchSet
<1>3. \A t \in Threads : ThreadOK(t)
  <2>1. DOMAIN <<>> = {}
    OBVIOUS
  <2>2. QED
    BY <2>1 DEF Init, ThreadOK, NodesOK, WeightOK, ScratchIs, Busy, InMulMat, MulMat, At
<1>4. AloneOK /\ NothingForeign
  BY DEF Init, AloneOK, InMulMat, MulMat, NothingForeign
<1>5. RekeyOK
  BY DEF Init, RekeyOK, FitsKey, ActSize, OutSize
<1>6. QED
  BY <1>2, <1>3, <1>4, <1>5 DEF XInv

LEMMA NextXrt == XInv /\ [Next]_vars => XInv'
<1> SUFFICES ASSUME XInv, [Next]_vars PROVE XInv'
  OBVIOUS
<1>1. ASSUME NEW t \in Threads, Step(t)
      PROVE  XInv'
  BY <1>1, EnterOnceKeeps, InitOnceKeeps, ScheduleKeeps, EnterKeeps, AllocActKeeps, AllocOutKeeps,
     ResizeHostKeeps, FindWeightKeeps, UnpackWeightKeeps, QuantiseKeeps, SyncKeeps, LaunchKeeps,
     ReadBackKeeps DEF Step
<1>2. ASSUME NEW t \in Threads, NEW g \in Graphs, Start(t, g)
      PROVE  XInv'
  BY <1>2, StartKeeps
<1>3. CASE UNCHANGED vars
  <2>1. UNCHANGED <<once, rt, pc, nodes, scratch, extra, solo, whole>>
    BY <1>3 DEF vars
  <2>2. \A t \in Threads : ThreadOK(t)'
    BY <2>1, OtherThread DEF XInv
  <2>3. Types' /\ AloneOK' /\ NothingForeign' /\ RekeyOK'
    BY <2>1 DEF XInv, Types, AloneOK, InMulMat, NothingForeign, RekeyOK, FitsKey
  <2>4. QED
    BY <2>2, <2>3 DEF XInv
<1>4. QED
  BY <1>1, <1>2, <1>3 DEF Next

THEOREM XrtInvariant == Spec => []XInv
BY InitXrt, NextXrt, PTL DEF Spec

(* The state keeps its type, and a thread that is in mul_mat or about to      *)
(* enter it has a product to do whose rows the kernel takes.                  *)
THEOREM XrtTypes == Spec => []TypeOK
<1>1. XInv => TypeOK
  <2> SUFFICES ASSUME XInv PROVE TypeOK
    OBVIOUS
  <2>1. \A t \in Threads : InMulMat(t) \/ At(t, "enter") => ~NothingLeft(t) /\ Op(t).m \in 1 .. MaxM
    <3> SUFFICES ASSUME NEW t \in Threads, Busy(t)
                 PROVE  ~NothingLeft(t) /\ Op(t).m \in 1 .. MaxM
      BY DEF Busy
    <3>1. NodesOK(t) /\ ~NothingLeft(t)
      BY DEF XInv, ThreadOK, NodesOK
    <3>2. SupportsOp(Op(t))
      BY <3>1, CurrentProduct DEF NodesOK
    <3>3. QED
      BY <3>1, <3>2 DEF SupportsOp
  <2>2. \A t \in Threads : /\ DOMAIN nodes[t] \subseteq Nat
                           /\ \A i \in DOMAIN nodes[t] : nodes[t][i] \in [w : Tensors, m : Nat]
    BY DEF XInv, ThreadOK, NodesOK, Product
  <2>3. /\ scratch.key \in Nat \X Nat \X Nat
        /\ \A size \in {"act", "out", "q8", "out_host"} : scratch[size] \in Nat
    BY DEF XInv, Types, ScratchSet
  <2>4. QED
    BY <2>1, <2>2, <2>3 DEF XInv, Types, TypeOK
<1>2. QED
  BY <1>1, XrtInvariant, PTL

(* A launch has a weight that was unpacked from Q8_0 blocks, its own or the   *)
(* sidecar's, with any number of threads at it and any unpacking that threw   *)
(* before.                                                                    *)
THEOREM XrtWeights == Spec => []WeightIsItsOwn
<1>1. XInv => WeightIsItsOwn
  <2> SUFFICES ASSUME XInv, NEW t \in Threads, pc[t] \in {"quantise", "sync", "launch"}
               PROVE  extra[Op(t).w] \in {"gguf", "sidecar"}
    BY DEF WeightIsItsOwn
  <2>1. InMulMat(t)
    BY DEF InMulMat, MulMat
  <2>2. Op(t).w \in Tensors
    BY <2>1, InsideFacts DEF Product
  <2>3. extra[Op(t).w] # "none" /\ extra[Op(t).w] # "foreign"
    BY <2>2 DEF XInv, ThreadOK, WeightOK, NothingForeign
  <2>4. QED
    BY <2>2, <2>3 DEF XInv, Types
<1>2. QED
  BY <1>1, XrtInvariant, PTL

(* A product launched by a thread that was alone, after a rekey that went     *)
(* through alone, fits the buffers, whatever shapes came before and whatever  *)
(* allocation failed in between.                                              *)
THEOREM XrtFits == Spec => []LaunchedInBuffersThatFit
<1>1. XInv => LaunchedInBuffersThatFit
  <2> SUFFICES ASSUME XInv, NEW t \in Threads, At(t, "launch"), solo[t], whole
               PROVE  Fits(Op(t))
    BY DEF LaunchedInBuffersThatFit
  <2>1. scratch.key = Key(Op(t))
    BY DEF XInv, ThreadOK, ScratchIs, At
  <2>2. FitsKey
    BY DEF XInv, RekeyOK
  <2>3. QED
    BY <2>1, <2>2 DEF Fits, FitsKey
<1>2. QED
  BY <1>1, XrtInvariant, PTL

(* A thread that was alone in mul_mat reads back the product of its own       *)
(* current activation.                                                        *)
THEOREM XrtOwnProduct == Spec => []ReadsOwnProduct
<1>1. XInv => ReadsOwnProduct
  BY DEF XInv, ThreadOK, ScratchIs, Mine, ReadsOwnProduct
<1>2. QED
  BY <1>1, XrtInvariant, PTL

=============================================================================
