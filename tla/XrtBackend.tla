------------------------------ MODULE XrtBackend ------------------------------
(***************************************************************************)
(* The ggml-xrt backend: one runtime opened once per process, supports_op,  *)
(* which decides what the scheduler sends here, and mul_mat, which runs a   *)
(* product on the FPGA through one static set of scratch buffers and caches *)
(* a weight's unpacked form with its tensor.                                *)
(*                                                                          *)
(* Threads compute graphs of contexts that share a model, as                *)
(* tests/test-thread-safety.cpp does.  XRT throws where the code expects    *)
(* it to; graph_compute turns an exception into a failed graph.             *)
(***************************************************************************)
EXTENDS Naturals, Sequences, Functions

CONSTANTS
  Threads,    \* threads that compute graphs
  Tensors,    \* weights
  K, N,       \* shape of a weight; K in groups of 32
  IsQ8,       \* weights of type Q8_0
  Sidecar,    \* weights a manifest has in Q8_0 and in the same shape
  Supported,  \* the whitelist of <<K, N>>
  TileM,      \* kTileM
  MaxM,       \* kKernelMaxM
  Graphs      \* sequences of products [w: a weight, m: activation rows]

Ops == UNION {{g[i] : i \in DOMAIN g} : g \in Graphs}

ASSUME XrtAssumption ==
  /\ "new" \notin Threads /\ "done" \notin Threads
  /\ K \in [Tensors -> Nat \ {0}] /\ N \in [Tensors -> Nat \ {0}]
  /\ IsQ8 \subseteq Tensors /\ Sidecar \subseteq Tensors
  /\ TileM \in Nat \ {0} /\ MaxM \in Nat
  /\ Graphs \subseteq Seq([w : Tensors, m : Nat])

VARIABLES
  once,     \* g_once: "new", the thread that runs init_once, or "done"
  rt,       \* g_state, and the environment's GGML_XRT_DISABLE_DISPATCH
  pc,       \* where a thread is in graph_compute and mul_mat
  nodes,    \* the products of its graph still to do, by their place in it
  scratch,  \* sizes of the static scratch buffers, their key, and their contents
  extra,    \* tensor->extra: what the cached weight was unpacked from
  solo,     \* history: nobody else has been in mul_mat since the thread entered
  whole     \* history: the last rekey went through, alone

vars == <<once, rt, pc, nodes, scratch, extra, solo, whole>>
caches == <<scratch, extra, whole>>

NoRows == [by |-> "nobody", op |-> "none"]

Init ==
  /\ once = "new"
  /\ rt \in [ready : {FALSE}, sidecar : {{}}, dispatch : BOOLEAN]
  /\ pc = [t \in Threads |-> "idle"]
  /\ nodes = [t \in Threads |-> <<>>]
  /\ scratch = [key |-> <<0, 0, 0>>, act |-> 0, out |-> 0, q8 |-> 0, out_host |-> 0,
                packed |-> NoRows, device |-> NoRows, product |-> NoRows]
  /\ extra = [w \in Tensors |-> "none"]
  /\ solo = [t \in Threads |-> TRUE]
  /\ whole = TRUE

Goto(t, place) == pc' = [pc EXCEPT ![t] = place]
At(t, place) == pc[t] = place

-----------------------------------------------------------------------------
(* get_runtime: call_once lets one thread in, the others wait for it.         *)

Start(t, g) ==
  /\ At(t, "idle")
  /\ nodes' = [nodes EXCEPT ![t] = g] /\ Goto(t, "ask")
  /\ UNCHANGED <<once, rt, caches, solo>>

EnterOnce(t) ==
  /\ At(t, "ask") /\ once = "new"
  /\ once' = t /\ Goto(t, "init")
  /\ UNCHANGED <<rt, nodes, caches, solo>>

(* A manifest that is missing or malformed gives no tensor at all, an entry   *)
(* that is not within the blob is skipped.                                    *)
LoadSidecarManifest == SUBSET Sidecar

InitOnce_FailureNotDone(t) ==  \* Mutant: a failure leaves the flag as it is.
  /\ At(t, "init")
  /\ \/ UNCHANGED <<rt, once>>
     \/ /\ \E sidecar \in LoadSidecarManifest : rt' = [rt EXCEPT !.ready = TRUE, !.sidecar = sidecar]
        /\ once' = "done"
  /\ Goto(t, "ask")
  /\ UNCHANGED <<nodes, caches, solo>>

(* No path, no device, no GEMM kernel, or a manifest that throws: not ready.  *)
InitOnce(t) ==
  /\ At(t, "init")
  /\ \/ UNCHANGED rt
     \/ \E sidecar \in LoadSidecarManifest : rt' = [rt EXCEPT !.ready = TRUE, !.sidecar = sidecar]
  /\ once' = "done" /\ Goto(t, "ask")
  /\ UNCHANGED <<nodes, caches, solo>>

-----------------------------------------------------------------------------
(* supports_op, and the graph as the scheduler cuts it.                       *)

SupportsOp_AnyType(op) ==  \* Mutant: the weight's type is not looked at.
  /\ rt.ready /\ rt.dispatch
  /\ <<K[op.w], N[op.w]>> \in Supported
  /\ op.m \in 1 .. MaxM

SupportsOp(op) ==
  /\ rt.ready /\ rt.dispatch
  /\ op.w \in IsQ8 \cup rt.sidecar
  /\ <<K[op.w], N[op.w]>> \in Supported
  /\ op.m \in 1 .. MaxM

Supports(g) == Restrict(g, {i \in DOMAIN g : SupportsOp(g[i])})
NothingLeft(t) == DOMAIN nodes[t] = {}

(* Mutant: the backend is called for a graph it has no node of.               *)
Schedule_Always(t) ==
  /\ At(t, "ask") /\ once = "done"
  /\ nodes' = [nodes EXCEPT ![t] = Supports(@)]
  /\ Goto(t, "enter")
  /\ UNCHANGED <<once, rt, caches, solo>>

(* The products that are not supported, or the whole graph, stay on the CPU.  *)
Schedule(t) ==
  /\ At(t, "ask") /\ once = "done"
  /\ nodes' = [nodes EXCEPT ![t] = Supports(@)]
  /\ Goto(t, IF NothingLeft(t)' THEN "idle" ELSE "enter")
  /\ UNCHANGED <<once, rt, caches, solo>>

(* catch: the nodes left are not computed, the scheduler gets                 *)
(* GGML_STATUS_FAILED.                                                        *)
Throw(t) ==
  /\ Goto(t, "idle") /\ nodes' = [nodes EXCEPT ![t] = <<>>]
  /\ solo' = [solo EXCEPT ![t] = TRUE]

Here(t, place, next) == At(t, place) /\ Goto(t, next) /\ UNCHANGED <<nodes, solo>>

-----------------------------------------------------------------------------
(* mul_mat.                                                                   *)

First(t) == CHOOSE i \in DOMAIN nodes[t] : \A j \in DOMAIN nodes[t] : i <= j
Op(t) == nodes[t][First(t)]
PadM(m) == ((m + TileM - 1) \div TileM) * TileM
Key(op) == <<PadM(op.m), K[op.w], N[op.w]>>
ActSize(key) == key[1] * key[2]
OutSize(key) == key[1] * key[3]

MulMat == {"act_bo", "out_bo", "host", "weight", "unpack", "quantise", "sync", "launch", "read"}
InMulMat(t) == pc[t] \in MulMat

SameShape_RowsOnly(op) == scratch.key[1] = Key(op)[1]  \* Mutant: K and N are not compared.
SameShape(op) == scratch.key = Key(op)

Enter(t) ==
  /\ At(t, "enter")
  /\ LET others == {u \in Threads \ {t} : InMulMat(u)}
     IN  solo' = [u \in Threads |-> IF u = t THEN others = {}
                                    ELSE IF u \in others THEN FALSE ELSE solo[u]]
  /\ Goto(t, IF SameShape(Op(t)) THEN "weight" ELSE "act_bo")
  /\ UNCHANGED <<once, rt, nodes, caches>>

(* The device buffers of the activation and of its scales: of act and act_s   *)
(* only the smaller is kept.  Each allocation may throw.                      *)
Smaller(a, b) == IF a < b THEN a ELSE b
Larger(a, b) == IF a > b THEN a ELSE b

AllocAct(t) ==
  /\ LET size == ActSize(Key(Op(t)))
     IN  \/ /\ Here(t, "act_bo", "out_bo")
            /\ scratch' = [scratch EXCEPT !.act = size]
            /\ whole' = FALSE
         \/ At(t, "act_bo") /\ Throw(t) /\ UNCHANGED <<scratch, whole>>
         \/ /\ At(t, "act_bo") /\ Throw(t)
            /\ scratch' = [scratch EXCEPT !.act = Smaller(@, size)]
            /\ whole' = FALSE
  /\ UNCHANGED <<once, rt, extra>>

AllocOut(t) ==
  /\ \/ /\ Here(t, "out_bo", "host")
        /\ scratch' = [scratch EXCEPT !.out = OutSize(Key(Op(t)))]
     \/ At(t, "out_bo") /\ Throw(t) /\ UNCHANGED scratch
  /\ UNCHANGED <<once, rt, extra, whole>>

(* The vectors of the host never lose capacity, and growing one may throw;    *)
(* the key comes last.                                                        *)
ResizeHost(t) ==
  /\ LET act == Larger(scratch.q8, ActSize(Key(Op(t))))
         out == Larger(scratch.out_host, OutSize(Key(Op(t))))
     IN  \/ /\ Here(t, "host", "weight")
            /\ scratch' = [scratch EXCEPT !.q8 = act, !.out_host = out, !.key = Key(Op(t))]
            /\ whole' = solo[t]
         \/ /\ At(t, "host") /\ act # scratch.q8
            /\ Throw(t) /\ UNCHANGED <<scratch, whole>>
         \/ /\ At(t, "host") /\ out # scratch.out_host
            /\ Throw(t) /\ scratch' = [scratch EXCEPT !.q8 = act] /\ UNCHANGED whole
  /\ UNCHANGED <<once, rt, extra>>

-----------------------------------------------------------------------------
(* The weight: a tensor met for the first time is unpacked into device        *)
(* buffers of its own and keeps them in tensor->extra.                        *)

FindWeight(t) ==
  /\ Here(t, "weight", IF extra[Op(t).w] = "none" THEN "unpack" ELSE "quantise")
  /\ UNCHANGED <<once, rt, caches>>

(* Mutant: the sidecar is not looked up here.                                 *)
UnpackedFrom_OwnData(w) == IF w \in IsQ8 THEN "gguf" ELSE "foreign"

(* "foreign" is data read as Q8_0 blocks that is not.                         *)
UnpackedFrom(w) ==
  CASE w \in rt.sidecar -> "sidecar" [] w \in IsQ8 \ rt.sidecar -> "gguf" [] OTHER -> "foreign"

UnpackWeight(t) ==
  /\ \/ /\ Here(t, "unpack", "quantise")
        /\ extra' = [extra EXCEPT ![Op(t).w] = UnpackedFrom(Op(t).w)]
     \/ At(t, "unpack") /\ Throw(t) /\ UNCHANGED extra
  /\ UNCHANGED <<once, rt, scratch, whole>>

-----------------------------------------------------------------------------
(* The activation, the launch and the result.                                 *)

Fits(op) ==
  LET key == Key(op)
  IN  /\ scratch.act >= ActSize(key) /\ scratch.out >= OutSize(key)
      /\ scratch.q8 >= ActSize(key) /\ scratch.out_host >= OutSize(key)

Quantise(t) ==
  /\ Here(t, "quantise", "sync")
  /\ scratch' = [scratch EXCEPT !.packed = [by |-> t, op |-> Op(t)]]
  /\ UNCHANGED <<once, rt, extra, whole>>

Sync_Skipped(t) ==  \* Mutant: the host side of the buffer is not sent.
  Here(t, "sync", "launch") /\ UNCHANGED <<once, rt, caches>>

Sync(t) ==
  /\ \/ Here(t, "sync", "launch") /\ scratch' = [scratch EXCEPT !.device = scratch.packed]
     \/ At(t, "sync") /\ Throw(t) /\ UNCHANGED scratch
  /\ UNCHANGED <<once, rt, extra, whole>>

(* run.wait() returns before another thread's step: what another launch or     *)
(* packing overwrites while the kernel runs is overwritten before or after.   *)
Launch(t) ==
  /\ \/ Here(t, "launch", "read") /\ scratch' = [scratch EXCEPT !.product = scratch.device]
     \/ At(t, "launch") /\ Throw(t) /\ UNCHANGED scratch
  /\ UNCHANGED <<once, rt, extra, whole>>

(* The result goes through out_host to dst, or the sync back throws;          *)
(* graph_compute takes its next product.                                      *)
ReadBack(t) ==
  /\ At(t, "read")
  /\ \/ Throw(t)
     \/ /\ nodes' = [nodes EXCEPT ![t] = Restrict(@, DOMAIN @ \ {First(t)})]
        /\ Goto(t, IF NothingLeft(t)' THEN "idle" ELSE "enter")
        /\ solo' = [solo EXCEPT ![t] = TRUE]
  /\ UNCHANGED <<once, rt, caches>>

-----------------------------------------------------------------------------
Step(t) ==
  \/ EnterOnce(t) \/ InitOnce(t) \/ Schedule(t) \/ Enter(t)
  \/ AllocAct(t) \/ AllocOut(t) \/ ResizeHost(t)
  \/ FindWeight(t) \/ UnpackWeight(t) \/ Quantise(t) \/ Sync(t) \/ Launch(t) \/ ReadBack(t)

Next == \E t \in Threads : Step(t) \/ \E g \in Graphs : Start(t, g)
Spec == Init /\ [][Next]_vars
FairSpec == Spec /\ \A t \in Threads : WF_vars(Step(t))

-----------------------------------------------------------------------------
(* A launch has a weight, unpacked from Q8_0 blocks: supports_op decides at    *)
(* schedule time that they exist, mul_mat looks for them again, maybe in two  *)
(* threads at once or after an unpacking that threw, and later products use   *)
(* what is cached (ggml-xrt.cpp:82-108, 300-306).                             *)
WeightIsItsOwn ==
  \A t \in Threads : pc[t] \in {"quantise", "sync", "launch"} => extra[Op(t).w] \in {"gguf", "sidecar"}

(* A product launched alone, after the last rekey went through and was alone, *)
(* has buffers big enough for it, whatever shapes came before and whatever    *)
(* allocations failed (ggml-xrt.cpp:62-76).                                   *)
LaunchedInBuffersThatFit ==
  \A t \in Threads : At(t, "launch") /\ solo[t] /\ whole => Fits(Op(t))

(* A thread that was alone in mul_mat reads back the product of its own       *)
(* current activation, whatever was left in the buffers (ggml-xrt.cpp:113-158).*)
ReadsOwnProduct ==
  \A t \in Threads : At(t, "read") /\ solo[t] => scratch.product = [by |-> t, op |-> Op(t)]

(* Every graph ends, with or without its products, even when it waited for    *)
(* another thread's initialisation that failed (xrt-runtime.cpp:24-74,        *)
(* ggml-xrt.cpp:168-196).                                                     *)
GraphEnds == \A t \in Threads : pc[t] # "idle" ~> pc[t] = "idle"

(* The state's type; a thread in mul_mat has a supported product to do.       *)
TypeOK ==
  /\ once \in Threads \cup {"new", "done"}
  /\ rt \in [ready : BOOLEAN, sidecar : SUBSET Sidecar, dispatch : BOOLEAN]
  /\ pc \in [Threads -> {"idle", "ask", "init", "enter"} \cup MulMat]
  /\ DOMAIN nodes = Threads
  /\ \A t \in Threads : /\ DOMAIN nodes[t] \subseteq Nat
                        /\ \A i \in DOMAIN nodes[t] : nodes[t][i] \in [w : Tensors, m : Nat]
  /\ scratch.key \in Nat \X Nat \X Nat
  /\ \A size \in {"act", "out", "q8", "out_host"} : scratch[size] \in Nat
  /\ extra \in [Tensors -> {"none", "gguf", "sidecar", "foreign"}]
  /\ solo \in [Threads -> BOOLEAN] /\ whole \in BOOLEAN
  /\ \A t \in Threads : InMulMat(t) \/ At(t, "enter") => ~NothingLeft(t) /\ Op(t).m \in 1 .. MaxM
=============================================================================
