---------------------------- MODULE MCXrtBackend ----------------------------
(* XrtBackend on three weights: "c" has its blocks in the GGUF and, if its   *)
(* entry is in the manifest, in the sidecar; "f" in the sidecar only; "x"    *)
(* has a shape that is not in the whitelist.                                 *)
EXTENDS XrtBackend

MCTensors == {"c", "f", "x"}
MCK == [w \in MCTensors |-> CASE w = "c" -> 2 [] w = "f" -> 1 [] w = "x" -> 3]
MCN == [w \in MCTensors |-> IF w = "c" THEN 1 ELSE 2]
MCSupported == {<<1, 2>>, <<2, 1>>}

Product(weight, rows) == [w |-> weight, m |-> rows]

(* From f to c one buffer grows and the other shrinks; the second graph has  *)
(* a product that is always refused.                                         *)
MCGraphs == {<<Product("f", 1), Product("c", 1)>>, <<Product("x", 1), Product("c", 2)>>}
=============================================================================
