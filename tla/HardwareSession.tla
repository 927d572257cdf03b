---------------------------- MODULE HardwareSession ---------------------------
(***************************************************************************)
(* How the server gets its FPGA session: the manifest of the export is      *)
(* read, the device opened, buffers of fixed sizes allocated, the sizes of  *)
(* the artifacts compared with them, and the artifacts loaded one by one.   *)
(* Whatever fails, the server serves from the CPU.                          *)
(***************************************************************************)
EXTENDS Integers, Sequences

CONSTANTS
  MaxLayers,  \* bound: decoder layers an export has
  MaxSeq      \* positions the server asks for

C == 960  VOCAB == 49280  FFN_DIM == 2560  NUM_LAYERS == 32  CONNECTOR_IN == 12288
kHwMaxSeq == 2048
Absent == -1

(* In the order in which they are loaded.  *)
Artifacts == <<"vision_wgt", "vision_meta", "connector_wgt", "connector_meta",
               "weights_half0", "weights_half1", "meta_half0", "meta_half1",
               "gamma_attn", "gamma_ffn", "lmhead_wgt_half0", "lmhead_wgt_half1",
               "lmhead_meta_half0", "lmhead_meta_half1">>
Names == {Artifacts[i] : i \in DOMAIN Artifacts}

VARIABLES
  pc,      \* how far the creation has come
  layers,  \* decoder layers of the export
  bytes,   \* size of each artifact, or Absent
  bo,      \* size of the buffer of each artifact
  loaded,  \* artifacts loaded so far
  fault    \* a device, memory or file operation failed
vars == <<pc, layers, bytes, bo, loaded, fault>>

-----------------------------------------------------------------------------
(* The export of a model with n decoder layers, and what its check demands.   *)

packed_w4_bytes(k, n) == (k * n) \div 2
meta_bytes(k, n) == n * (k \div 32) * 2
decoder_half_wgt_bytes ==
  (packed_w4_bytes(C, 1600) + packed_w4_bytes(C, C) + packed_w4_bytes(C, 2 * FFN_DIM)
   + packed_w4_bytes(FFN_DIM, C)) \div 2
decoder_half_meta_bytes ==
  (meta_bytes(C, 1600) + meta_bytes(C, C) + meta_bytes(C, 2 * FFN_DIM)
   + meta_bytes(FFN_DIM, C)) \div 2

Exported(a, n) ==
  CASE a = "vision_wgt" -> packed_w4_bytes(768, 768 + 12 * (2304 + 768 + 3072 + 3072))
    [] a = "vision_meta" -> meta_bytes(768, 768 + 12 * (2304 + 768 + 3072 + 3072))
    [] a = "connector_wgt" -> packed_w4_bytes(CONNECTOR_IN, C)
    [] a = "connector_meta" -> meta_bytes(CONNECTOR_IN, C)
    [] a \in {"weights_half0", "weights_half1"} -> n * decoder_half_wgt_bytes
    [] a \in {"meta_half0", "meta_half1"} -> n * decoder_half_meta_bytes
    [] a \in {"gamma_attn", "gamma_ffn"} -> n * C
    [] a \in {"lmhead_wgt_half0", "lmhead_wgt_half1"} -> packed_w4_bytes(C, VOCAB) \div 2
    [] a \in {"lmhead_meta_half0", "lmhead_meta_half1"} -> meta_bytes(C, VOCAB) \div 2

Accepted == layers = NUM_LAYERS /\ \A a \in Names : bytes[a] = Exported(a, NUM_LAYERS)

-----------------------------------------------------------------------------
(* The buffers.  Both halves of an lm_head artifact share one.                *)

layer_wgt_bytes ==
  (C * 1600) \div 2 + (C * C) \div 2 + (C * FFN_DIM * 2) \div 2 + (FFN_DIM * C) \div 2
decoder_wgt_bytes == layer_wgt_bytes * NUM_LAYERS
decoder_meta_bytes == (decoder_wgt_bytes \div 32) * 2
Allocated(a) ==
  CASE a = "vision_wgt" -> 128 * 1024 * 1024
    [] a = "vision_meta" -> 16 * 1024 * 1024
    [] a = "connector_wgt" -> (CONNECTOR_IN * C) \div 2
    [] a = "connector_meta" -> ((CONNECTOR_IN * C) \div 32) * 2
    [] a \in {"weights_half0", "weights_half1"} -> decoder_wgt_bytes \div 2
    [] a \in {"meta_half0", "meta_half1"} -> decoder_meta_bytes \div 2
    [] a \in {"gamma_attn", "gamma_ffn"} -> C
    [] a \in {"lmhead_wgt_half0", "lmhead_wgt_half1"} -> (C * VOCAB) \div 2
    [] a \in {"lmhead_meta_half0", "lmhead_meta_half1"} -> ((C * VOCAB) \div 32) * 2

(* Where in its buffer an artifact starts.  *)
Start(a) ==
  CASE a = "lmhead_wgt_half1" -> bytes["lmhead_wgt_half0"]
    [] a = "lmhead_meta_half1" -> bytes["lmhead_meta_half0"]
    [] OTHER -> 0

(* allocate_buffers compares all artifacts with their buffers but the gammas. *)
FitsAll ==
  \A a \in Names \ {"gamma_attn", "gamma_ffn"} : Start(a) + bytes[a] <= bo[a]

-----------------------------------------------------------------------------
Init ==
  /\ pc = "configure" /\ loaded = 0 /\ fault = FALSE
  /\ layers \in 0 .. MaxLayers
  /\ \E lost \in Names \cup {"none"} :
       bytes = [a \in Names |-> IF a = lost THEN Absent ELSE Exported(a, layers)]
  /\ bo = [a \in Names |-> 0]

(* Nothing is left of a creation that failed, and the server goes on without. *)
Fallback == pc' = "cpu" /\ UNCHANGED <<layers, bytes, bo, loaded>>
Refused == Fallback /\ UNCHANGED fault
Faulty == Fallback /\ fault' = TRUE
Proceed(next) == pc' = next /\ UNCHANGED <<layers, bytes, fault>>

(* The environment asks for the FPGA and names both files, or it does not.    *)
Configure ==
  /\ pc = "configure"
  /\ \/ Proceed("manifest") /\ UNCHANGED <<bo, loaded>>
     \/ Faulty

(* An artifact that does not exist fails already here.  *)
LoadManifest ==
  /\ pc = "manifest"
  /\ IF \E a \in Names : bytes[a] = Absent
     THEN Refused
     ELSE \/ Proceed("open") /\ UNCHANGED <<bo, loaded>>
          \/ Faulty

OpenDevice ==
  /\ pc = "open"
  /\ \/ IF MaxSeq \in 1 .. kHwMaxSeq
        THEN Proceed("allocate") /\ UNCHANGED <<bo, loaded>>
        ELSE Refused
     \/ Faulty

AllocateBuffers ==
  /\ pc = "allocate"
  /\ \/ Proceed("fit") /\ bo' = [a \in Names |-> Allocated(a)] /\ UNCHANGED loaded
     \/ Faulty

RequireFit ==
  /\ pc = "fit"
  /\ IF FitsAll THEN Proceed("load") /\ UNCHANGED <<bo, loaded>> ELSE Refused

LoadArtifact ==
  /\ pc = "load" /\ loaded < Len(Artifacts)
  /\ LET a == Artifacts[loaded + 1] IN
     \/ IF Start(a) + bytes[a] <= bo[a]
        THEN Proceed("load") /\ loaded' = loaded + 1 /\ UNCHANGED bo
        ELSE Refused
     \/ Faulty

Created ==
  /\ pc = "load" /\ loaded = Len(Artifacts)
  /\ Proceed("fpga") /\ UNCHANGED <<bo, loaded>>

Next == Configure \/ LoadManifest \/ OpenDevice \/ AllocateBuffers \/ RequireFit
        \/ LoadArtifact \/ Created
Spec == Init /\ [][Next]_vars

-----------------------------------------------------------------------------
(* A session has been created, and the FPGA path is in use.  *)
Enabled == pc = "fpga"

(* check_hardware_export.py calls an export valid whose gamma files hold all  *)
(* layers and whose meta halves have the size it computes: if nothing fails,  *)
(* the server starts a session with it.                                       *)
ValidExportStarts == Accepted /\ ~fault => pc # "cpu"

(* Of all exports, whole or short of a file, a session only ever starts from  *)
(* one with a single decoder layer, or none: allocate_buffers makes room for  *)
(* one layer's gammas.  The kernel is then launched for all 32.               *)
SessionIsOneLayer == Enabled => layers <= 1
=============================================================================
