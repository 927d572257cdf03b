------------------------ MODULE HardwareSessionProofs -------------------------
(***************************************************************************)
(* From which exports an FPGA session can start.                            *)
(***************************************************************************)
EXTENDS HardwareSession, TLAPS

(* The gammas: their file has the size of the layers exported, their buffer   *)
(* that of one layer, and they are the ninth artifact loaded.                 *)
GammaInv ==
  /\ layers \in Nat /\ loaded \in Nat
  /\ bytes["gamma_attn"] \in {Absent, layers * C}
  /\ pc \notin {"configure", "manifest", "cpu"} => bytes["gamma_attn"] = layers * C
  /\ pc \in {"fit", "load", "fpga"} => bo["gamma_attn"] = C
  /\ pc \notin {"load", "fpga", "cpu"} => loaded = 0
  /\ loaded >= 9 => layers <= 1
  /\ pc = "fpga" => loaded = Len(Artifacts)

(* Two facts about the list of artifacts.  *)
LEMMA GammaIsNinth ==
  Len(Artifacts) = 14 /\ Artifacts[9] = "gamma_attn" /\ "gamma_attn" \in Names
BY DEF Artifacts, Names

LEMMA ExportedGamma ==
  ASSUME NEW n \in Nat
  PROVE  Exported("gamma_attn", n) = n * C
<1>1. n * C \in Nat  BY DEF C
<1> QED  BY <1>1 DEF Exported

LEMMA AllocatedGamma == Allocated("gamma_attn") = C
BY DEF Allocated

(* The gamma file goes to the start of its buffer.  *)
LEMMA StartGamma == Start("gamma_attn") = 0
BY DEF Start

LEMMA InitGamma ==
  ASSUME MaxLayers \in Nat, Init
  PROVE  GammaInv
<1>1. layers \in Nat /\ loaded = 0 /\ pc = "configure"  BY DEF Init
<1>2. PICK lost \in Names \cup {"none"} :
        bytes = [a \in Names |-> IF a = lost THEN Absent ELSE Exported(a, layers)]
  BY DEF Init
<1>3. bytes["gamma_attn"] \in {Absent, layers * C}
  <2>1. "gamma_attn" \in Names  BY GammaIsNinth
  <2>2. Exported("gamma_attn", layers) = layers * C  BY <1>1, ExportedGamma
  <2> QED  BY <1>2, <2>1, <2>2
<1> QED  BY <1>1, <1>3 DEF GammaInv

LEMMA NextGamma ==
  ASSUME GammaInv, [Next]_vars
  PROVE  GammaInv'
<1> USE DEF Proceed, Fallback, Refused, Faulty
<1>1. CASE Configure
  BY <1>1 DEF Configure, GammaInv
<1>2. CASE LoadManifest
  <2>1. CASE Refused  BY <1>2, <2>1 DEF LoadManifest, GammaInv
  <2>2. CASE Faulty  BY <1>2, <2>2 DEF LoadManifest, GammaInv
  <2>3. CASE ~ (\E a \in Names : bytes[a] = Absent) /\ Proceed("open") /\ UNCHANGED <<bo, loaded>>
    <3>1. bytes["gamma_attn"] # Absent  BY <2>3, GammaIsNinth
    <3> QED  BY <1>2, <2>3, <3>1 DEF LoadManifest, GammaInv
  <2> QED  BY <1>2, <2>1, <2>2, <2>3 DEF LoadManifest
<1>3. CASE OpenDevice
  BY <1>3 DEF OpenDevice, GammaInv
<1>4. CASE AllocateBuffers
  <2>1. CASE Faulty  BY <1>4, <2>1 DEF AllocateBuffers, GammaInv
  <2>2. CASE bo' = [a \in Names |-> Allocated(a)]
    <3>1. bo'["gamma_attn"] = C  BY <2>2, GammaIsNinth, AllocatedGamma
    <3> QED  BY <1>4, <3>1 DEF AllocateBuffers, GammaInv
  <2> QED  BY <1>4, <2>1, <2>2 DEF AllocateBuffers
<1>5. CASE RequireFit
  BY <1>5 DEF RequireFit, GammaInv
<1>6. CASE LoadArtifact
  <2>1. CASE Refused \/ Faulty  BY <1>6, <2>1 DEF LoadArtifact, GammaInv
  <2>2. CASE /\ Start(Artifacts[loaded + 1]) + bytes[Artifacts[loaded + 1]] <= bo[Artifacts[loaded + 1]]
             /\ Proceed("load") /\ loaded' = loaded + 1 /\ UNCHANGED bo
    <3>1. pc = "load" /\ loaded \in Nat  BY <1>6 DEF LoadArtifact, GammaInv
    <3>2. CASE loaded + 1 = 9
      <4>1. Artifacts[loaded + 1] = "gamma_attn"  BY <3>2, GammaIsNinth
      <4>2. layers * C <= C
        BY <2>2, <3>1, <4>1, StartGamma DEF GammaInv, C
      <4>3. layers <= 1  BY <4>2 DEF GammaInv, C
      <4> QED  BY <2>2, <3>1, <4>3 DEF GammaInv
    <3>3. CASE loaded + 1 # 9
      BY <2>2, <3>1, <3>3 DEF GammaInv
    <3> QED  BY <3>2, <3>3
  <2> QED  BY <1>6, <2>1, <2>2 DEF LoadArtifact
<1>7. CASE Created
  BY <1>7 DEF Created, GammaInv
<1>8. CASE UNCHANGED vars
  BY <1>8 DEF vars, GammaInv
<1> QED  BY <1>1, <1>2, <1>3, <1>4, <1>5, <1>6, <1>7, <1>8 DEF Next

(* Whatever fails or not: a session is only ever created from an export of a  *)
(* single decoder layer (smolvlm2_xrt_runner.cpp:93, 142).                    *)
THEOREM SessionFromOneLayer ==
  ASSUME MaxLayers \in Nat
  PROVE  Spec => []SessionIsOneLayer
<1>1. Init => GammaInv  BY InitGamma
<1>2. GammaInv /\ [Next]_vars => GammaInv'  BY NextGamma
<1>3. GammaInv => SessionIsOneLayer
  BY GammaIsNinth DEF GammaInv, SessionIsOneLayer, Enabled
<1> QED  BY <1>1, <1>2, <1>3, PTL DEF Spec

(* So none that the repository's check of an export accepts ever gets one     *)
(* (check_hardware_export.py:139-140).                                        *)
THEOREM AcceptedNeverEnabled ==
  ASSUME MaxLayers \in Nat
  PROVE  Spec => [](Accepted => ~Enabled)
<1>1. Spec => []SessionIsOneLayer  BY SessionFromOneLayer
<1>2. SessionIsOneLayer => (Accepted => ~Enabled)
  BY DEF SessionIsOneLayer, Accepted, NUM_LAYERS
<1> QED  BY <1>1, <1>2, PTL
=============================================================================
