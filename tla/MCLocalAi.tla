------------------------------ MODULE MCLocalAi ------------------------------
(* Two models of which the cache holds one, two acquisitions and two         *)
(* inferences.                                                               *)
EXTENDS LocalAi

MCFileSizeOf == [m1 |-> 10, m2 |-> 10]
MCFormatOf == [m1 |-> "gguf", m2 |-> "onnx"]
MCProfiles == {[ram |-> 40, vram |-> 20], [ram |-> 40, vram |-> 0]}
MCBudgets == {[ram |-> 0, vram |-> 0]}
==============================================================================
