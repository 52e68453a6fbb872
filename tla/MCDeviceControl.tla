--------------------------- MODULE MCDeviceControl ---------------------------
(* Finite instances of DeviceControl for TLC.                                *)
EXTENDS DeviceControl, TLC

(* Sessions, ids and requests are interchangeable; only safety is checked    *)
(* with it.                                                                  *)
Symmetry ==
  Permutations(Sessions) \cup Permutations(Ops) \cup Permutations(Pollers)
==============================================================================
