----------------------------- MODULE MCDmaFrame -----------------------------
(* Small instances of DmaFrame: the laser's frames of 5 bytes and the      *)
(* handles' frames of 9.                                                   *)
EXTENDS DmaFrame
=============================================================================
