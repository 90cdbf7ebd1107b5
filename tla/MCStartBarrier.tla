--------------------------- MODULE MCStartBarrier ---------------------------
(* Small instances of StartBarrier for TLC.                                *)
EXTENDS StartBarrier, TLC

CONSTANTS c1, c2, c3
=============================================================================
