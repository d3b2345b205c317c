-------------------------- MODULE MCCompileWorker --------------------------
(* A small instance of the worker with its array: more keys than the dedup  *)
(* map holds, so that it evicts, and a queue shorter than the map, so that  *)
(* it fills.                                                                *)
EXTENDS WorkRing

CONSTANTS k1, k2, k3, k4

MCKeys == {k1, k2, k3, k4}
=============================================================================
