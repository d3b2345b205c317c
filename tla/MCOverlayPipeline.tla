------------------------- MODULE MCOverlayPipeline -------------------------
(* Two entry addresses with two contents of the snapshot window each: those *)
(* of the first compile to the same fragment, those of the second do not.   *)
(* The memo of tried addresses holds one address only, so that the other is *)
(* offered to the worker repeatedly, and the table holds two of the three   *)
(* shards.                                                                  *)
EXTENDS OverlayPipeline

CONSTANTS p1, p2

MCKeys == {<<p1, 1>>, <<p1, 2>>, <<p2, 1>>, <<p2, 2>>}
MCFileOf == [k \in MCKeys |-> IF k[1] = p1 THEN <<p1, 1>> ELSE k]
=============================================================================
