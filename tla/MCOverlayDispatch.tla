------------------------- MODULE MCOverlayDispatch -------------------------
(* Small instances of OverlayDispatch: two images that alternate in one     *)
(* slot, and a second function on the same page.                            *)
EXTENDS OverlayDispatch

CONSTANTS f, g, A, B, p

OnePage == [a \in Addrs |-> p]
OneVariant == <<[addr |-> f, img |-> A]>>
ThreeDlls == <<[addr |-> f, img |-> A], [addr |-> g, img |-> A], [addr |-> f, img |-> B]>>
NoFns == <<>>
=============================================================================
