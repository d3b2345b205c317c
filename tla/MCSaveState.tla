---------------------------- MODULE MCSaveState ----------------------------
(* Two of the fourteen sections: the first, which carries the program        *)
(* counter, and the last.                                                    *)
EXTENDS SaveState

MCOrder == <<"CPU", "DIRTY">>
=============================================================================
