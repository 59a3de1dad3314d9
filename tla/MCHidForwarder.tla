--------------------------- MODULE MCHidForwarder ---------------------------
(* Instances of HidForwarder for TLC.                                      *)
EXTENDS HidForwarder, TLC

(* The receive tasks run the same code.                                    *)
Symmetry == Permutations(Rx)
=============================================================================
