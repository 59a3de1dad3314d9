------------------------------ MODULE MCMicRing ------------------------------
(* Instances of MicRing for TLC: two receive tasks.                        *)
EXTENDS MicRing

CONSTANTS uart, serial

Both == {uart, serial}
=============================================================================
