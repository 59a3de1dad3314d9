---------------------------- MODULE MCUartIngress ----------------------------
(* Instances of UartIngress for TLC.                                       *)
EXTENDS UartIngress
=============================================================================
