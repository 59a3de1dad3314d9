------------------------------ MODULE MCTlvLink ------------------------------
(***************************************************************************)
(* Instances of TlvLink, and of UdpListener, for TLC: bytes 0 .. 8, SYNC0  *)
(* = 7, SYNC1 = 8.  The payloads hold type and length values, so that a    *)
(* parser that lost its place can read a header in them and wait for as    *)
(* many bytes as possible.  The two routes share nothing.                  *)
(***************************************************************************)
EXTENDS TlvLink, UdpListener

(* The shortest, and one that announces the longest within.                *)
TwoTypes == { <<MOUSE, 0, 1, SYNC1>>,
              <<MICROPHONE, 0, 4, SYNC1, MICROPHONE, 0, 6>> }

Zeros(n) == [i \in 1 .. n |-> 0]
Datagram(t, announced, payload) ==
  <<SYNC0, SYNC1, t, announced \div ByteRadix, announced % ByteRadix>> \o payload

(* A whole frame of every type and of every length around the limit, and   *)
(* what is no frame: the fault of each check, and a datagram that is cut.  *)
SomeDatagrams ==
  { Datagram(KEYBOARD, 2, <<5, 0>>), Datagram(MOUSE, 2, <<1, 1>>) }
  \union { Datagram(MICROPHONE, n, Zeros(n)) : n \in 0 .. MaxPayload + 1 }
  \union { Datagram(MICROPHONE, MaxPayload - 2, Zeros(MaxPayload + 3)),
           Datagram(MICROPHONE, 4, Zeros(2)), Datagram(MOUSE, 1, Zeros(2)),
           Datagram(0, 1, <<0>>), <<SYNC0, SYNC1, KEYBOARD, 0>>,
           <<SYNC0, KEYBOARD, 0, 1, 0, 0>>, <<>> }

VARIABLE route

MCInit == LinkInit /\ UdpInit /\ route \in {"line", "network"}

MCNext ==
  /\ \/ route = "line" /\ LinkNext /\ UNCHANGED udpVars
     \/ route = "network" /\ UdpNext /\ UNCHANGED allVars
  /\ UNCHANGED route

MCSpec == MCInit /\ [][MCNext]_<<allVars, udpVars, route>>
=============================================================================
