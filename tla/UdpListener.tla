----------------------------- MODULE UdpListener -----------------------------
(***************************************************************************)
(* udp_listener_task of main/network_transport.c: one datagram holds one   *)
(* frame with its sync pair.  The network, and lwIP's mailbox of six, may  *)
(* lose, repeat and reorder datagrams: recvfrom gets whichever it gets.    *)
(* An error of recvfrom is waited out and changes nothing.                 *)
(*                                                                         *)
(* The buffer has room for the longest payload and a frame's header, but   *)
(* not for the sync pair in front of it; recvfrom cuts what does not fit.  *)
(***************************************************************************)
EXTENDS TlvFormat

CONSTANTS
  Datagrams,   \* what may come over the network
  MaxHeard     \* bound: datagrams received

ASSUME DatagramsAssumption == Datagrams \subseteq Seq(Byte)

VARIABLES
  buffer,      \* the task's buffer, of CONFIG_APP_TLV_MAX_PAYLOAD + 3 bytes
  heard,       \* history: the datagrams received
  forwarded    \* history: the frames handed to the callback, and from which
               \* datagram each came

udpVars == <<buffer, heard, forwarded>>

BufferLen == MaxPayload + 3

UdpInit ==
  /\ buffer = [i \in 1 .. BufferLen |-> 0]
  /\ heard = <<>>
  /\ forwarded = <<>>

(* Mutant: the size of the datagram is not compared with its header.       *)
PassesAnyLength(b, len) ==
  /\ len >= 5
  /\ b[1] = SYNC0 /\ b[2] = SYNC1
  /\ b[3] \in ValidTypes
  /\ b[4] * ByteRadix + b[5] <= MaxPayload - 2

(* Mutant: the limit of the payload counts the sync pair twice.            *)
PassesShorter(b, len) ==
  /\ len >= 5
  /\ b[1] = SYNC0 /\ b[2] = SYNC1
  /\ b[3] \in ValidTypes
  /\ b[4] * ByteRadix + b[5] < MaxPayload - 2
  /\ len = b[4] * ByteRadix + b[5] + 5

(* The checks, in the code's order; len is what recvfrom returned.         *)
Passes(b, len) ==
  /\ len >= 5
  /\ b[1] = SYNC0 /\ b[2] = SYNC1
  /\ b[3] \in ValidTypes
  /\ LET payload_len == b[4] * ByteRadix + b[5] IN
     /\ payload_len <= MaxPayload
     /\ len = payload_len + 5

(* One turn of the loop.  network_transport_start has set the callback     *)
(* before it creates the task.                                             *)
Receive(d) ==
  LET len == IF Len(d) < BufferLen THEN Len(d) ELSE BufferLen
      read == [i \in 1 .. BufferLen |-> IF i <= len THEN d[i] ELSE buffer[i]]
      payload_len == read[4] * ByteRadix + read[5]
  IN
  /\ Len(heard) < MaxHeard
  /\ buffer' = read
  /\ heard' = Append(heard, d)
  /\ forwarded' =
       IF Passes(read, len)
       THEN Append(forwarded, [from |-> Len(heard) + 1,
                               bytes |-> SubSeq(read, 3, payload_len + 5)])
       ELSE forwarded

UdpNext == \E d \in Datagrams : Receive(d)

UdpSpec == UdpInit /\ [][UdpNext]_udpVars

-----------------------------------------------------------------------------
(* Properties.                                                             *)

Announced(d) == d[4] * ByteRadix + d[5]

(* What a controller sends: a sync pair, a type, and the payload that its  *)
(* length announces.                                                       *)
WellFormed(d) ==
  /\ Len(d) >= 5
  /\ d[1] = SYNC0 /\ d[2] = SYNC1 /\ d[3] \in ValidTypes
  /\ Len(d) = Announced(d) + 5

(* What is forwarded was announced and was there: whatever came before, no *)
(* byte of the buffer's last datagram is taken for one of the new one.     *)
ForwardedWasThere ==
  \A n \in DOMAIN forwarded :
    LET d == heard[forwarded[n].from] IN
    /\ Len(d) >= Announced(d) + 5
    /\ forwarded[n].bytes = SubSeq(d, 3, Announced(d) + 5)

Arrives(i) == \E n \in DOMAIN forwarded : forwarded[n].from = i

(* A datagram has a fate of its own: no other one, lost, odd, repeated or  *)
(* cut, keeps a whole frame that fits the buffer from its callback, and    *)
(* none helps a longer one to it.                                          *)
FateOfItsOwn ==
  \A i \in DOMAIN heard :
    WellFormed(heard[i]) => (Arrives(i) <=> Len(heard[i]) <= BufferLen)

(* main/Kconfig.projbuild:41 has the payloads above the limit dropped, and *)
(* so the others accepted.  The two longest of those never arrive: the     *)
(* buffer has no room for the sync pair in front of them.                  *)
AcceptsUpToLimit ==
  \A i \in DOMAIN heard :
    WellFormed(heard[i]) /\ Announced(heard[i]) <= MaxPayload => Arrives(i)

(* The network and the byte streams let the same frames through to the     *)
(* handler, although the listener leaves the rules of each type's length   *)
(* to protocol_tlv_receive_frame.                                          *)
RoutesAgree ==
  \A n \in DOMAIN forwarded :
    LET f == forwarded[n].bytes IN
    Dispatches(f) <=> LengthIsSane(f[1], Len(f) - 3)
=============================================================================
