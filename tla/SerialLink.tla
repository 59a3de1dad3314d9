----------------------------- MODULE SerialLink ------------------------------
(***************************************************************************)
(* The USB Serial/JTAG route from end to end: a controller sends TLV       *)
(* frames in USB packets, the driver keeps them in its ring,               *)
(* serial_rx_task of main/serial_transport.c reads the ring piece by piece *)
(* and feeds each piece to its parser (TlvStream), and the parser hands    *)
(* the frames to protocol_tlv_receive_frame, which calls the handler for   *)
(* those it accepts.                                                       *)
(*                                                                         *)
(* USB loses nothing, and the driver is taken to let the controller wait   *)
(* while its ring is full; TlvLink is about lines that lose bytes.         *)
(***************************************************************************)
EXTENDS TlvStream, SequencesExt

CONSTANTS
  Frames,      \* the frames the controller sends, without the sync pair
  Foreign,     \* frames of a newer controller, that this firmware refuses
  MaxFrames,   \* bound: frames sent that the firmware accepts
  MaxForeign,  \* bound: frames sent that it refuses
  RingSize,    \* SERIAL_RX_BUF_SIZE, the size of the ring and of rx_buffer
  PacketSize   \* the bytes of a USB packet

(* A payload may hold anything, a sync pair too.  Not so the payload of a  *)
(* refused frame: the parser does not skip it but reads on within it.      *)
ASSUME SerialAssumption ==
  /\ \A f \in Frames : f \in Seq(Byte) /\ Dispatches(f) /\ Len(f) - 3 <= MaxPayload
  /\ \A f \in Foreign : f \in Seq(Byte \ {SYNC0}) /\ Len(f) >= 3 /\ f[1] \notin ValidTypes
  /\ PacketSize \in Nat \ {0} /\ RingSize \in Nat /\ PacketSize <= RingSize

VARIABLES
  out,         \* what the controller has not sent yet of its last frame
  sent,        \* the frames for this firmware that it has begun to send
  foreign,     \* counter of the others
  ring,        \* the driver's ring
  piece,       \* rx_buffer: what is not fed yet of the bytes read last
  waits,       \* the task is in the read that waits for bytes
  handled      \* history: the frames the handler was called for

senderVars == <<out, sent, foreign>>
taskVars == <<ring, piece, waits>>
serialVars == <<senderVars, taskVars, handled>>
allVars == <<vars, serialVars>>

SerialInit ==
  /\ Init
  /\ out = <<>> /\ sent = <<>> /\ foreign = 0
  /\ ring = <<>> /\ piece = <<>> /\ waits = TRUE
  /\ handled = <<>>

-----------------------------------------------------------------------------
(* The controller and the driver.                                          *)

StartFrame(f) ==
  /\ out = <<>>
  /\ Len(sent) < MaxFrames
  /\ out' = <<SYNC0, SYNC1>> \o f
  /\ sent' = Append(sent, f)
  /\ UNCHANGED <<vars, foreign, taskVars, handled>>

StartForeign(f) ==
  /\ out = <<>>
  /\ foreign < MaxForeign
  /\ out' = <<SYNC0, SYNC1>> \o f
  /\ foreign' = foreign + 1
  /\ UNCHANGED <<vars, sent, taskVars, handled>>

(* A packet reaches the ring, or waits until there is room for it.         *)
Packet(n) ==
  /\ n <= Len(out)
  /\ Len(ring) + n <= RingSize
  /\ ring' = ring \o SubSeq(out, 1, n)
  /\ out' = SubSeq(out, n + 1, Len(out))
  /\ UNCHANGED <<vars, sent, foreign, piece, waits, handled>>

-----------------------------------------------------------------------------
(* serial_rx_task.                                                         *)

(* A read takes what is there, up to the end of the ring's memory.         *)
ReadSome(n) ==
  /\ piece = <<>>
  /\ n <= Len(ring)
  /\ piece' = SubSeq(ring, 1, n)
  /\ ring' = SubSeq(ring, n + 1, Len(ring))
  /\ waits' = FALSE
  /\ UNCHANGED <<vars, senderVars, handled>>

(* usb_serial_jtag_read_bytes with portMAX_DELAY.                          *)
Read(n) == waits /\ ReadSome(n)

(* Mutant: what is read to drain the ring is not fed.                      *)
DrainForgets(n) ==
  /\ ~waits /\ piece = <<>>
  /\ n <= Len(ring)
  /\ ring' = SubSeq(ring, n + 1, Len(ring))
  /\ UNCHANGED <<vars, senderVars, piece, waits, handled>>

(* The read of the inner loop, which does not wait.                        *)
Drain(n) == ~waits /\ ReadSome(n)

DrainEnds ==
  /\ ~waits /\ piece = <<>> /\ ring = <<>>
  /\ waits' = TRUE
  /\ UNCHANGED <<vars, senderVars, ring, piece, handled>>

(* protocol_tlv_receive_frame, the parser's callback: if a frame is handed *)
(* over and passes the checks, the handler is called for it.               *)
ReceiveFrame ==
  \/ /\ delivered' # delivered
     /\ Dispatches(Last(delivered').bytes)
     /\ handled' = Append(handled, Last(delivered').bytes)
  \/ /\ delivered' # delivered => ~Dispatches(Last(delivered').bytes)
     /\ UNCHANGED handled

(* tlv_feed: tlv_stream_feed takes the next byte.                          *)
TakeByte ==
  /\ piece # <<>>
  /\ Feed(Head(piece))
  /\ ReceiveFrame
  /\ piece' = Tail(piece)
  /\ UNCHANGED <<senderVars, ring, waits>>

SerialTask ==
  \/ \E n \in 1 .. RingSize : Read(n) \/ Drain(n)
  \/ DrainEnds
  \/ TakeByte

SomePacket == \E n \in 1 .. PacketSize : Packet(n)

SerialNext ==
  \/ \E f \in Frames : StartFrame(f)
  \/ \E f \in Foreign : StartForeign(f)
  \/ SomePacket
  \/ SerialTask

(* A controller that has begun a frame sends all of it, and the task runs. *)
SerialSpec ==
  /\ SerialInit /\ [][SerialNext]_allVars
  /\ WF_allVars(SomePacket) /\ WF_allVars(SerialTask)

-----------------------------------------------------------------------------
(* Properties.                                                             *)

(* The route is a reliable channel from the controller to the handler:     *)
(* however the packets fall, however the ring is read, whatever the        *)
(* payloads hold and whatever a newer controller sends in between.         *)
Channel == INSTANCE FrameChannel WITH got <- handled

ImplementsChannel == Channel!Spec

(* Nothing is held back: when the task waits and no byte is on its way,    *)
(* every frame has been handled; none needs the next one to push it out.   *)
QuietMeansHandled ==
  out = <<>> /\ ring = <<>> /\ waits => handled = sent
=============================================================================
