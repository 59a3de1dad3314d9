------------------------------ MODULE TlvStream ------------------------------
(***************************************************************************)
(* main/tlv_stream.c: one transport cuts its byte stream into frames       *)
(*                                                                         *)
(*     SYNC0 SYNC1 type length-msb length-lsb payload                      *)
(*                                                                         *)
(* and hands every complete frame, without the two sync bytes, to          *)
(* protocol_tlv_receive_frame, which checks it again before it decodes it. *)
(* There is no checksum and no escape: a sync pair inside a payload looks  *)
(* like the beginning of a frame to a parser that has lost its place.      *)
(*                                                                         *)
(* A step is one turn of the loop of tlv_stream_feed; where one call ends  *)
(* and the next begins does not matter, the parser's state is kept.        *)
(***************************************************************************)
EXTENDS TlvFormat

CONSTANT MaxBytes  \* bound: bytes fed to the parser

VARIABLES
  state,      \* tlv_stream_t: what the next byte is taken for
  type,       \* tlv_stream_t: the type of the frame being read
  expected,   \* tlv_stream_t: its payload length
  received,   \* tlv_stream_t: payload bytes read so far
  frame,      \* tlv_stream_t: the buffer of CONFIG_APP_TLV_MAX_PAYLOAD + 3
  wire,       \* history: every byte fed
  delivered   \* history: the frames handed to the callback, and where the
              \* type byte of each was on the wire

stream == <<state, type, expected, received, frame>>
vars == <<stream, wire, delivered>>

States == {"SYNC0", "SYNC1", "TYPE", "LEN_MSB", "LEN_LSB", "PAYLOAD"}

FrameIndex == 0 .. MaxPayload + 2
ZeroFrame == [i \in FrameIndex |-> 0]

Init ==
  /\ state = "SYNC0"
  /\ type = 0
  /\ expected = 0
  /\ received = 0
  /\ frame = ZeroFrame
  /\ wire = <<>>
  /\ delivered = <<>>

-----------------------------------------------------------------------------
(* tlv_stream_feed: what each state makes of a byte.                       *)

(* tlv_stream_reset                                                        *)
Reset ==
  /\ state' = "SYNC0"
  /\ expected' = 0
  /\ received' = 0
  /\ frame' = ZeroFrame
  /\ UNCHANGED type

FeedSync0(byte) ==
  /\ state = "SYNC0"
  /\ state' = IF byte = SYNC0 THEN "SYNC1" ELSE "SYNC0"
  /\ UNCHANGED <<type, expected, received, frame, delivered>>

FeedSync1(byte) ==
  /\ state = "SYNC1"
  /\ state' = CASE byte = SYNC1 -> "TYPE"
                [] byte = SYNC0 -> "SYNC1"
                [] OTHER        -> "SYNC0"
  /\ UNCHANGED <<type, expected, received, frame, delivered>>

FeedInvalidType(byte) ==
  /\ state = "TYPE"
  /\ byte \notin ValidTypes
  /\ state' = IF byte = SYNC0 THEN "SYNC1" ELSE "SYNC0"
  /\ UNCHANGED <<type, expected, received, frame, delivered>>

FeedType(byte) ==
  /\ state = "TYPE"
  /\ byte \in ValidTypes
  /\ state' = "LEN_MSB"
  /\ type' = byte
  /\ frame' = [frame EXCEPT ![0] = byte]
  /\ UNCHANGED <<expected, received, delivered>>

(* Mutant: the high byte is shifted twice.                                 *)
FeedLenMsbShifted(byte) ==
  /\ state = "LEN_MSB"
  /\ state' = "LEN_LSB"
  /\ expected' = byte * ByteRadix * ByteRadix
  /\ frame' = [frame EXCEPT ![1] = byte]
  /\ UNCHANGED <<type, received, delivered>>

FeedLenMsb(byte) ==
  /\ state = "LEN_MSB"
  /\ state' = "LEN_LSB"
  /\ expected' = byte * ByteRadix
  /\ frame' = [frame EXCEPT ![1] = byte]
  /\ UNCHANGED <<type, received, delivered>>

(* The length is complete and sane.  A sane length is not 0: the callback  *)
(* call for a frame without payload is never reached.                      *)
FeedLenLsb(byte) ==
  /\ state = "LEN_LSB"
  /\ LengthIsSane(type, expected + byte)
  /\ state' = "PAYLOAD"
  /\ expected' = expected + byte
  /\ received' = 0
  /\ frame' = [frame EXCEPT ![2] = byte]
  /\ UNCHANGED <<type, delivered>>

(* Mutant: a length that makes no sense does not reset the parser.         *)
FeedInsaneLengthNoReset(byte) ==
  /\ state = "LEN_LSB"
  /\ ~LengthIsSane(type, expected + byte)
  /\ UNCHANGED <<stream, delivered>>

(* The length makes no sense: hunt for the next sync.                      *)
FeedInsaneLength(byte) ==
  /\ state = "LEN_LSB"
  /\ ~LengthIsSane(type, expected + byte)
  /\ Reset
  /\ UNCHANGED delivered

FeedPayload(byte) ==
  /\ state = "PAYLOAD"
  /\ received + 1 < expected
  /\ frame' = [frame EXCEPT ![3 + received] = byte]
  /\ received' = received + 1
  /\ UNCHANGED <<state, type, expected, delivered>>

(* Mutant: the frame is handed on before its last byte is stored.          *)
CompleteEarly(byte) ==
  [i \in 1 .. 3 + expected |-> frame[i - 1]]

(* What the callback gets when byte is the last of the frame.              *)
Complete(byte) ==
  [i \in 1 .. 3 + expected |-> IF i = 4 + received THEN byte ELSE frame[i - 1]]

(* Mutant: the parser is not reset behind a frame.                         *)
FeedLastNoReset(byte) ==
  /\ state = "PAYLOAD"
  /\ received + 1 >= expected
  /\ delivered' = Append(delivered, [start |-> Len(wire) - 2 - received,
                                     bytes |-> Complete(byte)])
  /\ UNCHANGED stream

FeedLast(byte) ==
  /\ state = "PAYLOAD"
  /\ received + 1 >= expected
  /\ delivered' = Append(delivered, [start |-> Len(wire) - 2 - received,
                                     bytes |-> Complete(byte)])
  /\ Reset

Feed(byte) ==
  /\ wire' = Append(wire, byte)
  /\ \/ FeedSync0(byte)
     \/ FeedSync1(byte)
     \/ FeedInvalidType(byte)
     \/ FeedType(byte)
     \/ FeedLenMsb(byte)
     \/ FeedLenLsb(byte)
     \/ FeedInsaneLength(byte)
     \/ FeedPayload(byte)
     \/ FeedLast(byte)

(* The receive task of the UART resets its parser when bytes were lost.    *)
Restart == Reset /\ UNCHANGED <<wire, delivered>>

Next ==
  \/ Len(wire) < MaxBytes /\ \E byte \in Byte : Feed(byte)
  \/ Restart

Spec == Init /\ [][Next]_vars

-----------------------------------------------------------------------------
(* Properties.                                                             *)

(* Every variable holds a value of its kind; in particular the 16-bit      *)
(* fields hold what the code computes without a wrap.                      *)
TypeOK ==
  /\ state \in States
  /\ type \in ValidTypes \union {0}
  /\ expected \in UInt16
  /\ received \in UInt16
  /\ frame \in [FrameIndex -> Byte]
  /\ wire \in Seq(Byte)
  /\ delivered \in Seq([start : Nat, bytes : Seq(Byte)])

(* The parser never stores a byte beyond its buffer, whatever comes over   *)
(* the wire, and never needs more of them than its buffer holds.           *)
FrameInBounds ==
  state = "PAYLOAD" => /\ received < expected
                       /\ 3 + received \in FrameIndex
                       /\ 2 + expected \in FrameIndex

(* The frame d was on the wire, byte for byte and without a gap, right     *)
(* behind a sync pair.                                                     *)
OnWire(d) ==
  /\ d.start >= 3
  /\ d.start + Len(d.bytes) <= Len(wire) + 1
  /\ wire[d.start - 2] = SYNC0 /\ wire[d.start - 1] = SYNC1
  /\ \A i \in 1 .. Len(d.bytes) : d.bytes[i] = wire[d.start + i - 1]

(* Nothing is delivered that was not sent: no stale byte of an earlier     *)
(* frame or of an earlier header, no byte left out.                        *)
DeliveredIsWire == \A n \in DOMAIN delivered : OnWire(delivered[n])

(* No byte is used twice: a frame and its sync pair lie behind the frame   *)
(* delivered before.                                                       *)
DeliveredApart ==
  \A n \in 1 .. Len(delivered) - 1 :
    delivered[n].start + Len(delivered[n].bytes) <= delivered[n + 1].start - 2

(* The two copies of the length rules agree: what the stream parser lets   *)
(* through, the decoder does not drop.                                     *)
ValidatorsAgree == \A n \in DOMAIN delivered : Dispatches(delivered[n].bytes)
=============================================================================
