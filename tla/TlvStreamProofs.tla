--------------------------- MODULE TlvStreamProofs ---------------------------
(* Theorems about TlvStream, for every size of the payloads, of a byte and *)
(* of the buffer that LengthAssumption allows.                             *)
EXTENDS TlvStream, SequenceTheorems, TLAPS

-----------------------------------------------------------------------------
(* The inductive invariant.                                                *)

InFrame == {"TYPE", "LEN_MSB", "LEN_LSB", "PAYLOAD"}

(* How many bytes of the frame under way the parser has stored.            *)
Taken ==
  CASE state = "LEN_MSB" -> 1
    [] state = "LEN_LSB" -> 2
    [] state = "PAYLOAD" -> 3 + received
    [] OTHER             -> 0

(* The parser knows its place: the bytes it has stored are the last ones   *)
(* of the wire, and a sync pair is in front of them.                       *)
Placed ==
  /\ state = "SYNC1" => Len(wire) >= 1 /\ wire[Len(wire)] = SYNC0
  /\ state \in InFrame =>
       /\ Taken + 2 <= Len(wire)
       /\ wire[Len(wire) - Taken - 1] = SYNC0
       /\ wire[Len(wire) - Taken] = SYNC1
       /\ \A i \in 1 .. Taken : frame[i - 1] = wire[Len(wire) - Taken + i]

(* The fields are those of the header that was stored.                     *)
HeaderRead ==
  /\ state \in InFrame \ {"TYPE"} => type \in ValidTypes /\ frame[0] = type
  /\ state = "LEN_LSB" => expected = frame[1] * ByteRadix
  /\ state = "PAYLOAD" => /\ expected = frame[1] * ByteRadix + frame[2]
                          /\ LengthIsSane(type, expected)
                          /\ received < expected

StreamInv == TypeOK /\ Placed /\ HeaderRead

-----------------------------------------------------------------------------
(* Facts about bytes and lengths.                                          *)

LEMMA ByteFacts ==
  /\ SYNC0 \in Byte /\ SYNC1 \in Byte
  /\ 0 \in Byte
  /\ Byte \subseteq Nat
  BY ByteAssumption DEF Byte, MOUSE_ABSOLUTE

(* Two bytes make a 16-bit number.                                         *)
LEMMA TwoBytes ==
  ASSUME NEW a \in Byte, NEW b \in Byte
  PROVE  a * ByteRadix + b \in UInt16
<1>1. a \in Nat /\ b \in Nat /\ ByteRadix \in Nat
  BY ByteAssumption DEF Byte
<1>2. a <= ByteRadix - 1 /\ b <= ByteRadix - 1
  BY ByteAssumption DEF Byte
<1>3. a * ByteRadix <= (ByteRadix - 1) * ByteRadix
  BY <1>1, <1>2
<1>4. (ByteRadix - 1) * ByteRadix = ByteRadix * ByteRadix - ByteRadix
  BY <1>1
<1>5. a * ByteRadix \in Nat /\ ByteRadix * ByteRadix \in Nat
  BY <1>1
<1> QED BY <1>1, <1>2, <1>3, <1>4, <1>5 DEF UInt16

(* What tlv_length_is_sane accepts is not empty and fits the buffer.       *)
LEMMA SaneLength ==
  ASSUME NEW t, NEW n \in Nat, LengthIsSane(t, n)
  PROVE  n > 0 /\ n <= MaxPayload /\ t \in ValidTypes
  BY LengthAssumption DEF LengthIsSane, KEYBOARD, MOUSE, MOUSE_ABSOLUTE,
     MICROPHONE, ValidTypes

LEMMA InBounds ==
  ASSUME StreamInv
  PROVE  FrameInBounds
  BY SaneLength, LengthAssumption
  DEF StreamInv, TypeOK, HeaderRead, FrameInBounds, FrameIndex, UInt16

(* One more byte on the wire leaves the others where they are.             *)
LEMMA WireGrows ==
  ASSUME wire \in Seq(Byte), NEW byte \in Byte, wire' = Append(wire, byte)
  PROVE  /\ wire' \in Seq(Byte)
         /\ Len(wire') = Len(wire) + 1
         /\ wire'[Len(wire) + 1] = byte
         /\ \A i \in 1 .. Len(wire) : wire'[i] = wire[i]
  OBVIOUS

-----------------------------------------------------------------------------
(* Every step keeps the invariant.                                         *)

LEMMA ResetKeeps ==
  ASSUME StreamInv, Reset, wire' \in Seq(Byte),
         delivered' \in Seq([start : Nat, bytes : Seq(Byte)])
  PROVE  StreamInv'
<1>1. 0 \in UInt16
  BY SMTT(30), ByteAssumption DEF UInt16, MOUSE_ABSOLUTE
<1>2. frame' \in [FrameIndex -> Byte]
  BY ByteFacts DEF Reset, ZeroFrame
<1>3. TypeOK'
  BY <1>1, <1>2 DEF StreamInv, TypeOK, Reset, States
<1>4. Placed' /\ HeaderRead'
  BY DEF Placed, HeaderRead, Reset, InFrame
<1> QED BY <1>3, <1>4 DEF StreamInv

LEMMA HuntKeeps ==
  ASSUME StreamInv, NEW byte \in Byte, wire' = Append(wire, byte),
         FeedSync0(byte) \/ FeedSync1(byte) \/ FeedInvalidType(byte)
  PROVE  StreamInv'
<1>1. UNCHANGED <<type, expected, received, frame, delivered>>
  BY DEF FeedSync0, FeedSync1, FeedInvalidType
<1>2. /\ state' \in {"SYNC0", "SYNC1", "TYPE"}
      /\ state' = "SYNC1" => byte = SYNC0
      /\ state' = "TYPE" => state = "SYNC1" /\ byte = SYNC1
  BY DEF FeedSync0, FeedSync1, FeedInvalidType
<1>3. TypeOK'
  BY <1>1, <1>2, WireGrows DEF StreamInv, TypeOK, States
<1>4. Placed'
  BY <1>2, WireGrows DEF StreamInv, TypeOK, Placed, Taken, InFrame
<1>5. HeaderRead'
  BY <1>2 DEF HeaderRead, InFrame
<1> QED BY <1>3, <1>4, <1>5 DEF StreamInv

LEMMA HeaderKeeps ==
  ASSUME StreamInv, NEW byte \in Byte, wire' = Append(wire, byte),
         FeedType(byte) \/ FeedLenMsb(byte) \/ FeedLenLsb(byte)
  PROVE  StreamInv'
<1> USE DEF StreamInv
<1>0. 0 \in FrameIndex /\ 1 \in FrameIndex /\ 2 \in FrameIndex
  BY LengthAssumption DEF FrameIndex
<1>1. CASE FeedType(byte)
  <2>1. TypeOK'
    BY <1>0, <1>1, WireGrows DEF TypeOK, States, FeedType
  <2>2. Placed'
    BY <1>0, <1>1, WireGrows DEF TypeOK, Placed, Taken, InFrame, FeedType
  <2>3. HeaderRead'
    BY <1>0, <1>1 DEF TypeOK, HeaderRead, InFrame, FeedType
  <2> QED BY <2>1, <2>2, <2>3
<1>2. CASE FeedLenMsb(byte)
  <2>1. byte * ByteRadix \in UInt16
    <3>1. byte * ByteRadix + 0 \in UInt16
      BY TwoBytes, ByteFacts
    <3>2. byte * ByteRadix \in Nat
      BY ByteAssumption, ByteFacts
    <3> QED BY <3>1, <3>2
  <2>2. TypeOK'
    BY <1>0, <1>2, <2>1, WireGrows DEF TypeOK, States, FeedLenMsb
  <2>3. Placed'
    BY SMTT(30), <1>0, <1>2, WireGrows DEF TypeOK, Placed, Taken, InFrame, FeedLenMsb
  <2>4. HeaderRead'
    BY <1>0, <1>2 DEF TypeOK, HeaderRead, InFrame, FeedLenMsb
  <2> QED BY <2>2, <2>3, <2>4
<1>3. CASE FeedLenLsb(byte)
  <2>1. frame[1] \in Byte /\ expected = frame[1] * ByteRadix
    BY <1>0, <1>3 DEF TypeOK, HeaderRead, FeedLenLsb
  <2>2. expected + byte \in UInt16
    BY <2>1, TwoBytes
  <2>3. expected + byte > 0
    BY <1>3, <2>2, SaneLength DEF FeedLenLsb, UInt16
  <2>4. TypeOK'
    BY <1>0, <1>3, <2>2, WireGrows DEF TypeOK, States, FeedLenLsb, UInt16
  <2>5. Placed'
    BY <1>0, <1>3, WireGrows DEF TypeOK, Placed, Taken, InFrame, FeedLenLsb
  <2>6. HeaderRead'
    BY <1>0, <1>3, <2>1, <2>3 DEF TypeOK, HeaderRead, InFrame, FeedLenLsb
  <2> QED BY <2>4, <2>5, <2>6
<1> QED BY <1>1, <1>2, <1>3

(* Where the payload under way is.                                         *)
LEMMA PayloadPlaced ==
  ASSUME StreamInv, state = "PAYLOAD"
  PROVE  /\ received \in Nat /\ expected \in Nat /\ Len(wire) \in Nat
         /\ 5 + received <= Len(wire)
         /\ wire[Len(wire) - received - 4] = SYNC0
         /\ wire[Len(wire) - received - 3] = SYNC1
         /\ \A i \in 1 .. 3 + received :
              frame[i - 1] = wire[Len(wire) - 3 - received + i]
<1>1. Taken = 3 + received
  BY DEF Taken
<1>2. received \in Nat /\ expected \in Nat /\ Len(wire) \in Nat
  BY DEF StreamInv, TypeOK, UInt16
<1>3. /\ Taken + 2 <= Len(wire)
      /\ wire[Len(wire) - Taken - 1] = SYNC0
      /\ wire[Len(wire) - Taken] = SYNC1
      /\ \A i \in 1 .. Taken : frame[i - 1] = wire[Len(wire) - Taken + i]
  BY DEF StreamInv, Placed, InFrame
<1>4. /\ Len(wire) - Taken - 1 = Len(wire) - received - 4
      /\ Len(wire) - Taken = Len(wire) - 3 - received
      /\ Len(wire) - Taken = Len(wire) - received - 3
  BY <1>1, <1>2
<1> QED BY <1>1, <1>2, <1>3, <1>4

LEMMA PayloadKeeps ==
  ASSUME StreamInv, NEW byte \in Byte, wire' = Append(wire, byte),
         FeedPayload(byte)
  PROVE  StreamInv'
<1> USE DEF StreamInv
<1>1. 3 + received \in FrameIndex
  BY InBounds DEF FrameInBounds, FeedPayload
<1>2. /\ state = "PAYLOAD" /\ state' = "PAYLOAD"
      /\ received' = received + 1 /\ received + 1 < expected
      /\ frame' = [frame EXCEPT ![3 + received] = byte]
      /\ UNCHANGED <<type, expected, delivered>>
  BY DEF FeedPayload
<1>3. received \in Nat /\ expected \in Nat
  BY DEF TypeOK, UInt16
<1>4. received + 1 \in UInt16
  <2>1. ByteRadix * ByteRadix \in Nat
    BY ByteAssumption
  <2> QED BY <1>2, <1>3, <2>1 DEF TypeOK, UInt16
<1>5. TypeOK'
  BY <1>1, <1>2, <1>4, WireGrows DEF TypeOK
<1>6. Placed'
  <2>1. Taken' = 4 + received
    BY <1>2, <1>3 DEF Taken
  <2>2. Len(wire') - Taken' = Len(wire) - 3 - received
    BY <1>3, <2>1, PayloadPlaced, <1>2, WireGrows DEF TypeOK
  <2>3. \A i \in 1 .. 3 + received : frame'[i - 1] = frame[i - 1]
    BY <1>2, <1>3 DEF TypeOK
  <2>4. frame'[3 + received] = byte
    BY <1>1, <1>2 DEF TypeOK
  <2>5. Len(wire') - Taken' - 1 = Len(wire) - received - 4
    BY <1>2, <1>3, <2>1, PayloadPlaced, WireGrows DEF TypeOK
  <2>6. Taken' + 2 <= Len(wire')
    BY <1>2, <1>3, <2>1, PayloadPlaced, WireGrows DEF TypeOK
  <2>7. /\ wire'[Len(wire) - received - 4] = SYNC0
        /\ wire'[Len(wire) - 3 - received] = SYNC1
    <3>1. /\ Len(wire) - received - 4 \in 1 .. Len(wire)
          /\ Len(wire) - received - 3 \in 1 .. Len(wire)
          /\ Len(wire) - 3 - received = Len(wire) - received - 3
      BY <1>2, <1>3, PayloadPlaced
    <3> QED BY <1>2, <3>1, PayloadPlaced, WireGrows DEF TypeOK
  <2>8. ASSUME NEW i \in 1 .. 4 + received
        PROVE  frame'[i - 1] = wire'[Len(wire) - 3 - received + i]
    <3>1. CASE i = 4 + received
      BY <1>2, <1>3, <2>4, <3>1, PayloadPlaced, WireGrows DEF TypeOK
    <3>2. CASE i # 4 + received
      <4>1. i \in 1 .. 3 + received
        BY <1>3, <3>2
      <4>2. Len(wire) - 3 - received + i \in 1 .. Len(wire)
        BY <1>2, <1>3, <4>1, PayloadPlaced
      <4> QED BY <1>2, <2>3, <4>1, <4>2, PayloadPlaced, WireGrows DEF TypeOK
    <3> QED BY <3>1, <3>2
  <2>9. \A i \in 1 .. Taken' : frame'[i - 1] = wire'[Len(wire') - Taken' + i]
    BY <2>1, <2>2, <2>8
  <2>10. /\ wire'[Len(wire') - Taken' - 1] = SYNC0
         /\ wire'[Len(wire') - Taken'] = SYNC1
    BY <2>2, <2>5, <2>7
  <2> QED BY <1>2, <2>6, <2>9, <2>10 DEF Placed
<1>7. HeaderRead'
  BY <1>1, <1>2, <1>3 DEF TypeOK, HeaderRead, InFrame, FrameIndex
<1> QED BY <1>5, <1>6, <1>7

(* The frame that is complete with byte is what is on the wire, header     *)
(* included, and the decoder's checks accept it.                           *)
LEMMA CompleteFrame ==
  ASSUME StreamInv, NEW byte \in Byte, wire' = Append(wire, byte),
         FeedLast(byte)
  PROVE  \E d \in [start : Nat, bytes : Seq(Byte)] :
           /\ delivered' = Append(delivered, d)
           /\ d.start = Len(wire) - 2 - received
           /\ Len(d.bytes) = 3 + expected
           /\ expected = received + 1
           /\ OnWire(d)'
           /\ Dispatches(d.bytes)
<1> DEFINE bytes == Complete(byte)
           d == [start |-> Len(wire) - 2 - received, bytes |-> bytes]
<1> USE DEF StreamInv
<1>1. received \in Nat /\ expected \in Nat /\ received + 1 = expected
  BY DEF TypeOK, UInt16, HeaderRead, FeedLast
<1>2. 2 + expected \in FrameIndex
  BY InBounds DEF FrameInBounds, FeedLast
<1>3. \A i \in 1 .. 3 + expected : i - 1 \in FrameIndex
  BY <1>1, <1>2, LengthAssumption DEF FrameIndex
<1>4. bytes \in [1 .. 3 + expected -> Byte]
  BY <1>1, <1>3 DEF TypeOK, Complete
<1>5. bytes \in Seq(Byte) /\ Len(bytes) = 3 + expected
  BY <1>1, <1>4
<1>6. state = "PAYLOAD"
  BY DEF FeedLast
<1>7. \A i \in 1 .. Len(bytes) : bytes[i] = wire'[d.start + i - 1]
  <2>1. ASSUME NEW i \in 1 .. 3 + expected
        PROVE  bytes[i] = wire'[Len(wire) - 3 - received + i]
    <3>1. CASE i = 4 + received
      BY <1>1, <1>6, <3>1, PayloadPlaced, WireGrows DEF TypeOK, Complete
    <3>2. CASE i # 4 + received
      <4>1. i \in 1 .. 3 + received /\ bytes[i] = frame[i - 1]
        BY <1>1, <3>2 DEF Complete
      <4>2. Len(wire) - 3 - received + i \in 1 .. Len(wire)
        BY <1>1, <1>6, <4>1, PayloadPlaced
      <4> QED BY <1>6, <4>1, <4>2, PayloadPlaced, WireGrows DEF TypeOK
    <3> QED BY <3>1, <3>2
  <2>2. \A i \in 1 .. 3 + expected :
          d.start + i - 1 = Len(wire) - 3 - received + i
    BY <1>1, <1>6, PayloadPlaced
  <2> QED BY <1>5, <2>1, <2>2
<1>10. /\ d.start >= 3
       /\ d.start + Len(bytes) <= Len(wire') + 1
       /\ wire'[d.start - 2] = SYNC0 /\ wire'[d.start - 1] = SYNC1
  <2>1. /\ received \in Nat /\ Len(wire) \in Nat
        /\ 5 + received <= Len(wire)
        /\ wire[Len(wire) - received - 4] = SYNC0
        /\ wire[Len(wire) - received - 3] = SYNC1
    BY <1>6, PayloadPlaced
  <2>2. /\ Len(wire') = Len(wire) + 1
        /\ \A i \in 1 .. Len(wire) : wire'[i] = wire[i]
    BY WireGrows DEF TypeOK
  <2>3. /\ d.start = Len(wire) - 2 - received
        /\ d.start - 2 = Len(wire) - received - 4
        /\ d.start - 1 = Len(wire) - received - 3
    BY <2>1
  <2>4. /\ Len(wire) - received - 4 \in 1 .. Len(wire)
        /\ Len(wire) - received - 3 \in 1 .. Len(wire)
    BY <2>1
  <2>5. wire'[d.start - 2] = SYNC0 /\ wire'[d.start - 1] = SYNC1
    BY <2>1, <2>2, <2>3, <2>4
  <2> HIDE DEF d, bytes
  <2>6. d.start >= 3 /\ d.start + Len(bytes) <= Len(wire') + 1
    BY SMTT(30), <1>1, <1>5, <2>1, <2>2, <2>3
  <2> QED BY <2>5, <2>6
<1>8. Dispatches(bytes)
  <2>1. /\ bytes[1] = type
        /\ bytes[2] * ByteRadix + bytes[3] = expected
    <3>1. bytes[1] = frame[0] /\ bytes[2] = frame[1] /\ bytes[3] = frame[2]
      BY <1>1 DEF Complete
    <3> QED BY <3>1 DEF HeaderRead, InFrame, FeedLast
  <2>2. type \in ValidTypes /\ LengthIsSane(type, expected)
    BY DEF HeaderRead, InFrame, FeedLast
  <2> QED
    BY <1>1, <1>5, <2>1, <2>2
    DEF Dispatches, LengthIsSane, ValidTypes, KEYBOARD, MOUSE, MICROPHONE,
        MOUSE_ABSOLUTE
<1>9. d \in [start : Nat, bytes : Seq(Byte)]
  BY <1>1, <1>5, <1>6, PayloadPlaced
<1>11. ASSUME NEW e, e.start = d.start, e.bytes = bytes
       PROVE  OnWire(e)'
  BY <1>7, <1>10, <1>11 DEF OnWire
<1>12. delivered' = Append(delivered, d)
  BY DEF FeedLast
<1> HIDE DEF d
<1>13. d.start = Len(wire) - 2 - received /\ d.bytes = bytes
  BY DEF d
<1> HIDE DEF bytes
<1> QED BY <1>1, <1>5, <1>8, <1>9, <1>11, <1>12, <1>13

LEMMA StreamFeed ==
  ASSUME StreamInv, NEW byte \in Byte, Feed(byte)
  PROVE  StreamInv'
<1>1. wire' = Append(wire, byte) /\ wire' \in Seq(Byte)
  BY DEF Feed, StreamInv, TypeOK
<1>2. CASE FeedSync0(byte) \/ FeedSync1(byte) \/ FeedInvalidType(byte)
  BY <1>1, <1>2, HuntKeeps
<1>3. CASE FeedType(byte) \/ FeedLenMsb(byte) \/ FeedLenLsb(byte)
  BY <1>1, <1>3, HeaderKeeps
<1>4. CASE FeedInsaneLength(byte)
  BY <1>1, <1>4, ResetKeeps DEF FeedInsaneLength, StreamInv, TypeOK
<1>5. CASE FeedPayload(byte)
  BY <1>1, <1>5, PayloadKeeps
<1>6. CASE FeedLast(byte)
  <2> DEFINE Cut == [start : Nat, bytes : Seq(Byte)]
  <2>1. PICK d \in Cut : delivered' = Append(delivered, d)
    BY <1>1, <1>6, CompleteFrame
  <2> HIDE DEF Cut
  <2>2. delivered \in Seq(Cut)
    BY DEF StreamInv, TypeOK, Cut
  <2>3. delivered' \in Seq(Cut)
    BY <2>1, <2>2
  <2> USE DEF Cut
  <2> QED BY <1>1, <1>6, <2>3, ResetKeeps DEF FeedLast
<1> QED BY <1>2, <1>3, <1>4, <1>5, <1>6 DEF Feed

LEMMA StreamNext == StreamInv /\ [Next]_vars => StreamInv'
<1> SUFFICES ASSUME StreamInv, [Next]_vars PROVE StreamInv'
  OBVIOUS
<1>1. CASE Restart
  BY <1>1, ResetKeeps DEF Restart, StreamInv, TypeOK
<1>2. CASE UNCHANGED vars
  BY <1>2 DEF vars, stream, StreamInv, TypeOK, Placed, Taken, HeaderRead
<1> QED BY <1>1, <1>2, StreamFeed DEF Next

LEMMA StreamInit == Init => StreamInv
  BY ByteFacts, ByteAssumption DEF Init, StreamInv, TypeOK, Placed, HeaderRead,
     States, InFrame, UInt16, ZeroFrame, MOUSE_ABSOLUTE

(* The parser's fields keep their types, hence the 16-bit fields do not    *)
(* wrap, whatever comes over the wire.                                     *)
THEOREM StreamTypes == Spec => []TypeOK
<1>1. StreamInv => TypeOK
  BY DEF StreamInv
<1> QED BY <1>1, StreamInit, StreamNext, PTL DEF Spec

(* The parser stays within its buffer: for every payload limit, every set  *)
(* of payload lengths and every input.                                     *)
THEOREM StaysInBuffer == Spec => []FrameInBounds
<1>1. StreamInv => FrameInBounds
  BY InBounds
<1> QED BY <1>1, StreamInit, StreamNext, PTL DEF Spec

-----------------------------------------------------------------------------
(* What is delivered.                                                      *)

DeliveredInv == DeliveredIsWire /\ ValidatorsAgree

(* A frame that was on the wire stays on the wire.                         *)
LEMMA OnWireStays ==
  ASSUME wire \in Seq(Byte), NEW byte \in Byte, wire' = Append(wire, byte),
         NEW d \in [start : Nat, bytes : Seq(Byte)], OnWire(d)
  PROVE  OnWire(d)'
<1>1. Len(d.bytes) \in Nat /\ d.start \in Nat /\ Len(wire) \in Nat
  OBVIOUS
<1>2. \A i \in 1 .. Len(d.bytes) : d.start + i - 1 \in 1 .. Len(wire)
  BY <1>1 DEF OnWire
<1>3. d.start - 2 \in 1 .. Len(wire) /\ d.start - 1 \in 1 .. Len(wire)
  BY <1>1 DEF OnWire
<1>4. Len(wire') = Len(wire) + 1 /\ \A i \in 1 .. Len(wire) : wire'[i] = wire[i]
  BY WireGrows
<1>5. d.start >= 3 /\ d.start + Len(d.bytes) <= Len(wire') + 1
  BY <1>1, <1>4 DEF OnWire
<1>6. wire'[d.start - 2] = SYNC0 /\ wire'[d.start - 1] = SYNC1
  BY <1>3, <1>4 DEF OnWire
<1>7. \A i \in 1 .. Len(d.bytes) : d.bytes[i] = wire'[d.start + i - 1]
  BY <1>2, <1>4 DEF OnWire
<1> QED BY <1>5, <1>6, <1>7 DEF OnWire

LEMMA DeliveredFeed ==
  ASSUME StreamInv, DeliveredInv, NEW byte \in Byte, Feed(byte)
  PROVE  DeliveredInv'
<1> DEFINE Cut == [start : Nat, bytes : Seq(Byte)]
<1>1. delivered \in Seq(Cut) /\ wire \in Seq(Byte)
  BY DEF StreamInv, TypeOK
<1>2. wire' = Append(wire, byte)
  BY DEF Feed
<1>3. ASSUME NEW n \in DOMAIN delivered, NEW d, d = delivered[n]
      PROVE  OnWire(d)' /\ Dispatches(d.bytes)
  <2> HIDE DEF Cut
  <2>1. d \in Cut
    BY <1>1, <1>3
  <2> USE DEF Cut
  <2>2. OnWire(d) /\ Dispatches(d.bytes)
    BY <1>3 DEF DeliveredInv, DeliveredIsWire, ValidatorsAgree
  <2> QED BY <1>1, <1>2, <2>1, <2>2, OnWireStays
<1>4. CASE FeedLast(byte)
  <2>1. PICK d \in Cut : /\ delivered' = Append(delivered, d)
                         /\ OnWire(d)'
                         /\ Dispatches(d.bytes)
    BY <1>2, <1>4, CompleteFrame
  <2> HIDE DEF Cut
  <2>2. ASSUME NEW n \in DOMAIN delivered', NEW e, e = delivered'[n]
        PROVE  OnWire(e)' /\ Dispatches(e.bytes)
    <3>1. e = d \/ (n \in DOMAIN delivered /\ e = delivered[n])
      BY <1>1, <2>1, <2>2
    <3> QED BY <1>3, <2>1, <3>1
  <2> QED BY <2>2 DEF DeliveredInv, DeliveredIsWire, ValidatorsAgree
<1>5. CASE UNCHANGED delivered
  BY <1>3, <1>5 DEF DeliveredInv, DeliveredIsWire, ValidatorsAgree
<1> QED
  BY <1>4, <1>5
  DEF Feed, FeedSync0, FeedSync1, FeedInvalidType, FeedType, FeedLenMsb,
      FeedLenLsb, FeedInsaneLength, FeedPayload

LEMMA DeliveredStays ==
  ASSUME DeliveredInv, UNCHANGED <<wire, delivered>>
  PROVE  DeliveredInv'
  BY DEF DeliveredInv, DeliveredIsWire, ValidatorsAgree, OnWire

LEMMA DeliveredNext ==
  StreamInv /\ DeliveredInv /\ [Next]_vars => DeliveredInv'
  BY DeliveredFeed, DeliveredStays DEF Next, Restart, vars

LEMMA DeliveredInit == Init => DeliveredInv
  BY DEF Init, DeliveredInv, DeliveredIsWire, ValidatorsAgree

(* Every frame the parser hands on was on the wire, whole, right behind a  *)
(* sync pair.                                                              *)
THEOREM DeliversWire == Spec => []DeliveredIsWire
<1>1. DeliveredInv => DeliveredIsWire
  BY DEF DeliveredInv
<1> QED
  BY <1>1, StreamInit, StreamNext, DeliveredInit, DeliveredNext, PTL DEF Spec

(* The decoder accepts every frame the parser hands on: the two copies of  *)
(* the rules never disagree, whatever the configured lengths.              *)
THEOREM DecoderAccepts == Spec => []ValidatorsAgree
<1>1. DeliveredInv => ValidatorsAgree
  BY DEF DeliveredInv
<1> QED
  BY <1>1, StreamInit, StreamNext, DeliveredInit, DeliveredNext, PTL DEF Spec

-----------------------------------------------------------------------------
(* Where frames lie on the wire.                                           *)

EndOf(d) == d.start + Len(d.bytes)

(* How many of the last bytes of the wire the parser holds for the next    *)
(* frame: what it has stored and the sync pair.                            *)
Claimed ==
  CASE state = "SYNC0" -> 0
    [] state = "SYNC1" -> 1
    [] OTHER           -> Taken + 2

(* No frame delivered reaches into the bytes held for the next one.        *)
ApartInv ==
  /\ DeliveredApart
  /\ \A n \in 1 .. Len(delivered) : EndOf(delivered[n]) + Claimed <= Len(wire) + 1

LEMMA TakenNat ==
  ASSUME StreamInv
  PROVE  Taken \in Nat /\ Claimed \in Nat
<1>1. received \in Nat /\ state \in States
  BY DEF StreamInv, TypeOK, UInt16
<1> QED BY <1>1 DEF Taken, Claimed, States

(* A byte that does not complete a frame adds at most itself to those held *)
LEMMA ClaimsOneMore ==
  ASSUME StreamInv, NEW byte \in Byte, Feed(byte), ~FeedLast(byte)
  PROVE  Claimed' \in Nat /\ Claimed' <= Claimed + 1
<1>1. received \in Nat
  BY DEF StreamInv, TypeOK, UInt16
<1>2. CASE FeedSync0(byte)
  BY <1>2 DEF FeedSync0, Claimed, Taken
<1>3. CASE FeedSync1(byte)
  BY <1>3 DEF FeedSync1, Claimed, Taken
<1>4. CASE FeedInvalidType(byte)
  BY <1>4 DEF FeedInvalidType, Claimed, Taken
<1>5. CASE FeedType(byte)
  BY <1>5 DEF FeedType, Claimed, Taken
<1>6. CASE FeedLenMsb(byte)
  BY <1>6 DEF FeedLenMsb, Claimed, Taken
<1>7. CASE FeedLenLsb(byte)
  BY <1>7 DEF FeedLenLsb, Claimed, Taken
<1>8. CASE FeedInsaneLength(byte)
  BY <1>8 DEF FeedInsaneLength, Reset, Claimed, Taken
<1>9. CASE FeedPayload(byte)
  BY <1>1, <1>9 DEF FeedPayload, Claimed, Taken
<1> QED BY <1>2, <1>3, <1>4, <1>5, <1>6, <1>7, <1>8, <1>9 DEF Feed

LEMMA EndOfNat ==
  ASSUME NEW d \in [start : Nat, bytes : Seq(Byte)]
  PROVE  EndOf(d) \in Nat /\ d.start \in Nat
  BY DEF EndOf

LEMMA DeliveredEnds ==
  ASSUME StreamInv, NEW n \in 1 .. Len(delivered)
  PROVE  EndOf(delivered[n]) \in Nat /\ delivered[n].start \in Nat
<1> DEFINE Cut == [start : Nat, bytes : Seq(Byte)]
<1>1. delivered \in Seq(Cut)
  BY DEF StreamInv, TypeOK
<1> HIDE DEF Cut
<1>2. delivered[n] \in Cut
  BY <1>1
<1> QED BY <1>2, EndOfNat DEF Cut

LEMMA ApartFeed ==
  ASSUME StreamInv, ApartInv, NEW byte \in Byte, Feed(byte)
  PROVE  ApartInv'
<1> DEFINE Cut == [start : Nat, bytes : Seq(Byte)]
<1>1. delivered \in Seq(Cut) /\ Len(wire) \in Nat /\ wire \in Seq(Byte)
  BY DEF StreamInv, TypeOK
<1>2. \A n \in 1 .. Len(delivered) :
        EndOf(delivered[n]) \in Nat /\ EndOf(delivered[n]) + Claimed <= Len(wire) + 1
  BY DeliveredEnds DEF ApartInv
<1>3. Claimed \in Nat
  BY TakenNat
<1>4. wire' = Append(wire, byte) /\ Len(wire') = Len(wire) + 1
  BY <1>1 DEF Feed
<1>5. CASE FeedLast(byte)
  <2>1. PICK d \in Cut : /\ delivered' = Append(delivered, d)
                         /\ d.start = Len(wire) - 2 - received
                         /\ Len(d.bytes) = 3 + expected
                         /\ expected = received + 1
    BY <1>4, <1>5, CompleteFrame
  <2> HIDE DEF Cut
  <2>2. /\ Len(delivered') = Len(delivered) + 1 /\ Len(delivered) \in Nat
        /\ delivered'[Len(delivered) + 1] = d
        /\ \A n \in 1 .. Len(delivered) : delivered'[n] = delivered[n]
    BY <1>1, <2>1
  <2>3. received \in Nat /\ Claimed = 5 + received /\ 5 + received <= Len(wire)
    <3>1. state = "PAYLOAD"
      BY <1>5 DEF FeedLast
    <3> QED BY <3>1, PayloadPlaced DEF Claimed, Taken
  <2>4. EndOf(d) = Len(wire) + 2
    BY <1>1, <2>1, <2>3 DEF EndOf
  <2>5. Claimed' = 0
    BY <1>5 DEF FeedLast, Reset, Claimed
  <2>6. ASSUME NEW n \in 1 .. Len(delivered')
        PROVE  EndOf(delivered'[n]) + Claimed' <= Len(wire') + 1
    <3>1. CASE n = Len(delivered) + 1
      BY <1>1, <1>4, <2>2, <2>4, <2>5, <3>1
    <3>2. CASE n \in 1 .. Len(delivered)
      BY <1>1, <1>2, <1>3, <1>4, <2>2, <2>5, <3>2
    <3> QED BY <2>2, <3>1, <3>2
  <2>7. ASSUME NEW n \in 1 .. Len(delivered') - 1
        PROVE  EndOf(delivered'[n]) <= delivered'[n + 1].start - 2
    <3>1. CASE n = Len(delivered)
      <4>1. n \in 1 .. Len(delivered) /\ delivered'[n + 1] = d
        BY <2>2, <3>1
      <4>2. delivered'[n] = delivered[n]
        BY <2>2, <4>1
      <4>3. EndOf(delivered[n]) \in Nat
            /\ EndOf(delivered[n]) + 5 + received <= Len(wire) + 1
        <5>1. EndOf(delivered[n]) \in Nat
              /\ EndOf(delivered[n]) + Claimed <= Len(wire) + 1
          BY <1>2, <4>1
        <5> QED BY <2>3, <5>1
      <4>4. d.start - 2 = Len(wire) - 4 - received
        BY <1>1, <2>1, <2>3
      <4>5. EndOf(delivered[n]) <= d.start - 2
        BY <1>1, <2>3, <4>3, <4>4
      <4> QED BY <4>1, <4>2, <4>5
    <3>2. CASE n \in 1 .. Len(delivered) - 1
      <4>1. EndOf(delivered[n]) <= delivered[n + 1].start - 2
        BY <3>2 DEF ApartInv, DeliveredApart, EndOf
      <4>2. n \in 1 .. Len(delivered) /\ n + 1 \in 1 .. Len(delivered)
        BY <2>2, <3>2
      <4> QED BY <2>2, <4>1, <4>2
    <3> QED BY <2>2, <3>1, <3>2
  <2> QED BY <2>6, <2>7 DEF ApartInv, DeliveredApart, EndOf
<1>6. CASE ~FeedLast(byte)
  <2>1. delivered' = delivered
    BY <1>4, <1>6
    DEF Feed, FeedSync0, FeedSync1, FeedInvalidType, FeedType, FeedLenMsb,
        FeedLenLsb, FeedInsaneLength, FeedPayload
  <2>2. Claimed' \in Nat /\ Claimed' <= Claimed + 1
    BY <1>4, <1>6, ClaimsOneMore
  <2>3. \A n \in 1 .. Len(delivered) :
          EndOf(delivered[n]) + Claimed' <= Len(wire') + 1
    BY <1>1, <1>2, <1>3, <1>4, <2>2
  <2> QED BY <2>1, <2>3 DEF ApartInv, DeliveredApart, EndOf
<1> QED BY <1>5, <1>6

LEMMA ApartReset ==
  ASSUME StreamInv, ApartInv, Reset, UNCHANGED <<wire, delivered>>
  PROVE  ApartInv'
<1>1. Claimed' = 0
  BY DEF Reset, Claimed
<1>2. Claimed \in Nat /\ Len(wire) \in Nat
  BY TakenNat DEF StreamInv, TypeOK
<1>3. \A n \in 1 .. Len(delivered) :
        EndOf(delivered[n]) \in Nat /\ EndOf(delivered[n]) + Claimed <= Len(wire) + 1
  BY DeliveredEnds DEF ApartInv
<1>4. \A n \in 1 .. Len(delivered) : EndOf(delivered[n]) + 0 <= Len(wire) + 1
  BY <1>2, <1>3
<1> QED BY <1>1, <1>4 DEF ApartInv, DeliveredApart, EndOf

LEMMA ApartStays ==
  ASSUME ApartInv, UNCHANGED vars
  PROVE  ApartInv'
  BY DEF vars, stream, ApartInv, DeliveredApart, EndOf, Claimed, Taken

LEMMA ApartNext == StreamInv /\ ApartInv /\ [Next]_vars => ApartInv'
  BY ApartFeed, ApartReset, ApartStays DEF Next, Restart

LEMMA ApartInit == Init => ApartInv
  BY DEF Init, ApartInv, DeliveredApart

(* No byte is used for two frames, whatever comes over the wire: the       *)
(* parser takes up its hunt behind the frame it has handed on, and a reset *)
(* never takes it back.                                                    *)
THEOREM NoByteTwice == Spec => []DeliveredApart
<1>1. ApartInv => DeliveredApart
  BY DEF ApartInv
<1> QED BY <1>1, StreamInit, StreamNext, ApartInit, ApartNext, PTL DEF Spec
=============================================================================
