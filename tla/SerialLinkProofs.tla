-------------------------- MODULE SerialLinkProofs ---------------------------
(* Theorems about SerialLink: for every format, every set of frames that   *)
(* SerialAssumption allows, every size of ring and packet.                 *)
EXTENDS SerialLink, TlvStreamProofs

-----------------------------------------------------------------------------
(* The inductive invariant.                                                *)

LinkTypes ==
  /\ out \in Seq(Byte)
  /\ ring \in Seq(Byte)
  /\ piece \in Seq(Byte)
  /\ sent \in Seq(Frames)
  /\ waits => piece = <<>>

(* All the controller has written: what the parser has taken and what is   *)
(* on its way.                                                             *)
Line == (wire \o piece) \o (ring \o out)

(* The frames the controller has begun, in order: where the type byte of   *)
(* each is on the line, and how many of the frames begun up to it are for  *)
(* this firmware.                                                          *)
Entry == [start : Nat, frame : Frames \union Foreign, rank : Nat]

EndsAt(e) == e.start + Len(e.frame)

(* The frames for this firmware begun before e.                            *)
Before(e) == IF e.frame \in Foreign THEN e.rank ELSE e.rank - 1

Marked(f) == <<SYNC0, SYNC1>> \o f

Written(e) ==
  /\ e.start >= 3
  /\ EndsAt(e) <= Len(Line) + 1
  /\ \A i \in 1 .. Len(e.frame) + 2 : Line[e.start - 3 + i] = Marked(e.frame)[i]

Ranked(e) ==
  /\ e.rank <= Len(sent)
  /\ e.frame \in Frames => e.rank >= 1 /\ sent[e.rank] = e.frame

(* The line is made of these frames, and nothing is between them.          *)
LineInv(b) ==
  /\ b = <<>> => Line = <<>> /\ sent = <<>>
  /\ b # <<>> => /\ b[1].start = 3 /\ Before(b[1]) = 0
                 /\ EndsAt(b[Len(b)]) = Len(Line) + 1
                 /\ b[Len(b)].rank = Len(sent)
  /\ \A k \in 1 .. Len(b) : Written(b[k]) /\ Ranked(b[k])
  /\ \A k \in 1 .. Len(b) - 1 : /\ b[k + 1].start = EndsAt(b[k]) + 2
                                /\ Before(b[k + 1]) = b[k].rank

(* What the parser's fields are when it has taken pos bytes of a frame f   *)
(* and its sync pair.                                                      *)
ParserAt(f, pos) ==
  /\ pos = 0 \/ pos = Len(f) + 2 => state = "SYNC0"
  /\ pos = 1 => state = "SYNC1"
  /\ pos = 2 => state = "TYPE"
  /\ f \in Foreign /\ pos > 2 => state = "SYNC0"
  /\ f \in Frames =>
       /\ pos = 3 => state = "LEN_MSB" /\ type = f[1]
       /\ pos = 4 => state = "LEN_LSB" /\ type = f[1] /\ expected = f[2] * ByteRadix
       /\ pos \in 5 .. Len(f) + 1 => /\ state = "PAYLOAD"
                                     /\ expected = Len(f) - 3
                                     /\ received = pos - 5

(* The parser is in e, and all the frames before it have been handled.     *)
PosIn(e) == Len(wire) + 3 - e.start

Parsing(e) ==
  /\ PosIn(e) \in 0 .. Len(e.frame) + 2
  /\ ParserAt(e.frame, PosIn(e))
  /\ handled = SubSeq(sent, 1, IF PosIn(e) = Len(e.frame) + 2 THEN e.rank ELSE Before(e))

InStep(b) ==
  \/ b = <<>> /\ state = "SYNC0" /\ handled = <<>>
  \/ \E k \in 1 .. Len(b) : Parsing(b[k])

SerialInv ==
  /\ LinkTypes
  /\ StreamInv
  /\ \E b \in Seq(Entry) : LineInv(b) /\ InStep(b)

-----------------------------------------------------------------------------
(* The frames.                                                             *)

LEMMA FrameFacts ==
  ASSUME NEW f \in Frames \union Foreign
  PROVE  /\ f \in Seq(Byte) /\ Len(f) \in Nat /\ Len(f) >= 3
         /\ Marked(f) \in Seq(Byte)
         /\ Len(Marked(f)) = Len(f) + 2
         /\ Marked(f)[1] = SYNC0 /\ Marked(f)[2] = SYNC1
         /\ \A i \in 1 .. Len(f) : Marked(f)[i + 2] = f[i]
<1>1. f \in Seq(Byte) /\ Len(f) >= 3
  <2>1. CASE f \in Frames
    BY <2>1, SerialAssumption DEF Dispatches
  <2>2. CASE f \in Foreign
    <3>1. f \in Seq(Byte \ {SYNC0}) /\ Len(f) >= 3
      BY <2>2, SerialAssumption
    <3> QED BY <3>1, SeqMonotonic
  <2> QED BY <2>1, <2>2
<1>2. <<SYNC0, SYNC1>> \in Seq(Byte) /\ Len(<<SYNC0, SYNC1>>) = 2
  BY ByteFacts
<1>3. /\ Marked(f) \in Seq(Byte)
      /\ Len(Marked(f)) = 2 + Len(f)
      /\ \A i \in 1 .. 2 + Len(f) :
           Marked(f)[i] = IF i <= 2 THEN <<SYNC0, SYNC1>>[i] ELSE f[i - 2]
  BY <1>1, <1>2, ConcatProperties DEF Marked
<1> QED BY <1>1, <1>3

(* A frame for this firmware passes the checks of the parser.              *)
LEMMA OwnFrame ==
  ASSUME NEW f \in Frames
  PROVE  /\ f[1] \in ValidTypes /\ f[2] \in Byte /\ f[3] \in Byte
         /\ f[2] * ByteRadix + f[3] = Len(f) - 3
         /\ LengthIsSane(f[1], Len(f) - 3)
         /\ Len(f) >= 4
<1>1. f \in Seq(Byte) /\ Dispatches(f) /\ Len(f) - 3 <= MaxPayload
  BY SerialAssumption
<1>2. f[2] \in Byte /\ f[3] \in Byte
  BY <1>1 DEF Dispatches
<1>3. f[1] \in ValidTypes /\ f[2] * ByteRadix + f[3] = Len(f) - 3
  BY <1>1 DEF Dispatches
<1>4. LengthIsSane(f[1], Len(f) - 3)
  <2>1. Len(f) - 3 \in Nat
    BY <1>1 DEF Dispatches
  <2> QED
    BY <1>1, <1>3, <2>1 DEF Dispatches, LengthIsSane, ValidTypes, KEYBOARD,
       MOUSE, MICROPHONE, MOUSE_ABSOLUTE
<1>5. Len(f) - 3 > 0
  BY <1>1, <1>4, SaneLength DEF Dispatches
<1> QED BY <1>1, <1>2, <1>3, <1>4, <1>5

LEMMA ForeignFrame ==
  ASSUME NEW f \in Foreign
  PROVE  /\ f[1] \notin ValidTypes /\ f \notin Frames
         /\ \A i \in 1 .. Len(f) : f[i] # SYNC0
<1>1. f \in Seq(Byte \ {SYNC0}) /\ f[1] \notin ValidTypes
  BY SerialAssumption
<1>2. f \notin Frames
  BY <1>1, SerialAssumption DEF Dispatches
<1> QED BY <1>1, <1>2

-----------------------------------------------------------------------------
(* The parser keeps step with a frame it is fed from the beginning.        *)

LEMMA ParserSteps ==
  ASSUME StreamInv,
         NEW f \in Frames \union Foreign, NEW pos \in 0 .. Len(f) + 1,
         ParserAt(f, pos), Feed(Marked(f)[pos + 1])
  PROVE  /\ ParserAt(f, pos + 1)'
         /\ IF f \in Frames /\ pos = Len(f) + 1
            THEN /\ FeedLast(Marked(f)[pos + 1])
                 /\ received = pos - 5 /\ expected = Len(f) - 3
            ELSE delivered' = delivered
<1> DEFINE byte == Marked(f)[pos + 1]
<1>1. /\ f \in Seq(Byte) /\ Len(f) \in Nat /\ Len(f) >= 3
      /\ pos = 0 => byte = SYNC0
      /\ pos = 1 => byte = SYNC1
      /\ pos >= 2 => byte = f[pos - 1]
  <2>1. pos >= 2 => pos - 1 \in 1 .. Len(f)
    BY FrameFacts
  <2> QED BY <2>1, FrameFacts
<1>2. /\ Feed(byte)
      /\ SYNC0 # SYNC1
  BY ByteAssumption
<1> HIDE DEF byte
<1>3. CASE pos = 0
  <2>1. state = "SYNC0" /\ byte = SYNC0
    BY <1>1, <1>3 DEF ParserAt
  <2>2. FeedSync0(byte)
    BY <1>2, <2>1 DEF Feed, FeedSync1, FeedInvalidType, FeedType, FeedLenMsb,
       FeedLenLsb, FeedInsaneLength, FeedPayload, FeedLast
  <2> QED BY <1>1, <1>3, <2>1, <2>2 DEF FeedSync0, ParserAt
<1>4. CASE pos = 1
  <2>1. state = "SYNC1" /\ byte = SYNC1
    BY <1>1, <1>4 DEF ParserAt
  <2>2. FeedSync1(byte)
    BY <1>2, <2>1 DEF Feed, FeedSync0, FeedInvalidType, FeedType, FeedLenMsb,
       FeedLenLsb, FeedInsaneLength, FeedPayload, FeedLast
  <2>3. state' = "TYPE" /\ delivered' = delivered
    BY <1>2, <2>1, <2>2 DEF FeedSync1
  <2> QED BY <1>1, <1>4, <2>3 DEF ParserAt
<1>5. CASE f \in Foreign /\ pos >= 2
  <2>1. byte # SYNC0 /\ f[1] \notin ValidTypes /\ f \notin Frames
    BY <1>1, <1>5, ForeignFrame
  <2>2. CASE pos = 2
    <3>1. state = "TYPE" /\ byte \notin ValidTypes
      BY <1>1, <2>1, <2>2 DEF ParserAt
    <3>2. FeedInvalidType(byte)
      BY <1>2, <3>1 DEF Feed, FeedSync0, FeedSync1, FeedType, FeedLenMsb,
         FeedLenLsb, FeedInsaneLength, FeedPayload, FeedLast
    <3> QED BY <1>1, <2>1, <2>2, <3>2 DEF FeedInvalidType, ParserAt
  <2>3. CASE pos > 2
    <3>1. state = "SYNC0"
      BY <1>5, <2>3 DEF ParserAt
    <3>2. FeedSync0(byte)
      BY <1>2, <3>1 DEF Feed, FeedSync1, FeedInvalidType, FeedType, FeedLenMsb,
         FeedLenLsb, FeedInsaneLength, FeedPayload, FeedLast
    <3> QED BY <1>1, <2>1, <2>3, <3>2 DEF FeedSync0, ParserAt
  <2> QED BY <1>5, <2>2, <2>3
<1>6. CASE f \in Frames /\ pos >= 2
  <2>1. /\ f[1] \in ValidTypes /\ f[2] * ByteRadix + f[3] = Len(f) - 3
        /\ LengthIsSane(f[1], Len(f) - 3)
        /\ Len(f) >= 4
        /\ f \notin Foreign
    BY <1>6, OwnFrame, ForeignFrame
  <2>2. CASE pos = 2
    <3>1. state = "TYPE" /\ byte = f[1]
      BY <1>1, <2>2 DEF ParserAt
    <3>2. FeedType(byte)
      BY <1>2, <2>1, <3>1 DEF Feed, FeedSync0, FeedSync1, FeedInvalidType,
         FeedLenMsb, FeedLenLsb, FeedInsaneLength, FeedPayload, FeedLast
    <3> QED BY <1>1, <2>1, <2>2, <3>1, <3>2 DEF FeedType, ParserAt
  <2>3. CASE pos = 3
    <3>1. state = "LEN_MSB" /\ type = f[1] /\ byte = f[2]
      BY <1>1, <1>6, <2>3 DEF ParserAt
    <3>2. FeedLenMsb(byte)
      BY <1>2, <3>1 DEF Feed, FeedSync0, FeedSync1, FeedInvalidType, FeedType,
         FeedLenLsb, FeedInsaneLength, FeedPayload, FeedLast
    <3> QED BY <1>1, <2>1, <2>3, <3>1, <3>2 DEF FeedLenMsb, ParserAt
  <2>4. CASE pos = 4
    <3>1. state = "LEN_LSB" /\ type = f[1] /\ expected = f[2] * ByteRadix
          /\ byte = f[3]
      BY <1>1, <1>6, <2>4 DEF ParserAt
    <3>2. expected + byte = Len(f) - 3
      BY <2>1, <3>1
    <3>3. FeedLenLsb(byte)
      BY <1>2, <2>1, <3>1, <3>2 DEF Feed, FeedSync0, FeedSync1, FeedInvalidType,
         FeedType, FeedLenMsb, FeedInsaneLength, FeedPayload, FeedLast
    <3> QED BY <1>1, <2>1, <2>4, <3>1, <3>2, <3>3 DEF FeedLenLsb, ParserAt
  <2>5. CASE pos \in 5 .. Len(f) + 1
    <3>1. state = "PAYLOAD" /\ expected = Len(f) - 3 /\ received = pos - 5
      BY <1>6, <2>5 DEF ParserAt
    <3>2. FeedPayload(byte) \/ FeedLast(byte)
      BY <1>2, <3>1 DEF Feed, FeedSync0, FeedSync1, FeedInvalidType, FeedType,
         FeedLenMsb, FeedLenLsb, FeedInsaneLength
    <3>3. CASE pos = Len(f) + 1
      <4>1. FeedLast(byte)
        BY <1>1, <3>1, <3>2, <3>3 DEF FeedPayload
      <4> QED
        BY <1>1, <2>1, <3>1, <3>3, <4>1 DEF FeedLast, Reset, ParserAt, byte
    <3>4. CASE pos # Len(f) + 1
      <4>1. FeedPayload(byte)
        BY <1>1, <2>5, <3>1, <3>2, <3>4 DEF FeedLast
      <4> QED BY <1>1, <2>1, <2>5, <3>1, <3>4, <4>1 DEF FeedPayload, ParserAt
    <3> QED BY <3>3, <3>4
  <2> QED BY <1>1, <1>6, <2>2, <2>3, <2>4, <2>5
<1>7. pos = 0 \/ pos = 1 \/ pos >= 2
  BY <1>1
<1> USE DEF byte
<1> QED BY <1>3, <1>4, <1>5, <1>6, <1>7

-----------------------------------------------------------------------------
(* The line.                                                               *)

LEMMA Associative ==
  \A s, t, u \in Seq(Byte) : (s \o t) \o u = s \o (t \o u)
  OBVIOUS

LEMMA CutInTwo ==
  ASSUME NEW t \in Seq(Byte), NEW n \in 0 .. Len(t)
  PROVE  /\ SubSeq(t, 1, n) \in Seq(Byte) /\ SubSeq(t, n + 1, Len(t)) \in Seq(Byte)
         /\ SubSeq(t, 1, n) \o SubSeq(t, n + 1, Len(t)) = t
<1>1. SubSeq(t, 1, n) \in Seq(Byte) /\ SubSeq(t, n + 1, Len(t)) \in Seq(Byte)
  <2>1. n \in Int /\ Len(t) \in Int /\ 1 \in Int /\ n + 1 \in Int
    OBVIOUS
  <2>2. \A i \in 1 .. n : t[i] \in Byte
    OBVIOUS
  <2>3. \A i \in n + 1 .. Len(t) : t[i] \in Byte
    OBVIOUS
  <2> QED BY <2>1, <2>2, <2>3, SubSeqProperties
<1>2. /\ 1 \in 1 .. Len(t) + 1 /\ n \in 1 - 1 .. Len(t)
      /\ Len(t) \in n .. Len(t)
  OBVIOUS
<1>3. SubSeq(t, 1, n) \o SubSeq(t, n + 1, Len(t)) = SubSeq(t, 1, Len(t))
  BY <1>2, ConcatAdjacentSubSeq
<1> QED BY <1>1, <1>3, SubSeqFull

(* Bytes that move from the front of one sequence to the end of the one in *)
(* front of it.                                                            *)
LEMMA MoveFront ==
  \A s, t \in Seq(Byte) : \A n \in 0 .. Len(t) :
    (s \o SubSeq(t, 1, n)) \o SubSeq(t, n + 1, Len(t)) = s \o t
<1> TAKE s, t \in Seq(Byte)
<1> TAKE n \in 0 .. Len(t)
<1> DEFINE front == SubSeq(t, 1, n)
           rest == SubSeq(t, n + 1, Len(t))
<1>1. front \in Seq(Byte) /\ rest \in Seq(Byte) /\ front \o rest = t
  BY CutInTwo
<1> HIDE DEF front, rest
<1>2. (s \o front) \o rest = s \o (front \o rest)
  BY <1>1, Associative, ZenonT(120)
<1> QED BY <1>1, <1>2 DEF front, rest

(* The same in front of a third one.                                       *)
LEMMA MoveFrontAhead ==
  \A s, t, u \in Seq(Byte) : \A n \in 0 .. Len(t) :
    (s \o SubSeq(t, 1, n)) \o (SubSeq(t, n + 1, Len(t)) \o u) = s \o (t \o u)
<1> TAKE s, t, u \in Seq(Byte)
<1> TAKE n \in 0 .. Len(t)
<1> DEFINE front == SubSeq(t, 1, n)
           rest == SubSeq(t, n + 1, Len(t))
<1>1. front \in Seq(Byte) /\ rest \in Seq(Byte)
  BY CutInTwo
<1>5. front \o rest = t
  BY CutInTwo
<1> HIDE DEF front, rest
<1>2. s \o front \in Seq(Byte) /\ rest \o u \in Seq(Byte)
  BY <1>1, ConcatProperties
<1>3. (s \o front) \o (rest \o u) = s \o (front \o (rest \o u))
  BY <1>1, <1>2, Associative, ZenonT(120)
<1>4. (front \o rest) \o u = front \o (rest \o u)
  BY <1>1, Associative, ZenonT(120)
<1> QED BY <1>3, <1>4, <1>5 DEF front, rest

LEMMA LineOf ==
  ASSUME LinkTypes, StreamInv
  PROVE  /\ wire \in Seq(Byte) /\ wire \o piece \in Seq(Byte) /\ ring \o out \in Seq(Byte)
         /\ Line \in Seq(Byte) /\ Len(Line) \in Nat /\ Len(wire) \in Nat
         /\ Len(Line) = Len(wire) + Len(piece) + Len(ring) + Len(out)
         /\ \A i \in 1 .. Len(wire) : Line[i] = wire[i]
         /\ piece # <<>> => Line[Len(wire) + 1] = Head(piece)
<1>1. /\ wire \in Seq(Byte) /\ piece \in Seq(Byte)
      /\ ring \in Seq(Byte) /\ out \in Seq(Byte)
  BY DEF LinkTypes, StreamInv, TypeOK
<1>2. /\ wire \o piece \in Seq(Byte) /\ Len(wire \o piece) = Len(wire) + Len(piece)
      /\ \A i \in 1 .. Len(wire) + Len(piece) : (wire \o piece)[i] =
           IF i <= Len(wire) THEN wire[i] ELSE piece[i - Len(wire)]
  BY <1>1, ConcatProperties
<1>3. ring \o out \in Seq(Byte) /\ Len(ring \o out) = Len(ring) + Len(out)
  BY <1>1, ConcatProperties
<1>4. /\ Line \in Seq(Byte) /\ Len(Line) = Len(wire \o piece) + Len(ring \o out)
      /\ \A i \in 1 .. Len(wire \o piece) + Len(ring \o out) : Line[i] =
           IF i <= Len(wire \o piece) THEN (wire \o piece)[i]
                                      ELSE (ring \o out)[i - Len(wire \o piece)]
  BY <1>2, <1>3, ConcatProperties DEF Line
<1>5. \A i \in 1 .. Len(wire) + Len(piece) : Line[i] = (wire \o piece)[i]
  BY <1>1, <1>2, <1>3, <1>4
<1>6. \A i \in 1 .. Len(wire) : Line[i] = wire[i]
  BY <1>1, <1>2, <1>5
<1>7. ASSUME piece # <<>> PROVE Line[Len(wire) + 1] = Head(piece)
  <2>1. Len(piece) >= 1 /\ Head(piece) = piece[1]
    BY <1>1, <1>7
  <2>2. Len(wire) + 1 \in 1 .. Len(wire) + Len(piece)
    BY <1>1, <2>1
  <2>3. ~(Len(wire) + 1 <= Len(wire)) /\ (Len(wire) + 1) - Len(wire) = 1
    BY <1>1
  <2> QED BY <1>2, <1>5, <2>1, <2>2, <2>3
<1> QED BY <1>1, <1>2, <1>3, <1>4, <1>6, <1>7

(* Packets, reads and the parser move bytes along the line.                *)
LEMMA PacketMoves ==
  ASSUME LinkTypes, StreamInv, NEW n \in 1 .. PacketSize, Packet(n)
  PROVE  Line' = Line /\ LinkTypes'
<1>1. n \in 0 .. Len(out)
  BY SerialAssumption DEF Packet, LinkTypes
<1>2. SubSeq(out, 1, n) \in Seq(Byte) /\ SubSeq(out, n + 1, Len(out)) \in Seq(Byte)
  BY <1>1, CutInTwo DEF LinkTypes
<1>5. (ring \o SubSeq(out, 1, n)) \o SubSeq(out, n + 1, Len(out)) = ring \o out
  BY <1>1, MoveFront, Zenon DEF LinkTypes
<1>3. /\ ring' = ring \o SubSeq(out, 1, n)
      /\ out' = SubSeq(out, n + 1, Len(out))
      /\ UNCHANGED <<wire, sent, piece, waits>>
  BY DEF Packet, vars
<1>4. ring' \in Seq(Byte)
  BY <1>2, <1>3, ConcatProperties DEF LinkTypes
<1> QED BY <1>2, <1>3, <1>4, <1>5 DEF LinkTypes, Line

LEMMA ReadMoves ==
  ASSUME LinkTypes, StreamInv, NEW n \in 1 .. RingSize, ReadSome(n)
  PROVE  Line' = Line /\ LinkTypes'
<1>1. n \in 0 .. Len(ring)
  BY SerialAssumption DEF ReadSome, LinkTypes
<1> DEFINE front == SubSeq(ring, 1, n)
           rest == SubSeq(ring, n + 1, Len(ring))
<1>2. front \in Seq(Byte) /\ rest \in Seq(Byte)
  BY <1>1, CutInTwo DEF LinkTypes
<1>3. /\ piece = <<>> /\ piece' = front /\ ring' = rest /\ waits' = FALSE
      /\ UNCHANGED <<wire, out, sent>>
  BY DEF ReadSome, vars, senderVars
<1>4. wire \in Seq(Byte) /\ out \in Seq(Byte) /\ ring \in Seq(Byte)
  BY DEF LinkTypes, StreamInv, TypeOK
<1>5. (wire \o front) \o (rest \o out) = wire \o (ring \o out)
  BY <1>1, <1>4, MoveFrontAhead, Zenon
<1> HIDE DEF front, rest
<1>9. wire \o piece = wire
  BY <1>3, <1>4, ConcatEmptySeq
<1>10. Line' = Line
  BY <1>3, <1>5, <1>9 DEF Line
<1> QED BY <1>2, <1>3, <1>10 DEF LinkTypes

LEMMA FeedMoves ==
  ASSUME LinkTypes, StreamInv, TakeByte
  PROVE  Line' = Line /\ LinkTypes' /\ Head(piece) \in Byte
<1>1. /\ piece # <<>> /\ wire' = Append(wire, Head(piece)) /\ piece' = Tail(piece)
      /\ UNCHANGED <<out, sent, ring, waits>>
  BY DEF TakeByte, Feed, senderVars
<1>2. wire \in Seq(Byte) /\ piece \in Seq(Byte)
  BY DEF LinkTypes, StreamInv, TypeOK
<1>3. /\ Head(piece) \in Byte /\ Tail(piece) \in Seq(Byte)
      /\ Len(piece) \in Nat /\ Len(piece) >= 1
  BY <1>1, <1>2
<1>4. Append(wire, Head(piece)) \o Tail(piece) = wire \o piece
  <2> DEFINE first == <<piece[1]>>
             rest == SubSeq(piece, 2, Len(piece))
  <2>1. first \o rest = piece
    <3>1. 1 \in 1 .. Len(piece) /\ Len(piece) \in 1 .. Len(piece) /\ 1 + 1 = 2
      BY <1>3
    <3>2. SubSeq(piece, 1, Len(piece)) = first \o rest
      BY <1>2, <3>1, SubSeqRecursiveFirst
    <3> QED BY <1>2, <3>2, SubSeqFull
  <2>2. Tail(piece) = rest
    BY <1>1, <1>2, TailIsSubSeq
  <2>3. first \in Seq(Byte) /\ Head(piece) = piece[1]
    BY <1>2, <1>3
  <2>4. Append(wire, Head(piece)) = wire \o first
    BY <1>2, <1>3, <2>3, AppendIsConcat
  <2>5. (wire \o first) \o rest = wire \o (first \o rest)
    <3> HIDE DEF first, rest
    <3> QED BY <1>2, <1>3, <2>2, <2>3, Associative, Zenon
  <2> QED BY <2>1, <2>2, <2>4, <2>5
<1> QED BY <1>1, <1>3, <1>4 DEF Line, LinkTypes

LEMMA ConcatAt ==
  ASSUME NEW s \in Seq(Byte), NEW t \in Seq(Byte)
  PROVE  /\ Len(s \o t) = Len(s) + Len(t)
         /\ \A i \in 1 .. Len(s) : (s \o t)[i] = s[i]
         /\ \A i \in 1 .. Len(t) : (s \o t)[Len(s) + i] = t[i]
  OBVIOUS

(* A controller that begins a frame makes the line longer.                 *)
LEMMA LineGrows ==
  ASSUME LinkTypes, StreamInv, NEW f \in Frames \union Foreign,
         out = <<>>, out' = Marked(f), UNCHANGED <<wire, piece, ring>>
  PROVE  /\ Len(Line') = Len(Line) + Len(f) + 2
         /\ \A i \in 1 .. Len(Line) : Line'[i] = Line[i]
         /\ \A i \in 1 .. Len(f) + 2 : Line'[Len(Line) + i] = Marked(f)[i]
<1> DEFINE fed == wire \o piece
           m == Marked(f)
<1>1. /\ fed \in Seq(Byte) /\ ring \in Seq(Byte) /\ Line \in Seq(Byte)
      /\ m \in Seq(Byte) /\ Len(m) = Len(f) + 2 /\ Len(f) \in Nat
  BY LineOf, FrameFacts DEF LinkTypes
<1>2. Line = fed \o (ring \o <<>>) /\ Line' = fed \o (ring \o m)
  BY DEF Line
<1> HIDE DEF fed, m
<1>3. ring \o <<>> = ring
  BY <1>1, ConcatEmptySeq
<1>4. fed \o (ring \o m) = (fed \o ring) \o m
  BY <1>1, Associative, ZenonT(120)
<1>5. Line' = Line \o m
  BY <1>2, <1>3, <1>4
<1>6. /\ Len(Line \o m) = Len(Line) + Len(m)
      /\ \A i \in 1 .. Len(Line) : (Line \o m)[i] = Line[i]
      /\ \A i \in 1 .. Len(m) : (Line \o m)[Len(Line) + i] = m[i]
  BY <1>1, ConcatAt
<1>7. Len(Line') = Len(Line) + Len(f) + 2
  <2>1. Len(Line) \in Nat
    BY <1>1
  <2> QED BY <1>1, <1>5, <1>6, <2>1
<1>8. \A i \in 1 .. Len(Line) : Line'[i] = Line[i]
  BY <1>5, <1>6, Zenon
<1>9. \A i \in 1 .. Len(f) + 2 : Line'[Len(Line) + i] = m[i]
  BY <1>1, <1>5, <1>6, Zenon
<1> QED BY <1>7, <1>8, <1>9 DEF m

-----------------------------------------------------------------------------
(* The entries.                                                            *)

LEMMA EntryFacts ==
  ASSUME NEW b \in Seq(Entry), NEW k \in 1 .. Len(b)
  PROVE  /\ b[k] \in Entry
         /\ b[k].start \in Nat /\ b[k].rank \in Nat
         /\ b[k].frame \in Frames \union Foreign
         /\ b[k].frame \in Seq(Byte)
         /\ Len(b[k].frame) \in Nat /\ Len(b[k].frame) >= 3
         /\ EndsAt(b[k]) = b[k].start + Len(b[k].frame)
<1>1. b[k] \in Entry
  BY ElementOfSeq
<1>2. /\ b[k].start \in Nat /\ b[k].rank \in Nat
      /\ b[k].frame \in Frames \union Foreign
  BY <1>1 DEF Entry
<1> QED BY <1>1, <1>2, FrameFacts DEF EndsAt

LEMMA BeforeFacts ==
  ASSUME NEW e, e.rank \in Nat, e.frame \in Frames \union Foreign,
         sent \in Seq(Frames), Ranked(e)
  PROVE  /\ Before(e) \in 0 .. Len(sent) /\ e.rank \in 0 .. Len(sent)
         /\ e.frame \in Foreign => Before(e) = e.rank
         /\ e.frame \in Frames => Before(e) = e.rank - 1 /\ e.rank >= 1
<1>1. Len(sent) \in Nat
  OBVIOUS
<1> QED BY <1>1, ForeignFrame DEF Ranked, Before

LEMMA MovesKeep ==
  ASSUME SerialInv, Line' = Line, LinkTypes', UNCHANGED <<vars, sent, handled>>
  PROVE  SerialInv'
<1>1. StreamInv'
  BY DEF SerialInv, vars, stream, StreamInv, TypeOK, Placed, Taken, HeaderRead
<1>2. PICK b \in Seq(Entry) : LineInv(b) /\ InStep(b)
  BY DEF SerialInv
<1>3. LineInv(b)'
  BY <1>2 DEF LineInv, Written, Ranked, EndsAt, Before
<1>4. InStep(b)'
  <2>1. /\ UNCHANGED <<state, type, expected, received, frame, wire, handled, sent>>
        /\ b' = b
    BY DEF vars, stream
  <2>2. \A e : Parsing(e) => Parsing(e)'
    BY <2>1 DEF Parsing, PosIn, ParserAt, Before
  <2> QED BY <1>2, <2>1, <2>2 DEF InStep
<1> QED BY <1>1, <1>3, <1>4 DEF SerialInv

-----------------------------------------------------------------------------
(* The controller begins a frame.                                          *)

LEMMA InLine ==
  ASSUME NEW start \in Nat, NEW len \in Nat, NEW total \in Nat,
         start >= 3, start + len <= total + 1, NEW i \in 1 .. len + 2
  PROVE  start - 3 + i \in 1 .. total
  OBVIOUS

(* The frames begun before are where they were.                            *)
LEMMA EntryStays ==
  ASSUME LinkTypes, StreamInv, NEW f \in Frames \union Foreign,
         out = <<>>, out' = Marked(f), UNCHANGED <<wire, piece, ring>>,
         sent' = (IF f \in Frames THEN Append(sent, f) ELSE sent),
         NEW b \in Seq(Entry), NEW k \in 1 .. Len(b),
         Written(b[k]), Ranked(b[k])
  PROVE  Written(b[k])' /\ Ranked(b[k])'
<1> DEFINE e == b[k]
<1>1. /\ e.start \in Nat /\ e.rank \in Nat
      /\ Len(e.frame) \in Nat /\ Len(e.frame) >= 3
      /\ EndsAt(e) = e.start + Len(e.frame)
  BY EntryFacts
<1>2. Written(e) /\ Ranked(e) /\ Len(f) \in Nat
  BY FrameFacts
<1> HIDE DEF e
<1>3. /\ Len(Line) \in Nat /\ Len(Line') = Len(Line) + Len(f) + 2
      /\ \A i \in 1 .. Len(Line) : Line'[i] = Line[i]
  BY LineOf, LineGrows
<1>4. Written(e)'
  <2>1. e.start >= 3 /\ EndsAt(e) <= Len(Line) + 1
    BY <1>2 DEF Written
  <2>2. EndsAt(e) <= Len(Line') + 1
    BY <1>1, <1>2, <1>3, <2>1
  <2>3. ASSUME NEW i \in 1 .. Len(e.frame) + 2
        PROVE  Line'[e.start - 3 + i] = Marked(e.frame)[i]
    <3>1. e.start - 3 + i \in 1 .. Len(Line)
      BY <1>1, <1>3, <2>1, InLine
    <3>2. Line[e.start - 3 + i] = Marked(e.frame)[i]
      BY <1>2 DEF Written
    <3> QED BY <1>3, <3>1, <3>2
  <2> QED BY <2>1, <2>2, <2>3 DEF Written, EndsAt
<1>5. Ranked(e)'
  <2>1. sent \in Seq(Frames) /\ Len(sent) \in Nat
    BY DEF LinkTypes
  <2>2. CASE f \in Frames
    BY <1>1, <1>2, <2>1, <2>2 DEF Ranked
  <2>3. CASE f \notin Frames
    BY <1>2, <2>3 DEF Ranked
  <2> QED BY <2>2, <2>3
<1> QED BY <1>4, <1>5 DEF e

LEMMA BeginKeeps ==
  ASSUME SerialInv, NEW f \in Frames \union Foreign,
         out = <<>>, out' = Marked(f), UNCHANGED <<vars, taskVars, handled>>,
         sent' = (IF f \in Frames THEN Append(sent, f) ELSE sent)
  PROVE  SerialInv'
<1>1. LinkTypes /\ StreamInv /\ UNCHANGED <<wire, piece, ring, waits>>
  BY DEF SerialInv, vars, taskVars
<1>2. PICK b \in Seq(Entry) : LineInv(b) /\ InStep(b)
  BY DEF SerialInv
<1>3. StreamInv'
  BY DEF SerialInv, vars, stream, StreamInv, TypeOK, Placed, Taken, HeaderRead
<1>4. /\ sent \in Seq(Frames) /\ sent' \in Seq(Frames)
      /\ Len(sent) \in Nat /\ Len(sent') \in Nat /\ Len(sent) <= Len(sent')
      /\ f \in Frames => Len(sent') = Len(sent) + 1 /\ sent'[Len(sent')] = f
      /\ f \in Foreign => Len(sent') = Len(sent)
      /\ \A n \in 0 .. Len(sent) : SubSeq(sent', 1, n) = SubSeq(sent, 1, n)
  <2>1. sent \in Seq(Frames)
    BY <1>1 DEF LinkTypes
  <2>2. CASE f \in Frames
    <3>1. sent' = Append(sent, f)
      BY <2>2
    <3>2. f \notin Foreign
      BY <2>2, ForeignFrame
    <3> QED BY <2>1, <2>2, <3>1, <3>2
  <2>3. CASE f \notin Frames
    BY <2>1, <2>3
  <2> QED BY <2>2, <2>3
<1>5. LinkTypes'
  <2>1. out' \in Seq(Byte)
    BY FrameFacts
  <2> QED BY <1>1, <1>4, <2>1 DEF LinkTypes
<1>6. /\ Len(Line) \in Nat /\ Len(Line') = Len(Line) + Len(f) + 2
      /\ \A i \in 1 .. Len(f) + 2 : Line'[Len(Line) + i] = Marked(f)[i]
  BY <1>1, LineOf, LineGrows
<1>7. PICK e \in Entry : /\ e.start = Len(Line) + 3 /\ e.frame = f
                         /\ e.rank = Len(sent') /\ Len(f) \in Nat
  <2> DEFINE new == [start |-> Len(Line) + 3, frame |-> f, rank |-> Len(sent')]
  <2>1. new \in Entry
    BY <1>4, <1>6 DEF Entry
  <2> QED BY <2>1, FrameFacts
<1> DEFINE c == Append(b, e)
<1>8. /\ c \in Seq(Entry) /\ Len(b) \in Nat
      /\ Len(c) = Len(b) + 1 /\ c # <<>>
      /\ c[Len(b) + 1] = e
      /\ \A k \in 1 .. Len(b) : c[k] = b[k]
  BY <1>7
<1> HIDE DEF c
<1>9. Before(e) = Len(sent)
  BY <1>4, <1>7 DEF Before
<1>10. EndsAt(e) = Len(Line') + 1
  BY <1>6, <1>7 DEF EndsAt
<1>11. Written(e)' /\ Ranked(e)'
  <2>1. /\ e.start >= 3
        /\ EndsAt(e) <= Len(Line') + 1
        /\ e.start - 3 = Len(Line)
    BY <1>6, <1>7, <1>10
  <2>2. \A i \in 1 .. Len(e.frame) + 2 : Line'[e.start - 3 + i] = Marked(e.frame)[i]
    BY <1>6, <1>7, <2>1
  <2>3. Ranked(e)'
    BY <1>4, <1>7 DEF Ranked
  <2> QED BY <2>1, <2>2, <2>3 DEF Written, EndsAt
<1>12. ASSUME NEW k \in 1 .. Len(b) PROVE Written(b[k])' /\ Ranked(b[k])'
  BY <1>1, <1>2, EntryStays DEF LineInv
<1>13. LineInv(c)'
  <2>1. ASSUME NEW k \in 1 .. Len(c) PROVE Written(c[k])' /\ Ranked(c[k])'
    <3>1. CASE k = Len(b) + 1
      BY <1>8, <1>11, <3>1
    <3>2. CASE k \in 1 .. Len(b)
      BY <1>8, <1>12, <3>2
    <3> QED BY <1>8, <3>1, <3>2
  <2>2. c[1].start = 3 /\ Before(c[1]) = 0
    <3>1. CASE b = <<>>
      <4>1. c[1] = e /\ Len(Line) = 0 /\ Len(sent) = 0
        BY <1>2, <1>8, <3>1 DEF LineInv
      <4> QED BY <1>7, <1>9, <4>1
    <3>2. CASE b # <<>>
      <4>1. c[1] = b[1]
        BY <1>8, <3>2
      <4> QED BY <1>2, <3>2, <4>1 DEF LineInv
    <3> QED BY <3>1, <3>2
  <2>3. EndsAt(c[Len(c)]) = Len(Line') + 1 /\ c[Len(c)].rank = Len(sent')
    BY <1>7, <1>8, <1>10
  <2>4. ASSUME NEW k \in 1 .. Len(c) - 1
        PROVE  /\ c[k + 1].start = EndsAt(c[k]) + 2
               /\ Before(c[k + 1]) = c[k].rank
    <3>1. CASE k = Len(b)
      <4>1. b # <<>> /\ c[k] = b[Len(b)] /\ c[k + 1] = e
        BY <1>8, <2>4, <3>1
      <4>2. EndsAt(b[Len(b)]) = Len(Line) + 1 /\ b[Len(b)].rank = Len(sent)
        BY <1>2, <4>1 DEF LineInv
      <4> QED BY <1>6, <1>7, <1>9, <4>1, <4>2
    <3>2. CASE k \in 1 .. Len(b) - 1
      <4>1. c[k] = b[k] /\ c[k + 1] = b[k + 1]
        BY <1>8, <3>2
      <4> QED BY <1>2, <3>2, <4>1 DEF LineInv
    <3> QED BY <1>8, <3>1, <3>2
  <2> QED BY <1>8, <2>1, <2>2, <2>3, <2>4 DEF LineInv, EndsAt, Before
<1>14. InStep(c)'
  <2>1. UNCHANGED <<state, type, expected, received, wire, handled>>
    BY DEF vars, stream
  <2>2. CASE b = <<>>
    <3>1. state = "SYNC0" /\ handled = <<>>
      BY <1>2, <2>2 DEF InStep
    <3>2. Len(Line) = 0 /\ Len(sent) = 0
      BY <1>2, <2>2 DEF LineInv
    <3>3. Len(wire) = 0
      BY <1>1, <3>2, LineOf DEF LinkTypes
    <3>4. PosIn(e) = 0
      BY <1>7, <3>2, <3>3 DEF PosIn
    <3>5. ParserAt(f, 0)
      BY <1>7, <3>1 DEF ParserAt
    <3>6. SubSeq(sent', 1, Before(e)) = <<>>
      BY <1>9, <3>2, SubSeqEmpty
    <3>7. Parsing(e)'
      BY <1>7, <2>1, <3>1, <3>4, <3>5, <3>6 DEF Parsing, PosIn, ParserAt, Before
    <3>8. Len(c) = 1 /\ c[1] = e
      BY <1>8, <2>2
    <3> QED BY <3>7, <3>8 DEF InStep
  <2>3. CASE b # <<>>
    <3>1. PICK k \in 1 .. Len(b) : Parsing(b[k])
      BY <1>2, <2>3 DEF InStep
    <3>2. Before(b[k]) \in 0 .. Len(sent) /\ b[k].rank \in 0 .. Len(sent)
      BY <1>2, <1>4, EntryFacts, BeforeFacts DEF LineInv
    <3>3. Parsing(b[k])'
      BY <1>4, <2>1, <3>1, <3>2 DEF Parsing, PosIn, ParserAt, Before
    <3>4. k \in 1 .. Len(c) /\ c[k] = b[k]
      BY <1>8
    <3> QED BY <3>3, <3>4 DEF InStep
  <2> QED BY <2>2, <2>3
<1> QED BY <1>3, <1>5, <1>8, <1>13, <1>14 DEF SerialInv

-----------------------------------------------------------------------------
(* The parser takes a byte.                                                *)

(* It is a byte of a frame under way or the first one of the next frame.   *)
LEMMA InsideSome ==
  ASSUME LinkTypes, StreamInv, NEW b \in Seq(Entry), LineInv(b), InStep(b),
         Len(wire) < Len(Line)
  PROVE  \E k \in 1 .. Len(b) : Parsing(b[k]) /\ PosIn(b[k]) \in 0 .. Len(b[k].frame) + 1
<1>1. Len(wire) \in Nat /\ Len(Line) \in Nat /\ Len(b) \in Nat
  BY LineOf
<1>2. b # <<>>
  BY <1>1 DEF LineInv
<1>3. PICK k \in 1 .. Len(b) : Parsing(b[k])
  BY <1>2 DEF InStep
<1>4. /\ b[k].start \in Nat /\ Len(b[k].frame) \in Nat /\ Len(b[k].frame) >= 3
      /\ EndsAt(b[k]) = b[k].start + Len(b[k].frame)
      /\ b[k].frame \in Frames \union Foreign
  BY EntryFacts
<1>5. PosIn(b[k]) = Len(wire) + 3 - b[k].start /\ PosIn(b[k]) \in 0 .. Len(b[k].frame) + 2
  BY <1>3 DEF PosIn, Parsing
<1>6. CASE PosIn(b[k]) = Len(b[k].frame) + 2
  <2>1. EndsAt(b[k]) = Len(wire) + 1
    BY SMTT(30), <1>1, <1>4, <1>5, <1>6
  <2>2. k # Len(b)
    BY <1>1, <1>2, <2>1 DEF LineInv
  <2>3. k \in 1 .. Len(b) - 1 /\ k + 1 \in 1 .. Len(b)
    BY <1>1, <2>2
  <2>4. b[k + 1].start = EndsAt(b[k]) + 2 /\ Before(b[k + 1]) = b[k].rank
    BY <2>3 DEF LineInv
  <2>5. b[k + 1].start = Len(wire) + 3
    BY <1>1, <2>1, <2>4
  <2>6. PosIn(b[k + 1]) = 0
    BY <1>1, <2>5 DEF PosIn
  <2>7. Len(b[k + 1].frame) \in Nat /\ Len(b[k + 1].frame) >= 3
    BY <2>3, EntryFacts
  <2>8. state = "SYNC0" /\ handled = SubSeq(sent, 1, b[k].rank)
    BY <1>3, <1>4, <1>6 DEF Parsing, ParserAt
  <2>9. ParserAt(b[k + 1].frame, 0)
    BY <2>7, <2>8 DEF ParserAt
  <2>10. 0 # Len(b[k + 1].frame) + 2 /\ 0 \in 0 .. Len(b[k + 1].frame) + 2
         /\ 0 \in 0 .. Len(b[k + 1].frame) + 1
    BY <2>7
  <2>11. Parsing(b[k + 1])
    BY <2>4, <2>6, <2>8, <2>9, <2>10 DEF Parsing
  <2> QED BY <2>3, <2>6, <2>10, <2>11
<1>7. CASE PosIn(b[k]) # Len(b[k].frame) + 2
  <2>1. PosIn(b[k]) \in 0 .. Len(b[k].frame) + 1
    BY <1>4, <1>5, <1>7
  <2> QED BY <1>3, <2>1
<1> QED BY <1>6, <1>7

(* The callback gets the frame as it was sent.                             *)
LEMMA FrameAsSent ==
  ASSUME LinkTypes, StreamInv, NEW e \in Entry, Written(e), Ranked(e),
         e.frame \in Frames, PosIn(e) = Len(e.frame) + 1, Parsing(e), TakeByte
  PROVE  \E d \in [start : Nat, bytes : Seq(Byte)] :
           delivered' = Append(delivered, d) /\ d.bytes = e.frame
<1> DEFINE byte == Head(piece)
<1>1. /\ wire \in Seq(Byte) /\ Len(wire) \in Nat /\ Len(Line) \in Nat
      /\ \A i \in 1 .. Len(wire) : Line[i] = wire[i]
      /\ Line[Len(wire) + 1] = byte
  BY LineOf DEF TakeByte
<1>2. byte \in Byte /\ Feed(byte) /\ wire' = Append(wire, byte)
  BY FeedMoves DEF TakeByte, Feed
<1>3. /\ e.start \in Nat /\ e.frame \in Seq(Byte)
      /\ Len(e.frame) \in Nat /\ Len(e.frame) >= 3
      /\ Len(Marked(e.frame)) = Len(e.frame) + 2
      /\ \A i \in 1 .. Len(e.frame) : Marked(e.frame)[i + 2] = e.frame[i]
  BY FrameFacts DEF Entry
<1>4. /\ Len(e.frame) + 2 \in 1 .. Len(e.frame) + 2
      /\ e.start - 3 + (Len(e.frame) + 2) = Len(wire) + 1
      /\ Len(wire) - 2 - (Len(e.frame) - 4) = e.start
      /\ 3 + (Len(e.frame) - 3) = Len(e.frame)
      /\ \A i \in 1 .. Len(e.frame) : /\ e.start + i - 1 \in 1 .. Len(wire) + 1
                                     /\ e.start - 3 + (i + 2) = e.start + i - 1
                                     /\ i + 2 \in 1 .. Len(e.frame) + 2
  <2> DEFINE start == e.start
             len == Len(e.frame)
             fed == Len(wire)
  <2>1. /\ start \in Nat /\ len \in Nat /\ fed \in Nat
        /\ start >= 3 /\ fed + 3 - start = len + 1
    BY <1>1, <1>3 DEF PosIn, Written
  <2> HIDE DEF start, len, fed
  <2>2. /\ len + 2 \in 1 .. len + 2
        /\ start - 3 + (len + 2) = fed + 1
        /\ fed - 2 - (len - 4) = start
        /\ 3 + (len - 3) = len
    BY <2>1
  <2>3. \A i \in 1 .. len : /\ start + i - 1 \in 1 .. fed + 1
                           /\ start - 3 + (i + 2) = start + i - 1
                           /\ i + 2 \in 1 .. len + 2
    BY <2>1
  <2> QED BY <2>2, <2>3 DEF start, len, fed
<1>5. Line[Len(wire) + 1] = Marked(e.frame)[PosIn(e) + 1]
  <2>1. Line[e.start - 3 + (Len(e.frame) + 2)] = Marked(e.frame)[Len(e.frame) + 2]
    BY <1>4 DEF Written
  <2>2. PosIn(e) + 1 = Len(e.frame) + 2
    BY <1>3
  <2> QED BY <1>4, <2>1, <2>2
<1>6. FeedLast(byte) /\ received = Len(e.frame) - 4 /\ expected = Len(e.frame) - 3
  <2>1. ParserAt(e.frame, PosIn(e)) /\ PosIn(e) \in 0 .. Len(e.frame) + 1
    BY <1>3 DEF Parsing
  <2>2. Feed(Marked(e.frame)[PosIn(e) + 1])
    BY <1>1, <1>2, <1>5
  <2>3. /\ FeedLast(Marked(e.frame)[PosIn(e) + 1])
        /\ received = PosIn(e) - 5 /\ expected = Len(e.frame) - 3
    BY <2>1, <2>2, ParserSteps
  <2> QED BY <1>1, <1>3, <1>5, <2>3
<1>7. PICK d \in [start : Nat, bytes : Seq(Byte)] :
           /\ delivered' = Append(delivered, d)
           /\ d.start = Len(wire) - 2 - received
           /\ Len(d.bytes) = 3 + expected
           /\ OnWire(d)'
  BY <1>2, <1>6, CompleteFrame
<1> HIDE DEF byte
<1>8. d.start = e.start /\ Len(d.bytes) = Len(e.frame)
  BY <1>4, <1>6, <1>7
<1>9. \A i \in 1 .. Len(wire) + 1 : wire'[i] = Line[i]
  <2>1. /\ wire'[Len(wire) + 1] = byte
        /\ \A i \in 1 .. Len(wire) : wire'[i] = wire[i]
    BY <1>1, <1>2, WireGrows
  <2> QED BY <1>1, <2>1
<1>10. ASSUME NEW i \in 1 .. Len(e.frame) PROVE d.bytes[i] = e.frame[i]
  <2>1. d.bytes[i] = wire'[e.start + i - 1]
    BY <1>7, <1>8 DEF OnWire
  <2>2. /\ e.start + i - 1 \in 1 .. Len(wire) + 1
        /\ e.start - 3 + (i + 2) = e.start + i - 1
        /\ i + 2 \in 1 .. Len(e.frame) + 2
    BY <1>4
  <2>3. Line[e.start - 3 + (i + 2)] = Marked(e.frame)[i + 2]
    BY <2>2 DEF Written
  <2> QED BY <1>3, <1>9, <2>1, <2>2, <2>3
<1>11. d.bytes \in Seq(Byte)
  OBVIOUS
<1>12. d.bytes = e.frame
  BY <1>3, <1>8, <1>10, <1>11, SeqEqual
<1> QED BY <1>7, <1>12

(* The frame that comes next in the order of sending is handled.           *)
HandlesNext ==
  /\ Len(handled) < Len(sent)
  /\ handled' = Append(handled, sent[Len(handled) + 1])

LEMMA OneMore ==
  ASSUME NEW s \in Seq(Frames), NEW n \in 1 .. Len(s)
  PROVE  /\ Append(SubSeq(s, 1, n - 1), s[n]) = SubSeq(s, 1, n)
         /\ Len(SubSeq(s, 1, n - 1)) = n - 1
<1>1. SubSeq(s, 1, n - 1) \in Seq(Frames) /\ Len(SubSeq(s, 1, n - 1)) = n - 1
  <2>1. \A i \in 1 .. n - 1 : s[i] \in Frames
    OBVIOUS
  <2> QED BY <2>1, SubSeqProperties
<1>2. SubSeq(s, 1, n) = SubSeq(s, 1, n - 1) \o <<s[n]>>
  <2>1. 1 \in 1 .. Len(s) /\ n \in 1 .. Len(s)
    OBVIOUS
  <2> QED BY <2>1, SubSeqRecursiveSecond
<1>3. s[n] \in Frames
  BY ElementOfSeq
<1> QED BY <1>1, <1>2, <1>3, AppendIsConcat

LEMMA TakeKeeps ==
  ASSUME SerialInv, TakeByte
  PROVE  SerialInv' /\ (UNCHANGED handled \/ HandlesNext)
<1> DEFINE byte == Head(piece)
<1>1. LinkTypes /\ StreamInv
  BY DEF SerialInv
<1>2. /\ piece # <<>> /\ Feed(byte) /\ ReceiveFrame /\ UNCHANGED <<out, sent, ring>>
      /\ wire' = Append(wire, byte)
  BY DEF TakeByte, senderVars, Feed
<1>3. Line' = Line /\ LinkTypes' /\ byte \in Byte
  BY <1>1, FeedMoves
<1>4. StreamInv'
  BY <1>1, <1>2, <1>3, StreamFeed
<1>5. PICK b \in Seq(Entry) : LineInv(b) /\ InStep(b)
  BY DEF SerialInv
<1>6. LineInv(b)'
  BY <1>2, <1>3, <1>5 DEF LineInv, Written, Ranked, EndsAt, Before
<1>7. /\ wire \in Seq(Byte) /\ Len(wire) \in Nat /\ Len(Line) \in Nat
      /\ Len(wire) < Len(Line) /\ Line[Len(wire) + 1] = byte
      /\ Len(wire') = Len(wire) + 1
  <2>1. /\ Len(piece) \in Nat /\ Len(piece) >= 1 /\ Len(ring) \in Nat /\ Len(out) \in Nat
    BY <1>1, <1>2 DEF LinkTypes
  <2>2. /\ wire \in Seq(Byte) /\ Len(wire) \in Nat /\ Len(Line) \in Nat
        /\ Len(Line) = Len(wire) + Len(piece) + Len(ring) + Len(out)
        /\ Line[Len(wire) + 1] = byte
    BY <1>1, <1>2, LineOf
  <2>3. Len(wire) < Len(Line)
    BY <2>1, <2>2
  <2>4. Len(wire') = Len(wire) + 1
    BY <1>2, <1>3, <2>2, WireGrows
  <2> QED BY <2>2, <2>3, <2>4
<1>8. PICK k \in 1 .. Len(b) :
        Parsing(b[k]) /\ PosIn(b[k]) \in 0 .. Len(b[k].frame) + 1
  BY <1>1, <1>5, <1>7, InsideSome
<1>9. PICK e \in Entry : e = b[k]
  BY EntryFacts
<1>10. /\ e.start \in Nat /\ e.rank \in Nat /\ e.frame \in Frames \union Foreign
       /\ Len(e.frame) \in Nat /\ Len(e.frame) >= 3
       /\ Written(e) /\ Ranked(e) /\ Parsing(e)
       /\ PosIn(e) \in 0 .. Len(e.frame) + 1
  BY <1>5, <1>8, <1>9, EntryFacts DEF LineInv
<1>11. PICK pos \in 0 .. Len(e.frame) + 1 : pos = PosIn(e)
  BY <1>10
<1>12. PosIn(e)' = pos + 1 /\ e.start - 3 + (pos + 1) = Len(wire) + 1
  <2> DEFINE start == e.start
             fed == Len(wire)
  <2>1. /\ start \in Nat /\ fed \in Nat /\ pos = fed + 3 - start
        /\ Len(wire') = fed + 1
    BY <1>7, <1>10, <1>11 DEF PosIn
  <2> HIDE DEF start, fed
  <2>2. (fed + 1) + 3 - start = pos + 1 /\ start - 3 + (pos + 1) = fed + 1
    BY <2>1
  <2> USE DEF start, fed
  <2> QED BY <1>7, <2>2 DEF PosIn
<1>13. byte = Marked(e.frame)[pos + 1]
  <2>1. pos + 1 \in 1 .. Len(e.frame) + 2
    BY <1>10
  <2>2. Line[e.start - 3 + (pos + 1)] = Marked(e.frame)[pos + 1]
    BY <1>10, <2>1 DEF Written
  <2> QED BY <1>7, <1>12, <2>2
<1>14. /\ ParserAt(e.frame, pos + 1)'
       /\ e.frame \notin Frames \/ pos # Len(e.frame) + 1 => delivered' = delivered
  <2>1. ParserAt(e.frame, pos)
    BY <1>10, <1>11 DEF Parsing
  <2>2. Feed(Marked(e.frame)[pos + 1])
    BY <1>2, <1>13
  <2> QED BY <1>1, <1>10, <2>1, <2>2, ParserSteps
<1>15. /\ Before(e) \in 0 .. Len(sent) /\ e.rank \in 0 .. Len(sent)
       /\ e.frame \in Foreign => Before(e) = e.rank
       /\ e.frame \in Frames => Before(e) = e.rank - 1 /\ e.rank >= 1
       /\ sent \in Seq(Frames) /\ Len(sent) \in Nat
  BY <1>1, <1>10, BeforeFacts DEF LinkTypes
<1>16. handled = SubSeq(sent, 1, Before(e))
  <2>1. pos # Len(e.frame) + 2
    BY <1>10
  <2> QED BY <1>10, <1>11, <2>1 DEF Parsing
<1> HIDE DEF byte
<1>17. /\ handled' = SubSeq(sent, 1, IF pos + 1 = Len(e.frame) + 2 THEN e.rank ELSE Before(e))
       /\ UNCHANGED handled \/ HandlesNext
  <2>1. CASE e.frame \in Frames /\ pos = Len(e.frame) + 1
    <3>1. PICK d \in [start : Nat, bytes : Seq(Byte)] :
            delivered' = Append(delivered, d) /\ d.bytes = e.frame
      BY <1>1, <1>10, <1>11, <2>1, FrameAsSent
    <3>2. /\ delivered' # delivered
          /\ Last(delivered') = d
      <4> DEFINE Cut == [start : Nat, bytes : Seq(Byte)]
      <4>1. delivered \in Seq(Cut) /\ d \in Cut
        BY <1>1 DEF StreamInv, TypeOK
      <4> HIDE DEF Cut
      <4>2. /\ Len(delivered') = Len(delivered) + 1 /\ Len(delivered) \in Nat
            /\ delivered'[Len(delivered) + 1] = d
        BY <3>1, <4>1
      <4>3. delivered' # delivered
        BY <4>2
      <4> QED BY <4>2, <4>3 DEF Last
    <3>3. Dispatches(e.frame)
      BY <2>1, SerialAssumption
    <3>4. handled' = Append(handled, e.frame)
      BY <1>2, <3>1, <3>2, <3>3 DEF ReceiveFrame
    <3>5. /\ e.rank \in 1 .. Len(sent) /\ sent[e.rank] = e.frame
          /\ handled = SubSeq(sent, 1, e.rank - 1)
      <4>1. Before(e) = e.rank - 1 /\ e.rank >= 1 /\ e.rank \in 0 .. Len(sent)
        BY <1>15, <2>1
      <4>2. sent[e.rank] = e.frame
        BY <1>10, <2>1 DEF Ranked
      <4> QED BY <1>15, <1>16, <4>1, <4>2
    <3>6. handled' = SubSeq(sent, 1, e.rank) /\ Len(handled) = e.rank - 1
      BY <1>15, <3>4, <3>5, OneMore
    <3>7. HandlesNext
      <4>1. e.rank - 1 < Len(sent) /\ (e.rank - 1) + 1 = e.rank
        BY <1>15, <3>5
      <4> QED BY <3>4, <3>5, <3>6, <4>1 DEF HandlesNext
    <3>8. pos + 1 = Len(e.frame) + 2
      BY <1>10, <2>1
    <3> QED BY <3>6, <3>7, <3>8
  <2>2. CASE ~(e.frame \in Frames /\ pos = Len(e.frame) + 1)
    <3>1. handled' = handled
      BY <1>2, <1>14, <2>2 DEF ReceiveFrame
    <3>2. pos + 1 = Len(e.frame) + 2 => e.frame \in Foreign
      BY <1>10, <2>2
    <3> QED BY <1>15, <1>16, <3>1, <3>2
  <2> QED BY <2>1, <2>2
<1>18. Parsing(e)'
  <2>1. pos + 1 \in 0 .. Len(e.frame) + 2
    BY <1>10
  <2> QED BY <1>2, <1>12, <1>14, <1>17, <2>1 DEF Parsing, Before
<1>19. InStep(b)'
  BY <1>9, <1>18 DEF InStep
<1> QED BY <1>3, <1>4, <1>6, <1>17, <1>19 DEF SerialInv

-----------------------------------------------------------------------------
(* Every step keeps the invariant and is one of the channel or none.       *)

ChannelStep == [Channel!Next]_(Channel!vars)

LEMMA SerialStart == SerialInit => SerialInv /\ Channel!Init
<1> SUFFICES ASSUME SerialInit PROVE SerialInv /\ Channel!Init
  OBVIOUS
<1>1. StreamInv
  BY StreamInit DEF SerialInit
<1>2. LinkTypes
  BY DEF SerialInit, LinkTypes
<1>3. Line = <<>>
  BY ConcatEmptySeq DEF SerialInit, Init, Line
<1>4. <<>> \in Seq(Entry) /\ Len(<<>>) = 0
  BY EmptySeq
<1>5. LineInv(<<>>) /\ InStep(<<>>)
  <2> DEFINE none == <<>>
  <2>1. none \in Seq(Entry) /\ Len(none) = 0 /\ none = <<>>
    BY <1>4
  <2> HIDE DEF none
  <2>2. \A k \in 1 .. Len(none) : FALSE
    BY <2>1
  <2>3. \A k \in 1 .. Len(none) - 1 : FALSE
    BY <2>1
  <2>4. LineInv(none)
    BY <1>3, <2>1, <2>2, <2>3 DEF LineInv, SerialInit
  <2>5. InStep(none)
    BY <2>1 DEF InStep, SerialInit, Init
  <2> QED BY <2>1, <2>4, <2>5
<1> QED BY <1>1, <1>2, <1>4, <1>5 DEF SerialInv, SerialInit, Channel!Init

LEMMA SerialStep ==
  SerialInv /\ [SerialNext]_allVars => SerialInv' /\ ChannelStep
<1> SUFFICES ASSUME SerialInv, [SerialNext]_allVars
             PROVE  SerialInv' /\ ChannelStep
  OBVIOUS
<1> USE DEF ChannelStep, Channel!vars
<1>1. LinkTypes /\ StreamInv
  BY DEF SerialInv
<1>2. ASSUME NEW f \in Frames, StartFrame(f) PROVE SerialInv' /\ ChannelStep
  <2>1. /\ out = <<>> /\ out' = Marked(f) /\ Len(sent) < MaxFrames
        /\ sent' = Append(sent, f) /\ UNCHANGED <<vars, taskVars, handled>>
    BY <1>2 DEF StartFrame, Marked
  <2>2. SerialInv'
    BY <2>1, BeginKeeps
  <2>3. Channel!Next
    BY <2>1 DEF Channel!Next, Channel!Send
  <2> QED BY <2>2, <2>3
<1>3. ASSUME NEW f \in Foreign, StartForeign(f) PROVE SerialInv' /\ ChannelStep
  <2>1. /\ out = <<>> /\ out' = Marked(f)
        /\ sent' = sent /\ UNCHANGED <<vars, taskVars, handled>>
    BY <1>3 DEF StartForeign, Marked
  <2>2. f \notin Frames
    BY ForeignFrame
  <2>3. SerialInv'
    BY <2>1, <2>2, BeginKeeps
  <2> QED BY <2>1, <2>3
<1>4. ASSUME NEW n \in 1 .. PacketSize, Packet(n) PROVE SerialInv' /\ ChannelStep
  <2>1. UNCHANGED <<vars, sent, handled>>
    BY <1>4 DEF Packet
  <2> QED BY <1>1, <1>4, <2>1, PacketMoves, MovesKeep
<1>5. ASSUME NEW n \in 1 .. RingSize, Read(n) \/ Drain(n)
      PROVE  SerialInv' /\ ChannelStep
  <2>1. ReadSome(n) /\ UNCHANGED <<vars, sent, handled>>
    BY <1>5 DEF Read, Drain, ReadSome, senderVars
  <2> QED BY <1>1, <2>1, ReadMoves, MovesKeep
<1>6. CASE DrainEnds
  <2>1. UNCHANGED <<vars, sent, handled, wire, piece, ring, out>> /\ piece = <<>>
    BY <1>6 DEF DrainEnds, vars, senderVars
  <2>2. Line' = Line /\ LinkTypes'
    BY <1>1, <2>1 DEF Line, LinkTypes
  <2> QED BY <2>1, <2>2, MovesKeep
<1>7. CASE TakeByte
  <2>1. SerialInv' /\ (UNCHANGED handled \/ HandlesNext)
    BY <1>7, TakeKeeps
  <2>2. UNCHANGED sent
    BY <1>7 DEF TakeByte, senderVars
  <2>3. HandlesNext => Channel!Next
    BY <2>2 DEF HandlesNext, Channel!Next, Channel!Deliver
  <2> QED BY <2>1, <2>2, <2>3
<1>8. CASE UNCHANGED allVars
  <2>1. UNCHANGED <<vars, sent, handled, wire, piece, ring, out, waits>>
    BY <1>8 DEF allVars, serialVars, senderVars, taskVars, vars
  <2>2. Line' = Line /\ LinkTypes'
    BY <1>1, <2>1 DEF Line, LinkTypes
  <2> QED BY <2>1, <2>2, MovesKeep
<1> QED
  BY <1>2, <1>3, <1>4, <1>5, <1>6, <1>7, <1>8
  DEF SerialNext, SomePacket, SerialTask

(* The route loses no frame, adds none, repeats none and keeps their order *)
(* from the controller to the handler: it implements the reliable channel, *)
(* but for the channel's promise that a frame does arrive.  However long   *)
(* packets, pieces and the ring are, whatever frames there are.            *)
THEOREM SafeChannel == SerialSpec => Channel!Init /\ [][Channel!Next]_(Channel!vars)
<1>1. SerialInit /\ [][SerialNext]_allVars => []SerialInv
  BY SerialStart, SerialStep, PTL
<1>2. SerialInv /\ [SerialNext]_allVars => [Channel!Next]_(Channel!vars)
  BY SerialStep DEF ChannelStep
<1> QED BY <1>1, <1>2, SerialStart, PTL DEF SerialSpec

(* When the task waits and nothing is on its way, the parser is at the end *)
(* of the last frame.                                                      *)
LEMMA QuietLine == SerialInv => QuietMeansHandled
<1> SUFFICES ASSUME SerialInv, out = <<>>, ring = <<>>, waits
             PROVE  handled = sent
  BY DEF QuietMeansHandled
<1>1. LinkTypes /\ StreamInv /\ piece = <<>>
  BY DEF SerialInv, LinkTypes
<1>2. PICK b \in Seq(Entry) : LineInv(b) /\ InStep(b)
  BY DEF SerialInv
<1>3. Len(Line) = Len(wire) /\ Len(wire) \in Nat /\ Len(b) \in Nat
  BY <1>1, LineOf
<1>4. CASE b = <<>>
  <2>1. Len(b) = 0
    BY <1>4
  <2>2. handled = <<>> \/ \E k \in 1 .. Len(b) : TRUE
    BY <1>2 DEF InStep
  <2>3. handled = <<>>
    BY <2>1, <2>2
  <2> QED BY <1>2, <1>4, <2>3 DEF LineInv
<1>5. CASE b # <<>>
  <2>1. PICK k \in 1 .. Len(b) : Parsing(b[k])
    BY <1>2, <1>5 DEF InStep
  <2>2. /\ b[k].start \in Nat /\ Len(b[k].frame) \in Nat
        /\ EndsAt(b[k]) = b[k].start + Len(b[k].frame)
        /\ EndsAt(b[k]) <= Len(wire) + 1
        /\ PosIn(b[k]) = Len(wire) + 3 - b[k].start
        /\ PosIn(b[k]) \in 0 .. Len(b[k].frame) + 2
    BY <1>2, <1>3, <2>1, EntryFacts DEF LineInv, Written, Parsing, PosIn
  <2>3. PosIn(b[k]) = Len(b[k].frame) + 2 /\ EndsAt(b[k]) = Len(wire) + 1
    <3> DEFINE start == b[k].start
               len == Len(b[k].frame)
               fed == Len(wire)
    <3>1. /\ start \in Nat /\ len \in Nat /\ fed \in Nat
          /\ start + len <= fed + 1 /\ fed + 3 - start \in 0 .. len + 2
      BY <1>3, <2>2
    <3> HIDE DEF start, len, fed
    <3>2. fed + 3 - start = len + 2 /\ start + len = fed + 1
      BY <3>1
    <3> QED BY <2>2, <3>2 DEF start, len, fed
  <2>4. k = Len(b)
    <3> SUFFICES ASSUME k # Len(b) PROVE FALSE
      OBVIOUS
    <3>1. k \in 1 .. Len(b) - 1 /\ k + 1 \in 1 .. Len(b)
      BY <1>3
    <3>2. b[k + 1].start = Len(wire) + 3
      BY <1>2, <1>3, <2>3, <3>1 DEF LineInv
    <3>3. /\ EndsAt(b[k + 1]) = b[k + 1].start + Len(b[k + 1].frame)
          /\ Len(b[k + 1].frame) \in Nat
          /\ EndsAt(b[k + 1]) <= Len(wire) + 1
      BY <1>2, <1>3, <3>1, EntryFacts DEF LineInv, Written
    <3> DEFINE len == Len(b[k + 1].frame)
               fed == Len(wire)
    <3>4. len \in Nat /\ fed \in Nat /\ (fed + 3) + len <= fed + 1
      BY <1>3, <3>2, <3>3
    <3> HIDE DEF len, fed
    <3> QED BY <3>4
  <2>5. b[k].rank = Len(sent)
    BY <1>2, <1>5, <2>4 DEF LineInv
  <2>6. handled = SubSeq(sent, 1, Len(sent))
    BY <2>1, <2>3, <2>5 DEF Parsing
  <2>7. sent \in Seq(Frames)
    BY <1>1 DEF LinkTypes
  <2> QED BY <2>6, <2>7, SubSeqFull
<1> QED BY <1>4, <1>5

(* Nothing is held back: when the task waits and no byte is on its way,    *)
(* the handler has been called for every frame sent.                       *)
THEOREM NothingHeldBack == SerialSpec => []QuietMeansHandled
<1> QED BY SerialStart, SerialStep, QuietLine, PTL DEF SerialSpec
=============================================================================
