---------------------------- MODULE TlvLinkProofs ----------------------------
(* Theorems about the two routes that may lose something: TlvLink and      *)
(* UdpListener, for every format, every frame that meets FramesAssumption, *)
(* every number of frames and of disturbances, and every datagram.         *)
EXTENDS TlvLink, UdpListener, TlvStreamProofs, WellFoundedInduction

-----------------------------------------------------------------------------
(* The inductive invariant of the line.                                    *)

Last == sent[Len(sent)]
Whole(f) == <<SYNC0, SYNC1>> \o f

(* How many bytes of the last frame have left the controller.              *)
At == Len(Last) + 2 - Len(out)

LinkTypes ==
  /\ out \in Seq(Byte)
  /\ sent \in Seq(Frames)
  /\ quiet \in Nat
  /\ aligned \in BOOLEAN

(* The controller is in the middle of the last frame, or between two.      *)
OutIsRest ==
  /\ sent = <<>> => out = <<>> /\ state = "SYNC0"
  /\ sent # <<>> => /\ Len(out) <= Len(Last) + 2
                    /\ \A i \in 1 .. Len(out) : out[i] = Whole(Last)[At + i]

(* The parser takes the n-th byte of f for what it is.                     *)
InPlaceAt(f, n) ==
  \/ n \in {0, Len(f) + 2} /\ state = "SYNC0"
  \/ n = 1 /\ state = "SYNC1"
  \/ n = 2 /\ state = "TYPE"
  \/ n = 3 /\ state = "LEN_MSB" /\ type = f[1]
  \/ n = 4 /\ state = "LEN_LSB" /\ type = f[1] /\ expected = f[2] * ByteRadix
  \/ /\ n \in 5 .. Len(f) + 1 /\ state = "PAYLOAD"
     /\ expected = Len(f) - 3 /\ received = n - 5

(* The most bytes the parser can still take for those of a frame.          *)
Wants ==
  CASE state = "SYNC0"   -> 0
    [] state = "SYNC1"   -> 4 + LongestPayload
    [] state = "TYPE"    -> 3 + LongestPayload
    [] state = "LEN_MSB" -> 2 + LongestPayload
    [] state = "LEN_LSB" -> 1 + LongestPayload
    [] state = "PAYLOAD" -> expected - received

(* The parser is in its place, or hunts, or what it still wants and what   *)
(* it has had since the last disturbance are within the bound.             *)
ResyncInv ==
  sent # <<>> =>
    \/ InPlaceAt(Last, At)
    \/ state = "SYNC0"
    \/ quiet + Wants <= SwallowBound

(* What an aligned parser has of the last frame is the end of the wire.    *)
AlignedInv ==
  aligned =>
    /\ sent # <<>>
    /\ InPlaceAt(Last, At)
    /\ At <= Len(wire)
    /\ \A i \in 1 .. At : wire[Len(wire) - At + i] = Whole(Last)[i]
    /\ AlignedArrives

LinkInv == StreamInv /\ LinkTypes /\ OutIsRest /\ ResyncInv /\ AlignedInv

-----------------------------------------------------------------------------
(* The longest payload.                                                    *)

LEMMA MaxExists ==
  ASSUME NEW S, NEW b \in Nat, \A n \in S : n \in Nat /\ n <= b, S # {}
  PROVE  MaxOf(S) \in S /\ \A m \in S : m <= MaxOf(S)
<1> DEFINE Below == {b - n : n \in S}
           Less == {p \in Nat \X Nat : p[1] < p[2]}
<1>1. IsWellFoundedOn(OpToRel(<, Nat), Nat)
  BY NatLessThanWellFounded
<1>2. OpToRel(<, Nat) = Less
  BY DEF OpToRel
<1>3. IsWellFoundedOn(Less, Nat)
  BY <1>1, <1>2
<1>4. Below \subseteq Nat /\ Below # {}
  OBVIOUS
<1> HIDE DEF Below, Less
<1>5. PICK x \in Below : \A y \in Below : ~ (<<y, x>> \in Less)
  BY <1>3, <1>4, WFMin
<1>6. PICK n \in S : x = b - n
  BY DEF Below
<1>7. ASSUME NEW m \in S PROVE m <= n
  <2>1. b - m \in Below /\ b - m \in Nat /\ x \in Nat
    BY <1>4 DEF Below
  <2>2. ~ (b - m < x)
    <3> DEFINE p == <<b - m, x>>
    <3>1. p \notin Less
      BY <1>5, <2>1
    <3>2. p \in Nat \X Nat /\ p[1] = b - m /\ p[2] = x
      BY <2>1
    <3> QED BY <3>1, <3>2 DEF Less
  <2> QED BY <1>6, <2>1, <2>2
<1> QED BY <1>7 DEF MaxOf

(* What a frame of the controller is.                                      *)
LEMMA FrameFacts ==
  ASSUME NEW f \in Frames
  PROVE  /\ f \in Seq(Byte) /\ Len(f) \in Nat /\ Len(f) >= 4
         /\ Len(f) - 3 <= MaxPayload
         /\ f[1] \in ValidTypes
         /\ f[2] * ByteRadix + f[3] = Len(f) - 3
         /\ LengthIsSane(f[1], Len(f) - 3)
         /\ \A i \in 1 .. Len(f) : f[i] # SYNC0
<1>1. f \in Seq(Byte \ {SYNC0}) /\ Dispatches(f) /\ Len(f) - 3 <= MaxPayload
  BY FramesAssumption
<1>2. f \in Seq(Byte) /\ Len(f) \in Nat /\ \A i \in 1 .. Len(f) : f[i] # SYNC0
  BY <1>1
<1>3. /\ Len(f) >= 3 /\ f[1] \in ValidTypes
      /\ f[2] * ByteRadix + f[3] = Len(f) - 3
  BY <1>1 DEF Dispatches
<1> DEFINE n == Len(f) - 3
<1>4. n \in Nat
  BY <1>2, <1>3
<1>5. /\ f[1] = KEYBOARD       => n = KeyboardLen
      /\ f[1] = MOUSE          => n = MouseLen
      /\ f[1] = MOUSE_ABSOLUTE => n = MouseAbsLen
      /\ f[1] = MICROPHONE     => n # 0 /\ n % 2 = 0 /\ n <= MicMaxBytes
  BY <1>1, <1>3 DEF Dispatches
<1>6. n <= MaxPayload
  BY <1>1
<1> HIDE DEF n
<1>7. LengthIsSane(f[1], n)
  BY <1>3, <1>4, <1>5, <1>6
  DEF LengthIsSane, ValidTypes, KEYBOARD, MOUSE, MICROPHONE, MOUSE_ABSOLUTE
<1>8. n > 0
  BY <1>4, <1>7, SaneLength
<1>9. Len(f) >= 4
  BY <1>2, <1>8 DEF n
<1> QED BY <1>1, <1>2, <1>3, <1>7, <1>9 DEF n

(* The sane lengths have a greatest one, as soon as there is a frame.      *)
LEMMA Longest ==
  ASSUME Frames # {}
  PROVE  /\ LongestPayload \in Nat
         /\ \A t, n : n \in Nat /\ LengthIsSane(t, n) => n <= LongestPayload
<1> DEFINE Sane == {n \in 0 .. MaxPayload : \E t \in ValidTypes : LengthIsSane(t, n)}
<1>1. PICK f \in Frames : TRUE
  OBVIOUS
<1>2. MaxPayload \in Nat
  BY LengthAssumption
<1>3. Len(f) - 3 \in Sane
  BY <1>2, FrameFacts
<1>4. \A n \in Sane : n \in Nat /\ n <= MaxPayload
  BY <1>2
<1>5. \A t, n : n \in Nat /\ LengthIsSane(t, n) => n \in Sane
  BY <1>2, SaneLength
<1>6. LongestPayload = MaxOf(Sane)
  BY DEF LongestPayload
<1> HIDE DEF Sane
<1>7. MaxOf(Sane) \in Sane /\ \A m \in Sane : m <= MaxOf(Sane)
  BY <1>2, <1>3, <1>4, MaxExists
<1> QED BY <1>4, <1>5, <1>6, <1>7

LEMMA WholeFacts ==
  ASSUME NEW f \in Frames
  PROVE  /\ Whole(f) \in Seq(Byte) /\ Len(Whole(f)) = Len(f) + 2
         /\ Whole(f)[1] = SYNC0 /\ Whole(f)[2] = SYNC1
         /\ \A i \in 1 .. Len(f) : Whole(f)[i + 2] = f[i]
         /\ \A i \in 2 .. Len(f) + 2 : Whole(f)[i] # SYNC0
<1>1. f \in Seq(Byte) /\ Len(f) \in Nat /\ \A i \in 1 .. Len(f) : f[i] # SYNC0
  BY FrameFacts
<1>2. SYNC0 \in Byte /\ SYNC1 \in Byte /\ SYNC0 # SYNC1
  BY ByteFacts, ByteAssumption
<1>3. /\ Whole(f) \in Seq(Byte) /\ Len(Whole(f)) = Len(f) + 2
      /\ Whole(f)[1] = SYNC0 /\ Whole(f)[2] = SYNC1
      /\ \A i \in 1 .. Len(f) : Whole(f)[i + 2] = f[i]
  BY <1>1, <1>2 DEF Whole
<1>4. ASSUME NEW i \in 2 .. Len(f) + 2 PROVE Whole(f)[i] # SYNC0
  <2>1. CASE i = 2
    BY <1>2, <1>3, <2>1
  <2>2. CASE i # 2
    <3>1. i - 2 \in 1 .. Len(f) /\ i = (i - 2) + 2
      BY <1>1, <2>2
    <3>2. Whole(f)[i] = f[i - 2]
      BY <1>3, <3>1
    <3> QED BY <1>1, <3>1, <3>2
  <2> QED BY <2>1, <2>2
<1> QED BY <1>3, <1>4

-----------------------------------------------------------------------------
(* What a byte does to a parser that is in its place, and to one that is   *)
(* not.                                                                    *)

(* Only the action of the parser's state takes the byte.                   *)
LEMMA FeedByState ==
  ASSUME NEW byte, Feed(byte)
  PROVE  /\ wire' = Append(wire, byte)
         /\ state = "SYNC0" => FeedSync0(byte)
         /\ state = "SYNC1" => FeedSync1(byte)
         /\ state = "TYPE" => FeedInvalidType(byte) \/ FeedType(byte)
         /\ state = "LEN_MSB" => FeedLenMsb(byte)
         /\ state = "LEN_LSB" => FeedLenLsb(byte) \/ FeedInsaneLength(byte)
         /\ state = "PAYLOAD" => FeedPayload(byte) \/ FeedLast(byte)
  BY DEF Feed, FeedSync0, FeedSync1, FeedInvalidType, FeedType, FeedLenMsb,
         FeedLenLsb, FeedInsaneLength, FeedPayload, FeedLast

LEMMA FeedInPlace ==
  ASSUME StreamInv, NEW f \in Frames, NEW n \in 0 .. Len(f) + 1,
         InPlaceAt(f, n), Feed(Whole(f)[n + 1])
  PROVE  InPlaceAt(f, n + 1)'
<1> DEFINE byte == Whole(f)[n + 1]
<1>1. /\ Len(f) \in Nat /\ Len(f) >= 4
      /\ f[1] \in ValidTypes
      /\ f[2] * ByteRadix + f[3] = Len(f) - 3
      /\ LengthIsSane(f[1], Len(f) - 3)
  BY FrameFacts
<1>2. /\ Whole(f)[1] = SYNC0 /\ Whole(f)[2] = SYNC1
      /\ \A i \in 1 .. Len(f) : Whole(f)[i + 2] = f[i]
  BY WholeFacts
<1>3. CASE n = 0
  <2>1. state = "SYNC0" /\ byte = SYNC0
    BY <1>1, <1>2, <1>3 DEF InPlaceAt
  <2>2. state' = "SYNC1"
    BY <2>1, FeedByState DEF FeedSync0
  <2> QED BY <1>3, <2>2 DEF InPlaceAt
<1>4. CASE n = 1
  <2>1. state = "SYNC1" /\ byte = SYNC1
    BY <1>1, <1>2, <1>4 DEF InPlaceAt
  <2>2. state' = "TYPE"
    BY <2>1, FeedByState, ByteAssumption DEF FeedSync1
  <2> QED BY <1>4, <2>2 DEF InPlaceAt
<1>5. CASE n = 2
  <2>1. state = "TYPE" /\ byte = f[1]
    BY <1>1, <1>2, <1>5 DEF InPlaceAt
  <2>2. state' = "LEN_MSB" /\ type' = f[1]
    BY <1>1, <2>1, FeedByState DEF FeedType, FeedInvalidType
  <2> QED BY <1>5, <2>2 DEF InPlaceAt
<1>6. CASE n = 3
  <2>1. state = "LEN_MSB" /\ type = f[1] /\ byte = f[2]
    BY <1>1, <1>2, <1>6 DEF InPlaceAt
  <2>2. state' = "LEN_LSB" /\ type' = f[1] /\ expected' = f[2] * ByteRadix
    BY <2>1, FeedByState DEF FeedLenMsb
  <2> QED BY <1>6, <2>2 DEF InPlaceAt
<1>7. CASE n = 4
  <2>1. /\ state = "LEN_LSB" /\ type = f[1] /\ byte = f[3]
        /\ expected = f[2] * ByteRadix
    BY <1>1, <1>2, <1>7 DEF InPlaceAt
  <2>2. LengthIsSane(type, expected + byte) /\ expected + byte = Len(f) - 3
    BY <1>1, <2>1
  <2>3. FeedLenLsb(byte)
    BY <2>1, <2>2, FeedByState DEF FeedInsaneLength
  <2>4. state' = "PAYLOAD" /\ expected' = Len(f) - 3 /\ received' = 0
    BY <2>2, <2>3 DEF FeedLenLsb
  <2> QED BY <1>1, <1>7, <2>4 DEF InPlaceAt
<1>8. CASE n \in 5 .. Len(f)
  <2>1. state = "PAYLOAD" /\ expected = Len(f) - 3 /\ received = n - 5
    BY <1>1, <1>8 DEF InPlaceAt
  <2>2. ~ (received + 1 >= expected)
    BY <1>1, <1>8, <2>1
  <2>3. FeedPayload(byte)
    BY <2>1, <2>2, FeedByState DEF FeedLast
  <2>4. state' = "PAYLOAD" /\ expected' = Len(f) - 3 /\ received' = n - 4
    BY <1>8, <2>1, <2>3 DEF FeedPayload
  <2> QED BY <1>1, <1>8, <2>4 DEF InPlaceAt
<1>9. CASE n = Len(f) + 1
  <2>1. state = "PAYLOAD" /\ expected = Len(f) - 3 /\ received = n - 5
    BY <1>1, <1>9 DEF InPlaceAt
  <2>2. FeedLast(byte)
    BY <1>1, <1>9, <2>1, FeedByState DEF FeedPayload
  <2>3. state' = "SYNC0"
    BY <2>2 DEF FeedLast, Reset
  <2> QED BY <1>1, <1>9, <2>3 DEF InPlaceAt
<1> QED BY <1>1, <1>3, <1>4, <1>5, <1>6, <1>7, <1>8, <1>9

(* A frame that met an aligned parser is delivered by its last byte.       *)
LEMMA FeedArrives ==
  ASSUME StreamInv, NEW f \in Frames, InPlaceAt(f, Len(f) + 1),
         Feed(Whole(f)[Len(f) + 2]),
         Len(f) + 1 <= Len(wire),
         \A i \in 1 .. Len(f) + 1 : wire[Len(wire) - (Len(f) + 1) + i] = Whole(f)[i]
  PROVE  /\ delivered' # <<>>
         /\ delivered'[Len(delivered')].bytes = f
         /\ delivered'[Len(delivered')].start + Len(f) = Len(wire') + 1
<1> DEFINE byte == Whole(f)[Len(f) + 2]
           Cut == [start : Nat, bytes : Seq(Byte)]
<1>1. f \in Seq(Byte) /\ Len(f) \in Nat /\ Len(f) >= 4
  BY FrameFacts
<1>2. /\ Whole(f) \in Seq(Byte) /\ Len(Whole(f)) = Len(f) + 2
      /\ \A i \in 1 .. Len(f) : Whole(f)[i + 2] = f[i]
  BY WholeFacts
<1>3. byte \in Byte
  BY <1>1, <1>2
<1>4. wire \in Seq(Byte) /\ Len(wire) \in Nat /\ delivered \in Seq(Cut)
  BY DEF StreamInv, TypeOK
<1>5. wire' = Append(wire, byte)
  BY DEF Feed
<1>6. state = "PAYLOAD" /\ expected = Len(f) - 3 /\ received = Len(f) - 4
  BY <1>1 DEF InPlaceAt
<1>7. FeedLast(byte)
  BY <1>1, <1>6, FeedByState DEF FeedPayload
<1>8. PICK d \in Cut : /\ delivered' = Append(delivered, d)
                       /\ d.start = Len(wire) - 2 - received
                       /\ Len(d.bytes) = 3 + expected
                       /\ OnWire(d)'
  BY <1>3, <1>5, <1>7, CompleteFrame
<1>9. d.bytes \in Seq(Byte) /\ Len(d.bytes) = Len(f)
  BY <1>1, <1>6, <1>8
<1>10. d.start = Len(wire) + 2 - Len(f)
  BY <1>1, <1>4, <1>6, <1>8
<1>11. ASSUME NEW i \in 1 .. Len(f) PROVE d.bytes[i] = f[i]
  <2>1. d.bytes[i] = wire'[Len(wire) + 1 - Len(f) + i]
    <3>1. d.bytes[i] = wire'[d.start + i - 1]
      BY <1>8, <1>9 DEF OnWire
    <3>2. d.start + i - 1 = Len(wire) + 1 - Len(f) + i
      BY <1>1, <1>4, <1>10
    <3> QED BY <3>1, <3>2
  <2>2. CASE i = Len(f)
    <3>1. Len(wire) + 1 - Len(f) + i = Len(wire) + 1
      BY <1>1, <1>4, <2>2
    <3>2. wire'[Len(wire) + 1] = byte
      BY <1>3, <1>4, <1>5, WireGrows
    <3> QED BY <1>1, <1>2, <2>1, <2>2, <3>1, <3>2
  <2>3. CASE i # Len(f)
    <3>1. /\ i + 2 \in 1 .. Len(f) + 1
          /\ Len(wire) + 1 - Len(f) + i = Len(wire) - (Len(f) + 1) + (i + 2)
          /\ Len(wire) - (Len(f) + 1) + (i + 2) \in 1 .. Len(wire)
      BY <1>1, <1>4, <2>3
    <3>2. wire'[Len(wire) + 1 - Len(f) + i] = wire[Len(wire) - (Len(f) + 1) + (i + 2)]
      BY <1>3, <1>4, <1>5, <3>1, WireGrows
    <3>3. wire[Len(wire) - (Len(f) + 1) + (i + 2)] = Whole(f)[i + 2]
      BY <3>1
    <3> QED BY <1>2, <2>1, <3>2, <3>3
  <2> QED BY <2>2, <2>3
<1>12. d.bytes = f
  BY <1>1, <1>9, <1>11, SeqEqual
<1> HIDE DEF Cut
<1>13. delivered' # <<>> /\ delivered'[Len(delivered')] = d
  BY SMTT(30), <1>4, <1>8
<1>14. Len(wire') = Len(wire) + 1
  BY <1>4, <1>5
<1>15. d.start + Len(f) = Len(wire') + 1
  BY <1>1, <1>4, <1>10, <1>14
<1> QED BY <1>12, <1>13, <1>15

(* A parser out of its place hunts, takes SYNC0 for a beginning, or wants  *)
(* less with every byte.                                                   *)
LEMMA WantsBound ==
  ASSUME StreamInv, Frames # {}
  PROVE  /\ SwallowBound \in Nat /\ Wants \in Nat /\ Wants <= SwallowBound
         /\ state # "SYNC0" => Wants > 0
<1>1. LongestPayload \in Nat /\ SwallowBound = 4 + LongestPayload
  BY Longest DEF SwallowBound
<1>2. expected \in Nat /\ received \in Nat /\ state \in States
  BY DEF StreamInv, TypeOK, UInt16
<1>3. CASE state = "PAYLOAD"
  <2>1. received < expected /\ LengthIsSane(type, expected)
    BY <1>3 DEF StreamInv, HeaderRead
  <2>2. expected <= LongestPayload
    BY <1>2, <2>1, Longest
  <2>3. Wants = expected - received
    BY <1>3 DEF Wants
  <2> QED BY <1>1, <1>2, <2>1, <2>2, <2>3
<1>4. CASE state # "PAYLOAD"
  BY <1>1, <1>2, <1>4 DEF Wants, States
<1> QED BY <1>3, <1>4

LEMMA Hunts ==
  ASSUME StreamInv, Frames # {}, NEW byte \in Byte, Feed(byte)
  PROVE  \/ state' = "SYNC0"
         \/ byte = SYNC0 /\ state' = "SYNC1" /\ Wants' = SwallowBound
         \/ state # "SYNC0" /\ Wants' \in Nat /\ Wants' + 1 <= Wants
<1>1. LongestPayload \in Nat /\ SwallowBound = 4 + LongestPayload
  BY Longest DEF SwallowBound
<1>2. expected \in Nat /\ received \in Nat /\ state \in States /\ byte \in Nat
  BY ByteFacts DEF StreamInv, TypeOK, UInt16
<1>3. CASE state \in {"SYNC0", "SYNC1"}
  BY <1>1, <1>3, FeedByState DEF FeedSync0, FeedSync1, Wants
<1>4. CASE state = "TYPE"
  BY <1>1, <1>4, FeedByState DEF FeedInvalidType, FeedType, Wants
<1>5. CASE state = "LEN_MSB"
  BY <1>1, <1>5, FeedByState DEF FeedLenMsb, Wants
<1>6. CASE state = "LEN_LSB"
  <2>1. CASE FeedLenLsb(byte)
    <3>1. LengthIsSane(type, expected + byte) /\ expected + byte \in Nat
      BY <1>2, <2>1 DEF FeedLenLsb
    <3>2. expected + byte <= LongestPayload
      BY <3>1, Longest
    <3>3. Wants' = expected + byte
      BY <1>2, <2>1 DEF FeedLenLsb, Wants
    <3>4. Wants = 1 + LongestPayload
      BY <1>6 DEF Wants
    <3> QED BY <1>1, <1>6, <3>1, <3>2, <3>3, <3>4
  <2>2. CASE FeedInsaneLength(byte)
    BY <2>2 DEF FeedInsaneLength, Reset
  <2> QED BY <1>6, <2>1, <2>2, FeedByState
<1>7. CASE state = "PAYLOAD"
  <2>1. CASE FeedPayload(byte)
    <3>1. Wants = expected - received /\ Wants' = expected - (received + 1)
      BY <1>7, <2>1 DEF FeedPayload, Wants
    <3>2. received + 1 < expected
      BY <2>1 DEF FeedPayload
    <3> QED BY <1>2, <1>7, <3>1, <3>2
  <2>2. CASE FeedLast(byte)
    BY <2>2 DEF FeedLast, Reset
  <2> QED BY <1>7, <2>1, <2>2, FeedByState
<1> QED BY <1>2, <1>3, <1>4, <1>5, <1>6, <1>7 DEF States

-----------------------------------------------------------------------------
(* Every step of the line keeps the invariant.                             *)

LEMMA LastFacts ==
  ASSUME LinkTypes, OutIsRest, sent # <<>>
  PROVE  /\ Last \in Frames /\ Frames # {}
         /\ Len(Last) \in Nat /\ Len(out) \in Nat
         /\ At \in Nat /\ At + Len(out) = Len(Last) + 2
         /\ out = <<>> <=> At = Len(Last) + 2
<1>1. sent \in Seq(Frames) /\ Len(sent) \in Nat /\ Len(sent) > 0
  BY DEF LinkTypes
<1>2. Last \in Frames
  BY <1>1 DEF Last
<1>3. Len(Last) \in Nat
  BY <1>2, FrameFacts
<1>4. Len(out) \in Nat /\ (out = <<>> <=> Len(out) = 0)
  BY DEF LinkTypes
<1>5. Len(out) <= Len(Last) + 2
  BY DEF OutIsRest
<1> QED BY <1>2, <1>3, <1>4, <1>5 DEF At

(* The parser wants one byte less for the one it has had.                  *)
LEMMA OneForOne ==
  ASSUME NEW q \in Nat, NEW w \in Nat, NEW v \in Nat, NEW b \in Nat,
         q + w <= b, v + 1 <= w
  PROVE  (q + 1) + v <= b
  OBVIOUS

(* A byte leaves the controller, whatever becomes of it.                   *)
LEMMA ByteLeaves ==
  ASSUME LinkTypes, OutIsRest, out # <<>>, out' = Tail(out), UNCHANGED sent
  PROVE  /\ OutIsRest' /\ out' \in Seq(Byte) /\ sent # <<>>
         /\ Last' = Last /\ At' = At + 1
         /\ At \in 0 .. Len(Last) + 1
         /\ Head(out) = Whole(Last)[At + 1] /\ Head(out) \in Byte
<1>1. sent # <<>>
  BY DEF OutIsRest
<1>2. /\ Len(Last) \in Nat /\ Len(out) \in Nat /\ At \in Nat
      /\ At + Len(out) = Len(Last) + 2
  BY <1>1, LastFacts
<1>3. /\ out \in Seq(Byte) /\ Len(out) > 0 /\ Len(out') = Len(out) - 1
      /\ out' \in Seq(Byte) /\ Head(out) \in Byte /\ Head(out) = out[1]
      /\ \A i \in 1 .. Len(out) - 1 : out'[i] = out[i + 1]
  BY DEF LinkTypes
<1>4. \A i \in 1 .. Len(out) : out[i] = Whole(Last)[At + i]
  BY <1>1 DEF OutIsRest
<1>5. Last' = Last
  BY DEF Last
<1>6. At' = At + 1
  <2>1. At' = Len(Last') + 2 - Len(out') /\ At = Len(Last) + 2 - Len(out)
    BY DEF At
  <2> QED BY <1>2, <1>3, <1>5, <2>1
<1>7. At \in 0 .. Len(Last) + 1
  BY <1>2, <1>3
<1>8. Head(out) = Whole(Last)[At + 1]
  BY <1>3, <1>4
<1>9. OutIsRest'
  <2>1. Len(out') <= Len(Last) + 2
    BY <1>2, <1>3
  <2>2. ASSUME NEW i \in 1 .. Len(out') PROVE out'[i] = Whole(Last)[(At + 1) + i]
    <3>1. i \in 1 .. Len(out) - 1 /\ i + 1 \in 1 .. Len(out)
          /\ At + (i + 1) = (At + 1) + i
      BY <1>2, <1>3
    <3> QED BY <1>3, <1>4, <3>1
  <2>3. Whole(Last') = Whole(Last)
    BY <1>5 DEF Whole
  <2> QED BY <1>1, <1>5, <1>6, <2>1, <2>2, <2>3 DEF OutIsRest
<1> QED BY <1>1, <1>3, <1>5, <1>6, <1>7, <1>8, <1>9

LEMMA StartFrameKeeps ==
  ASSUME LinkInv, NEW f \in Frames, StartFrame(f)
  PROVE  LinkInv'
<1> USE DEF LinkInv
<1>1. /\ out = <<>> /\ out' = Whole(f) /\ sent' = Append(sent, f)
      /\ aligned' = (state = "SYNC0") /\ UNCHANGED <<vars, noise, quiet>>
  BY DEF StartFrame, Whole
<1>2. /\ Whole(f) \in Seq(Byte) /\ Len(Whole(f)) = Len(f) + 2 /\ Len(f) \in Nat
      /\ Len(f) >= 4
  BY WholeFacts, FrameFacts
<1>3. /\ sent' \in Seq(Frames) /\ sent' # <<>> /\ Last' = f
  BY <1>1 DEF LinkTypes, Last
<1>4. At' = 0
  <2>1. At' = Len(Last') + 2 - Len(out')
    BY DEF At
  <2> QED BY <1>1, <1>2, <1>3, <2>1
<1>5. out' # <<>>
  BY <1>1, <1>2
<1>6. StreamInv'
  BY <1>1 DEF vars, stream, StreamInv, TypeOK, Placed, Taken, HeaderRead
<1>7. LinkTypes'
  BY <1>1, <1>2, <1>3 DEF LinkTypes
<1>8. OutIsRest'
  <2>1. ASSUME NEW i \in 1 .. Len(out') PROVE out'[i] = Whole(f)[0 + i]
    BY <1>1, <1>2
  <2>2. Whole(Last') = Whole(f)
    BY <1>3 DEF Whole
  <2> QED BY <1>1, <1>2, <1>3, <1>4, <2>1, <2>2 DEF OutIsRest
<1>9. ResyncInv'
  <2>1. CASE state = "SYNC0"
    BY <1>1, <2>1 DEF ResyncInv, vars, stream
  <2>2. CASE state # "SYNC0"
    <3>1. sent # <<>>
      BY <2>2 DEF OutIsRest
    <3>2. At = Len(Last) + 2 /\ Len(Last) \in Nat /\ Len(Last) >= 4
      BY <1>1, <3>1, LastFacts, FrameFacts
    <3>3. ~ InPlaceAt(Last, At)
      BY <2>2, <3>2 DEF InPlaceAt
    <3>4. quiet + Wants <= SwallowBound
      BY <2>2, <3>1, <3>3 DEF ResyncInv
    <3>5. quiet' + Wants' <= SwallowBound
      BY <1>1, <3>4 DEF Wants, vars, stream
    <3> QED BY <3>5 DEF ResyncInv
  <2> QED BY <2>1, <2>2
<1>10. AlignedInv'
  <2> SUFFICES ASSUME aligned' PROVE AlignedInv'
    BY DEF AlignedInv
  <2>1. state' = "SYNC0"
    BY <1>1 DEF vars, stream
  <2>2. InPlaceAt(Last, At)'
    BY <1>4, <2>1 DEF InPlaceAt
  <2>3. Len(wire') \in Nat
    BY <1>6 DEF StreamInv, TypeOK
  <2> QED BY <1>3, <1>4, <1>5, <2>2, <2>3 DEF AlignedInv, AlignedArrives
<1> QED BY <1>6, <1>7, <1>8, <1>9, <1>10

LEMMA TransmitKeeps ==
  ASSUME LinkInv, Transmit
  PROVE  LinkInv'
<1> USE DEF LinkInv
<1>1. /\ out # <<>> /\ out' = Tail(out) /\ quiet' = quiet + 1
      /\ UNCHANGED <<sent, noise, aligned>> /\ Feed(Head(out))
  BY DEF Transmit
<1>2. /\ OutIsRest' /\ out' \in Seq(Byte) /\ sent # <<>>
      /\ Last' = Last /\ At' = At + 1 /\ At \in 0 .. Len(Last) + 1
      /\ Head(out) = Whole(Last)[At + 1] /\ Head(out) \in Byte
  BY <1>1, ByteLeaves
<1>3. StreamInv'
  BY <1>1, <1>2, StreamFeed
<1>4. LinkTypes'
  BY <1>1, <1>2 DEF LinkTypes
<1>5. Last \in Frames /\ Frames # {} /\ Len(Last) \in Nat
  BY <1>2, LastFacts
<1>6. PICK f \in Frames, n \in Nat, byte \in Byte :
        f = Last /\ n = At /\ byte = Head(out) /\ n \in 0 .. Len(f) + 1
  BY <1>2, <1>5
<1>7. /\ Last' = f /\ At' = n + 1 /\ byte = Whole(f)[n + 1] /\ Feed(byte)
      /\ Len(f) \in Nat /\ Len(f) >= 4
  <2>1. Whole(Last)[At + 1] = Whole(f)[n + 1]
    BY <1>6 DEF Whole
  <2> QED BY <1>1, <1>2, <1>6, <2>1, FrameFacts
<1>8. InPlaceAt(f, n) => InPlaceAt(Last, At)'
  <2>1. InPlaceAt(f, n) => InPlaceAt(f, n + 1)'
    BY <1>6, <1>7, FeedInPlace
  <2> QED BY <1>7, <2>1 DEF InPlaceAt
<1>9. ResyncInv'
  <2>1. CASE InPlaceAt(f, n)
    BY <1>8, <2>1 DEF ResyncInv
  <2>2. CASE ~ InPlaceAt(f, n)
    <3>1. state = "SYNC0" \/ quiet + Wants <= SwallowBound
      BY <1>2, <1>6, <2>2 DEF ResyncInv, InPlaceAt
    <3>2. byte = SYNC0 => n = 0
      <4>1. ASSUME n # 0 PROVE Whole(f)[n + 1] # SYNC0
        <5>1. n + 1 \in 2 .. Len(f) + 2
          BY <1>6, <1>7, <4>1
        <5> QED BY <5>1, WholeFacts
      <4> QED BY <1>7, <4>1
    <3>3. CASE state' = "SYNC0"
      BY <3>3 DEF ResyncInv
    <3>4. CASE byte = SYNC0 /\ state' = "SYNC1"
      <4>1. InPlaceAt(Last, At)'
        BY <1>7, <3>2, <3>4 DEF InPlaceAt
      <4> QED BY <4>1 DEF ResyncInv
    <3>5. CASE state # "SYNC0" /\ Wants' \in Nat /\ Wants' + 1 <= Wants
      <4>1. quiet + Wants <= SwallowBound
        BY <3>1, <3>5
      <4>2. quiet \in Nat /\ quiet' = quiet + 1 /\ Wants \in Nat /\ SwallowBound \in Nat
        BY <1>1, <1>5, WantsBound DEF LinkTypes
      <4>3. quiet' + Wants' <= SwallowBound
        BY <3>5, <4>1, <4>2, OneForOne
      <4> QED BY <4>3 DEF ResyncInv
    <3> QED BY <1>5, <1>7, <3>3, <3>4, <3>5, Hunts
  <2> QED BY <2>1, <2>2
<1>10. AlignedInv'
  <2> SUFFICES ASSUME aligned' PROVE AlignedInv'
    BY DEF AlignedInv
  <2>1. /\ InPlaceAt(Last, At) /\ At <= Len(wire)
        /\ \A i \in 1 .. At : wire[Len(wire) - At + i] = Whole(Last)[i]
    BY <1>1 DEF AlignedInv
  <2>2. /\ InPlaceAt(f, n) /\ n <= Len(wire)
        /\ \A i \in 1 .. n : wire[Len(wire) - n + i] = Whole(f)[i]
    BY <1>6, <2>1 DEF InPlaceAt, Whole
  <2>3. /\ wire \in Seq(Byte) /\ Len(wire) \in Nat /\ wire' = Append(wire, byte)
        /\ Len(wire') = Len(wire) + 1
    BY <1>7 DEF StreamInv, TypeOK, Feed
  <2>4. ASSUME NEW i \in 1 .. n + 1
        PROVE  wire'[Len(wire') - (n + 1) + i] = Whole(f)[i]
    <3>1. Len(wire') - (n + 1) + i = Len(wire) - n + i
      BY <2>3
    <3>2. CASE i = n + 1
      <4>1. Len(wire) - n + i = Len(wire) + 1
        BY <2>3, <3>2
      <4>2. wire'[Len(wire) + 1] = byte
        BY <2>3
      <4> QED BY <1>7, <3>1, <3>2, <4>1, <4>2
    <3>3. CASE i \in 1 .. n
      <4>1. Len(wire) - n + i \in 1 .. Len(wire)
        BY <2>2, <2>3, <3>3
      <4>2. wire'[Len(wire) - n + i] = wire[Len(wire) - n + i]
        BY <2>3, <4>1
      <4> QED BY <2>2, <3>1, <3>3, <4>2
    <3> QED BY <3>2, <3>3
  <2>5. /\ At' <= Len(wire')
        /\ \A i \in 1 .. At' : wire'[Len(wire') - At' + i] = Whole(Last')[i]
    <3>1. n + 1 <= Len(wire')
      BY <2>2, <2>3
    <3>2. Whole(Last') = Whole(f)
      BY <1>7 DEF Whole
    <3> QED BY <1>7, <2>4, <3>1, <3>2
  <2>6. AlignedArrives'
    <3> SUFFICES ASSUME out' = <<>> PROVE AlignedArrives'
      BY DEF AlignedArrives
    <3>1. n = Len(f) + 1
      <4>1. At' = Len(Last') + 2 - Len(out')
        BY DEF At
      <4>2. n + 1 = Len(f) + 2 - 0
        BY <1>7, <4>1
      <4> QED BY <1>6, <1>7, <4>2
    <3>2. /\ InPlaceAt(f, Len(f) + 1) /\ Len(f) + 1 <= Len(wire)
          /\ \A i \in 1 .. Len(f) + 1 :
               wire[Len(wire) - (Len(f) + 1) + i] = Whole(f)[i]
      BY <2>2, <3>1
    <3>3. Feed(Whole(f)[Len(f) + 2])
      <4>1. Len(f) + 2 = n + 1
        BY <1>7, <3>1
      <4> QED BY <1>7, <4>1
    <3>4. /\ delivered' # <<>>
          /\ delivered'[Len(delivered')].bytes = f
          /\ delivered'[Len(delivered')].start + Len(f) = Len(wire') + 1
      BY <3>2, <3>3, FeedArrives
    <3>5. sent'[Len(sent')] = f
      BY <1>7 DEF Last
    <3> QED BY <3>4, <3>5 DEF AlignedArrives
  <2>7. sent' # <<>>
    BY <1>1, <1>2
  <2> QED BY <1>8, <2>2, <2>5, <2>6, <2>7 DEF AlignedInv
<1> QED BY <1>2, <1>3, <1>4, <1>9, <1>10

(* A disturbance starts the count anew.                                    *)
LEMMA DisturbKeeps ==
  ASSUME LinkInv, Disturb, StreamInv', OutIsRest', out' \in Seq(Byte),
         sent # <<>> => state' = "SYNC0" \/ (Wants' \in Nat /\ Wants' <= SwallowBound)
  PROVE  LinkInv'
<1>1. quiet' = 0 /\ aligned' = FALSE /\ sent' = sent
  BY DEF Disturb
<1>2. LinkTypes'
  BY <1>1 DEF LinkInv, LinkTypes
<1>3. ResyncInv'
  <2> SUFFICES ASSUME sent # <<>>, state' # "SYNC0"
               PROVE  quiet' + Wants' <= SwallowBound
    BY <1>1 DEF ResyncInv
  <2> QED BY <1>1
<1>4. AlignedInv'
  BY <1>1 DEF AlignedInv
<1> QED BY <1>2, <1>3, <1>4 DEF LinkInv

LEMMA LoseKeeps ==
  ASSUME LinkInv, Lose
  PROVE  LinkInv'
<1>1. out # <<>> /\ Disturb /\ out' = Tail(out) /\ UNCHANGED vars /\ UNCHANGED sent
  BY DEF Lose, Disturb
<1>2. OutIsRest' /\ out' \in Seq(Byte) /\ sent # <<>>
  BY <1>1, ByteLeaves DEF LinkInv
<1>3. StreamInv'
  BY <1>1 DEF LinkInv, vars, stream, StreamInv, TypeOK, Placed, Taken, HeaderRead
<1>4. Wants' = Wants
  BY <1>1 DEF Wants, vars, stream
<1>5. Wants \in Nat /\ Wants <= SwallowBound
  BY <1>2, LastFacts, WantsBound DEF LinkInv
<1> QED BY <1>1, <1>2, <1>3, <1>4, <1>5, DisturbKeeps

LEMMA GarbleKeeps ==
  ASSUME LinkInv, NEW byte \in Byte, Garble(byte)
  PROVE  LinkInv'
<1>1. /\ out # <<>> /\ Disturb /\ out' = Tail(out) /\ Feed(byte) /\ UNCHANGED sent
  BY DEF Garble, Disturb
<1>2. OutIsRest' /\ out' \in Seq(Byte) /\ sent # <<>>
  BY <1>1, ByteLeaves DEF LinkInv
<1>3. StreamInv'
  BY <1>1, StreamFeed DEF LinkInv
<1>4. Frames # {}
  BY <1>2, LastFacts DEF LinkInv
<1>5. SwallowBound \in Nat /\ Wants \in Nat /\ Wants <= SwallowBound
  BY <1>4, WantsBound DEF LinkInv
<1>6. state' = "SYNC0" \/ (Wants' \in Nat /\ Wants' <= SwallowBound)
  BY <1>1, <1>4, <1>5, Hunts DEF LinkInv
<1> QED BY <1>1, <1>2, <1>3, <1>6, DisturbKeeps

LEMMA LoseParserStateKeeps ==
  ASSUME LinkInv, LoseParserState
  PROVE  LinkInv'
<1>1. /\ Disturb /\ Reset /\ UNCHANGED <<wire, delivered>> /\ UNCHANGED <<out, sent>>
  BY DEF LoseParserState, Restart, Disturb
<1>2. state' = "SYNC0"
  BY <1>1 DEF Reset
<1>3. StreamInv'
  BY <1>1, ResetKeeps DEF LinkInv, StreamInv, TypeOK
<1>4. OutIsRest' /\ out' \in Seq(Byte)
  BY <1>1, <1>2 DEF LinkInv, LinkTypes, OutIsRest, Last, At
<1> QED BY <1>1, <1>2, <1>3, <1>4, DisturbKeeps

LEMMA LinkInvInit == LinkInit => LinkInv
<1> SUFFICES ASSUME LinkInit PROVE LinkInv
  OBVIOUS
<1>1. StreamInv /\ state = "SYNC0"
  BY StreamInit DEF LinkInit, Init
<1>2. out = <<>> /\ sent = <<>> /\ quiet = 0 /\ aligned = FALSE
  BY DEF LinkInit
<1>3. LinkTypes
  <2>1. out \in Seq(Byte) /\ sent \in Seq(Frames) /\ quiet \in Nat
    BY <1>2
  <2>2. aligned \in BOOLEAN
    BY <1>2
  <2> QED BY <2>1, <2>2 DEF LinkTypes
<1>4. OutIsRest /\ ResyncInv
  BY <1>1, <1>2 DEF OutIsRest, ResyncInv
<1>5. AlignedInv
  BY <1>2 DEF AlignedInv
<1> QED BY <1>1, <1>3, <1>4, <1>5 DEF LinkInv

LEMMA LinkInvNext == LinkInv /\ [LinkNext]_allVars => LinkInv'
<1> SUFFICES ASSUME LinkInv, [LinkNext]_allVars PROVE LinkInv'
  OBVIOUS
<1>1. CASE UNCHANGED allVars
  <2>1. UNCHANGED <<vars, linkVars>>
    BY <1>1 DEF allVars
  <2>2. StreamInv'
    BY <2>1 DEF LinkInv, vars, stream, StreamInv, TypeOK, Placed, Taken, HeaderRead
  <2>3. Last' = Last /\ At' = At /\ Whole(Last') = Whole(Last)
    BY <2>1 DEF linkVars, Last, At, Whole
  <2>4. LinkTypes' /\ OutIsRest'
    BY <2>1, <2>3 DEF LinkInv, linkVars, vars, stream, LinkTypes, OutIsRest
  <2>5. InPlaceAt(Last, At) => InPlaceAt(Last, At)'
    BY <2>1, <2>3 DEF vars, stream, InPlaceAt
  <2>6. Wants' = Wants
    BY <2>1 DEF vars, stream, Wants
  <2>7. ResyncInv'
    BY <2>1, <2>5, <2>6 DEF LinkInv, linkVars, vars, stream, ResyncInv
  <2>8. AlignedInv'
    BY <2>1, <2>3, <2>5 DEF LinkInv, linkVars, vars, AlignedInv, AlignedArrives
  <2> QED BY <2>2, <2>4, <2>7, <2>8 DEF LinkInv
<1> QED
  BY <1>1, StartFrameKeeps, TransmitKeeps, LoseKeeps, GarbleKeeps,
     LoseParserStateKeeps DEF LinkNext

(* A disturbed parser finds its place again: it is looking for SYNC0 at    *)
(* the first frame boundary after as many undisturbed bytes as the longest *)
(* header and payload have, whatever was lost, changed or reset.           *)
THEOREM FindsItsPlace == LinkSpec => []ResyncsInTime
<1>1. LinkInv => ResyncsInTime
  <2> SUFFICES ASSUME LinkInv, out = <<>>, quiet >= SwallowBound
               PROVE  state = "SYNC0"
    BY DEF ResyncsInTime
  <2> USE DEF LinkInv
  <2>1. CASE sent = <<>>
    BY <2>1 DEF OutIsRest
  <2>2. CASE sent # <<>>
    <3>1. /\ Last \in Frames /\ Frames # {} /\ Len(Last) \in Nat
          /\ At = Len(Last) + 2
      BY <2>2, LastFacts
    <3>2. Len(Last) >= 4
      BY <3>1, FrameFacts
    <3>3. InPlaceAt(Last, At) => state = "SYNC0"
      BY <3>1, <3>2 DEF InPlaceAt
    <3>4. /\ SwallowBound \in Nat /\ Wants \in Nat /\ quiet \in Nat
          /\ state # "SYNC0" => Wants > 0
      BY <3>1, WantsBound DEF LinkTypes
    <3>5. quiet + Wants <= SwallowBound => state = "SYNC0"
      BY <3>4
    <3> QED BY <2>2, <3>3, <3>5 DEF ResyncInv
  <2> QED BY <2>1, <2>2
<1> QED BY <1>1, LinkInvInit, LinkInvNext, PTL DEF LinkSpec

(* A frame that meets a parser looking for SYNC0 is the next one that is   *)
(* delivered, whole, whatever happened before it.                          *)
THEOREM AlignedFramesArrive == LinkSpec => []AlignedArrives
<1>1. LinkInv => AlignedArrives
  BY DEF LinkInv, AlignedInv, AlignedArrives
<1> QED BY <1>1, LinkInvInit, LinkInvNext, PTL DEF LinkSpec

(* What the parser promises does not depend on what the line does.         *)
LEMMA ParserNext ==
  LinkInv /\ DeliveredInv /\ ApartInv /\ [LinkNext]_allVars
    => DeliveredInv' /\ ApartInv'
<1> SUFFICES ASSUME LinkInv, DeliveredInv, ApartInv, [LinkNext]_allVars
             PROVE  DeliveredInv' /\ ApartInv'
  OBVIOUS
<1> USE DEF LinkInv
<1>1. ASSUME NEW byte \in Byte, Feed(byte) PROVE DeliveredInv' /\ ApartInv'
  BY <1>1, DeliveredFeed, ApartFeed
<1>2. CASE UNCHANGED vars
  <2>1. UNCHANGED <<wire, delivered>>
    BY <1>2 DEF vars
  <2> QED BY <1>2, <2>1, DeliveredStays, ApartStays
<1>3. CASE Transmit
  <2>1. out # <<>> /\ Feed(Head(out))
    BY <1>3 DEF Transmit
  <2>2. Head(out) \in Byte
    BY <2>1 DEF LinkTypes
  <2> QED BY <1>1, <2>1, <2>2
<1>4. CASE LoseParserState
  BY <1>4, DeliveredStays, ApartReset DEF LoseParserState, Restart
<1> QED
  BY <1>1, <1>2, <1>3, <1>4 DEF LinkNext, StartFrame, Lose, Garble, allVars

(* On a line that loses, changes and resets at any time the parser stays   *)
(* within its buffer and its types, hands on only what was on the wire, no *)
(* byte of it twice, and nothing that the decoder would drop.              *)
THEOREM ParserOnNoisyLine ==
  LinkSpec => [](/\ TypeOK /\ FrameInBounds /\ DeliveredIsWire
                 /\ DeliveredApart /\ ValidatorsAgree)
<1>1. LinkInit => DeliveredInv /\ ApartInv
  BY DeliveredInit, ApartInit DEF LinkInit
<1>2. LinkInv /\ DeliveredInv /\ ApartInv =>
        /\ TypeOK /\ FrameInBounds /\ DeliveredIsWire
        /\ DeliveredApart /\ ValidatorsAgree
  BY InBounds DEF LinkInv, StreamInv, DeliveredInv, ApartInv
<1> QED
  BY <1>1, <1>2, LinkInvInit, LinkInvNext, ParserNext, PTL DEF LinkSpec

-----------------------------------------------------------------------------
(* The UDP listener.                                                       *)

(* What recvfrom returns, and what passes the checks, said of the datagram *)
(* instead of the buffer.                                                  *)
Cut(d) == IF Len(d) < BufferLen THEN Len(d) ELSE BufferLen

Overwritten(d) == [i \in 1 .. BufferLen |-> IF i <= Cut(d) THEN d[i] ELSE buffer[i]]

Fits(d) ==
  /\ Cut(d) >= 5
  /\ d[1] = SYNC0 /\ d[2] = SYNC1
  /\ d[3] \in ValidTypes
  /\ Announced(d) <= MaxPayload
  /\ Cut(d) = Announced(d) + 5

LEMMA Sizes == MaxPayload \in Nat /\ BufferLen \in Nat
<1>1. MaxPayload \in Nat
  BY LengthAssumption
<1> QED BY SMT, <1>1 DEF BufferLen

LEMMA CutBounds ==
  ASSUME NEW d \in Seq(Byte)
  PROVE  /\ Cut(d) \in Nat /\ Cut(d) <= Len(d) /\ Cut(d) <= BufferLen
         /\ Len(d) <= BufferLen => Cut(d) = Len(d)
         /\ Len(d) >= BufferLen => Cut(d) = BufferLen
  BY SMT, Sizes DEF Cut

LEMMA AnnouncedNat ==
  ASSUME NEW d \in Seq(Byte), Len(d) >= 5
  PROVE  Announced(d) \in Nat
<1>1. d[4] \in Byte /\ d[5] \in Byte
  BY SMT
<1>2. ByteRadix \in Nat /\ d[4] \in Nat /\ d[5] \in Nat
  BY SMT, <1>1, ByteAssumption DEF Byte
<1>3. d[4] * ByteRadix \in Nat
  BY SMT, <1>2
<1> QED BY SMT, <1>2, <1>3 DEF Announced

(* What is read of the datagram is in the buffer.                          *)
LEMMA ReadIsDatagram ==
  ASSUME NEW d \in Seq(Byte), NEW i \in 1 .. Cut(d)
  PROVE  i \in 1 .. BufferLen /\ Overwritten(d)[i] = d[i]
<1>1. i \in 1 .. BufferLen /\ i <= Cut(d)
  BY SMT, CutBounds, Sizes
<1> QED BY <1>1 DEF Overwritten

(* So the checks depend on the datagram alone.                             *)
LEMMA PassesIfFits ==
  ASSUME NEW d \in Seq(Byte)
  PROVE  /\ Passes(Overwritten(d), Cut(d)) <=> Fits(d)
         /\ Cut(d) >= 5 => Announced(Overwritten(d)) = Announced(d)
<1> DEFINE read == Overwritten(d)
<1>1. CASE Cut(d) >= 5
  <2>1. \A i \in 1 .. 5 : i \in 1 .. Cut(d)
    BY SMT, <1>1, CutBounds
  <2>2. \A i \in 1 .. 5 : read[i] = d[i]
    BY <2>1, ReadIsDatagram
  <2> HIDE DEF read
  <2>3. read[1] = d[1] /\ read[2] = d[2] /\ read[3] = d[3]
        /\ read[4] = d[4] /\ read[5] = d[5]
    BY SMT, <2>2
  <2>4. Passes(read, Cut(d)) <=> Fits(d)
    BY <2>3 DEF Passes, Fits, Announced
  <2>5. Announced(read) = Announced(d)
    BY <2>3 DEF Announced
  <2> QED BY <2>4, <2>5 DEF read
<1>2. CASE ~(Cut(d) >= 5)
  BY <1>2 DEF Passes, Fits
<1> QED BY <1>1, <1>2

(* The frame that is cut out of the buffer is the datagram's.              *)
LEMMA FrameOfBuffer ==
  ASSUME NEW d \in Seq(Byte), Fits(d)
  PROVE  /\ SubSeq(Overwritten(d), 3, Announced(d) + 5)
              = SubSeq(d, 3, Announced(d) + 5)
         /\ Len(d) >= Announced(d) + 5 /\ Announced(d) \in Nat
         /\ Announced(d) + 5 <= BufferLen
         /\ LET f == SubSeq(d, 3, Announced(d) + 5) IN
            /\ f \in Seq(Byte) /\ Len(f) = Announced(d) + 3
            /\ f[1] = d[3] /\ f[2] = d[4] /\ f[3] = d[5]
<1>1. /\ Cut(d) = Announced(d) + 5 /\ Cut(d) \in Nat /\ Cut(d) <= Len(d)
      /\ Cut(d) <= BufferLen /\ Announced(d) \in Nat
  <2>1. Cut(d) = Announced(d) + 5 /\ Cut(d) >= 5
    BY DEF Fits
  <2>2. Len(d) >= 5
    BY SMT, <2>1, CutBounds
  <2> QED BY <2>1, <2>2, AnnouncedNat, CutBounds
<1> DEFINE read == Overwritten(d)
           n == Announced(d) + 5
<1>2. n \in Int /\ 3 \in Int /\ 3 <= n
  BY SMT, <1>1
<1>3. \A i \in 3 .. n : d[i] \in Byte /\ read[i] = d[i]
  <2>1. \A i \in 3 .. n : i \in 1 .. Cut(d) /\ d[i] \in Byte
    BY SMT, <1>1
  <2> QED BY <2>1, ReadIsDatagram
<1> HIDE DEF read, n
<1>4. /\ SubSeq(read, 3, n) \in Seq(Byte) /\ Len(SubSeq(read, 3, n)) = n - 3 + 1
      /\ \A i \in 1 .. n - 3 + 1 : SubSeq(read, 3, n)[i] = read[3 + i - 1]
  BY <1>2, <1>3, SubSeqProperties
<1>5. /\ SubSeq(d, 3, n) \in Seq(Byte) /\ Len(SubSeq(d, 3, n)) = n - 3 + 1
      /\ \A i \in 1 .. n - 3 + 1 : SubSeq(d, 3, n)[i] = d[3 + i - 1]
  BY <1>2, <1>3, SubSeqProperties
<1>6. SubSeq(read, 3, n) = SubSeq(d, 3, n)
  <2>1. \A i \in 1 .. n - 3 + 1 : 3 + i - 1 \in 3 .. n
    BY SMT, <1>2
  <2>2. \A i \in 1 .. Len(SubSeq(read, 3, n)) :
          SubSeq(read, 3, n)[i] = SubSeq(d, 3, n)[i]
    BY <1>3, <1>4, <1>5, <2>1
  <2> QED BY <1>4, <1>5, <2>2, SeqEqual
<1>7. /\ SubSeq(d, 3, n) \in Seq(Byte)
      /\ Len(SubSeq(d, 3, n)) = Announced(d) + 3
      /\ SubSeq(d, 3, n)[1] = d[3] /\ SubSeq(d, 3, n)[2] = d[4]
      /\ SubSeq(d, 3, n)[3] = d[5]
  <2>1. n = Announced(d) + 5
    BY DEF n
  <2> QED BY SMTT(30), <1>1, <1>5, <2>1
<1> QED BY <1>1, <1>6, <1>7 DEF read, n

-----------------------------------------------------------------------------
(* Each frame forwarded is the one of a datagram that fits, and each       *)
(* datagram that fits has been forwarded.                                  *)

FrameFrom(e, h) ==
  /\ e.from \in 1 .. Len(h)
  /\ Fits(h[e.from])
  /\ e.bytes = SubSeq(h[e.from], 3, Announced(h[e.from]) + 5)

UdpInv ==
  /\ heard \in Seq(Seq(Byte))
  /\ forwarded \in Seq([from : Nat, bytes : Seq(Byte)])
  /\ \A n \in 1 .. Len(forwarded) : FrameFrom(forwarded[n], heard)
  /\ \A i \in 1 .. Len(heard) :
       Fits(heard[i]) => \E n \in 1 .. Len(forwarded) : forwarded[n].from = i

LEMMA UdpInvInit == UdpInit => UdpInv
<1> SUFFICES ASSUME UdpInit PROVE UdpInv
  OBVIOUS
<1>1. heard = <<>> /\ forwarded = <<>>
  BY DEF UdpInit
<1> QED BY SMT, <1>1 DEF UdpInv

(* A datagram that does not fit leaves only the history one longer.        *)
LEMMA UdpInvStep == UdpInv /\ [UdpNext]_udpVars => UdpInv'
<1> SUFFICES ASSUME UdpInv, [UdpNext]_udpVars PROVE UdpInv'
  OBVIOUS
<1>1. CASE UNCHANGED udpVars
  BY <1>1 DEF UdpInv, udpVars
<1>2. ASSUME NEW d \in Datagrams, Receive(d) PROVE UdpInv'
  <2>1. d \in Seq(Byte)
    BY DatagramsAssumption
  <2>2. heard' = Append(heard, d)
    BY <1>2 DEF Receive
  <2>3. heard' \in Seq(Seq(Byte)) /\ Len(heard') = Len(heard) + 1
        /\ Len(heard) \in Nat
        /\ heard'[Len(heard) + 1] = d
        /\ \A i \in 1 .. Len(heard) : heard'[i] = heard[i]
    BY SMT, <2>1, <2>2 DEF UdpInv
  <2>4. \A n \in 1 .. Len(forwarded) : FrameFrom(forwarded[n], heard)
    BY DEF UdpInv
  <2> DEFINE entry == [from |-> Len(heard) + 1,
                       bytes |-> SubSeq(d, 3, Announced(d) + 5)]
  <2>5. forwarded' = IF Fits(d) THEN Append(forwarded, entry) ELSE forwarded
    <3>1. forwarded' =
            IF Passes(Overwritten(d), Cut(d))
            THEN Append(forwarded,
                        [from |-> Len(heard) + 1,
                         bytes |-> SubSeq(Overwritten(d), 3,
                                          Announced(Overwritten(d)) + 5)])
            ELSE forwarded
      BY <1>2 DEF Receive, Overwritten, Cut, Announced
    <3>2. CASE Fits(d)
      <4>1. Cut(d) >= 5
        BY <3>2 DEF Fits
      <4>2. Announced(Overwritten(d)) = Announced(d)
        BY <2>1, <4>1, PassesIfFits
      <4>3. SubSeq(Overwritten(d), 3, Announced(d) + 5)
              = SubSeq(d, 3, Announced(d) + 5)
        BY <2>1, <3>2, FrameOfBuffer
      <4> QED BY <2>1, <3>1, <3>2, <4>2, <4>3, PassesIfFits
    <3>3. CASE ~Fits(d)
      BY <2>1, <3>1, <3>3, PassesIfFits
    <3> QED BY <3>2, <3>3
  (* The frames forwarded earlier are still those of their datagrams.      *)
  <2>6. ASSUME NEW e, FrameFrom(e, heard) PROVE FrameFrom(e, heard')
    <3>1. e.from \in 1 .. Len(heard) /\ Fits(heard[e.from])
          /\ e.bytes = SubSeq(heard[e.from], 3, Announced(heard[e.from]) + 5)
      BY <2>6 DEF FrameFrom
    <3>2. heard'[e.from] = heard[e.from] /\ e.from \in 1 .. Len(heard')
      BY SMT, <2>3, <3>1
    <3> QED BY <3>1, <3>2 DEF FrameFrom
  <2>7. CASE Fits(d)
    <3>1. entry \in [from : Nat, bytes : Seq(Byte)]
      <4>1. SubSeq(d, 3, Announced(d) + 5) \in Seq(Byte)
        BY <2>1, <2>7, FrameOfBuffer
      <4>2. Len(heard) + 1 \in Nat
        BY SMT, <2>3
      <4> QED BY <4>1, <4>2
    <3>2. FrameFrom(entry, heard')
      <4>1. entry.from = Len(heard) + 1
            /\ entry.bytes = SubSeq(d, 3, Announced(d) + 5)
        OBVIOUS
      <4> HIDE DEF entry
      <4>2. entry.from \in 1 .. Len(heard') /\ heard'[entry.from] = d
        BY SMT, <2>3, <4>1
      <4> QED BY <2>7, <4>1, <4>2 DEF FrameFrom
    <3>a. entry.from = Len(heard) + 1
      OBVIOUS
    <3> HIDE DEF entry
    <3>3. forwarded' \in Seq([from : Nat, bytes : Seq(Byte)])
          /\ Len(forwarded) \in Nat
          /\ Len(forwarded') = Len(forwarded) + 1
          /\ forwarded'[Len(forwarded) + 1] = entry
          /\ \A n \in 1 .. Len(forwarded) : forwarded'[n] = forwarded[n]
      <4>1. forwarded' = Append(forwarded, entry)
        BY <2>5, <2>7
      <4>2. forwarded \in Seq([from : Nat, bytes : Seq(Byte)])
        BY DEF UdpInv
      <4> QED BY SMT, <3>1, <4>1, <4>2
    <3>4. \A n \in 1 .. Len(forwarded') : FrameFrom(forwarded'[n], heard')
      <4>1. ASSUME NEW n \in 1 .. Len(forwarded')
            PROVE  n = Len(forwarded) + 1 \/ n \in 1 .. Len(forwarded)
        BY SMT, <3>3, <4>1
      <4> QED BY <2>4, <2>6, <3>2, <3>3, <4>1
    <3>5. ASSUME NEW i \in 1 .. Len(heard'), Fits(heard'[i])
          PROVE  \E n \in 1 .. Len(forwarded') : forwarded'[n].from = i
      <4>1. CASE i = Len(heard) + 1
        <5>1. Len(forwarded) + 1 \in 1 .. Len(forwarded')
          BY SMT, <3>3
        <5> QED BY <3>a, <3>3, <4>1, <5>1
      <4>2. CASE i \in 1 .. Len(heard)
        <5>1. heard'[i] = heard[i]
          BY <2>3, <4>2
        <5>2. PICK n \in 1 .. Len(forwarded) : forwarded[n].from = i
          BY <3>5, <4>2, <5>1 DEF UdpInv
        <5>3. n \in 1 .. Len(forwarded')
          BY SMT, <3>3
        <5> QED BY <3>3, <5>2, <5>3
      <4>3. i = Len(heard) + 1 \/ i \in 1 .. Len(heard)
        BY SMT, <2>3
      <4> QED BY <4>1, <4>2, <4>3
    <3> QED BY <2>3, <3>3, <3>4, <3>5 DEF UdpInv
  <2>8. CASE ~Fits(d)
    <3>1. forwarded' = forwarded
      BY <2>5, <2>8
    <3>2. ASSUME NEW i \in 1 .. Len(heard'), Fits(heard'[i])
          PROVE  \E n \in 1 .. Len(forwarded) : forwarded[n].from = i
      <4>1. i # Len(heard) + 1
        BY <2>3, <2>8, <3>2
      <4>2. i \in 1 .. Len(heard)
        BY SMT, <2>3, <4>1
      <4> QED BY <2>3, <3>2, <4>2 DEF UdpInv
    <3> QED BY <2>3, <2>4, <2>6, <3>1, <3>2 DEF UdpInv
  <2> QED BY <2>7, <2>8
<1> QED BY <1>1, <1>2 DEF UdpNext

(* Each frame forwarded is the one of a datagram that fits, and each       *)
(* datagram that fits has been forwarded: udp_listener_task's loop, of     *)
(* main/network_transport.c.                                               *)
THEOREM Listener == UdpSpec => []UdpInv
  BY UdpInvInit, UdpInvStep, PTL DEF UdpSpec

-----------------------------------------------------------------------------
(* No byte left in the buffer by an earlier datagram, and none that        *)
(* recvfrom cut off, is forwarded by udp_listener_task.                    *)
THEOREM ForwardsWhatWasThere == UdpSpec => []ForwardedWasThere
<1>1. UdpInv => ForwardedWasThere
  <2> SUFFICES ASSUME UdpInv, NEW n \in DOMAIN forwarded
               PROVE  LET d == heard[forwarded[n].from] IN
                      /\ Len(d) >= Announced(d) + 5
                      /\ forwarded[n].bytes = SubSeq(d, 3, Announced(d) + 5)
    BY DEF ForwardedWasThere
  <2>1. FrameFrom(forwarded[n], heard)
    BY LenProperties DEF UdpInv
  <2>2. heard[forwarded[n].from] \in Seq(Byte)
    BY <2>1, ElementOfSeq DEF UdpInv, FrameFrom
  <2> QED BY <2>1, <2>2, FrameOfBuffer DEF FrameFrom
<1> QED BY <1>1, Listener, PTL

(* A whole frame that fits the buffer reaches the callback of              *)
(* udp_listener_task whatever else came, and a longer one never does: for  *)
(* every limit of the payload, the two longest that it allows are lost.    *)
THEOREM WholeFramesArrive == UdpSpec => []FateOfItsOwn
<1>1. ASSUME UdpInv PROVE FateOfItsOwn
  <2> SUFFICES ASSUME NEW i \in DOMAIN heard, WellFormed(heard[i])
               PROVE  (\E n \in DOMAIN forwarded : forwarded[n].from = i)
                        <=> Len(heard[i]) <= BufferLen
    BY DEF FateOfItsOwn, Arrives
  <2> DEFINE d == heard[i]
  <2>1. /\ i \in 1 .. Len(heard) /\ DOMAIN forwarded = 1 .. Len(forwarded)
        /\ d \in Seq(Byte)
    BY <1>1, LenProperties, ElementOfSeq DEF UdpInv
  <2> HIDE DEF d
  <2>2. /\ Len(d) >= 5 /\ d[1] = SYNC0 /\ d[2] = SYNC1 /\ d[3] \in ValidTypes
        /\ Len(d) = Announced(d) + 5
    BY DEF WellFormed, d
  <2>3. Fits(d) <=> Len(d) <= BufferLen
    <3>1. Announced(d) \in Nat
      BY <2>1, <2>2, AnnouncedNat
    <3>2. MaxPayload \in Nat /\ BufferLen = MaxPayload + 3
      BY Sizes DEF BufferLen
    <3>3. Fits(d) <=> /\ Cut(d) >= 5 /\ Announced(d) <= MaxPayload
                      /\ Cut(d) = Announced(d) + 5
      BY <2>2 DEF Fits
    <3>4. Cut(d) = IF Announced(d) + 5 < MaxPayload + 3
                   THEN Announced(d) + 5 ELSE MaxPayload + 3
      BY <2>2, <3>2 DEF Cut
    <3>5. Len(d) = Announced(d) + 5
      BY <2>2
    <3> QED BY SMT, <3>1, <3>2, <3>3, <3>4, <3>5
  <2>4. (\E n \in DOMAIN forwarded : forwarded[n].from = i) <=> Fits(d)
    BY <1>1, <2>1 DEF UdpInv, FrameFrom, d
  <2> QED BY <2>3, <2>4 DEF d
<1> QED BY <1>1, Listener, PTL

(* udp_listener_task and the byte streams let the same frames through to   *)
(* dispatch_event, for every limit of the payload.                         *)
THEOREM SameFrames == UdpSpec => []RoutesAgree
<1>1. ASSUME UdpInv PROVE RoutesAgree
  <2> SUFFICES ASSUME NEW n \in DOMAIN forwarded
               PROVE  Dispatches(forwarded[n].bytes)
                        <=> LengthIsSane(forwarded[n].bytes[1],
                                         Len(forwarded[n].bytes) - 3)
    BY DEF RoutesAgree
  <2> DEFINE f == forwarded[n].bytes
             d == heard[forwarded[n].from]
             size == Announced(d)
  <2>1. FrameFrom(forwarded[n], heard)
    BY <1>1, LenProperties DEF UdpInv
  <2>2. d \in Seq(Byte) /\ Fits(d) /\ f = SubSeq(d, 3, size + 5)
    BY <1>1, <2>1, ElementOfSeq DEF UdpInv, FrameFrom
  <2> HIDE DEF d
  <2>3. /\ size \in Nat /\ f \in Seq(Byte) /\ Len(f) = size + 3
        /\ f[1] = d[3] /\ f[2] = d[4] /\ f[3] = d[5]
    BY <2>2, FrameOfBuffer
  <2>4. f[1] \in ValidTypes /\ size <= MaxPayload
    BY <2>2, <2>3 DEF Fits
  <2>5. f[2] * ByteRadix + f[3] = size
    BY <2>3 DEF Announced
  <2> HIDE DEF f, size
  <2>6. Len(f) >= 3 /\ Len(f) - 3 = size
    BY SMT, <2>3
  <2>7. Dispatches(f) <=>
          /\ f[1] = KEYBOARD       => size = KeyboardLen
          /\ f[1] = MOUSE          => size = MouseLen
          /\ f[1] = MOUSE_ABSOLUTE => size = MouseAbsLen
          /\ f[1] = MICROPHONE     => /\ size # 0 /\ size % 2 = 0
                                      /\ size <= MicMaxBytes
    BY <2>4, <2>5, <2>6 DEF Dispatches
  <2>8. size # 0 <=> size > 0
    BY SMT, <2>3
  <2>9. Dispatches(f) <=> LengthIsSane(f[1], size)
    BY SMT, <2>4, <2>7, <2>8
       DEF LengthIsSane, ValidTypes, KEYBOARD, MOUSE, MICROPHONE, MOUSE_ABSOLUTE
  <2> QED BY <2>6, <2>9 DEF f
<1> QED BY <1>1, Listener, PTL
=============================================================================
