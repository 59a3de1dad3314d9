---------------------------- MODULE MicRingProofs ----------------------------
(* Theorems about MicRing, for any set of receive tasks and all sizes of   *)
(* the ring, the frames and the callback's buffer.                         *)
EXTENDS MicRing, SequenceTheorems, FiniteSetTheorems, TLAPS

-----------------------------------------------------------------------------
(* The inductive invariants.                                               *)

(* Who holds the piece that is handed out is at the place in its code that *)
(* gives it back, and the piece fits what is left of the callback's buffer.*)
Owners ==
  /\ held.owner = "nobody" => held.bytes = <<>>
  /\ consumer = "copy" <=> held.owner = "usb"
  /\ \A t \in Rx : producer[t].at = "return" <=> held.owner = t
  /\ held.owner = "usb" => Len(buf) + Len(held.bytes) <= BufferLen

(* The frame of a handler is the last of its task: the bytes up to fed.    *)
LastBytes(t, bytes, total) ==
  /\ Len(bytes) <= total
  /\ \A i \in 1 .. Len(bytes) : bytes[i] = <<t, total - Len(bytes) + i>>

FramesUnderWay ==
  \A t \in Rx :
    /\ LastBytes(t, producer[t].frame, fed[t])
    /\ producer[t].at = "idle" => producer[t].frame = <<>>

MicInv == TypeOK /\ Owners /\ FramesUnderWay

(* What a receive task has in hand is a sequence of bytes.                 *)
LEMMA FrameSized ==
  ASSUME NEW p, NEW t \in Rx,
         p \in [Rx -> [at : {"idle", "send", "drop", "return", "resend"},
                      frame : Seq(Byte)]]
  PROVE  p[t].frame \in Seq(Byte) /\ Len(p[t].frame) \in Nat
  OBVIOUS

LEMMA ProducerSized ==
  ASSUME MicInv, NEW t \in Rx
  PROVE  producer[t].frame \in Seq(Byte) /\ Len(producer[t].frame) \in Nat
<1>1. producer \in [Rx -> [at : {"idle", "send", "drop", "return", "resend"},
                          frame : Seq(Byte)]]
  BY DEF MicInv, TypeOK
<1> QED BY <1>1, FrameSized

-----------------------------------------------------------------------------
(* Pieces of sequences.                                                    *)

LEMMA Associative ==
  \A s, t, u \in Seq(Byte) : (s \o t) \o u = s \o (t \o u)
  OBVIOUS

LEMMA Joined ==
  ASSUME NEW s \in Seq(Byte), NEW t \in Seq(Byte)
  PROVE  /\ s \o t \in Seq(Byte)
         /\ Len(s \o t) = Len(s) + Len(t)
         /\ Len(s) \in Nat /\ Len(t) \in Nat
         /\ \A i \in 1 .. Len(s) : (s \o t)[i] = s[i]
         /\ \A i \in 1 .. Len(t) : (s \o t)[Len(s) + i] = t[i]
  OBVIOUS

LEMMA CutInTwo ==
  ASSUME NEW s \in Seq(Byte), NEW n \in 0 .. Len(s)
  PROVE  /\ SubSeq(s, 1, n) \in Seq(Byte) /\ SubSeq(s, n + 1, Len(s)) \in Seq(Byte)
         /\ Len(SubSeq(s, 1, n)) = n
         /\ Len(SubSeq(s, n + 1, Len(s))) = Len(s) - n
         /\ \A i \in 1 .. n : SubSeq(s, 1, n)[i] = s[i]
         /\ \A i \in 1 .. Len(s) - n : SubSeq(s, n + 1, Len(s))[i] = s[n + i]
         /\ SubSeq(s, 1, n) \o SubSeq(s, n + 1, Len(s)) = s
<1>1. SubSeq(s, 1, n) \in Seq(Byte) /\ SubSeq(s, n + 1, Len(s)) \in Seq(Byte)
  <2>1. n \in Int /\ Len(s) \in Int /\ 1 \in Int /\ n + 1 \in Int
    OBVIOUS
  <2>2. \A i \in 1 .. n : s[i] \in Byte
    OBVIOUS
  <2>3. \A i \in n + 1 .. Len(s) : s[i] \in Byte
    OBVIOUS
  <2> QED BY <2>1, <2>2, <2>3, SubSeqProperties
<1>2. /\ Len(SubSeq(s, 1, n)) = n
      /\ Len(SubSeq(s, n + 1, Len(s))) = Len(s) - n
      /\ \A i \in 1 .. n : SubSeq(s, 1, n)[i] = s[i]
      /\ \A i \in 1 .. Len(s) - n : SubSeq(s, n + 1, Len(s))[i] = s[n + i]
  OBVIOUS
<1>3. /\ 1 \in 1 .. Len(s) + 1 /\ n \in 1 - 1 .. Len(s)
      /\ Len(s) \in n .. Len(s)
  OBVIOUS
<1>4. SubSeq(s, 1, n) \o SubSeq(s, n + 1, Len(s)) = SubSeq(s, 1, Len(s))
  BY <1>3, ConcatAdjacentSubSeq
<1> QED BY <1>1, <1>2, <1>4, SubSeqFull

(* Bytes that move from the front of one sequence to the end of the one    *)
(* before it.                                                              *)
LEMMA MoveFront ==
  \A s, t \in Seq(Byte) : \A n \in 0 .. Len(t) :
    (s \o SubSeq(t, 1, n)) \o SubSeq(t, n + 1, Len(t)) = s \o t
<1> TAKE s, t \in Seq(Byte)
<1> TAKE n \in 0 .. Len(t)
<1> DEFINE front_ == SubSeq(t, 1, n)
           rest_ == SubSeq(t, n + 1, Len(t))
<1>1. front_ \in Seq(Byte) /\ rest_ \in Seq(Byte) /\ front_ \o rest_ = t
  BY CutInTwo
<1> HIDE DEF front_, rest_
<1>2. (s \o front_) \o rest_ = s \o (front_ \o rest_)
  BY <1>1, Associative, ZenonT(120)
<1> QED BY <1>1, <1>2 DEF front_, rest_

-----------------------------------------------------------------------------
(* Types, owners and frames.                                               *)

LEMMA RingFacts ==
  /\ RingBytes \in Nat /\ RingBytes > 0 /\ RingBytes % 2 = 0
  /\ BufferLen \in Nat /\ BufferLen > 0 /\ BufferLen % 2 = 0
  /\ 2 * MaxSamples \in Nat
  /\ "usb" \notin Rx /\ "nobody" \notin Rx
  BY SizeAssumption, RxAssumption

(* The place in the ring's buffer wraps at its end.                        *)
LEMMA Wraps ==
  \A m \in Nat : \A x \in 0 .. m : m > 0 => x % m = IF x = m THEN 0 ELSE x
  BY Z3

(* What a receive from the ring takes and leaves.                          *)
LEMMA ReceiveFacts ==
  ASSUME TypeOK, NEW owner \in Rx \union {"usb"}, NEW max \in Nat, Receive(owner, max)
  PROVE  /\ held = NoPiece
         /\ \E n \in 0 .. Len(ring) :
              /\ n <= max
              /\ held' = [owner |-> owner, bytes |-> SubSeq(ring, 1, n)]
              /\ ring' = SubSeq(ring, n + 1, Len(ring))
              /\ front' \in 0 .. RingBytes - 1
              /\ max % 2 = 0 /\ Len(ring) % 2 = 0 /\ front % 2 = 0
                   => n % 2 = 0 /\ front' % 2 = 0
<1> DEFINE len == Len(ring)
           n == MinOf(MinOf(max, len), RingBytes - front)
<1>0. /\ held = NoPiece
      /\ held' = [owner |-> owner, bytes |-> SubSeq(ring, 1, n)]
      /\ ring' = SubSeq(ring, n + 1, Len(ring))
      /\ front' = (front + n) % RingBytes
  BY DEF Receive, CanReceive
<1>1. len \in Nat /\ front \in 0 .. RingBytes - 1
  BY DEF TypeOK
<1> HIDE DEF len
<1>2. n \in 0 .. len /\ n <= max /\ n <= RingBytes - front
  BY <1>1, RingFacts DEF MinOf
<1>3. front' \in 0 .. RingBytes - 1
  BY <1>0, <1>1, <1>2, RingFacts
<1>4. ASSUME max % 2 = 0, len % 2 = 0, front % 2 = 0
      PROVE  n % 2 = 0 /\ front' % 2 = 0
  <2>1. n % 2 = 0
    <3>1. (RingBytes - front) % 2 = 0
      BY <1>1, <1>4, RingFacts
    <3> QED BY <1>4, <3>1 DEF MinOf
  <2> DEFINE end == front + n
  <2>2. end \in 0 .. RingBytes
    <3> HIDE DEF n
    <3> QED BY <1>1, <1>2, RingFacts
  <2>3. front' = 0 \/ front' = end
    <3>1. front' = end % RingBytes
      BY <1>0
    <3> HIDE DEF end
    <3> QED BY <2>2, <3>1, RingFacts, Wraps
  <2> HIDE DEF n
  <2>4. (front + n) % 2 = 0
    BY <1>1, <1>2, <1>4, <2>1
  <2> QED BY <2>1, <2>3, <2>4
<1> QED BY <1>0, <1>2, <1>3, <1>4 DEF len

(* A task that moves on keeps its frame.                                   *)
LEMMA Moved ==
  ASSUME TypeOK, NEW t \in Rx,
         NEW to \in {"drop", "return", "resend"}, Goes(t, to)
  PROVE  /\ producer'[t].at = to /\ producer'[t].frame = producer[t].frame
         /\ \A u \in Rx \ {t} : producer'[u] = producer[u]
         /\ producer' \in [Rx -> [at : {"idle", "send", "drop", "return", "resend"},
                                  frame : Seq(Byte)]]
         /\ settled' = settled
<1>1. producer' = [producer EXCEPT ![t].at = to] /\ settled' = settled
  BY DEF Goes
<1> QED BY <1>1 DEF TypeOK

LEMMA Returned ==
  ASSUME TypeOK, NEW t \in Rx, Returns(t)
  PROVE  /\ producer'[t].at = "idle" /\ producer'[t].frame = <<>>
         /\ \A u \in Rx \ {t} : producer'[u] = producer[u]
         /\ producer' \in [Rx -> [at : {"idle", "send", "drop", "return", "resend"},
                                  frame : Seq(Byte)]]
         /\ settled' = settled + Len(producer[t].frame)
         /\ settled' \in Nat
<1>1. producer' = [producer EXCEPT ![t] = IdleProducer]
      /\ settled' = settled + Len(producer[t].frame)
  BY DEF Returns
<1>2. IdleProducer.at = "idle" /\ IdleProducer.frame = <<>>
      /\ IdleProducer \in [at : {"idle", "send", "drop", "return", "resend"},
                           frame : Seq(Byte)]
  BY DEF IdleProducer
<1>3. producer[t].frame \in Seq(Byte) /\ settled \in Nat
  BY DEF TypeOK
<1> HIDE DEF IdleProducer
<1> QED BY <1>1, <1>2, <1>3 DEF TypeOK

LEMMA NoFrame == \A t : \A n \in Nat : LastBytes(t, <<>>, n)
<1>1. Len(<<>>) = 0
  OBVIOUS
<1> QED BY <1>1 DEF LastBytes

LEMMA FramesUnderWayMoved ==
  ASSUME TypeOK, FramesUnderWay, NEW t \in Rx, fed' = fed,
         \/ producer'[t].frame = producer[t].frame /\ producer'[t].at # "idle"
         \/ producer'[t].frame = <<>>,
         \A u \in Rx \ {t} : producer'[u] = producer[u]
  PROVE  FramesUnderWay'
<1> SUFFICES ASSUME NEW u \in Rx
             PROVE  /\ LastBytes(u, producer'[u].frame, fed[u])
                    /\ producer'[u].at = "idle" => producer'[u].frame = <<>>
  BY DEF FramesUnderWay
<1>1. fed[u] \in Nat
  BY DEF TypeOK
<1>2. CASE producer'[u].frame = <<>>
  <2>1. LastBytes(u, <<>>, fed[u])
    BY <1>1, NoFrame
  <2> QED BY <1>2, <2>1
<1>3. CASE producer'[u].frame # <<>>
  <2>1. producer'[u].frame = producer[u].frame
        /\ (producer'[u].at = "idle" => producer[u].at = "idle")
    BY <1>3
  <2> QED BY <1>3, <2>1 DEF FramesUnderWay
<1> QED BY <1>2, <1>3

(* A frame arrives.                                                        *)
LEMMA HandleKeeps ==
  ASSUME MicInv, NEW t \in Rx, NEW samples \in FrameSamples, HandleFrame(t, samples)
  PROVE  /\ MicInv'
         /\ producer'[t].at = "send"
         /\ producer'[t].frame = [i \in 1 .. 2 * samples |-> <<t, fed[t] + i>>]
         /\ Len(producer'[t].frame) = 2 * samples
         /\ \A u \in Rx \ {t} : producer'[u] = producer[u]
         /\ fed' = [fed EXCEPT ![t] = @ + 2 * samples]
<1> DEFINE old == fed[t]
           len == 2 * samples
           frame == [i \in 1 .. len |-> <<t, old + i>>]
           bound == 2 * MaxSamples
<1>0. /\ old + len <= bound
      /\ fed' = [fed EXCEPT ![t] = old + len]
      /\ frames' = frames \union {<<t, old + 1, old + len>>}
      /\ producer' = [producer EXCEPT ![t] = [at |-> "send", frame |-> frame]]
      /\ producer[t].at = "idle"
      /\ UNCHANGED <<ringVars, consumer, buf, played, overflowed, settled>>
  BY DEF HandleFrame
<1>1. old \in Nat /\ len \in Nat /\ len > 0 /\ bound \in Nat
  <2>1. fed[t] \in 0 .. 2 * MaxSamples
    BY DEF MicInv, TypeOK
  <2> QED BY <2>1, SizeAssumption
<1>2. \A i \in 1 .. len : old + i \in 1 .. bound
  <2> HIDE DEF old, len, bound
  <2> QED BY <1>0, <1>1
<1>3. frame \in Seq(Byte) /\ Len(frame) = len
  <2>1. \A i \in 1 .. len : <<t, old + i>> \in Byte
    BY <1>2 DEF Byte
  <2> HIDE DEF len, old
  <2> QED BY <1>1, <2>1
<1> HIDE DEF frame
<1>4. /\ producer'[t] = [at |-> "send", frame |-> frame]
      /\ \A u \in Rx \ {t} : producer'[u] = producer[u]
      /\ producer' \in [Rx -> [at : {"idle", "send", "drop", "return", "resend"},
                               frame : Seq(Byte)]]
  BY <1>0, <1>3 DEF MicInv, TypeOK
<1>5. fed' \in [Rx -> 0 .. bound] /\ fed'[t] = old + len
      /\ \A u \in Rx \ {t} : fed'[u] = fed[u]
  <2>1. old + len \in 0 .. bound
    <3> HIDE DEF old, len, bound
    <3> QED BY <1>0, <1>1
  <2> HIDE DEF old, len
  <2> QED BY <1>0, <2>1 DEF MicInv, TypeOK
<1>6. frames' \subseteq Rx \X (1 .. bound) \X (1 .. bound)
  <2>1. old + 1 \in 1 .. bound /\ old + len \in 1 .. bound
    <3> HIDE DEF old, len, bound
    <3> QED BY <1>0, <1>1
  <2> HIDE DEF old, len
  <2> QED BY <1>0, <2>1 DEF MicInv, TypeOK
<1>7. TypeOK'
  BY <1>0, <1>4, <1>5, <1>6 DEF MicInv, TypeOK, ringVars
<1>8. Owners'
  BY <1>0, <1>4 DEF MicInv, Owners, ringVars
<1>9. FramesUnderWay'
  <2> SUFFICES ASSUME NEW u \in Rx
               PROVE  /\ LastBytes(u, producer'[u].frame, fed'[u])
                      /\ producer'[u].at = "idle" => producer'[u].frame = <<>>
    BY DEF FramesUnderWay
  <2>1. CASE u # t
    BY <1>4, <1>5, <2>1 DEF MicInv, FramesUnderWay
  <2>2. LastBytes(t, frame, old + len)
    <3>1. \A i \in 1 .. len : frame[i] = <<t, old + i>>
      BY DEF frame
    <3>2. len <= old + len /\ \A i \in 1 .. len : (old + len) - len + i = old + i
      <4> HIDE DEF old, len
      <4> QED BY <1>1
    <3> HIDE DEF old, len
    <3> QED BY <1>3, <3>1, <3>2 DEF LastBytes
  <2> QED BY <1>4, <1>5, <2>1, <2>2
<1> QED BY <1>0, <1>3, <1>4, <1>7, <1>8, <1>9 DEF MicInv, frame

LEMMA StoreTypes ==
  ASSUME TypeOK, NEW bytes \in Seq(Byte), Store(bytes)
  PROVE  /\ ring' = ring \o bytes /\ ring' \in Seq(Byte)
         /\ Len(ring') + Len(held.bytes) <= RingBytes
         /\ UNCHANGED <<front, held>>
<1>1. ring \in Seq(Byte) /\ held.bytes \in Seq(Byte)
  BY DEF TypeOK
<1>2. Len(ring) + Len(held.bytes) + Len(bytes) <= RingBytes
  BY DEF Store, Fits
<1>3. ring' = ring \o bytes /\ UNCHANGED <<front, held>>
  BY DEF Store
<1>4. ring' \in Seq(Byte) /\ Len(ring') = Len(ring) + Len(bytes)
  BY <1>1, <1>3, Joined
<1> DEFINE a == Len(ring)  b == Len(held.bytes)  c == Len(bytes)
<1>5. a \in Nat /\ b \in Nat /\ c \in Nat
  BY <1>1
<1>6. a + c + b <= RingBytes
  <2>1. a + b + c <= RingBytes
    BY <1>2
  <2> HIDE DEF a, b, c
  <2> QED BY <1>5, <2>1, RingFacts
<1> QED BY <1>3, <1>4, <1>6

LEMMA ReceiveTypes ==
  ASSUME TypeOK, NEW owner \in Rx \union {"usb"}, NEW max \in Nat, Receive(owner, max)
  PROVE  /\ ring' \in Seq(Byte)
         /\ front' \in 0 .. RingBytes - 1
         /\ held' \in [owner : Rx \union {"usb", "nobody"}, bytes : Seq(Byte)]
         /\ held'.owner = owner /\ Len(held'.bytes) <= max
         /\ Len(ring') + Len(held'.bytes) <= RingBytes
         /\ held = NoPiece
<1>1. PICK n \in 0 .. Len(ring) :
        /\ n <= max
        /\ held' = [owner |-> owner, bytes |-> SubSeq(ring, 1, n)]
        /\ ring' = SubSeq(ring, n + 1, Len(ring))
        /\ front' \in 0 .. RingBytes - 1
  BY ReceiveFacts
<1>2. ring \in Seq(Byte)
  BY DEF TypeOK
<1>3. /\ SubSeq(ring, 1, n) \in Seq(Byte) /\ ring' \in Seq(Byte)
      /\ Len(SubSeq(ring, 1, n)) = n
      /\ Len(ring') = Len(ring) - n
  BY <1>1, <1>2, CutInTwo
<1>4. held'.bytes = SubSeq(ring, 1, n) /\ held'.owner = owner
  BY <1>1
<1>5. held' \in [owner : Rx \union {"usb", "nobody"}, bytes : Seq(Byte)]
  BY <1>1, <1>3
<1>6. Len(ring) - n + n <= RingBytes
  <2> DEFINE a == Len(ring)  b == Len(held.bytes)
  <2>1. a \in Nat /\ b \in Nat /\ a + b <= RingBytes
    BY <1>2 DEF TypeOK
  <2> HIDE DEF a, b
  <2>2. a <= RingBytes
    BY <2>1, RingFacts
  <2> QED BY <2>1, <2>2, RingFacts DEF a
<1>7. held = NoPiece
  BY ReceiveFacts
<1> QED BY <1>1, <1>3, <1>4, <1>5, <1>6, <1>7

(* A handler sends, makes room, gives the piece back, sends again.         *)
LEMMA ProduceKeeps ==
  ASSUME MicInv, NEW t \in Rx, Produce(t)
  PROVE  MicInv'
<1> DEFINE frame == producer[t].frame
<1>0. frame \in Seq(Byte) /\ Len(frame) \in Nat /\ overflowed \in Nat
  BY DEF MicInv, TypeOK
<1>1. UNCHANGED <<consumer, buf, fed, played, frames>>
  BY DEF Produce, Send, Drop, DropReturn, Resend
<1>2. ASSUME producer[t].at \in {"send", "resend"}, Store(frame), Returns(t),
             overflowed' = overflowed
      PROVE  MicInv'
  <2>1. TypeOK'
    BY <1>0, <1>1, <1>2, StoreTypes, Returned DEF MicInv, TypeOK
  <2>2. Owners'
    <3>1. UNCHANGED held
      BY <1>2 DEF Store
    <3>2. producer'[t].at = "idle" /\ \A u \in Rx \ {t} : producer'[u] = producer[u]
      BY <1>2, Returned DEF MicInv
    <3>3. \A u \in Rx : producer'[u].at = "return" <=> held'.owner = u
      BY <1>2, <3>1, <3>2 DEF MicInv, Owners
    <3> QED BY <1>1, <3>1, <3>3 DEF MicInv, Owners
  <2>3. FramesUnderWay'
    BY <1>1, <1>2, Returned, FramesUnderWayMoved DEF MicInv
  <2> QED BY <2>1, <2>2, <2>3 DEF MicInv
<1>3. ASSUME producer[t].at # "return", UNCHANGED ringVars, Returns(t),
             overflowed' = overflowed
      PROVE  MicInv'
  <2>1. TypeOK'
    BY <1>1, <1>3, Returned DEF MicInv, TypeOK, ringVars
  <2>2. Owners'
    BY <1>1, <1>3, Returned DEF MicInv, Owners, ringVars
  <2>3. FramesUnderWay'
    BY <1>1, <1>3, Returned, FramesUnderWayMoved DEF MicInv
  <2> QED BY <2>1, <2>2, <2>3 DEF MicInv
<1>4. ASSUME producer[t].at = "send", Goes(t, "drop"), Overflows(t), UNCHANGED ringVars
      PROVE  MicInv'
  <2>0. overflowed' \in Nat
    BY <1>0, <1>4 DEF Overflows
  <2>1. TypeOK'
    BY <1>1, <1>4, <2>0, Moved DEF MicInv, TypeOK, ringVars
  <2>2. Owners'
    BY <1>1, <1>4, Moved DEF MicInv, Owners, ringVars
  <2>3. FramesUnderWay'
    BY <1>1, <1>4, Moved, FramesUnderWayMoved DEF MicInv
  <2> QED BY <2>1, <2>2, <2>3 DEF MicInv
<1>5. ASSUME producer[t].at = "drop", Receive(t, Len(frame)), Goes(t, "return"),
             overflowed' = overflowed
      PROVE  MicInv'
  <2>0. /\ held'.owner = t /\ held = NoPiece
        /\ "usb" # t /\ "nobody" # t
    BY <1>0, <1>5, ReceiveTypes, RxAssumption DEF MicInv
  <2>1. TypeOK'
    BY <1>0, <1>1, <1>5, Moved, ReceiveTypes DEF MicInv, TypeOK
  <2>2. Owners'
    <3>1. held.owner = "nobody"
      BY <2>0 DEF NoPiece
    <3>2. consumer # "copy" /\ \A u \in Rx : producer[u].at # "return"
      BY <3>1, RxAssumption DEF MicInv, Owners
    <3> QED BY <1>1, <1>5, <2>0, <3>2, Moved DEF MicInv, Owners
  <2>3. FramesUnderWay'
    BY <1>1, <1>5, Moved, FramesUnderWayMoved DEF MicInv
  <2> QED BY <2>1, <2>2, <2>3 DEF MicInv
<1>6. ASSUME producer[t].at = "return", GiveBack, Goes(t, "resend"),
             UNCHANGED <<ring, front, overflowed>>
      PROVE  MicInv'
  <2>0. held' = NoPiece /\ NoPiece.owner = "nobody" /\ NoPiece.bytes = <<>>
        /\ NoPiece \in [owner : Rx \union {"usb", "nobody"}, bytes : Seq(Byte)]
    BY <1>6 DEF GiveBack, NoPiece
  <2>1. Len(ring') + Len(held'.bytes) <= RingBytes
    <3> DEFINE a == Len(ring)  b == Len(held.bytes)
    <3>1. a \in Nat /\ b \in Nat /\ a + b <= RingBytes /\ Len(held'.bytes) = 0
      BY <2>0 DEF MicInv, TypeOK
    <3>2. a + 0 <= RingBytes
      <4> HIDE DEF a, b
      <4> QED BY <3>1, RingFacts
    <3> QED BY <1>6, <3>1, <3>2
  <2>2. TypeOK'
    BY <1>1, <1>6, <2>0, <2>1, Moved DEF MicInv, TypeOK
  <2>3. held.owner = t
    BY <1>6 DEF MicInv, Owners
  <2>4. Owners'
    BY <1>1, <1>6, <2>0, <2>3, Moved, RxAssumption DEF MicInv, Owners
  <2>5. FramesUnderWay'
    BY <1>1, <1>6, Moved, FramesUnderWayMoved DEF MicInv
  <2> QED BY <2>2, <2>4, <2>5 DEF MicInv
<1>7. CASE Send(t)
  BY <1>2, <1>4, <1>7 DEF Send
<1>8. CASE Drop(t)
  BY <1>3, <1>5, <1>8 DEF Drop
<1>9. CASE DropReturn(t)
  BY <1>6, <1>9 DEF DropReturn
<1>10. CASE Resend(t)
  BY <1>2, <1>3, <1>10 DEF Resend
<1> QED BY <1>7, <1>8, <1>9, <1>10 DEF Produce

(* The callback fetches, copies, gives the piece back and finishes.        *)
LEMMA ConsumeKeeps ==
  ASSUME MicInv, Consume
  PROVE  MicInv'
<1>0. UNCHANGED <<producer, fed, frames, overflowed, settled>>
  BY DEF Consume, Callback, Fetch, CopyReturn, Finish, history
<1>1. FramesUnderWay'
  BY <1>0 DEF MicInv, FramesUnderWay
<1>2. CASE Callback
  <2>1. TypeOK'
    BY <1>2 DEF Callback, MicInv, TypeOK, ringVars, history
  <2>2. Owners'
    BY <1>2 DEF Callback, MicInv, Owners, ringVars
  <2> QED BY <1>1, <2>1, <2>2 DEF MicInv
<1>3. CASE Fetch
  <2> DEFINE len == Len(buf)
             max == BufferLen - len
  <2>1. Receive("usb", max) /\ consumer' = "copy" /\ UNCHANGED <<producer, buf, history>>
        /\ consumer = "fetch"
    BY <1>3 DEF Fetch
  <2>2. len \in Nat /\ len <= BufferLen
    BY DEF MicInv, TypeOK
  <2>3. max \in Nat
    <3> HIDE DEF len
    <3> QED BY <2>2, RingFacts
  <2>4. /\ ring' \in Seq(Byte)
        /\ front' \in 0 .. RingBytes - 1
        /\ held' \in [owner : Rx \union {"usb", "nobody"}, bytes : Seq(Byte)]
        /\ held'.owner = "usb" /\ Len(held'.bytes) <= max
        /\ Len(ring') + Len(held'.bytes) <= RingBytes
        /\ held = NoPiece
    <3> HIDE DEF max
    <3> QED BY <2>1, <2>3, ReceiveTypes DEF MicInv
  <2>5. TypeOK'
    BY <2>1, <2>4 DEF MicInv, TypeOK, history
  <2>6. len + Len(held'.bytes) <= BufferLen
    <3> DEFINE piece == Len(held'.bytes)
    <3>1. piece \in Nat /\ piece <= max
      BY <2>4
    <3> HIDE DEF len, piece
    <3> QED BY <2>2, <3>1, RingFacts DEF piece
  <2>7. Owners'
    <3>1. \A t \in Rx : producer[t].at # "return"
      BY <2>4, RxAssumption DEF MicInv, Owners, NoPiece
    <3> QED BY <2>1, <2>4, <2>6, <3>1, RxAssumption DEF Owners
  <2> QED BY <1>1, <2>5, <2>7 DEF MicInv
<1>4. CASE CopyReturn
  <2>1. /\ consumer = "copy" /\ consumer' = "fetch"
        /\ buf' = buf \o held.bytes
        /\ held' = NoPiece
        /\ UNCHANGED <<ring, front, producer, history>>
    BY <1>4 DEF CopyReturn, GiveBack
  <2>2. NoPiece.owner = "nobody" /\ NoPiece.bytes = <<>>
        /\ NoPiece \in [owner : Rx \union {"usb", "nobody"}, bytes : Seq(Byte)]
    BY DEF NoPiece
  <2>3. buf \in Seq(Byte) /\ held.bytes \in Seq(Byte) /\ ring \in Seq(Byte)
    BY DEF MicInv, TypeOK
  <2>4. buf' \in Seq(Byte) /\ Len(buf') = Len(buf) + Len(held.bytes)
    BY <2>1, <2>3, Joined
  <2>5. held.owner = "usb" /\ Len(buf') <= BufferLen
    BY <2>1, <2>4 DEF MicInv, Owners
  <2>6. Len(ring') + Len(held'.bytes) <= RingBytes
    <3> DEFINE a == Len(ring)  b == Len(held.bytes)
    <3>1. a \in Nat /\ b \in Nat /\ a + b <= RingBytes /\ Len(held'.bytes) = 0
      BY <2>1, <2>2 DEF MicInv, TypeOK
    <3>2. a + 0 <= RingBytes
      <4> HIDE DEF a, b
      <4> QED BY <3>1, RingFacts
    <3> QED BY <2>1, <3>1, <3>2
  <2>7. TypeOK'
    BY <2>1, <2>2, <2>4, <2>5, <2>6 DEF MicInv, TypeOK, history
  <2>8. Owners'
    BY <2>1, <2>2, <2>5, RxAssumption DEF MicInv, Owners
  <2> QED BY <1>1, <2>7, <2>8 DEF MicInv
<1>5. CASE Finish
  <2>1. /\ consumer = "fetch" /\ consumer' = "idle"
        /\ played' = played \o buf /\ buf' = <<>>
        /\ UNCHANGED <<ringVars, producer, fed, frames, overflowed, settled>>
    BY <1>5 DEF Finish
  <2>2. played' \in Seq(Byte) /\ buf' \in Seq(Byte) /\ Len(buf') <= BufferLen
    <3>1. played \in Seq(Byte) /\ buf \in Seq(Byte)
      BY DEF MicInv, TypeOK
    <3> QED BY <2>1, <3>1, Joined, RingFacts
  <2>3. TypeOK'
    BY <2>1, <2>2 DEF MicInv, TypeOK, ringVars
  <2>4. Owners'
    BY <2>1 DEF MicInv, Owners, ringVars
  <2> QED BY <1>1, <2>3, <2>4 DEF MicInv
<1> QED BY <1>2, <1>3, <1>4, <1>5 DEF Consume

LEMMA MicNext == MicInv /\ [Next]_vars => MicInv'
<1> SUFFICES ASSUME MicInv, [Next]_vars PROVE MicInv'
  OBVIOUS
<1>1. CASE UNCHANGED vars
  BY <1>1 DEF vars, ringVars, history, MicInv, TypeOK, Owners, FramesUnderWay
<1>2. CASE \E t \in Rx, n \in FrameSamples : HandleFrame(t, n)
  BY <1>2, HandleKeeps
<1>3. CASE \E t \in Rx : Produce(t)
  BY <1>3, ProduceKeeps
<1>4. CASE Consume
  BY <1>4, ConsumeKeeps
<1> QED BY <1>1, <1>2, <1>3, <1>4 DEF Next

LEMMA MicInit == Init => MicInv
<1> SUFFICES ASSUME Init PROVE MicInv
  OBVIOUS
<1> USE DEF Init, NoPiece, IdleProducer
<1>1. TypeOK
  <2>1. /\ ring \in Seq(Byte) /\ buf \in Seq(Byte) /\ played \in Seq(Byte)
        /\ held \in [owner : Rx \union {"usb", "nobody"}, bytes : Seq(Byte)]
        /\ producer \in [Rx -> [at : {"idle", "send", "drop", "return", "resend"},
                                frame : Seq(Byte)]]
    OBVIOUS
  <2>2. front \in 0 .. RingBytes - 1 /\ Len(buf) <= BufferLen
        /\ Len(ring) + Len(held.bytes) <= RingBytes
        /\ fed \in [Rx -> 0 .. 2 * MaxSamples]
    BY RingFacts
  <2> QED BY <2>1, <2>2 DEF TypeOK
<1>2. Owners
  BY RxAssumption DEF Owners
<1>3. FramesUnderWay
  <2>1. \A t \in Rx : producer[t].frame = <<>> /\ fed[t] = 0
    OBVIOUS
  <2>2. \A t \in Rx : LastBytes(t, <<>>, 0)
    BY NoFrame
  <2> QED BY <2>1, <2>2 DEF FramesUnderWay
<1> QED BY <1>1, <1>2, <1>3 DEF MicInv

(* The types hold, and neither the ring nor the buffer of the callback     *)
(* overflows, whatever their sizes and however many tasks feed the ring.   *)
THEOREM TypeCorrect == Spec => []TypeOK
<1>1. MicInv => TypeOK
  BY DEF MicInv
<1> QED BY <1>1, MicInit, MicNext, PTL DEF Spec

-----------------------------------------------------------------------------
(* Samples stay whole.                                                     *)

(* The halves of samples, one sample after the other.                      *)
Paired(bytes) ==
  /\ Len(bytes) % 2 = 0
  /\ \A i \in 1 .. Len(bytes) :
       i % 2 = 1 =>
         /\ Number(bytes[i]) % 2 = 1
         /\ bytes[i + 1] = <<Source(bytes[i]), Number(bytes[i]) + 1>>

(* Everything that holds audio holds samples, and the ring's buffer is     *)
(* read from an even offset, so that its end cuts none.                    *)
WholeInv ==
  /\ Paired(ring) /\ Paired(held.bytes) /\ Paired(buf)
  /\ front % 2 = 0
  /\ \A t \in Rx : fed[t] % 2 = 0 /\ Paired(producer[t].frame)

LEMMA EvenSum == \A m, n \in Nat : m % 2 = 0 /\ n % 2 = 0 => (m + n) % 2 = 0
  OBVIOUS

LEMMA PairedJoin ==
  \A s, t \in Seq(Byte) : Paired(s) /\ Paired(t) => Paired(s \o t)
<1> SUFFICES ASSUME NEW s \in Seq(Byte), NEW t \in Seq(Byte), Paired(s), Paired(t)
             PROVE  Paired(s \o t)
  OBVIOUS
<1> DEFINE m == Len(s)  n == Len(t)  st == s \o t
<1>1. /\ m \in Nat /\ n \in Nat /\ Len(st) = m + n
      /\ \A i \in 1 .. m : st[i] = s[i]
      /\ \A i \in 1 .. n : st[m + i] = t[i]
  BY Joined
<1>2. m % 2 = 0 /\ n % 2 = 0
  BY DEF Paired
<1>3. ASSUME NEW i \in 1 .. m + n, i % 2 = 1
      PROVE  /\ Number(st[i]) % 2 = 1
             /\ st[i + 1] = <<Source(st[i]), Number(st[i]) + 1>>
  <2>1. CASE i <= m
    <3>1. i \in 1 .. m /\ i + 1 \in 1 .. m
      <4> HIDE DEF m, n, st
      <4> QED BY <1>1, <1>2, <1>3, <2>1
    <3>2. st[i] = s[i] /\ st[i + 1] = s[i + 1]
      BY <1>1, <3>1
    <3> QED BY <1>3, <3>1, <3>2 DEF Paired
  <2>2. CASE i > m
    <3> DEFINE k == i - m
    <3>1. k \in 1 .. n /\ k + 1 \in 1 .. n /\ k % 2 = 1 /\ i = m + k /\ i + 1 = m + (k + 1)
      <4> HIDE DEF m, n, st
      <4> QED BY <1>1, <1>2, <1>3, <2>2
    <3>2. st[i] = t[k] /\ st[i + 1] = t[k + 1]
      <4> HIDE DEF m, n, st, k
      <4> QED BY <1>1, <3>1
    <3> QED BY <3>1, <3>2 DEF Paired
  <2> QED
    <3> HIDE DEF m, n, st
    <3> QED BY <1>1, <2>1, <2>2
<1>4. (m + n) % 2 = 0
  <2>1. m \in Nat /\ n \in Nat
    OBVIOUS
  <2> HIDE DEF m, n
  <2> QED BY <1>2, <2>1, EvenSum
<1> HIDE DEF m, n
<1> QED BY <1>1, <1>3, <1>4 DEF Paired

LEMMA PairedCut ==
  \A s \in Seq(Byte) : \A n \in 0 .. Len(s) :
    Paired(s) /\ n % 2 = 0 => Paired(SubSeq(s, 1, n)) /\ Paired(SubSeq(s, n + 1, Len(s)))
<1> SUFFICES ASSUME NEW s \in Seq(Byte), NEW n \in 0 .. Len(s), Paired(s), n % 2 = 0
             PROVE  Paired(SubSeq(s, 1, n)) /\ Paired(SubSeq(s, n + 1, Len(s)))
  OBVIOUS
<1> DEFINE len == Len(s)
           rest == len - n
           a == SubSeq(s, 1, n)
           b == SubSeq(s, n + 1, len)
<1>1. /\ Len(a) = n /\ Len(b) = rest
      /\ \A i \in 1 .. n : a[i] = s[i]
      /\ \A i \in 1 .. rest : b[i] = s[n + i]
  BY CutInTwo
<1>2. len \in Nat /\ len % 2 = 0 /\ n \in 0 .. len
  BY DEF Paired
<1>3. Paired(a)
  <2>1. \A i \in 1 .. n : i % 2 = 1 => i + 1 \in 1 .. n /\ i \in 1 .. len
    <3> HIDE DEF len, a, b
    <3> QED BY <1>2
  <2>2. ASSUME NEW i \in 1 .. n, i % 2 = 1
        PROVE  Number(a[i]) % 2 = 1 /\ a[i + 1] = <<Source(a[i]), Number(a[i]) + 1>>
    <3>1. a[i] = s[i] /\ a[i + 1] = s[i + 1]
      BY <1>1, <2>1, <2>2
    <3> QED BY <2>1, <2>2, <3>1 DEF Paired
  <2> HIDE DEF a
  <2> QED BY <1>1, <2>2 DEF Paired
<1>4. Paired(b)
  <2>1. \A i \in 1 .. rest : i % 2 = 1 =>
          /\ i + 1 \in 1 .. rest /\ n + i \in 1 .. len /\ (n + i) % 2 = 1
          /\ n + (i + 1) = (n + i) + 1
    <3> HIDE DEF len, a, b
    <3> QED BY <1>2
  <2>2. ASSUME NEW i \in 1 .. rest, i % 2 = 1
        PROVE  Number(b[i]) % 2 = 1 /\ b[i + 1] = <<Source(b[i]), Number(b[i]) + 1>>
    <3>1. b[i] = s[n + i] /\ b[i + 1] = s[(n + i) + 1]
      <4>1. i \in 1 .. rest /\ i + 1 \in 1 .. rest
        BY <2>1, <2>2
      <4> HIDE DEF a, b, rest, len
      <4>2. b[i] = s[n + i] /\ b[i + 1] = s[n + (i + 1)]
        BY <1>1, <4>1
      <4>3. n + (i + 1) = (n + i) + 1
        BY <2>1, <2>2
      <4> QED BY <4>2, <4>3
    <3> QED BY <2>1, <2>2, <3>1 DEF Paired
  <2>3. rest % 2 = 0
    <3> HIDE DEF len
    <3> QED BY <1>2
  <2> HIDE DEF b, rest
  <2> QED BY <1>1, <2>2, <2>3 DEF Paired
<1> QED BY <1>3, <1>4

LEMMA PairedNothing == Paired(<<>>)
<1>1. Len(<<>>) = 0
  OBVIOUS
<1> QED BY <1>1 DEF Paired

(* What a receive takes from the ring and leaves in it is paired.          *)
LEMMA ReceiveWhole ==
  ASSUME TypeOK, Paired(ring), front % 2 = 0,
         NEW owner \in Rx \union {"usb"}, NEW max \in Nat, max % 2 = 0,
         Receive(owner, max)
  PROVE  Paired(ring') /\ Paired(held'.bytes) /\ front' % 2 = 0
<1>1. Len(ring) % 2 = 0 /\ ring \in Seq(Byte)
  BY DEF Paired, TypeOK
<1>2. PICK n \in 0 .. Len(ring) :
        /\ held' = [owner |-> owner, bytes |-> SubSeq(ring, 1, n)]
        /\ ring' = SubSeq(ring, n + 1, Len(ring))
        /\ n % 2 = 0 /\ front' % 2 = 0
  BY <1>1, ReceiveFacts
<1> QED BY <1>1, <1>2, PairedCut

LEMMA WholeProduce ==
  ASSUME MicInv, WholeInv, NEW t \in Rx, Produce(t)
  PROVE  WholeInv'
<1> DEFINE frame == producer[t].frame
<1>0. /\ UNCHANGED <<buf, fed>>
      /\ frame \in Seq(Byte) /\ ring \in Seq(Byte) /\ Paired(frame)
      /\ Len(frame) \in Nat /\ Len(frame) % 2 = 0
  <2>1. UNCHANGED <<buf, fed>>
    BY DEF Produce, Send, Drop, DropReturn, Resend
  <2>2. frame \in Seq(Byte) /\ ring \in Seq(Byte)
    BY DEF MicInv, TypeOK
  <2>3. Paired(frame)
    BY DEF WholeInv
  <2>4. Len(frame) % 2 = 0
    BY <2>3 DEF Paired
  <2> HIDE DEF frame
  <2> QED BY <2>1, <2>2, <2>3, <2>4
<1>1. \A u \in Rx : Paired(producer'[u].frame)
  <2>1. CASE Returns(t)
    BY <2>1, PairedNothing, Returned DEF WholeInv, MicInv
  <2>2. CASE \E to \in {"drop", "return", "resend"} : Goes(t, to)
    BY <2>2, Moved DEF WholeInv, MicInv
  <2> QED BY <2>1, <2>2 DEF Produce, Send, Drop, DropReturn, Resend
<1>2. Paired(ring') /\ Paired(held'.bytes) /\ front' % 2 = 0
  <2>1. CASE Store(frame)
    BY <1>0, <2>1, PairedJoin DEF Store, WholeInv
  <2>2. CASE UNCHANGED ringVars
    BY <2>2 DEF WholeInv, ringVars
  <2>3. CASE Receive(t, Len(frame))
    <3> HIDE DEF frame
    <3> QED BY <1>0, <2>3, ReceiveWhole DEF WholeInv, MicInv
  <2>4. CASE GiveBack /\ UNCHANGED <<ring, front>>
    BY <2>4, PairedNothing DEF GiveBack, NoPiece, WholeInv
  <2> QED BY <2>1, <2>2, <2>3, <2>4 DEF Produce, Send, Drop, DropReturn, Resend
<1> QED BY <1>0, <1>1, <1>2 DEF WholeInv

LEMMA WholeConsume ==
  ASSUME MicInv, WholeInv, Consume
  PROVE  WholeInv'
<1>0. UNCHANGED <<producer, fed>>
  BY DEF Consume, Callback, Fetch, CopyReturn, Finish, history
<1>1. CASE Callback
  BY <1>0, <1>1 DEF Callback, WholeInv, ringVars
<1>2. CASE Fetch
  <2> DEFINE len == Len(buf)
             max == BufferLen - len
  <2>1. Receive("usb", max) /\ UNCHANGED buf
    BY <1>2 DEF Fetch
  <2>2. len \in Nat /\ len <= BufferLen /\ len % 2 = 0
    BY DEF MicInv, TypeOK, WholeInv, Paired
  <2>3. max \in Nat /\ max % 2 = 0
    <3> HIDE DEF len
    <3> QED BY <2>2, RingFacts
  <2> HIDE DEF max
  <2>4. Paired(ring') /\ Paired(held'.bytes) /\ front' % 2 = 0
    BY <2>1, <2>3, ReceiveWhole DEF MicInv, WholeInv
  <2> QED BY <1>0, <2>1, <2>4 DEF WholeInv
<1>3. CASE CopyReturn
  <2>1. buf \in Seq(Byte) /\ held.bytes \in Seq(Byte)
    BY DEF MicInv, TypeOK
  <2> QED BY <1>0, <1>3, <2>1, PairedJoin, PairedNothing
           DEF CopyReturn, GiveBack, NoPiece, WholeInv
<1>4. CASE Finish
  BY <1>0, <1>4, PairedNothing DEF Finish, WholeInv, ringVars
<1> QED BY <1>1, <1>2, <1>3, <1>4 DEF Consume

LEMMA WholeHandle ==
  ASSUME MicInv, WholeInv, NEW t \in Rx, NEW samples \in FrameSamples,
         HandleFrame(t, samples)
  PROVE  WholeInv'
<1> DEFINE old == fed[t]
           len == 2 * samples
           frame == producer'[t].frame
<1>1. /\ UNCHANGED <<ringVars, buf>>
      /\ frame = [i \in 1 .. len |-> <<t, old + i>>]
      /\ Len(frame) = len
      /\ \A u \in Rx \ {t} : producer'[u] = producer[u]
      /\ fed' = [fed EXCEPT ![t] = old + len]
  BY HandleKeeps DEF HandleFrame
<1>2. old \in Nat /\ len \in Nat /\ old % 2 = 0 /\ len % 2 = 0
  BY SizeAssumption DEF MicInv, TypeOK, WholeInv
<1>3. /\ fed'[t] = old + len
      /\ \A u \in Rx \ {t} : fed'[u] = fed[u]
  BY <1>1 DEF MicInv, TypeOK
<1>4. Paired(frame)
  <2>1. \A i \in 1 .. len : i % 2 = 1 =>
          /\ i + 1 \in 1 .. len /\ (old + i) % 2 = 1
          /\ old + (i + 1) = (old + i) + 1
    <3> HIDE DEF old, len
    <3> QED BY <1>2
  <2>2. \A i \in 1 .. len : Source(frame[i]) = t /\ Number(frame[i]) = old + i
                            /\ frame[i] = <<t, old + i>>
    <3> HIDE DEF old, len
    <3> QED BY <1>1 DEF Source, Number
  <2> HIDE DEF old, len, frame
  <2>3. ASSUME NEW i \in 1 .. len, i % 2 = 1
        PROVE  /\ Number(frame[i]) % 2 = 1
               /\ frame[i + 1] = <<Source(frame[i]), Number(frame[i]) + 1>>
    BY <2>1, <2>2, <2>3
  <2> QED BY <1>1, <1>2, <2>3 DEF Paired
<1>5. (old + len) % 2 = 0
  <2> HIDE DEF old, len
  <2> QED BY <1>2
<1> HIDE DEF old, len
<1> QED BY <1>1, <1>3, <1>4, <1>5 DEF WholeInv, ringVars

LEMMA WholeNext == MicInv /\ WholeInv /\ [Next]_vars => WholeInv'
<1>1. ASSUME WholeInv, UNCHANGED vars PROVE WholeInv'
  BY <1>1 DEF vars, ringVars, history, WholeInv
<1> QED BY <1>1, WholeHandle, WholeProduce, WholeConsume DEF Next

(* Neither the end of the ring's buffer nor a drop cuts a sample, and the  *)
(* silence begins between two: in every buffer given to the USB stack.     *)
THEOREM SamplesStayWhole == Spec => []WholeSamples
<1>1. Init => WholeInv
  BY PairedNothing DEF Init, NoPiece, IdleProducer, WholeInv
<1>2. MicInv /\ WholeInv => WholeSamples
  <2> SUFFICES ASSUME MicInv, WholeInv, NEW i \in DOMAIN buf, i % 2 = 1
               PROVE  /\ i + 1 \in DOMAIN buf
                      /\ Number(buf[i]) % 2 = 1
                      /\ buf[i + 1] = <<Source(buf[i]), Number(buf[i]) + 1>>
    BY DEF WholeSamples
  <2> DEFINE len == Len(buf)
  <2>1. len \in Nat /\ DOMAIN buf = 1 .. len /\ len % 2 = 0
    BY DEF MicInv, TypeOK, WholeInv, Paired
  <2>2. i \in 1 .. len /\ i + 1 \in 1 .. len
    <3> HIDE DEF len
    <3> QED BY <2>1
  <2> QED BY <2>1, <2>2 DEF WholeInv, Paired
<1> QED BY <1>1, <1>2, MicInit, MicNext, WholeNext, PTL DEF Spec

-----------------------------------------------------------------------------
(* What a step does to the bytes that are heard.                           *)

(* Those that are no longer in the ring.                                   *)
InHand == IF held.owner = "usb" THEN held.bytes ELSE <<>>
Taken == played \o buf \o InHand

LEMMA HeardFacts ==
  ASSUME TypeOK
  PROVE  /\ Heard = Taken \o ring
         /\ Taken \in Seq(Byte) /\ ring \in Seq(Byte) /\ Heard \in Seq(Byte)
         /\ InHand \in Seq(Byte) /\ played \o buf \in Seq(Byte)
<1>1. /\ played \in Seq(Byte) /\ buf \in Seq(Byte) /\ ring \in Seq(Byte)
      /\ InHand \in Seq(Byte)
  BY DEF TypeOK, InHand
<1>2. Heard = Taken \o ring
  BY DEF Heard, Taken, InHand
<1>3. played \o buf \in Seq(Byte)
  BY <1>1, Joined
<1>4. Taken \in Seq(Byte)
  BY <1>1, <1>3, Joined DEF Taken
<1> QED BY <1>1, <1>2, <1>3, <1>4, Joined

LEMMA NothingJoined == \A s \in Seq(Byte) : s \o <<>> = s
  OBVIOUS

(* Bytes stored are heard last.                                            *)
LEMMA HeardStored ==
  ASSUME MicInv, NEW bytes \in Seq(Byte), Store(bytes), UNCHANGED <<played, buf>>
  PROVE  Heard' = Heard \o bytes
<1>1. ring' = ring \o bytes /\ Taken' = Taken
  BY DEF Store, Taken, InHand
<1>2. Heard' = Taken' \o ring'
  BY DEF Heard, Taken, InHand
<1>3. Taken \in Seq(Byte) /\ ring \in Seq(Byte) /\ Heard = Taken \o ring
  BY HeardFacts DEF MicInv
<1> QED BY <1>1, <1>2, <1>3, Associative, Zenon

(* A receive task takes the first bytes of the ring out.                   *)
LEMMA HeardDropped ==
  ASSUME MicInv, NEW t \in Rx, NEW max \in Nat, Receive(t, max),
         UNCHANGED <<played, buf>>
  PROVE  \E n \in 0 .. Len(ring) : n <= max /\ Heard' = Taken \o SubSeq(ring, n + 1, Len(ring))
<1>1. PICK n \in 0 .. Len(ring) :
        /\ n <= max
        /\ held' = [owner |-> t, bytes |-> SubSeq(ring, 1, n)]
        /\ ring' = SubSeq(ring, n + 1, Len(ring))
  BY ReceiveFacts DEF MicInv
<1>2. held = NoPiece
  BY ReceiveFacts DEF MicInv
<1>3. InHand = <<>> /\ InHand' = <<>>
  BY <1>1, <1>2, RingFacts DEF InHand, NoPiece
<1>4. Heard' = Taken \o ring'
  BY <1>3 DEF Heard, Taken, InHand
<1> QED BY <1>1, <1>4

(* The rest of the steps only hands bytes on.                              *)
LEMMA HeardSame ==
  ASSUME MicInv,
         \/ UNCHANGED <<ring, held, buf, played>>
         \/ \E t \in Rx : DropReturn(t)
         \/ Consume
  PROVE  Heard' = Heard
<1> DEFINE past == played \o buf
<1>0. /\ past \in Seq(Byte) /\ InHand \in Seq(Byte) /\ ring \in Seq(Byte)
      /\ Heard = (past \o InHand) \o ring
      /\ Heard' = ((played' \o buf') \o InHand') \o ring'
      /\ NoPiece.owner = "nobody"
      /\ played \in Seq(Byte) /\ buf \in Seq(Byte) /\ Taken \in Seq(Byte)
  BY HeardFacts DEF MicInv, TypeOK, Heard, Taken, InHand, NoPiece
<1>1. CASE UNCHANGED <<ring, held, buf, played>>
  BY <1>1 DEF Heard
<1>2. CASE \E t \in Rx : DropReturn(t)
  <2>1. UNCHANGED <<played, buf, ring>> /\ held' = NoPiece /\ held.owner # "usb"
    BY <1>2, RingFacts DEF DropReturn, GiveBack, MicInv, Owners
  <2> QED BY <1>0, <2>1 DEF Heard
<1>3. CASE Callback
  BY <1>3 DEF Callback, Heard, ringVars, history
<1>4. CASE Fetch
  <2>1. UNCHANGED <<played, buf>> /\ Receive("usb", BufferLen - Len(buf))
    BY <1>4 DEF Fetch, history
  <2>2. BufferLen - Len(buf) \in Nat
    <3> DEFINE len == Len(buf)
    <3>1. len \in Nat /\ len <= BufferLen
      BY DEF MicInv, TypeOK
    <3> HIDE DEF len
    <3>2. BufferLen - len \in Nat
      BY <3>1, RingFacts
    <3> QED BY <3>2 DEF len
  <2> DEFINE max == BufferLen - Len(buf)
  <2> HIDE DEF max
  <2>3. PICK n \in 0 .. Len(ring) :
          /\ held' = [owner |-> "usb", bytes |-> SubSeq(ring, 1, n)]
          /\ ring' = SubSeq(ring, n + 1, Len(ring))
    BY <2>1, <2>2, ReceiveFacts DEF MicInv, max
  <2>4. InHand = <<>> /\ InHand' = SubSeq(ring, 1, n)
    <3>1. held = NoPiece
      BY <2>1 DEF Receive, CanReceive
    <3> QED BY <2>3, <3>1 DEF InHand, NoPiece
  <2>5. Heard = past \o ring
    BY <1>0, <2>4, NothingJoined
  <2>6. Heard' = (past \o SubSeq(ring, 1, n)) \o SubSeq(ring, n + 1, Len(ring))
    BY <1>0, <2>1, <2>3, <2>4
  <2> HIDE DEF past
  <2> QED BY <1>0, <2>5, <2>6, MoveFront
<1>5. CASE CopyReturn
  <2>1. /\ buf' = buf \o InHand /\ InHand' = <<>>
        /\ UNCHANGED <<played, ring>>
    BY <1>0, <1>5 DEF CopyReturn, GiveBack, InHand, MicInv, Owners, history
  <2>2. played \o (buf \o InHand) = Taken
    BY <1>0, Associative, ZenonT(120) DEF Taken
  <2>3. Taken \o <<>> = Taken
    BY <1>0, NothingJoined
  <2> QED BY <1>0, <2>1, <2>2, <2>3 DEF Taken
<1>6. CASE Finish
  <2>1. /\ played' = past /\ buf' = <<>> /\ InHand = <<>> /\ InHand' = <<>>
        /\ UNCHANGED ring
    BY <1>6 DEF Finish, InHand, MicInv, Owners, ringVars
  <2> HIDE DEF past
  <2> QED BY <1>0, <2>1, NothingJoined
<1> QED BY <1>1, <1>2, <1>3, <1>4, <1>5, <1>6 DEF Consume

-----------------------------------------------------------------------------
(* Sequences that grow by a frame and lose a piece.                        *)

InOrder(h) ==
  \A i, j \in DOMAIN h :
    i < j /\ Source(h[i]) = Source(h[j]) => Number(h[i]) < Number(h[j])

Within(a, f) == Source(a) = f[1] /\ Number(a) \in f[2] .. f[3]

Unbroken(h, fs) ==
  \A i, k \in DOMAIN h :
    i < k /\ (\E f \in fs : Within(h[i], f) /\ Within(h[k], f)) =>
      \A j \in i .. k : Source(h[j]) = Source(h[i])

(* The bytes of a source that are not those of the frame under way.        *)
Done == [t \in Rx |-> fed[t] - Len(producer[t].frame)]

Frames == Rx \X (1 .. 2 * MaxSamples) \X (1 .. 2 * MaxSamples)

(* A frame is the last of its source: each byte of it comes after all that *)
(* is heard of the source, and no earlier frame reaches into it.           *)
LEMMA GrowsByFrame ==
  ASSUME NEW h \in Seq(Byte), NEW bytes \in Seq(Byte), NEW t, NEW d \in Nat,
         \A i \in 1 .. Len(bytes) : bytes[i] = <<t, d + i>>,
         \A i \in 1 .. Len(h) : Source(h[i]) = t => Number(h[i]) <= d,
         NEW fs \in SUBSET Frames,
         \A f \in fs : f[1] = t => f[3] <= d \/ f[2] > d
  PROVE  /\ InOrder(h) => InOrder(h \o bytes)
         /\ Unbroken(h, fs) => Unbroken(h \o bytes, fs)
<1> DEFINE m == Len(h)
           n == Len(bytes)
           hb == h \o bytes
<1>1. /\ m \in Nat /\ n \in Nat /\ Len(hb) = m + n
      /\ DOMAIN hb = 1 .. m + n /\ DOMAIN h = 1 .. m
      /\ \A i \in 1 .. m : hb[i] = h[i] /\ Number(h[i]) \in Nat
      /\ \A i \in 1 .. n : hb[m + i] = bytes[i]
  BY Joined DEF Byte, Number
<1>2. \A i \in m + 1 .. m + n : Source(hb[i]) = t /\ Number(hb[i]) = d + (i - m)
  <2> SUFFICES ASSUME NEW i \in m + 1 .. m + n
               PROVE  Source(hb[i]) = t /\ Number(hb[i]) = d + (i - m)
    OBVIOUS
  <2> DEFINE k == i - m
  <2>1. k \in 1 .. n /\ i = m + k
    <3> HIDE DEF m, n, hb
    <3> QED BY <1>1
  <2>2. hb[i] = <<t, d + k>>
    <3> HIDE DEF m, n, hb, k
    <3> QED BY <1>1, <2>1 DEF n
  <2> QED BY <2>2 DEF Source, Number
<1>3. \A i \in 1 .. m + n : i \in 1 .. m \/ i \in m + 1 .. m + n
  <2> HIDE DEF m, n, hb
  <2> QED BY <1>1
<1>4. \A i \in 1 .. m : hb[i] = h[i] /\ Number(h[i]) \in Nat
                        /\ (Source(h[i]) = t => Number(h[i]) <= d)
  BY <1>1
<1>5. ASSUME InOrder(h), NEW i \in 1 .. m + n, NEW j \in 1 .. m + n,
             i < j, Source(hb[i]) = Source(hb[j])
      PROVE  Number(hb[i]) < Number(hb[j])
  <2>1. CASE j \in 1 .. m
    <3>1. i \in 1 .. m
      <4> HIDE DEF m, n, hb
      <4> QED BY <1>1, <1>5, <2>1
    <3> QED BY <1>1, <1>5, <2>1, <3>1 DEF InOrder
  <2>2. CASE j \in m + 1 .. m + n
    <3>1. CASE i \in 1 .. m
      <4>1. Number(h[i]) <= d /\ hb[i] = h[i] /\ Number(hb[j]) = d + (j - m)
            /\ Number(h[i]) \in Nat
        BY <1>2, <1>4, <1>5, <2>2, <3>1
      <4> HIDE DEF m, n, hb
      <4> QED BY <1>1, <2>2, <4>1
    <3>2. CASE i \in m + 1 .. m + n
      <4> HIDE DEF m, n, hb
      <4> QED BY <1>1, <1>2, <1>5, <2>2, <3>2
    <3> QED BY <1>3, <3>1, <3>2
  <2> QED BY <1>3, <2>1, <2>2
<1>6. ASSUME Unbroken(h, fs), NEW i \in 1 .. m + n, NEW k \in 1 .. m + n,
             i < k, NEW f \in fs, Within(hb[i], f), Within(hb[k], f)
      PROVE  \A j \in i .. k : Source(hb[j]) = Source(hb[i])
  <2>0. f[2] \in Nat /\ f[3] \in Nat
    BY DEF Frames
  <2>1. CASE k \in 1 .. m
    <3>1. i \in 1 .. m /\ \A j \in i .. k : j \in 1 .. m
      <4> HIDE DEF m, n, hb
      <4> QED BY <1>1, <1>6, <2>1
    <3>2. \A j \in i .. k : Source(h[j]) = Source(h[i])
      BY <1>1, <1>6, <2>1, <3>1 DEF Unbroken
    <3> QED BY <1>1, <3>1, <3>2
  <2>2. CASE k \in m + 1 .. m + n
    <3>1. i \in m + 1 .. m + n
      <4> SUFFICES ASSUME i \in 1 .. m PROVE FALSE
        BY <1>3
      <4>1. Source(hb[k]) = t /\ Number(hb[k]) = d + (k - m)
        BY <1>2, <2>2
      <4>2. /\ f[1] = t /\ Source(hb[i]) = t
            /\ Number(hb[k]) <= f[3] /\ f[2] <= Number(hb[i])
        BY <1>6, <2>0, <4>1 DEF Within
      <4>3. Number(hb[i]) <= d /\ Number(hb[i]) \in Nat
        BY <1>4, <4>2
      <4>4. f[3] <= d \/ f[2] > d
        BY <4>2
      <4> HIDE DEF m, n, hb
      <4> QED BY <1>1, <2>0, <2>2, <4>1, <4>2, <4>3, <4>4
    <3>2. \A j \in i .. k : j \in m + 1 .. m + n
      <4> HIDE DEF m, n, hb
      <4> QED BY <1>1, <2>2, <3>1
    <3> QED BY <1>2, <3>1, <3>2
  <2> QED BY <1>3, <2>1, <2>2
<1> HIDE DEF m, n
<1>7. InOrder(h) => InOrder(hb)
  BY <1>1, <1>5 DEF InOrder
<1>8. Unbroken(h, fs) => Unbroken(hb, fs)
  BY <1>1, <1>6 DEF Unbroken
<1> QED BY <1>7, <1>8

(* What is left of a sequence when a piece within it is lost.              *)
Thinned(g, h) ==
  \E at \in [DOMAIN g -> DOMAIN h] :
    /\ \A i \in DOMAIN g : g[i] = h[at[i]]
    /\ \A i, j \in DOMAIN g : i < j => at[i] < at[j]

LEMMA PieceLost ==
  ASSUME NEW s \in Seq(Byte), NEW t \in Seq(Byte), NEW n \in 0 .. Len(t)
  PROVE  Thinned(s \o SubSeq(t, n + 1, Len(t)), s \o t)
<1> DEFINE u == SubSeq(t, n + 1, Len(t))
           a == Len(s)
           b == Len(t)
           g == s \o u
           h == s \o t
           at == [i \in 1 .. a + (b - n) |-> IF i <= a THEN i ELSE i + n]
<1>1. /\ u \in Seq(Byte) /\ Len(u) = b - n
      /\ \A i \in 1 .. b - n : u[i] = t[n + i]
      /\ a \in Nat /\ b \in Nat
  BY CutInTwo
<1>2. /\ DOMAIN g = 1 .. a + (b - n) /\ DOMAIN h = 1 .. a + b
      /\ \A i \in 1 .. a : g[i] = s[i] /\ h[i] = s[i]
      /\ \A i \in 1 .. b - n : g[a + i] = u[i]
      /\ \A i \in 1 .. b : h[a + i] = t[i]
  <2> HIDE DEF u
  <2> QED BY <1>1
<1>3. ASSUME NEW i \in 1 .. a + (b - n)
      PROVE  at[i] \in 1 .. a + b /\ g[i] = h[at[i]]
  <2>1. CASE i <= a
    <3>1. i \in 1 .. a /\ i \in 1 .. a + b
      <4> HIDE DEF a, b
      <4> QED BY <1>1, <2>1
    <3>2. at[i] = i
      BY <2>1
    <3> QED BY <1>2, <3>1, <3>2
  <2>2. CASE i > a
    <3> DEFINE k == i - a
    <3>1. k \in 1 .. b - n /\ n + k \in 1 .. b /\ i = a + k /\ i + n = a + (n + k)
          /\ ~(i <= a) /\ i + n \in 1 .. a + b
      <4>1. b \in Nat /\ n \in 0 .. b /\ a \in Nat
        BY <1>1
      <4> HIDE DEF a, b
      <4> QED BY <2>2, <4>1
    <3>2. at[i] = i + n
      BY <3>1
    <3>3. g[a + k] = u[k] /\ u[k] = t[n + k] /\ h[a + (n + k)] = t[n + k]
      <4> HIDE DEF a, b, k, u, g, h
      <4> QED BY <1>1, <1>2, <3>1
    <3> HIDE DEF a, k, g, h, at
    <3> QED BY <3>1, <3>2, <3>3
  <2> HIDE DEF b, g, h, at
  <2> QED BY <1>1, <2>1, <2>2
<1>4. \A i, j \in 1 .. a + (b - n) : i < j => at[i] < at[j]
  <2>1. b \in Nat /\ n \in 0 .. b /\ a \in Nat
    BY <1>1
  <2> HIDE DEF a, b
  <2> QED BY <2>1
<1>5. at \in [DOMAIN g -> DOMAIN h]
  <2>1. at = [i \in 1 .. a + (b - n) |-> at[i]]
    OBVIOUS
  <2> HIDE DEF at, g, h
  <2> QED BY <1>2, <1>3, <2>1
<1> HIDE DEF at, g, h, a, b
<1>6. Thinned(g, h)
  BY <1>2, <1>3, <1>4, <1>5 DEF Thinned
<1> QED BY <1>6 DEF g, h

LEMMA ThinnedKeeps ==
  ASSUME NEW g \in Seq(Byte), NEW h \in Seq(Byte), Thinned(g, h), NEW fs
  PROVE  /\ InOrder(h) => InOrder(g)
         /\ Unbroken(h, fs) => Unbroken(g, fs)
<1>1. PICK at \in [DOMAIN g -> DOMAIN h] :
        /\ \A i \in DOMAIN g : g[i] = h[at[i]]
        /\ \A i, j \in DOMAIN g : i < j => at[i] < at[j]
  BY DEF Thinned
<1>2. InOrder(h) => InOrder(g)
  BY <1>1 DEF InOrder
<1>3. ASSUME Unbroken(h, fs), NEW i \in DOMAIN g, NEW k \in DOMAIN g, i < k,
             NEW f \in fs, Within(g[i], f), Within(g[k], f), NEW j \in i .. k
      PROVE  Source(g[j]) = Source(g[i])
  <2>1. j \in DOMAIN g /\ (j = i \/ i < j) /\ (j = k \/ j < k)
    <3> DEFINE len == Len(g)
    <3>1. len \in Nat /\ DOMAIN g = 1 .. len
      OBVIOUS
    <3> HIDE DEF len
    <3> QED BY <1>3, <3>1
  <2>2. at[i] \in Nat /\ at[j] \in Nat /\ at[k] \in Nat
        /\ at[i] < at[k] /\ at[i] <= at[j] /\ at[j] <= at[k]
    BY <1>1, <1>3, <2>1
  <2>3. Within(h[at[i]], f) /\ Within(h[at[k]], f)
    BY <1>1, <1>3
  <2>4. Source(h[at[j]]) = Source(h[at[i]])
    BY <1>1, <1>3, <2>2, <2>3 DEF Unbroken
  <2> QED BY <1>1, <2>1, <2>4
<1>4. Unbroken(h, fs) => Unbroken(g, fs)
  BY <1>3 DEF Unbroken
<1> QED BY <1>2, <1>4

-----------------------------------------------------------------------------
(* Sources are heard in order, and frame by frame.                         *)

(* What is heard of a source belongs to earlier frames than the one under  *)
(* way, which begins after them.                                           *)
OrderInv ==
  /\ InOrder(Heard) /\ Unbroken(Heard, frames)
  /\ \A i \in DOMAIN Heard : Number(Heard[i]) <= Done[Source(Heard[i])]
  /\ \A f \in frames :
       /\ f[2] <= f[3] /\ f[3] <= fed[f[1]]
       /\ f[3] <= Done[f[1]] \/ f[2] > Done[f[1]]

LEMMA DoneFacts ==
  ASSUME MicInv
  PROVE  \A t \in Rx : /\ Done[t] \in Nat /\ fed[t] \in Nat
                       /\ Done[t] + Len(producer[t].frame) = fed[t]
                       /\ (producer[t].at = "idle" => Done[t] = fed[t])
<1> SUFFICES ASSUME NEW t \in Rx
             PROVE  /\ Done[t] \in Nat /\ fed[t] \in Nat
                    /\ Done[t] + Len(producer[t].frame) = fed[t]
                    /\ (producer[t].at = "idle" => Done[t] = fed[t])
  OBVIOUS
<1> DEFINE len == Len(producer[t].frame)
           all == fed[t]
<1>1. /\ len \in Nat /\ all \in Nat /\ len <= all
      /\ (producer[t].at = "idle" => len = 0)
      /\ Done[t] = all - len
  BY DEF MicInv, TypeOK, FramesUnderWay, LastBytes, Done
<1> HIDE DEF len, all
<1>2. Done[t] \in Nat /\ Done[t] + len = all /\ (len = 0 => Done[t] = all)
  BY <1>1
<1> QED BY <1>1, <1>2 DEF len, all

LEMMA FrameFacts ==
  ASSUME MicInv
  PROVE  \A f \in frames : f[1] \in Rx /\ f[2] \in Nat /\ f[3] \in Nat
<1>1. frames \in SUBSET Frames
  BY DEF MicInv, TypeOK, Frames
<1>2. \A f \in Frames : f[1] \in Rx /\ f[2] \in Nat /\ f[3] \in Nat
  BY DEF Frames
<1> QED BY <1>1, <1>2

(* A step that adds no frame and nothing of the ones under way.            *)
LEMMA OrderCarried ==
  ASSUME MicInv, MicInv', OrderInv, UNCHANGED <<fed, frames>>, Thinned(Heard', Heard),
         \A t \in Rx : \/ producer'[t].frame = producer[t].frame
                       \/ producer'[t].frame = <<>>
  PROVE  OrderInv'
<1>1. Heard \in Seq(Byte) /\ Heard' \in Seq(Byte)
  <2>1. /\ played' \in Seq(Byte) /\ buf' \in Seq(Byte) /\ ring' \in Seq(Byte)
        /\ InHand' \in Seq(Byte)
    BY DEF MicInv, TypeOK, InHand
  <2>2. Heard' = ((played' \o buf') \o InHand') \o ring'
    BY DEF Heard, InHand
  <2>3. Heard \in Seq(Byte)
    BY HeardFacts DEF MicInv
  <2> QED BY <2>1, <2>2, <2>3, Joined
<1>2. InOrder(Heard') /\ Unbroken(Heard', frames)
  BY <1>1, ThinnedKeeps DEF OrderInv
<1>3. \A t \in Rx : /\ Done[t] \in Nat /\ Done'[t] \in Nat /\ Done[t] <= Done'[t]
                    /\ (Done'[t] = Done[t] \/ Done'[t] = fed[t])
  <2> SUFFICES ASSUME NEW t \in Rx
               PROVE  /\ Done[t] \in Nat /\ Done'[t] \in Nat /\ Done[t] <= Done'[t]
                      /\ (Done'[t] = Done[t] \/ Done'[t] = fed[t])
    OBVIOUS
  <2> DEFINE len == Len(producer[t].frame)
  <2>1. /\ Done[t] \in Nat /\ fed[t] \in Nat /\ len \in Nat
        /\ Done[t] + len = fed[t]
    <3>1. producer[t].frame \in Seq(Byte)
      BY DEF MicInv, TypeOK
    <3> QED BY <3>1, DoneFacts
  <2>2. Done'[t] = Done[t] \/ Done'[t] = fed[t]
    <3>1. CASE producer'[t].frame = producer[t].frame
      BY <3>1 DEF Done
    <3>2. CASE producer'[t].frame = <<>>
      <4>1. Done'[t] = fed[t] - 0
        BY <3>2 DEF Done
      <4> QED BY <2>1, <4>1
    <3> QED BY <3>1, <3>2
  <2> HIDE DEF len
  <2> QED BY <2>1, <2>2
<1>4. \A i \in DOMAIN Heard' : Number(Heard'[i]) <= Done'[Source(Heard'[i])]
  <2> SUFFICES ASSUME NEW i \in DOMAIN Heard'
               PROVE  Number(Heard'[i]) <= Done'[Source(Heard'[i])]
    OBVIOUS
  <2>1. PICK k \in DOMAIN Heard : Heard'[i] = Heard[k]
    BY DEF Thinned
  <2>2. Source(Heard[k]) \in Rx /\ Number(Heard[k]) \in Nat
    BY <1>1 DEF Byte, Source, Number
  <2>3. Number(Heard[k]) <= Done[Source(Heard[k])]
    BY DEF OrderInv
  <2> QED BY <1>3, <2>1, <2>2, <2>3
<1>5. ASSUME NEW f \in frames
      PROVE  f[3] <= Done'[f[1]] \/ f[2] > Done'[f[1]]
  <2>1. f[1] \in Rx /\ f[2] \in Nat /\ f[3] \in Nat
    BY FrameFacts
  <2>2. f[3] <= fed[f[1]] /\ (f[3] <= Done[f[1]] \/ f[2] > Done[f[1]])
    BY DEF OrderInv
  <2> QED BY <1>3, <2>1, <2>2
<1> QED BY <1>2, <1>4, <1>5 DEF OrderInv

LEMMA ThinnedSame == ASSUME NEW h \in Seq(Byte) PROVE Thinned(h, h)
<1> DEFINE at == [i \in DOMAIN h |-> i]
<1>1. /\ at \in [DOMAIN h -> DOMAIN h]
      /\ \A i \in DOMAIN h : h[i] = h[at[i]]
      /\ \A i, j \in DOMAIN h : i < j => at[i] < at[j]
  OBVIOUS
<1> HIDE DEF at
<1> QED BY <1>1 DEF Thinned

(* The frame under way is stored, and its handler returns.                 *)
LEMMA OrderStored ==
  ASSUME MicInv, MicInv', OrderInv, NEW t \in Rx, Store(producer[t].frame), Returns(t),
         UNCHANGED <<buf, played, fed, frames>>
  PROVE  OrderInv'
<1> DEFINE frame == producer[t].frame
           d == Done[t]
<1>1. frame \in Seq(Byte) /\ Heard \in Seq(Byte)
  BY HeardFacts DEF MicInv, TypeOK
<1>2. Heard' = Heard \o frame
  <2> HIDE DEF frame
  <2> QED BY <1>1, HeardStored DEF frame
<1>3. /\ d \in Nat /\ Len(frame) \in Nat /\ d + Len(frame) = fed[t] /\ fed[t] \in Nat
  BY <1>1, DoneFacts
<1>4. \A i \in 1 .. Len(frame) : frame[i] = <<t, d + i>>
  <2> DEFINE len == Len(frame)
  <2>1. \A i \in 1 .. len : frame[i] = <<t, fed[t] - len + i>>
    BY DEF MicInv, FramesUnderWay, LastBytes
  <2>2. \A i \in 1 .. len : fed[t] - len + i = d + i
    <3>1. len \in Nat /\ d + len = fed[t] /\ d \in Nat /\ fed[t] \in Nat
      BY <1>3
    <3> HIDE DEF len, d
    <3> QED BY <3>1
  <2> HIDE DEF d, frame
  <2> QED BY <2>1, <2>2
<1>5. /\ \A u \in Rx \ {t} : producer'[u] = producer[u]
      /\ producer'[t].frame = <<>>
  BY Returned DEF MicInv
<1>6. \A u \in Rx \ {t} : Done'[u] = Done[u]
  BY <1>5 DEF Done
<1>7. Done'[t] = fed[t]
  <2>1. Done'[t] = fed[t] - 0
    BY <1>5 DEF Done
  <2> QED BY <1>3, <2>1
<1>8. \A i \in 1 .. Len(Heard) :
        /\ Source(Heard[i]) \in Rx /\ Number(Heard[i]) \in Nat
        /\ Number(Heard[i]) <= Done[Source(Heard[i])]
  BY <1>1 DEF OrderInv, Byte, Source, Number
<1>9. \A f \in frames :
        /\ f[1] \in Rx /\ f[2] \in Nat /\ f[3] \in Nat
        /\ f[2] <= f[3] /\ f[3] <= fed[f[1]]
        /\ f[3] <= Done[f[1]] \/ f[2] > Done[f[1]]
  BY FrameFacts DEF OrderInv
<1>10. InOrder(Heard') /\ Unbroken(Heard', frames)
  <2>1. \A i \in 1 .. Len(Heard) : Source(Heard[i]) = t => Number(Heard[i]) <= d
    BY <1>8
  <2>2. \A f \in frames : f[1] = t => f[3] <= d \/ f[2] > d
    BY <1>9
  <2>3. frames \in SUBSET Frames
    BY DEF MicInv, TypeOK, Frames
  <2> HIDE DEF frame, d
  <2> QED BY <1>1, <1>2, <1>3, <1>4, <2>1, <2>2, <2>3, GrowsByFrame DEF OrderInv
<1>11. \A i \in DOMAIN Heard' : Number(Heard'[i]) <= Done'[Source(Heard'[i])]
  <2> DEFINE m == Len(Heard)
             n == Len(frame)
  <2>1. /\ m \in Nat /\ n \in Nat /\ DOMAIN Heard' = 1 .. m + n
        /\ \A i \in 1 .. m : Heard'[i] = Heard[i]
        /\ \A i \in 1 .. n : Heard'[m + i] = frame[i]
    <3> HIDE DEF frame
    <3> QED BY <1>1, <1>2, Joined
  <2>2. ASSUME NEW i \in 1 .. m
        PROVE  Number(Heard[i]) <= Done'[Source(Heard[i])]
    <3>1. CASE Source(Heard[i]) = t
      <4>1. Number(Heard[i]) \in Nat /\ Number(Heard[i]) <= d
        BY <1>8, <3>1
      <4> HIDE DEF d, frame
      <4>2. Number(Heard[i]) <= fed[t]
        BY <1>3, <4>1
      <4> QED BY <1>7, <3>1, <4>2
    <3>2. CASE Source(Heard[i]) # t
      BY <1>6, <1>8, <3>2
    <3> QED BY <3>1, <3>2
  <2>3. ASSUME NEW k \in 1 .. n
        PROVE  Number(frame[k]) <= Done'[Source(frame[k])]
    <3>1. Source(frame[k]) = t /\ Number(frame[k]) = d + k
      BY <1>4 DEF Source, Number
    <3>2. d + k <= fed[t]
      <4>1. n \in Nat /\ d + n = fed[t]
        BY <1>3
      <4> HIDE DEF n, d
      <4> QED BY <1>3, <4>1
    <3> QED BY <1>7, <3>1, <3>2
  <2>4. ASSUME NEW i \in 1 .. m + n, i \notin 1 .. m
        PROVE  \E k \in 1 .. n : i = m + k
    <3>1. i - m \in 1 .. n /\ i = m + (i - m)
      <4> HIDE DEF m, n
      <4> QED BY <2>1, <2>4
    <3> QED BY <3>1
  <2> HIDE DEF m, n, frame
  <2> QED BY SMTT(30), <2>1, <2>2, <2>3, <2>4
<1>12. ASSUME NEW f \in frames
       PROVE  f[3] <= Done'[f[1]] \/ f[2] > Done'[f[1]]
  BY <1>6, <1>7, <1>9
<1> QED BY <1>9, <1>10, <1>11, <1>12 DEF OrderInv

(* A new frame begins after all that is heard of its source.               *)
LEMMA OrderHandle ==
  ASSUME MicInv, MicInv', OrderInv, NEW t \in Rx, NEW samples \in FrameSamples,
         HandleFrame(t, samples)
  PROVE  OrderInv'
<1> DEFINE old == fed[t]
           len == 2 * samples
           new == <<t, old + 1, old + len>>
<1>1. /\ UNCHANGED <<ring, held, buf, played>>
      /\ producer[t].at = "idle"
      /\ frames' = frames \union {new}
      /\ Len(producer'[t].frame) = len
      /\ \A u \in Rx \ {t} : producer'[u] = producer[u]
      /\ fed' = [fed EXCEPT ![t] = old + len]
  BY HandleKeeps DEF HandleFrame, ringVars
<1>2. Heard' = Heard /\ Heard \in Seq(Byte)
  BY <1>1, HeardSame, HeardFacts DEF MicInv
<1>3. old \in Nat /\ len \in Nat /\ len > 0
  BY SizeAssumption DEF MicInv, TypeOK
<1>4. /\ fed'[t] = old + len
      /\ \A u \in Rx \ {t} : fed'[u] = fed[u]
  BY <1>1 DEF MicInv, TypeOK
<1>5. Done[t] = old
  BY <1>1, DoneFacts
<1>6. Done' = Done
  <2>1. Done' = [u \in Rx |-> fed'[u] - Len(producer'[u].frame)]
    BY DEF Done
  <2>2. \A u \in Rx \ {t} : fed'[u] - Len(producer'[u].frame) = Done[u]
    BY <1>1, <1>4 DEF Done
  <2>3. fed'[t] - Len(producer'[t].frame) = Done[t]
    <3> DEFINE sum == old + len
               now == fed'[t]
               long == Len(producer'[t].frame)
    <3>1. now = sum /\ long = len
      BY <1>1, <1>4
    <3>2. sum - len = old
      <4> HIDE DEF old, len
      <4> QED BY <1>3
    <3> HIDE DEF old, len, sum, now, long
    <3>3. now - long = Done[t]
      BY <1>5, <3>1, <3>2
    <3> QED BY <3>3 DEF now, long
  <2>4. Done = [u \in Rx |-> Done[u]]
    BY DEF Done
  <2> HIDE DEF Done
  <2> QED BY <2>1, <2>2, <2>3, <2>4
<1>7. \A i \in DOMAIN Heard : ~Within(Heard[i], new)
  <2> SUFFICES ASSUME NEW i \in DOMAIN Heard, Within(Heard[i], new) PROVE FALSE
    OBVIOUS
  <2>1. Source(Heard[i]) = t /\ Number(Heard[i]) >= old + 1
    BY DEF Within
  <2>2. Number(Heard[i]) \in Nat /\ Number(Heard[i]) <= old
    BY <1>2, <1>5, <2>1 DEF OrderInv, Byte, Number
  <2> HIDE DEF old
  <2> QED BY <1>3, <2>1, <2>2
<1>8. Unbroken(Heard, frames')
  <2> HIDE DEF new
  <2> QED BY <1>1, <1>7 DEF OrderInv, Unbroken
<1>9. /\ new[1] = t /\ new[2] <= new[3] /\ new[3] <= fed'[t] /\ new[2] > Done[t]
  <2>1. old + 1 <= old + len /\ old + 1 > old
    <3> HIDE DEF old, len
    <3> QED BY <1>3
  <2> HIDE DEF old, len
  <2> QED BY <1>3, <1>4, <1>5, <2>1
<1>10. ASSUME NEW f \in frames'
       PROVE  /\ f[2] <= f[3] /\ f[3] <= fed'[f[1]]
              /\ f[3] <= Done[f[1]] \/ f[2] > Done[f[1]]
  <2>1. CASE f = new
    <3> HIDE DEF new
    <3> QED BY <1>9, <2>1
  <2>2. CASE f \in frames
    <3>1. f[1] \in Rx /\ f[2] \in Nat /\ f[3] \in Nat /\ fed[f[1]] \in Nat
      BY <2>2, FrameFacts, DoneFacts
    <3>2. /\ f[2] <= f[3] /\ f[3] <= fed[f[1]]
          /\ f[3] <= Done[f[1]] \/ f[2] > Done[f[1]]
      BY <2>2 DEF OrderInv
    <3>3. fed[f[1]] <= fed'[f[1]] /\ fed'[f[1]] \in Nat
      <4>1. old <= old + len /\ old + len \in Nat
        <5> HIDE DEF old, len
        <5> QED BY <1>3
      <4> HIDE DEF len
      <4> QED BY <1>3, <1>4, <3>1, <4>1
    <3> QED BY <3>1, <3>2, <3>3
  <2> QED BY <1>1, <2>1, <2>2
<1> HIDE DEF Done, Heard
<1> QED BY <1>2, <1>6, <1>8, <1>10 DEF OrderInv

LEMMA OrderProduce ==
  ASSUME MicInv, MicInv', OrderInv, NEW t \in Rx, Produce(t)
  PROVE  OrderInv'
<1>0. UNCHANGED <<buf, played, fed, frames>>
  BY DEF Produce, Send, Drop, DropReturn, Resend
<1>1. Heard \in Seq(Byte) /\ Thinned(Heard, Heard)
  BY HeardFacts, ThinnedSame DEF MicInv
<1>2. ASSUME \/ Returns(t)
             \/ \E to \in {"drop", "return", "resend"} : Goes(t, to)
      PROVE  \A u \in Rx : \/ producer'[u].frame = producer[u].frame
                           \/ producer'[u].frame = <<>>
  <2>1. CASE Returns(t)
    BY <2>1, Returned DEF MicInv
  <2>2. CASE \E to \in {"drop", "return", "resend"} : Goes(t, to)
    BY <2>2, Moved DEF MicInv
  <2> QED BY <1>2, <2>1, <2>2
<1>3. ASSUME UNCHANGED ringVars, Returns(t) \/ Goes(t, "drop")
      PROVE  OrderInv'
  <2>1. Heard' = Heard
    BY <1>0, <1>3, HeardSame DEF ringVars
  <2> QED BY <1>0, <1>1, <1>2, <1>3, <2>1, OrderCarried
<1>4. ASSUME Receive(t, Len(producer[t].frame)), Goes(t, "return")
      PROVE  OrderInv'
  <2>1. Len(producer[t].frame) \in Nat
    BY ProducerSized
  <2>2. PICK n \in 0 .. Len(ring) : Heard' = Taken \o SubSeq(ring, n + 1, Len(ring))
    BY <1>0, <1>4, <2>1, HeardDropped
  <2>3. Heard = Taken \o ring /\ Taken \in Seq(Byte) /\ ring \in Seq(Byte)
    BY HeardFacts DEF MicInv
  <2>4. Thinned(Heard', Heard)
    BY <2>2, <2>3, PieceLost
  <2> QED BY <1>0, <1>2, <1>4, <2>4, OrderCarried
<1>5. ASSUME DropReturn(t)
      PROVE  OrderInv'
  <2>1. Heard' = Heard
    BY <1>5, HeardSame
  <2>2. Goes(t, "resend")
    BY <1>5 DEF DropReturn
  <2> QED BY <1>0, <1>1, <1>2, <2>1, <2>2, OrderCarried
<1>6. CASE Send(t)
  BY <1>0, <1>3, <1>6, OrderStored DEF Send
<1>7. CASE Drop(t)
  BY <1>3, <1>4, <1>7 DEF Drop
<1>8. CASE Resend(t)
  BY <1>0, <1>3, <1>8, OrderStored DEF Resend
<1> QED BY <1>5, <1>6, <1>7, <1>8 DEF Produce

LEMMA OrderNext == MicInv /\ OrderInv /\ [Next]_vars => OrderInv'
<1> SUFFICES ASSUME MicInv, OrderInv, [Next]_vars PROVE OrderInv'
  OBVIOUS
<1>0. MicInv'
  BY MicNext
<1>1. ASSUME Consume \/ UNCHANGED vars
      PROVE  OrderInv'
  <2>1. Heard' = Heard
    BY <1>1, HeardSame DEF vars, ringVars, history
  <2>2. UNCHANGED <<producer, fed, frames>>
    BY <1>1 DEF vars, history, Consume, Callback, Fetch, CopyReturn, Finish
  <2>3. Thinned(Heard', Heard)
    BY <2>1, HeardFacts, ThinnedSame DEF MicInv
  <2> QED BY <1>0, <2>2, <2>3, OrderCarried
<1> QED BY <1>0, <1>1, OrderHandle, OrderProduce DEF Next

LEMMA OrderInit == Init => OrderInv
<1> SUFFICES ASSUME Init PROVE OrderInv
  OBVIOUS
<1>1. Heard = <<>> /\ frames = {}
  BY DEF Init, Heard, NoPiece
<1> QED BY <1>1 DEF OrderInv, InOrder, Unbroken

(* Each source is heard in its order and nothing of it twice, although the *)
(* receive tasks take bytes out of the ring themselves.                    *)
THEOREM SourcesInOrder == Spec => []HeardInOrder
<1>1. OrderInv => HeardInOrder
  BY DEF OrderInv, InOrder, HeardInOrder
<1> QED BY <1>1, MicInit, MicNext, OrderInit, OrderNext, PTL DEF Spec

(* Nothing of one source is heard within a frame of another, also when     *)
(* a part of the frame was dropped.                                        *)
THEOREM FramesStayUnbroken == Spec => []FramesUnbroken
<1>1. OrderInv => FramesUnbroken
  <2> SUFFICES ASSUME OrderInv, NEW i \in DOMAIN Heard, NEW k \in DOMAIN Heard,
                      i < k, SameFrame(Heard[i], Heard[k])
               PROVE  \A j \in i .. k : Source(Heard[j]) = Source(Heard[i])
    BY DEF FramesUnbroken
  <2>1. PICK f \in frames : Within(Heard[i], f) /\ Within(Heard[k], f)
    BY DEF SameFrame, Within
  <2> HIDE DEF Heard
  <2> QED BY <2>1 DEF OrderInv, Unbroken
<1> QED BY <1>1, MicInit, MicNext, OrderInit, OrderNext, PTL DEF Spec

-----------------------------------------------------------------------------
(* Loss is bounded by the frames that found the ring too full.             *)

(* The bytes that the handler of a frame that found no room can still lose:*)
(* those it takes out of the ring, and those of the frame.                 *)
Due(t) ==
  CASE producer[t].at = "drop" -> 2 * Len(producer[t].frame)
    [] producer[t].at \in {"return", "resend"} -> Len(producer[t].frame)
    [] OTHER -> 0

(* As many tokens for each task.                                           *)
Share(t, n) == {t} \X (1 .. n)
Owed == {x \in Rx \X Nat : x[2] \in 1 .. Due(x[1])}

LossInv ==
  /\ IsFiniteSet(Owed)
  /\ settled - Len(Heard) + Cardinality(Owed) <= 2 * overflowed

LEMMA ShareCounted ==
  ASSUME NEW t, NEW n \in Nat
  PROVE  IsFiniteSet(Share(t, n)) /\ Cardinality(Share(t, n)) = n
<1> DEFINE f == [i \in 1 .. n |-> <<t, i>>]
<1>1. f \in Bijection(1 .. n, Share(t, n))
  <2>1. \A i \in 1 .. n : f[i] \in Share(t, n)
    BY DEF Share
  <2>2. \A i, j \in 1 .. n : f[i] = f[j] => i = j
    OBVIOUS
  <2>3. \A x \in Share(t, n) : \E i \in 1 .. n : f[i] = x
    BY DEF Share
  <2> QED BY <2>1, <2>2, <2>3 DEF Bijection, Injection, Surjection, IsInjective
<1>2. IsFiniteSet(1 .. n) /\ Cardinality(1 .. n) = n
  BY FS_Interval
<1> HIDE DEF f
<1> QED BY <1>1, <1>2, FS_Bijection DEF ExistsBijection

LEMMA DueFacts ==
  ASSUME TypeOK, NEW t \in Rx
  PROVE  /\ Due(t) \in Nat /\ Len(producer[t].frame) \in Nat
         /\ producer[t].at = "drop" => Due(t) = 2 * Len(producer[t].frame)
         /\ producer[t].at \in {"return", "resend"} => Due(t) = Len(producer[t].frame)
         /\ producer[t].at \in {"idle", "send"} => Due(t) = 0
<1> DEFINE len == Len(producer[t].frame)
<1>1. len \in Nat
  BY DEF TypeOK
<1>2. 2 * len \in Nat
  <2> HIDE DEF len
  <2> QED BY <1>1
<1> HIDE DEF len
<1> QED BY <1>1, <1>2 DEF Due, len

(* What one task owes changes, and nothing else.                           *)
LEMMA OwedChanges ==
  ASSUME MicInv, MicInv', IsFiniteSet(Owed), NEW t \in Rx,
         \A u \in Rx \ {t} : producer'[u] = producer[u]
  PROVE  /\ IsFiniteSet(Owed') /\ Cardinality(Owed') \in Nat /\ Cardinality(Owed) \in Nat
         /\ Due(t) \in Nat /\ Due(t)' \in Nat
         /\ Cardinality(Owed') - Due(t)' = Cardinality(Owed) - Due(t)
<1> DEFINE others == {x \in Owed : x[1] # t}
           mine == Share(t, Due(t))
           mine_ == Share(t, Due(t)')
<1>1. Due(t) \in Nat
  BY DueFacts DEF MicInv
<1>2. Due(t)' \in Nat
  <2> DEFINE len == Len(producer'[t].frame)
  <2>1. len \in Nat
    <3>1. producer' \in [Rx -> [at : {"idle", "send", "drop", "return", "resend"},
                               frame : Seq(Byte)]]
      BY DEF MicInv, TypeOK
    <3> QED BY <3>1, FrameSized
  <2>2. Due(t)' \in {2 * len, len, 0}
    BY DEF Due
  <2> HIDE DEF len
  <2> QED BY <2>1, <2>2
<1>3. \A u \in Rx \ {t} : Due(u)' = Due(u)
  BY DEF Due
<1>4. Owed = others \union mine
  BY DEF Owed, Share
<1>5. Owed' = others \union mine_
  BY <1>3 DEF Owed, Share
<1>6. others \intersect mine = {} /\ others \intersect mine_ = {}
  BY DEF Share
<1>7. /\ IsFiniteSet(mine) /\ Cardinality(mine) = Due(t)
      /\ IsFiniteSet(mine_) /\ Cardinality(mine_) = Due(t)'
  BY <1>1, <1>2, ShareCounted
<1>8. IsFiniteSet(others) /\ Cardinality(others) \in Nat
  BY FS_Subset, FS_CardinalityType
<1> HIDE DEF others, mine, mine_, Owed
<1>9. /\ IsFiniteSet(others \union mine)
      /\ Cardinality(others \union mine) = Cardinality(others) + Due(t)
      /\ IsFiniteSet(others \union mine_)
      /\ Cardinality(others \union mine_) = Cardinality(others) + Due(t)'
  <2>1. Cardinality({}) = 0
    BY FS_EmptySet
  <2> QED BY SMTT(30), <1>1, <1>2, <1>6, <1>7, <1>8, <2>1, FS_Union
<1>10. /\ Cardinality(Owed) = Cardinality(others) + Due(t)
       /\ Cardinality(Owed') = Cardinality(others) + Due(t)'
       /\ IsFiniteSet(Owed')
  BY <1>4, <1>5, <1>9
<1> QED BY <1>1, <1>2, <1>8, <1>10

LEMMA LossTypes ==
  MicInv => settled \in Nat /\ overflowed \in Nat /\ Len(Heard) \in Nat
<1> SUFFICES ASSUME MicInv PROVE settled \in Nat /\ overflowed \in Nat /\ Len(Heard) \in Nat
  OBVIOUS
<1>1. settled \in Nat /\ overflowed \in Nat
  BY DEF MicInv, TypeOK
<1>2. Heard \in Seq(Byte)
  BY HeardFacts DEF MicInv
<1> HIDE DEF Heard
<1> QED BY <1>1, <1>2

(* A step that loses no more than its task owes less or the step overflows.*)
LEMMA LossKept ==
  ASSUME MicInv, MicInv', LossInv, NEW t \in Rx,
         \A u \in Rx \ {t} : producer'[u] = producer[u],
         NEW gain \in Nat, NEW lost \in Nat, NEW over \in Nat,
         settled' = settled + gain, Len(Heard') \in Nat,
         Len(Heard') >= Len(Heard) + gain - lost,
         overflowed' = overflowed + over,
         lost + Due(t)' <= Due(t) + 2 * over
  PROVE  LossInv'
<1> DEFINE h == Len(Heard)
           h_ == Len(Heard')
           c == Cardinality(Owed)
           c_ == Cardinality(Owed')
           due == Due(t)
           due_ == Due(t)'
<1>1. /\ IsFiniteSet(Owed') /\ c_ \in Nat /\ c \in Nat
      /\ due \in Nat /\ due_ \in Nat /\ c_ - due_ = c - due
  BY OwedChanges DEF LossInv
<1>2. settled \in Nat /\ overflowed \in Nat /\ h \in Nat
  BY LossTypes
<1>3. settled - h + c <= 2 * overflowed
  BY DEF LossInv
<1>4. h_ \in Nat /\ h_ >= h + gain - lost /\ lost + due_ <= due + 2 * over
  OBVIOUS
<1>5. (settled + gain) - h_ + c_ <= 2 * (overflowed + over)
  <2> HIDE DEF h, h_, c, c_, due, due_
  <2> QED BY <1>1, <1>2, <1>3, <1>4
<1>6. settled' - h_ + c_ <= 2 * overflowed'
  BY <1>5
<1> QED BY <1>1, <1>6 DEF LossInv

LEMMA LossProduce ==
  ASSUME MicInv, MicInv', LossInv, NEW t \in Rx, Produce(t)
  PROVE  LossInv'
<1> DEFINE len == Len(producer[t].frame)
           h == Len(Heard)
<1>0. /\ len \in Nat /\ 2 * len \in Nat /\ h \in Nat /\ producer[t].frame \in Seq(Byte)
      /\ overflowed \in Nat /\ settled \in Nat /\ Heard \in Seq(Byte)
      /\ UNCHANGED <<buf, played>>
  <2>1. len \in Nat /\ producer[t].frame \in Seq(Byte)
    BY ProducerSized
  <2>2. 2 * len \in Nat
    <3> HIDE DEF len
    <3> QED BY <2>1
  <2>3. UNCHANGED <<buf, played>>
    BY DEF Produce, Send, Drop, DropReturn, Resend
  <2>4. Heard \in Seq(Byte)
    BY HeardFacts DEF MicInv
  <2> HIDE DEF h, len
  <2> QED BY <2>1, <2>2, <2>3, <2>4, LossTypes DEF h
<1>1. /\ producer[t].at = "drop" => Due(t) = 2 * len
      /\ producer[t].at \in {"return", "resend"} => Due(t) = len
      /\ producer[t].at \in {"idle", "send"} => Due(t) = 0
      /\ Due(t) \in Nat
  BY DueFacts DEF MicInv
<1>2. ASSUME Returns(t)
      PROVE  /\ \A u \in Rx \ {t} : producer'[u] = producer[u]
             /\ settled' = settled + len /\ Due(t)' = 0
  <2>1. /\ producer'[t].at = "idle" /\ settled' = settled + len
        /\ \A u \in Rx \ {t} : producer'[u] = producer[u]
    BY <1>2, Returned DEF MicInv
  <2> QED BY <2>1 DEF Due
<1>3. ASSUME NEW to \in {"drop", "return", "resend"}, Goes(t, to)
      PROVE  /\ \A u \in Rx \ {t} : producer'[u] = producer[u]
             /\ settled' = settled + 0
             /\ Due(t)' = IF to = "drop" THEN 2 * len ELSE len
  <2>1. /\ producer'[t].at = to /\ producer'[t].frame = producer[t].frame
        /\ \A u \in Rx \ {t} : producer'[u] = producer[u]
        /\ settled' = settled
    BY <1>3, Moved DEF MicInv
  <2>2. settled' = settled + 0
    BY <1>0, <2>1
  <2> QED BY <2>1, <2>2 DEF Due
<1>4. ASSUME Store(producer[t].frame), Returns(t), overflowed' = overflowed
      PROVE  LossInv'
  <2>1. Heard' = Heard \o producer[t].frame
    BY <1>0, <1>4, HeardStored
  <2>2. Len(Heard') = h + len
    <3> HIDE DEF Heard
    <3> QED BY <1>0, <2>1, Joined
  <2>3. h + len \in Nat /\ h + len >= h + len - 0 /\ overflowed = overflowed + 0
        /\ 0 + 0 <= Due(t) + 2 * 0
    <3> HIDE DEF h, len
    <3> QED BY <1>0, <1>1
  <2> HIDE DEF len, Heard
  <2> QED BY <1>0, <1>2, <1>4, <2>2, <2>3, LossKept
<1>5. ASSUME UNCHANGED ringVars, Returns(t), producer[t].at \in {"drop", "resend"},
             overflowed' = overflowed
      PROVE  LossInv'
  <2>1. Heard' = Heard
    BY <1>0, <1>5, HeardSame DEF ringVars
  <2>2. h >= h + len - len /\ overflowed = overflowed + 0 /\ len + 0 <= Due(t) + 2 * 0
    <3> HIDE DEF h, len
    <3> QED BY <1>0, <1>1, <1>5
  <2> HIDE DEF len, Heard
  <2> QED BY <1>0, <1>2, <1>5, <2>1, <2>2, LossKept
<1>6. ASSUME UNCHANGED ringVars, Goes(t, "drop"), Overflows(t), producer[t].at = "send"
      PROVE  LossInv'
  <2>1. Heard' = Heard
    BY <1>0, <1>6, HeardSame DEF ringVars
  <2>2. h >= h + 0 - 0 /\ overflowed' = overflowed + len
        /\ 0 + 2 * len <= Due(t) + 2 * len
    <3>1. overflowed' = overflowed + len
      BY <1>6 DEF Overflows
    <3> HIDE DEF h, len
    <3> QED BY <1>0, <1>1, <1>6, <3>1
  <2> HIDE DEF len, Heard
  <2> QED BY <1>0, <1>3, <1>6, <2>1, <2>2, LossKept
<1>7. ASSUME Receive(t, len), Goes(t, "return"), producer[t].at = "drop",
             overflowed' = overflowed
      PROVE  LossInv'
  <2>1. PICK n \in 0 .. Len(ring) :
          n <= len /\ Heard' = Taken \o SubSeq(ring, n + 1, Len(ring))
    BY <1>0, <1>7, HeardDropped
  <2>2. Heard = Taken \o ring /\ Taken \in Seq(Byte) /\ ring \in Seq(Byte)
    BY HeardFacts DEF MicInv
  <2> DEFINE a == Len(Taken)
             b == Len(ring)
  <2>3. /\ a \in Nat /\ b \in Nat /\ h = a + b
        /\ Len(SubSeq(ring, n + 1, b)) = b - n
        /\ SubSeq(ring, n + 1, b) \in Seq(Byte)
    <3> HIDE DEF Heard, Taken
    <3> QED BY <2>2, CutInTwo, Joined
  <2>4. Len(Heard') = a + (b - n)
    <3> HIDE DEF Heard, Taken
    <3> QED BY <2>1, <2>2, <2>3, Joined
  <2>5. /\ a + (b - n) \in Nat /\ a + (b - n) >= h + 0 - n
        /\ overflowed = overflowed + 0 /\ n + len <= Due(t) + 2 * 0 /\ n \in Nat
    <3> HIDE DEF a, h, len
    <3>1. b \in Nat /\ n \in 0 .. b
      BY <2>3
    <3> HIDE DEF b
    <3> QED BY <1>0, <1>1, <1>7, <2>1, <2>3, <3>1
  <2> HIDE DEF len, Heard, a, b
  <2> QED BY <1>0, <1>3, <1>7, <2>4, <2>5, LossKept
<1>8. ASSUME DropReturn(t)
      PROVE  LossInv'
  <2>1. Heard' = Heard
    BY <1>8, HeardSame
  <2>2. Goes(t, "resend") /\ producer[t].at = "return" /\ overflowed' = overflowed
    BY <1>8 DEF DropReturn
  <2>3. h >= h + 0 - 0 /\ overflowed = overflowed + 0 /\ 0 + len <= Due(t) + 2 * 0
    <3> HIDE DEF h, len
    <3> QED BY <1>0, <1>1, <2>2
  <2> HIDE DEF len, Heard
  <2> QED BY <1>0, <1>3, <2>1, <2>2, <2>3, LossKept
<1>9. CASE Send(t)
  BY <1>4, <1>6, <1>9 DEF Send
<1>10. CASE Drop(t)
  BY <1>5, <1>7, <1>10 DEF Drop
<1>11. CASE Resend(t)
  BY <1>4, <1>5, <1>11 DEF Resend
<1> QED BY <1>8, <1>9, <1>10, <1>11 DEF Produce

LEMMA LossNext == MicInv /\ LossInv /\ [Next]_vars => LossInv'
<1> SUFFICES ASSUME MicInv, LossInv, [Next]_vars PROVE LossInv'
  OBVIOUS
<1>1. ASSUME Consume \/ UNCHANGED vars
      PROVE  LossInv'
  <2>1. Heard' = Heard
    BY <1>1, HeardSame DEF vars, ringVars, history
  <2>2. UNCHANGED <<producer, settled, overflowed>>
    BY <1>1 DEF vars, history, Consume, Callback, Fetch, CopyReturn, Finish
  <2>3. Owed' = Owed
    BY <2>2 DEF Owed, Due
  <2> HIDE DEF Heard, Owed
  <2> QED BY <2>1, <2>2, <2>3 DEF LossInv
<1>2. ASSUME NEW t \in Rx, NEW samples \in FrameSamples, HandleFrame(t, samples)
      PROVE  LossInv'
  <2>1. /\ UNCHANGED <<ring, held, buf, played, settled, overflowed>>
        /\ producer[t].at = "idle" /\ producer'[t].at = "send"
        /\ \A u \in Rx \ {t} : producer'[u] = producer[u]
    BY <1>2, HandleKeeps DEF HandleFrame, ringVars
  <2>2. Heard' = Heard
    BY <2>1, HeardSame
  <2>3. Owed' = Owed
    <3>1. \A u \in Rx : Due(u)' = Due(u)
      BY <2>1 DEF Due
    <3> QED BY <3>1 DEF Owed
  <2> HIDE DEF Heard, Owed
  <2> QED BY <2>1, <2>2, <2>3 DEF LossInv
<1> QED BY <1>1, <1>2, MicNext, LossProduce DEF Next

(* Audio is lost only when the ring is too full, and then at most twice    *)
(* the bytes of the frame that finds it so.                                *)
THEOREM LossStaysBounded == Spec => []LossIsBounded
<1>1. Init => LossInv
  <2> SUFFICES ASSUME Init PROVE LossInv
    OBVIOUS
  <2>1. Owed = {}
    BY DEF Init, Owed, Due, IdleProducer
  <2>2. settled = 0 /\ overflowed = 0 /\ Len(Heard) = 0
    BY DEF Init, Heard, NoPiece
  <2> QED BY <2>1, <2>2, FS_EmptySet DEF LossInv
<1>2. MicInv /\ LossInv => LossIsBounded
  <2> SUFFICES ASSUME MicInv, LossInv PROVE LossIsBounded
    OBVIOUS
  <2> DEFINE h == Len(Heard)
             c == Cardinality(Owed)
  <2>1. settled \in Nat /\ overflowed \in Nat /\ h \in Nat
    BY LossTypes
  <2>2. c \in Nat /\ settled - h + c <= 2 * overflowed
    BY FS_CardinalityType DEF LossInv
  <2>3. settled - h <= 2 * overflowed
    <3> HIDE DEF h, c
    <3> QED BY <2>1, <2>2
  <2> QED BY <2>3 DEF LossIsBounded
<1> QED BY <1>1, <1>2, MicInit, MicNext, LossNext, PTL DEF Spec

=============================================================================
