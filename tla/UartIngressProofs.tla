-------------------------- MODULE UartIngressProofs --------------------------
(* Theorems about UartIngress, for every size of the FIFO, the ring, the   *)
(* queue and the task's buffer that SizeAssumption allows.                 *)
EXTENDS UartIngress, SequenceTheorems, TLAPS

-----------------------------------------------------------------------------
(* The inductive invariant.                                                *)

(* An event that announces data announces some.                            *)
Events == {Data(n) : n \in Nat \ {0}} \union {FifoOvf, BufferFull, Noise}

Places == {"idle", "read", "look", "flush", "reset_queue", "reset_parser"}

(* Every variable holds a value of its kind, and no buffer more than fits. *)
TypeOK ==
  /\ line \in Nat
  /\ fifo \in Seq(Nat) /\ Len(fifo) <= FifoLen
  /\ ring \in Seq(Nat) /\ Len(ring) <= RingLen
  /\ stash \in Seq(Nat) /\ Len(stash) <= FifoLen
  /\ fifo_ovf \in BOOLEAN /\ missed \in BOOLEAN /\ stranded \in BOOLEAN
  /\ queue \in Seq(Events) /\ Len(queue) <= QueueLen
  /\ task \in [at : Places, remaining : Nat]
  /\ window \in 0 .. MaxInWindow
  /\ parser \in [last : Nat, spliced : BOOLEAN]

(* The task reads no nothing.                                              *)
SomeData == task.at = "read" => task.remaining > 0

(* What arrives between the flush and the reset of the queue fits the ring *)
WindowFits ==
  task.at = "reset_queue" => stash = <<>> /\ Len(ring) <= window * FifoLen

(* Bytes in the stash stay behind some in the ring, and those are attended *)
(* to: line errors alone do not fill the queue, but at the cost of         *)
(* stranded.                                                               *)
SomeoneLooks ==
  /\ stash # <<>> => ring # <<>>
  /\ ring # <<>> /\ ~stranded => Attended

DrainInv == TypeOK /\ SomeData /\ WindowFits /\ SomeoneLooks

(* Neighbours on the line, the last of them the byte number end.           *)
Neighbours(bytes, end) ==
  \A i \in 1 .. Len(bytes) : bytes[i] = end - Len(bytes) + i

(* No byte is missing in the driver, up to the last one that was sent.     *)
NoGap ==
  /\ Neighbours(fifo, line)
  /\ Neighbours(stash, line - Len(fifo))
  /\ Neighbours(ring, line - Len(fifo) - Len(stash))

(* No overflow is left to be handled, and none was lost.                   *)
Steady == ~missed /\ ~fifo_ovf /\ \A i \in DOMAIN queue : queue[i] # FifoOvf

(* A gap has an event of its own until the task throws both its sides      *)
(* away; only then the parser, freshly reset, goes on.                     *)
GapsAnnounced ==
  /\ ~fifo_ovf => Neighbours(fifo, line)
  /\ Steady /\ task.at # "flush" => NoGap
  /\ Steady /\ task.at \in {"idle", "read", "look"} =>
       /\ ~parser.spliced
       /\ parser.last # 0 =>
            parser.last = line - Len(fifo) - Len(stash) - Len(ring)

-----------------------------------------------------------------------------
(* Lemmas about the operators.                                             *)

(* A queue that gets an event is empty no more, and keeps its limit.       *)
LEMMA PostProperties ==
  ASSUME TypeOK, NEW event \in Events, Post(event)
  PROVE  /\ queue' \in Seq(Events) /\ Len(queue') <= QueueLen
         /\ queue' # <<>>
         /\ Len(queue) < QueueLen => queue' = Append(queue, event)
         /\ Len(queue) = QueueLen => queue' = queue
<1> HIDE DEF Events
<1>1. queue \in Seq(Events) /\ Len(queue) \in Nat /\ QueueLen \in Nat \ {0}
  BY SizeAssumption DEF TypeOK
<1>2. CASE Len(queue) < QueueLen
  <2>1. queue' = Append(queue, event)
    BY <1>2 DEF Post
  <2> QED BY <1>1, <1>2, <2>1, AppendProperties
<1>3. CASE Len(queue) = QueueLen
  BY <1>1, <1>3 DEF Post
<1> QED BY <1>1, <1>2, <1>3 DEF TypeOK

LEMMA EventsAreEvents ==
  /\ FifoOvf \in Events /\ BufferFull \in Events /\ Noise \in Events
  /\ \A n \in Nat \ {0} : Data(n) \in Events /\ Data(n) # Noise
  /\ FifoOvf # Noise /\ BufferFull # Noise
  BY DEF FifoOvf, BufferFull, Noise, Data, Events

(* An event that is no line error brings the task to the ring, if it finds *)
(* room; none that comes keeps the task from it.                           *)
LEMMA PostAttends ==
  ASSUME TypeOK, NEW event \in Events, Post(event), task' = task
  PROVE  /\ Attended => Attended'
         /\ event # Noise /\ Len(queue) < QueueLen => Attended'
<1> HIDE DEF Events
<1>1. queue \in Seq(Events) /\ Len(queue) \in Nat
  BY DEF TypeOK
<1>2. CASE Len(queue) < QueueLen
  <2>1. queue' = Append(queue, event)
    BY <1>2 DEF Post
  <2>2. /\ Len(queue) + 1 \in DOMAIN queue' /\ queue'[Len(queue) + 1] = event
        /\ \A i \in DOMAIN queue : i \in DOMAIN queue' /\ queue'[i] = queue[i]
    BY <1>1, <2>1
  <2> QED BY <2>2 DEF Attended
<1>3. CASE ~(Len(queue) < QueueLen)
  <2>1. queue' = queue
    BY <1>3 DEF Post
  <2> QED BY <1>3, <2>1 DEF Attended
<1> QED BY <1>2, <1>3

(* The head and the tail of a queue, and the two parts of a buffer.        *)
LEMMA TakeFront ==
  ASSUME NEW S, NEW s \in Seq(S), NEW n \in 1 .. Len(s)
  PROVE  /\ SubSeq(s, 1, n) \in Seq(S) /\ Len(SubSeq(s, 1, n)) = n
         /\ \A i \in 1 .. n : SubSeq(s, 1, n)[i] = s[i]
         /\ SubSeq(s, n + 1, Len(s)) \in Seq(S)
         /\ Len(SubSeq(s, n + 1, Len(s))) = Len(s) - n
         /\ \A i \in 1 .. Len(s) - n : SubSeq(s, n + 1, Len(s))[i] = s[n + i]
<1>1. Len(s) \in Nat /\ \A i \in 1 .. Len(s) : s[i] \in S
  BY LenProperties, ElementOfSeq
<1>2. \A i \in 1 .. n : s[i] \in S
  BY <1>1
<1>3. \A i \in n + 1 .. Len(s) : s[i] \in S
  BY <1>1
<1>4. /\ SubSeq(s, 1, n) \in Seq(S) /\ Len(SubSeq(s, 1, n)) = n
      /\ \A i \in 1 .. n : SubSeq(s, 1, n)[i] = s[i]
  BY <1>1, <1>2, SubSeqProperties
<1>5. /\ SubSeq(s, n + 1, Len(s)) \in Seq(S)
      /\ Len(SubSeq(s, n + 1, Len(s))) = Len(s) - n
      /\ \A i \in 1 .. Len(s) - n : SubSeq(s, n + 1, Len(s))[i] = s[n + i]
  BY <1>1, <1>3, SubSeqProperties
<1> QED BY <1>4, <1>5

(* What Read takes of the ring: at least a byte, and no more than is there *)
ReadLen == MinOf(MinOf(task.remaining, ChunkLen), Len(ring))

LEMMA ReadTakes ==
  ASSUME DrainInv, Read
  PROVE  ReadLen \in 1 .. Len(ring) /\ ReadLen <= task.remaining
<1>1. /\ task.remaining \in Nat \ {0} /\ ChunkLen \in Nat \ {0}
      /\ Len(ring) \in Nat \ {0}
  BY SizeAssumption, EmptySeq DEF DrainInv, TypeOK, SomeData, Read
<1> QED BY <1>1 DEF ReadLen, MinOf

(* Behind a Read the ring holds the rest of it, and the stash if that fits *)
LEMMA ReadLeaves ==
  ASSUME DrainInv, Read, NEW rest, rest = SubSeq(ring, ReadLen + 1, Len(ring))
  PROVE  /\ rest \in Seq(Nat) /\ Len(rest) = Len(ring) - ReadLen
         /\ \/ /\ ring' = rest \o stash /\ stash' = <<>>
               /\ Len(rest) + Len(stash) <= RingLen
            \/ /\ ring' = rest /\ stash' = stash
               /\ ~(Len(rest) + Len(stash) <= RingLen)
         /\ task' = [at |-> "look", remaining |-> task.remaining - ReadLen]
         /\ FeedAll(SubSeq(ring, 1, ReadLen))
<1>1. ring \in Seq(Nat) /\ stash \in Seq(Nat)
  BY DEF DrainInv, TypeOK
<1>2. rest \in Seq(Nat) /\ Len(rest) = Len(ring) - ReadLen
  BY <1>1, ReadTakes, TakeFront
<1>4. CASE Len(rest) + Len(stash) <= RingLen
  BY <1>2, <1>4 DEF Read, ReadLen
<1>5. CASE ~(Len(rest) + Len(stash) <= RingLen)
  BY <1>2, <1>5 DEF Read, ReadLen
<1> QED BY <1>4, <1>5, Zenon

(* A bound of the product: one more interrupt, one more FIFO at most.      *)
LEMMA WindowBound ==
  ASSUME NEW w \in Nat, w < MaxInWindow
  PROVE  /\ w * FifoLen \in Nat
         /\ (w + 1) * FifoLen = w * FifoLen + FifoLen
         /\ (w + 1) * FifoLen <= RingLen
<1>1. /\ FifoLen \in Nat /\ MaxInWindow \in Nat /\ RingLen \in Nat
      /\ FifoLen * (MaxInWindow + 1) <= RingLen
  BY SizeAssumption
<1> DEFINE k == MaxInWindow - w
<1>2. k \in Nat /\ MaxInWindow + 1 = w + 1 + k
  BY <1>1
<1>3. FifoLen * (MaxInWindow + 1) = (w + 1) * FifoLen + k * FifoLen
  BY <1>1, <1>2
<1>4. k * FifoLen \in Nat /\ (w + 1) * FifoLen \in Nat /\ w * FifoLen \in Nat
  BY <1>1, <1>2
<1>5. (w + 1) * FifoLen = w * FifoLen + FifoLen
  BY <1>1
<1> QED BY <1>1, <1>3, <1>4, <1>5

LEMMA FifoFitsRing == FifoLen <= RingLen
<1>1. /\ FifoLen \in Nat /\ MaxInWindow \in Nat /\ RingLen \in Nat
      /\ FifoLen * (MaxInWindow + 1) <= RingLen
  BY SizeAssumption
<1>2. FifoLen * (MaxInWindow + 1) = FifoLen * MaxInWindow + FifoLen
  BY <1>1
<1>3. FifoLen * MaxInWindow \in Nat
  BY <1>1
<1> QED BY <1>1, <1>2, <1>3

-----------------------------------------------------------------------------
(* The buffers are drained.                                                *)

LEMMA DrainInit == Init => DrainInv
<1> SUFFICES ASSUME Init PROVE DrainInv
  OBVIOUS
<1> HIDE DEF Events
<1>1. {FifoLen, RingLen, QueueLen, ChunkLen} \subseteq Nat \ {0} /\ MaxInWindow \in Nat
  BY SizeAssumption
<1>2. /\ fifo = <<>> /\ ring = <<>> /\ stash = <<>> /\ queue = <<>>
      /\ task = [at |-> "idle", remaining |-> 0]
  BY DEF Init
<1>3. TypeOK
  <2>1. <<>> \in Seq(Nat) /\ <<>> \in Seq(Events) /\ Len(<<>>) = 0
    BY EmptySeq
  <2>2. parser \in [last : Nat, spliced : BOOLEAN]
    BY DEF Init, FreshParser
  <2>3. task \in [at : Places, remaining : Nat]
    BY <1>2 DEF Places
  <2>4. Len(<<>>) <= FifoLen /\ Len(<<>>) <= RingLen /\ Len(<<>>) <= QueueLen
    BY <1>1, <2>1
  <2>5. 0 \in 0 .. MaxInWindow
    BY <1>1
  <2> QED BY <1>2, <2>1, <2>2, <2>3, <2>4, <2>5 DEF Init, TypeOK
<1> QED BY <1>2, <1>3 DEF DrainInv, SomeData, WindowFits, SomeoneLooks

LEMMA DrainNext == DrainInv /\ [Next]_vars => DrainInv'
<1> SUFFICES ASSUME DrainInv, [Next]_vars PROVE DrainInv'
  OBVIOUS
<1> HIDE DEF Events
<1>1. /\ fifo \in Seq(Nat) /\ ring \in Seq(Nat) /\ stash \in Seq(Nat)
      /\ queue \in Seq(Events)
      /\ Len(fifo) \in Nat /\ Len(ring) \in Nat /\ Len(stash) \in Nat
      /\ Len(queue) \in Nat
  BY DEF DrainInv, TypeOK
<1>2. {FifoLen, RingLen, QueueLen, ChunkLen} \subseteq Nat \ {0} /\ MaxInWindow \in Nat
  BY SizeAssumption
<1>3. CASE Arrive
  <2>1. line' \in Nat /\ fifo' \in Seq(Nat) /\ Len(fifo') <= FifoLen /\ fifo_ovf' \in BOOLEAN
    <3>1. line + 1 \in Nat
      BY DEF DrainInv, TypeOK
    <3>2. CASE Len(fifo) < FifoLen
      <4>1. fifo' = Append(fifo, line + 1) /\ fifo_ovf' = fifo_ovf
        BY <1>3, <3>2 DEF Arrive
      <4>2. fifo' \in Seq(Nat) /\ Len(fifo') = Len(fifo) + 1
        BY <1>1, <3>1, <4>1, AppendProperties
      <4> QED BY <1>1, <1>2, <1>3, <3>1, <3>2, <4>1, <4>2 DEF Arrive, DrainInv, TypeOK
    <3>3. CASE ~(Len(fifo) < FifoLen)
      BY <1>3, <3>1, <3>3 DEF Arrive, DrainInv, TypeOK
    <3> QED BY <3>2, <3>3
  <2> QED
    BY <1>3, <2>1
    DEF Arrive, DrainInv, TypeOK, SomeData, WindowFits, SomeoneLooks, Attended
<1>4. CASE IsrData
  <2>1. PICK event \in Events : Post(event) /\ event # Noise
    <3>1. Len(fifo) \in Nat \ {0}
      BY <1>1, <1>4, EmptySeq DEF IsrData
    <3>2. Post(Data(Len(fifo))) \/ Post(BufferFull)
      BY <1>4 DEF IsrData
    <3> QED BY <3>1, <3>2, EventsAreEvents
  <2>2. queue' \in Seq(Events) /\ Len(queue') <= QueueLen
    BY <2>1, PostProperties DEF DrainInv
  <2>3. stranded' \in BOOLEAN /\ (~stranded' => Attended')
    <3>1. task' = task /\ stranded' = (stranded \/ (Len(queue) = QueueLen /\ ~Attended))
      BY <1>4 DEF IsrData
    <3>2. Len(queue) = QueueLen \/ Len(queue) < QueueLen
      BY <1>1, <1>2 DEF DrainInv, TypeOK
    <3>3. (Attended => Attended') /\ (Len(queue) < QueueLen => Attended')
      BY <2>1, <3>1, PostAttends DEF DrainInv
    <3>4. stranded \in BOOLEAN
      BY DEF DrainInv, TypeOK
    <3> QED BY <3>1, <3>2, <3>3, <3>4
  <2>4. window' \in 0 .. MaxInWindow
    BY <1>2, <1>4 DEF IsrData, Interrupt, DrainInv, TypeOK
  <2>5. CASE Len(ring) + Len(fifo) <= RingLen
    <3>1. ring' = ring \o fifo /\ ring' \in Seq(Nat) /\ Len(ring') = Len(ring) + Len(fifo)
          /\ stash' = <<>> /\ stash = <<>> /\ fifo' = <<>>
      BY ZenonT(40), <1>1, <1>4, <2>5, ConcatProperties DEF IsrData
    <3>2. TypeOK'
      BY <1>2, <1>4, <2>2, <2>3, <2>4, <2>5, <3>1, EmptySeq DEF IsrData, DrainInv, TypeOK
    <3>3. WindowFits'
      <4> SUFFICES ASSUME task.at = "reset_queue"
                   PROVE  Len(ring') <= window' * FifoLen
        BY <1>4, <3>1 DEF WindowFits, IsrData
      <4>1. /\ window \in Nat /\ window < MaxInWindow /\ window' = window + 1
            /\ Len(ring) <= window * FifoLen /\ Len(fifo) <= FifoLen
        BY <1>2, <1>4
        DEF IsrData, Interrupt, InWindow, DrainInv, TypeOK, WindowFits
      <4>2. window * FifoLen \in Nat /\ window' * FifoLen = window * FifoLen + FifoLen
        BY <4>1, WindowBound
      <4> QED BY <1>1, <1>2, <3>1, <4>1, <4>2
    <3> QED
      BY <1>4, <2>3, <3>1, <3>2, <3>3
      DEF IsrData, DrainInv, SomeData, SomeoneLooks
  <2>6. CASE ~(Len(ring) + Len(fifo) <= RingLen)
    <3>1. stash' = fifo /\ fifo' = <<>> /\ ring' = ring
      BY <1>4, <2>6 DEF IsrData
    <3>2. Len(fifo) <= FifoLen /\ FifoLen <= RingLen
      BY FifoFitsRing DEF DrainInv, TypeOK
    <3>3. ring # <<>>
      <4>1. Len(ring) # 0
        BY <1>1, <1>2, <2>6, <3>2
      <4> QED BY <4>1, EmptySeq
    <3>4. TypeOK'
      BY <1>2, <1>4, <2>2, <2>3, <2>4, <3>1, EmptySeq DEF IsrData, DrainInv, TypeOK
    <3>5. task.at # "reset_queue"
      <4> SUFFICES ASSUME task.at = "reset_queue" PROVE FALSE
        OBVIOUS
      <4>1. /\ window \in Nat /\ window < MaxInWindow
            /\ Len(ring) <= window * FifoLen
        BY <1>2, <1>4
        DEF IsrData, Interrupt, InWindow, DrainInv, TypeOK, WindowFits
      <4>2. window * FifoLen \in Nat /\ window * FifoLen + FifoLen <= RingLen
        BY <4>1, WindowBound
      <4> QED BY <1>1, <1>2, <2>6, <3>2, <4>1, <4>2
    <3> QED
      BY <1>4, <2>3, <3>1, <3>3, <3>4, <3>5
      DEF IsrData, DrainInv, SomeData, WindowFits, SomeoneLooks
  <2> QED BY <2>5, <2>6
<1>5. CASE IsrOverflow
  <2>1. FifoOvf \in Events /\ Post(FifoOvf) /\ task' = task
    BY <1>5, EventsAreEvents DEF IsrOverflow
  <2>2. queue' \in Seq(Events) /\ Len(queue') <= QueueLen
    BY <2>1, PostProperties DEF DrainInv
  <2>3. Attended => Attended'
    BY <2>1, PostAttends DEF DrainInv
  <2>4. window' \in 0 .. MaxInWindow
    BY <1>2, <1>5 DEF IsrOverflow, Interrupt, DrainInv, TypeOK
  <2>5. TypeOK'
    <3>1. missed' \in BOOLEAN /\ fifo_ovf' \in BOOLEAN
      BY <1>5 DEF IsrOverflow
    <3>2. fifo' \in Seq(Nat) /\ Len(fifo') <= FifoLen
      BY <1>2, <1>5, EmptySeq DEF IsrOverflow
    <3>3. stash' = stash /\ ring' = ring
      BY <1>5 DEF IsrOverflow
    <3> QED BY <1>5, <2>2, <2>4, <3>1, <3>2, <3>3 DEF IsrOverflow, DrainInv, TypeOK
  <2>6. WindowFits'
    <3> SUFFICES ASSUME task.at = "reset_queue"
                 PROVE  stash' = <<>> /\ Len(ring') <= window' * FifoLen
      BY <1>5 DEF WindowFits, IsrOverflow
    <3>1. /\ window \in Nat /\ window < MaxInWindow /\ window' = window + 1
          /\ Len(ring) <= window * FifoLen /\ ring' = ring
          /\ stash' = <<>>
      BY <1>2, <1>5
      DEF IsrOverflow, Interrupt, InWindow, DrainInv, TypeOK, WindowFits
    <3>2. window * FifoLen \in Nat /\ window' * FifoLen = window * FifoLen + FifoLen
      BY <3>1, WindowBound
    <3> QED BY <1>1, <1>2, <3>1, <3>2
  <2> QED
    BY <1>5, <2>3, <2>5, <2>6 DEF IsrOverflow, DrainInv, SomeData, SomeoneLooks
<1>14. CASE IsrError
  <2>1. Noise \in Events /\ Post(Noise)
    BY <1>14, EventsAreEvents DEF IsrError
  <2>2. UNCHANGED <<line, fifo, fifo_ovf, ring, stash, task, window, parser, missed, stranded>>
    BY <1>14 DEF IsrError, driver
  <2>3. queue' \in Seq(Events) /\ Len(queue') <= QueueLen
    BY <2>1, PostProperties DEF DrainInv
  <2>4. Attended => Attended'
    BY <2>1, <2>2, PostAttends DEF DrainInv
  <2> QED
    BY <2>2, <2>3, <2>4 DEF DrainInv, TypeOK, SomeData, WindowFits, SomeoneLooks
<1>6. CASE TakeEvent
  <2>1. /\ Head(queue) \in Events /\ Head(queue) = queue[1] /\ queue # <<>>
        /\ queue' = Tail(queue)
        /\ Tail(queue) \in Seq(Events) /\ Len(Tail(queue)) = Len(queue) - 1
        /\ \A i \in 1 .. Len(Tail(queue)) : Tail(queue)[i] = queue[i + 1]
    BY <1>1, <1>6, HeadTailProperties DEF TakeEvent
  <2>2. /\ task' \in [at : Places, remaining : Nat]
        /\ task'.at = "read" => task'.remaining > 0
        /\ task'.at \in {"idle", "read", "flush"}
        /\ task'.at = "idle" => Head(queue) = Noise
    <3>1. CASE \E n \in Nat \ {0} : Head(queue) = Data(n)
      <4>1. PICK n \in Nat \ {0} : Head(queue) = Data(n)
        BY <3>1
      <4>2. task' = [at |-> "read", remaining |-> n]
        BY <1>6, <4>1 DEF TakeEvent, Data, FifoOvf, BufferFull, Noise
      <4> QED BY <4>2 DEF Places
    <3>2. CASE Head(queue) \in {FifoOvf, BufferFull}
      <4>1. task' = [at |-> "flush", remaining |-> 0]
        BY <1>6, <3>2 DEF TakeEvent, FifoOvf, BufferFull, Noise
      <4> QED BY <4>1 DEF Places
    <3>3. CASE Head(queue) = Noise
      <4>1. task' = task /\ task.at = "idle"
        BY <1>6, <3>3 DEF TakeEvent, FifoOvf, BufferFull, Noise
      <4> QED BY <3>3, <4>1 DEF DrainInv, TypeOK
    <3> QED BY <2>1, <3>1, <3>2, <3>3 DEF Events
  <2>3. TypeOK'
    BY <1>1, <1>2, <1>6, <2>1, <2>2 DEF TakeEvent, driver, DrainInv, TypeOK
  <2>4. Attended => Attended'
    <3> SUFFICES ASSUME Attended, task'.at = "idle" PROVE Attended'
      BY <2>2 DEF Attended
    <3>1. Head(queue) = Noise /\ task.at = "idle"
      BY <1>6, <2>2 DEF TakeEvent
    <3>2. PICK i \in 1 .. Len(queue) : queue[i] # Noise
      BY <1>1, <3>1 DEF Attended
    <3>3. i - 1 \in 1 .. Len(queue') /\ queue'[i - 1] = queue[i]
      <4>1. i # 1
        BY <2>1, <3>1, <3>2
      <4>2. i - 1 \in 1 .. Len(Tail(queue)) /\ i - 1 + 1 = i
        BY <1>1, <2>1, <3>2, <4>1
      <4> QED BY <2>1, <4>2
    <3>4. DOMAIN queue' = 1 .. Len(queue')
      BY <2>1
    <3> QED BY <3>2, <3>3, <3>4 DEF Attended
  <2> QED
    BY <1>6, <2>2, <2>3, <2>4
    DEF TakeEvent, driver, DrainInv, SomeData, WindowFits, SomeoneLooks
<1>7. CASE Read
  <2> DEFINE rest == SubSeq(ring, ReadLen + 1, Len(ring))
  <2>1. /\ rest \in Seq(Nat) /\ Len(rest) = Len(ring) - ReadLen
        /\ \/ /\ ring' = rest \o stash /\ stash' = <<>>
              /\ Len(rest) + Len(stash) <= RingLen
           \/ /\ ring' = rest /\ stash' = stash
              /\ ~(Len(rest) + Len(stash) <= RingLen)
        /\ task' = [at |-> "look", remaining |-> task.remaining - ReadLen]
        /\ FeedAll(SubSeq(ring, 1, ReadLen))
    BY <1>7, ReadLeaves
  <2>2. ReadLen \in 1 .. Len(ring) /\ ReadLen <= task.remaining
    BY <1>7, ReadTakes
  <2> HIDE DEF rest
  <2>3. ring' \in Seq(Nat) /\ Len(ring') <= RingLen /\ stash' \in Seq(Nat) /\ Len(stash') <= FifoLen
    <3>1. CASE ring' = rest \o stash /\ stash' = <<>> /\ Len(rest) + Len(stash) <= RingLen
      BY <1>1, <1>2, <2>1, <3>1, ConcatProperties, EmptySeq
    <3>2. CASE ring' = rest /\ stash' = stash
      BY <1>1, <1>2, <2>1, <2>2, <3>2 DEF DrainInv, TypeOK
    <3> QED BY <2>1, <3>1, <3>2
  <2>4. task' \in [at : Places, remaining : Nat]
    BY SMTT(30), <1>1, <2>1, <2>2 DEF DrainInv, TypeOK, Places
  <2>5. parser' \in [last : Nat, spliced : BOOLEAN]
    <3> DEFINE bytes == SubSeq(ring, 1, ReadLen)
    <3>1. bytes \in Seq(Nat) /\ Len(bytes) \in Nat \ {0} /\ Len(bytes) \in 1 .. Len(bytes)
      BY <1>1, <2>2, TakeFront
    <3> HIDE DEF bytes
    <3>2. Last(bytes) \in Nat
      BY <3>1, ElementOfSeq DEF Last
    <3>3. parser.spliced \in BOOLEAN
      BY DEF DrainInv, TypeOK
    <3> QED BY <2>1, <3>2, <3>3 DEF FeedAll, bytes
  <2>6. TypeOK'
    BY <1>7, <2>3, <2>4, <2>5 DEF Read, DrainInv, TypeOK
  <2>7. stash' # <<>> => ring' # <<>>
    <3>1. ASSUME stash' # <<>>, ring' = <<>> PROVE FALSE
      <4>1. ring' = rest /\ stash' = stash /\ ~(Len(rest) + Len(stash) <= RingLen)
        BY <2>1, <3>1
      <4>2. Len(rest) = 0
        BY <3>1, <4>1, EmptySeq
      <4>3. Len(stash) <= FifoLen /\ FifoLen <= RingLen
        BY FifoFitsRing DEF DrainInv, TypeOK
      <4> QED BY <1>1, <1>2, <4>1, <4>2, <4>3
    <3> QED BY <3>1
  <2>8. task'.at = "look" /\ UNCHANGED <<queue, stranded>>
    <3>1. UNCHANGED <<queue, stranded>>
      BY <1>7 DEF Read
    <3>2. task'.at = "look"
      BY <1>7 DEF Read
    <3> QED BY <3>1, <3>2
  <2>9. SomeData' /\ WindowFits'
    BY <2>8 DEF DrainInv, SomeData, WindowFits
  <2>10. SomeoneLooks'
    BY <2>7, <2>8 DEF SomeoneLooks, Attended
  <2> QED BY <2>6, <2>9, <2>10 DEF DrainInv
<1>8. CASE ReadNothing
  BY <1>7, <1>8, SizeAssumption
  DEF ReadNothing, driver, DrainInv, TypeOK, SomeData, WindowFits, SomeoneLooks, Places
<1>9. CASE Look
  <2>1. /\ task' = [at |-> IF task.remaining + Len(ring) = 0 THEN "idle" ELSE "read",
                    remaining |-> task.remaining + Len(ring)]
        /\ task.remaining \in Nat
    BY <1>9 DEF Look, DrainInv, TypeOK
  <2>2. task' \in [at : Places, remaining : Nat] /\ task'.at \in {"idle", "read"}
    BY <1>1, <2>1 DEF Places
  <2>3. task'.at = "read" => task'.remaining > 0
    BY <1>1, <2>1
  <2>4. task'.at = "idle" => ring = <<>>
    <3>1. task'.at = "idle" => Len(ring) = 0
      BY <1>1, <2>1
    <3> QED BY <1>1, <3>1, EmptySeq
  <2>5. stranded' \in BOOLEAN
    BY <1>9 DEF Look, DrainInv, TypeOK
  <2>6. UNCHANGED <<line, fifo, fifo_ovf, ring, stash, queue, window, parser, missed>>
    BY <1>9 DEF Look, driver
  <2>7. TypeOK'
    BY <2>2, <2>5, <2>6 DEF DrainInv, TypeOK
  <2>8. SomeData' /\ WindowFits'
    BY <2>2, <2>3, <2>6 DEF DrainInv, SomeData, WindowFits
  <2>9. SomeoneLooks'
    BY <2>2, <2>4, <2>6 DEF DrainInv, SomeoneLooks, Attended
  <2> QED BY <2>7, <2>8, <2>9 DEF DrainInv
<1>10. CASE Flush
  <2>1. task' = [at |-> "reset_queue", remaining |-> task.remaining]
    BY <1>10 DEF Flush, DrainInv, TypeOK
  <2>2. /\ fifo' = <<>> /\ ring' = <<>> /\ stash' = <<>>
        /\ <<>> \in Seq(Nat) /\ Len(<<>>) = 0
    BY <1>10, EmptySeq DEF Flush
  <2>3. window' = 0 /\ stranded' = FALSE /\ UNCHANGED <<line, fifo_ovf, queue, parser, missed>>
    BY <1>10 DEF Flush
  <2>4. task' \in [at : Places, remaining : Nat]
    BY <2>1 DEF DrainInv, TypeOK, Places
  <2>5. TypeOK'
    <3>1. Len(<<>>) <= FifoLen /\ Len(<<>>) <= RingLen
      BY <1>2, <2>2
    <3>2. 0 \in 0 .. MaxInWindow
      BY <1>2
    <3> QED BY <2>2, <2>3, <2>4, <3>1, <3>2 DEF DrainInv, TypeOK
  <2>6. SomeData' /\ WindowFits' /\ SomeoneLooks'
    BY <1>2, <2>1, <2>2, <2>3 DEF DrainInv, SomeData, WindowFits, SomeoneLooks
  <2> QED BY <2>5, <2>6 DEF DrainInv
<1>11. CASE ResetQueue
  <2>1. task' = [at |-> "reset_parser", remaining |-> task.remaining]
    BY <1>11 DEF ResetQueue, DrainInv, TypeOK
  <2>2. stash' = <<>>
    BY <1>11 DEF ResetQueue, driver, DrainInv, WindowFits
  <2>3. stranded' \in BOOLEAN /\ missed' \in BOOLEAN /\ (ring' # <<>> => stranded')
    BY <1>11 DEF ResetQueue, driver, DrainInv, TypeOK
  <2>4. /\ line' \in Nat
        /\ fifo' \in Seq(Nat) /\ Len(fifo') <= FifoLen
        /\ ring' \in Seq(Nat) /\ Len(ring') <= RingLen
        /\ stash' \in Seq(Nat) /\ Len(stash') <= FifoLen
        /\ fifo_ovf' \in BOOLEAN
        /\ parser' \in [last : Nat, spliced : BOOLEAN]
    BY <1>11 DEF ResetQueue, driver, DrainInv, TypeOK
  <2>5. /\ queue' = <<>> /\ queue' \in Seq(Events) /\ Len(queue') <= QueueLen
        /\ window' \in 0 .. MaxInWindow /\ task' \in [at : Places, remaining : Nat]
    <3>1. queue' = <<>> /\ queue' \in Seq(Events) /\ Len(queue') = 0
      BY <1>11, EmptySeq DEF ResetQueue
    <3>2. window' \in 0 .. MaxInWindow
      BY <1>2, <1>11 DEF ResetQueue
    <3>3. task.remaining \in Nat
      BY DEF DrainInv, TypeOK
    <3> QED BY <1>2, <2>1, <3>1, <3>2, <3>3 DEF Places
  <2>6. TypeOK'
    BY <2>3, <2>4, <2>5 DEF TypeOK
  <2>7. SomeData' /\ WindowFits' /\ SomeoneLooks'
    BY <2>1, <2>2, <2>3, <2>5 DEF SomeData, WindowFits, SomeoneLooks
  <2> QED BY <2>6, <2>7 DEF DrainInv
<1>12. CASE ResetParser
  <2>1. task' = [at |-> "idle", remaining |-> task.remaining] /\ task.at = "reset_parser"
    BY <1>12 DEF ResetParser, DrainInv, TypeOK
  <2>2. Attended => Attended'
    BY <1>12, <2>1 DEF ResetParser, Attended
  <2> QED
    BY <1>12, <2>1, <2>2
    DEF ResetParser, driver, FreshParser, DrainInv, TypeOK, SomeData, WindowFits,
        SomeoneLooks, Places
<1>13. CASE UNCHANGED vars
  BY <1>13 DEF vars, driver, DrainInv, TypeOK, SomeData, WindowFits, SomeoneLooks, Attended
<1> QED
  BY <1>3, <1>4, <1>5, <1>6, <1>7, <1>8, <1>9, <1>10, <1>11, <1>12, <1>13,
     <1>14
  DEF Next, TaskStep

(* Every variable of the driver and of uart_rx_task holds a value of its   *)
(* kind, and no buffer holds more than it has room for.                    *)
THEOREM IngressTypes == Spec => []TypeOK
<1>1. DrainInv => TypeOK
  BY DEF DrainInv
<1> QED BY <1>1, DrainInit, DrainNext, PTL DEF Spec

(* No byte is left behind by a task that waits, though events may be lost, *)
(* unless one was lost in a queue that held nothing but line errors, or to *)
(* the xQueueReset of an overflow: for every size of the buffers and of    *)
(* the queue, and any traffic and any errors on the line.                  *)
THEOREM LeavesNothing == Spec => []NothingLeftBehind
<1>1. DrainInv => NothingLeftBehind
  <2> SUFFICES ASSUME DrainInv, Waiting, ~stranded PROVE ring = <<>> /\ stash = <<>>
    BY DEF NothingLeftBehind
  <2>1. ~Attended
    BY DEF Waiting, Attended
  <2> QED BY <2>1 DEF DrainInv, SomeoneLooks
<1> QED BY <1>1, DrainInit, DrainNext, PTL DEF Spec

-----------------------------------------------------------------------------
(* Gaps are announced.                                                     *)

(* Runs of neighbours, joined, cut and extended.                           *)
LEMMA JoinNeighbours ==
  ASSUME NEW s \in Seq(Nat), NEW t \in Seq(Nat), NEW end \in Int,
         Neighbours(s, end - Len(t)), Neighbours(t, end)
  PROVE  Neighbours(s \o t, end) /\ Len(s \o t) = Len(s) + Len(t)
<1>1. Len(s) \in Nat /\ Len(t) \in Nat
  BY LenProperties
<1>2. /\ Len(s \o t) = Len(s) + Len(t)
      /\ \A i \in 1 .. Len(s) + Len(t) :
           (s \o t)[i] = IF i <= Len(s) THEN s[i] ELSE t[i - Len(s)]
  BY ConcatProperties
<1>3. ASSUME NEW i \in 1 .. Len(s \o t)
      PROVE  (s \o t)[i] = end - Len(s \o t) + i
  <2>1. CASE i <= Len(s)
    <3>1. s[i] = end - Len(t) - Len(s) + i
      BY <1>1, <1>2, <1>3, <2>1 DEF Neighbours
    <3> QED BY <1>1, <1>2, <1>3, <2>1, <3>1
  <2>2. CASE ~(i <= Len(s))
    <3>1. t[i - Len(s)] = end - Len(t) + (i - Len(s))
      BY <1>1, <1>2, <1>3, <2>2 DEF Neighbours
    <3> QED BY <1>1, <1>2, <1>3, <2>2, <3>1
  <2> QED BY <2>1, <2>2
<1> QED BY <1>2, <1>3 DEF Neighbours

LEMMA NoNeighbours ==
  ASSUME NEW end
  PROVE  Neighbours(<<>>, end)
  BY DEF Neighbours

(* A byte that finds room behind its neighbours is one itself; for those   *)
(* in front, the end of the line is as far away as before.                 *)
LEMMA NextNeighbour ==
  ASSUME NEW s \in Seq(Nat), NEW end \in Nat, Neighbours(s, end)
  PROVE  /\ Neighbours(Append(s, end + 1), end + 1)
         /\ Len(Append(s, end + 1)) = Len(s) + 1
<1>1. Len(s) \in Nat /\ end + 1 \in Nat
  BY LenProperties
<1>2. /\ Len(Append(s, end + 1)) = Len(s) + 1
      /\ \A i \in 1 .. Len(s) : Append(s, end + 1)[i] = s[i]
      /\ Append(s, end + 1)[Len(s) + 1] = end + 1
  BY <1>1, AppendProperties
<1>3. ASSUME NEW i \in 1 .. Len(s) + 1
      PROVE  Append(s, end + 1)[i] = end + 1 - (Len(s) + 1) + i
  <2>1. CASE i \in 1 .. Len(s)
    <3>1. s[i] = end - Len(s) + i
      BY <2>1 DEF Neighbours
    <3> QED BY <1>1, <1>2, <2>1, <3>1
  <2>2. CASE i = Len(s) + 1
    BY <1>1, <1>2, <2>2
  <2> QED BY <1>1, <1>3, <2>1, <2>2
<1> QED BY <1>2, <1>3 DEF Neighbours

(* The parser takes a run of neighbours as one, if it begins where the     *)
(* parser is; it is then where the run ends.                               *)
LEMMA FeedNeighbours ==
  ASSUME TypeOK, NEW bytes \in Seq(Nat), Len(bytes) > 0, NEW end \in Int,
         Neighbours(bytes, end), FeedAll(bytes), ~parser.spliced,
         parser.last # 0 => parser.last = end - Len(bytes)
  PROVE  ~parser'.spliced /\ parser'.last = end
<1>1. Len(bytes) \in Nat /\ bytes # <<>>
  BY LenProperties
<1>2. \A i \in 1 .. Len(bytes) : bytes[i] = end - Len(bytes) + i
  BY DEF Neighbours
<1>3. Head(bytes) = end - Len(bytes) + 1 /\ Last(bytes) = end
  <2>1. Head(bytes) = bytes[1] /\ Last(bytes) = bytes[Len(bytes)]
    BY <1>1 DEF Last
  <2> QED BY <1>1, <1>2, <2>1
<1>4. ASSUME NEW i \in 1 .. Len(bytes) - 1
      PROVE  bytes[i + 1] = bytes[i] + 1
  <2>1. i \in 1 .. Len(bytes) /\ i + 1 \in 1 .. Len(bytes)
    BY <1>1
  <2>2. bytes[i] = end - Len(bytes) + i /\ bytes[i + 1] = end - Len(bytes) + (i + 1)
    BY <1>2, <2>1
  <2> QED BY <1>1, <2>1, <2>2
<1>5. ~(parser.last # 0 /\ Head(bytes) # parser.last + 1)
  BY <1>1, <1>3
<1>6. ~\E i \in 1 .. Len(bytes) - 1 : bytes[i + 1] # bytes[i] + 1
  BY <1>4
<1>7. parser'.last = Last(bytes)
  BY DEF FeedAll
<1>8. ~parser'.spliced
  BY <1>5, <1>6 DEF FeedAll
<1> QED BY <1>3, <1>7, <1>8

(* The bytes of a run behind the first n, and those n.                     *)
LEMMA CutNeighbours ==
  ASSUME NEW s \in Seq(Nat), NEW n \in 1 .. Len(s), NEW end \in Int,
         Neighbours(s, end)
  PROVE  /\ Neighbours(SubSeq(s, n + 1, Len(s)), end)
         /\ Neighbours(SubSeq(s, 1, n), end - (Len(s) - n))
<1> DEFINE front == SubSeq(s, 1, n)
           rest  == SubSeq(s, n + 1, Len(s))
<1>1. /\ Len(s) \in Nat
      /\ Len(front) = n /\ \A i \in 1 .. n : front[i] = s[i]
      /\ Len(rest) = Len(s) - n
      /\ \A i \in 1 .. Len(s) - n : rest[i] = s[n + i]
  BY SMTT(30), TakeFront, LenProperties
<1> HIDE DEF front, rest
<1>2. \A i \in 1 .. Len(s) : s[i] = end - Len(s) + i
  BY DEF Neighbours
<1>3. ASSUME NEW i \in 1 .. Len(rest) PROVE rest[i] = end - Len(rest) + i
  <2>1. n + i \in 1 .. Len(s) /\ rest[i] = s[n + i]
    BY <1>1, <1>3
  <2>2. s[n + i] = end - Len(s) + (n + i)
    BY <1>2, <2>1
  <2> QED BY <1>1, <1>3, <2>1, <2>2
<1>4. ASSUME NEW i \in 1 .. Len(front)
      PROVE  front[i] = end - (Len(s) - n) - Len(front) + i
  BY SMTT(30), <1>1, <1>2, <1>4
<1> QED BY <1>3, <1>4 DEF Neighbours, front, rest

LEMMA GapsInit == Init => GapsAnnounced
<1> SUFFICES ASSUME Init PROVE GapsAnnounced
  OBVIOUS
<1>1. /\ fifo = <<>> /\ ring = <<>> /\ stash = <<>>
      /\ parser.last = 0 /\ ~parser.spliced
  BY DEF Init, FreshParser
<1> QED BY <1>1, NoNeighbours DEF GapsAnnounced, NoGap

(* A byte that is lost sets fifo_ovf; one that is not is a neighbour.      *)
LEMMA GapsArrive ==
  ASSUME DrainInv, GapsAnnounced, Arrive
  PROVE  GapsAnnounced'
<1>1. /\ fifo \in Seq(Nat) /\ line \in Nat
      /\ Len(fifo) \in Nat /\ Len(ring) \in Nat /\ Len(stash) \in Nat
  BY DEF DrainInv, TypeOK
<1>2. UNCHANGED <<ring, stash, queue, task, parser, missed>>
  BY DEF Arrive
<1>3. CASE fifo_ovf'
  BY <1>3 DEF GapsAnnounced, Steady
<1>4. CASE ~fifo_ovf'
  <2>1. /\ ~fifo_ovf /\ line' = line + 1
        /\ fifo' = Append(fifo, line + 1)
    BY <1>4 DEF Arrive
  <2>2. Neighbours(fifo, line)
    BY <2>1 DEF GapsAnnounced
  <2>3. Neighbours(fifo', line') /\ Len(fifo') = Len(fifo) + 1
    BY <1>1, <2>1, <2>2, NextNeighbour
  <2>4. line' - Len(fifo') = line - Len(fifo)
    BY <1>1, <2>1, <2>3
  <2>5. Steady' => Steady
    BY <1>2, <2>1 DEF Steady
  <2>6. NoGap => NoGap'
    BY <1>2, <2>3, <2>4 DEF NoGap
  <2> QED BY <1>2, <2>3, <2>4, <2>5, <2>6 DEF GapsAnnounced
<1> QED BY <1>3, <1>4

LEMMA GapsIsrData ==
  ASSUME DrainInv, GapsAnnounced, IsrData
  PROVE  GapsAnnounced'
<1>1. /\ fifo \in Seq(Nat) /\ ring \in Seq(Nat) /\ line \in Nat
      /\ Len(fifo) \in Nat /\ Len(ring) \in Nat /\ Len(stash) \in Nat
  BY DEF DrainInv, TypeOK
<1>2. /\ fifo' = <<>> /\ stash = <<>> /\ ~fifo_ovf
      /\ UNCHANGED <<line, fifo_ovf, task, parser, missed>>
  BY DEF IsrData, Interrupt
<1>3. Len(fifo') = 0 /\ Len(stash) = 0
  BY <1>2
<1>4. Steady' => Steady
  <2>1. PICK event \in Events : Post(event)
    <3>1. Len(fifo) \in Nat \ {0}
      BY <1>1, EmptySeq DEF IsrData
    <3> QED BY <3>1, EventsAreEvents DEF IsrData
  <2>2. ASSUME NEW i \in DOMAIN queue
        PROVE  i \in DOMAIN queue' /\ queue'[i] = queue[i]
    <3> HIDE DEF Events
    <3>1. queue \in Seq(Events) /\ Len(queue) \in Nat
      BY DEF DrainInv, TypeOK
    <3> QED BY <2>1, <3>1 DEF Post
  <2> QED BY <1>2, <2>2 DEF Steady
<1>5. NoGap => NoGap'
  <2> SUFFICES ASSUME NoGap PROVE NoGap'
    OBVIOUS
  <2>1. Neighbours(fifo, line) /\ Neighbours(ring, line - Len(fifo))
    <3>1. line - Len(fifo) - Len(stash) = line - Len(fifo)
      BY <1>1, <1>3
    <3> QED BY <3>1 DEF NoGap
  <2>2. CASE ring' = ring \o fifo /\ stash' = stash
    <3>1. Neighbours(ring', line) /\ line' - Len(fifo') - Len(stash') = line
      BY <1>1, <1>2, <1>3, <2>1, <2>2, JoinNeighbours
    <3> QED BY <1>2, <2>2, <3>1, NoNeighbours DEF NoGap
  <2>3. CASE ring' = ring /\ stash' = fifo
    <3>1. line' - Len(fifo') = line /\ line' - Len(fifo') - Len(stash') = line - Len(fifo)
      BY <1>1, <1>2, <1>3, <2>3
    <3> QED BY <1>2, <2>1, <2>3, <3>1, NoNeighbours DEF NoGap
  <2> QED BY <2>2, <2>3 DEF IsrData
<1>6. Len(fifo') + Len(stash') + Len(ring') = Len(fifo) + Len(stash) + Len(ring)
  <2>1. CASE ring' = ring \o fifo /\ stash' = stash
    <3>1. Len(ring') = Len(ring) + Len(fifo)
      BY <1>1, <2>1, ConcatProperties
    <3> QED BY <1>1, <1>3, <2>1, <3>1
  <2>2. CASE ring' = ring /\ stash' = fifo
    BY <1>1, <1>3, <2>2
  <2> QED BY <2>1, <2>2 DEF IsrData
<1>7. Len(fifo') \in Nat /\ Len(stash') \in Nat /\ Len(ring') \in Nat
  BY DrainNext DEF Next, DrainInv, TypeOK
<1>8. line' - Len(fifo') - Len(stash') - Len(ring') = line - Len(fifo) - Len(stash) - Len(ring)
  BY <1>1, <1>2, <1>6, <1>7
<1> QED BY <1>2, <1>4, <1>5, <1>8, NoNeighbours DEF GapsAnnounced

(* The byte that was lost has an event now, or it has cost missed.         *)
LEMMA GapsIsrOverflow ==
  ASSUME DrainInv, GapsAnnounced, IsrOverflow
  PROVE  GapsAnnounced'
<1>1. fifo' = <<>>
  BY DEF IsrOverflow
<1>2. ~Steady'
  <2>1. CASE Len(queue) = QueueLen
    BY <2>1 DEF IsrOverflow, Steady
  <2>2. CASE Len(queue) < QueueLen
    <3> HIDE DEF Events
    <3>1. queue \in Seq(Events) /\ FifoOvf \in Events /\ Len(queue) \in Nat
      BY EventsAreEvents DEF DrainInv, TypeOK
    <3>2. queue' = Append(queue, FifoOvf)
      BY <2>2 DEF IsrOverflow, Post
    <3>3. Len(queue) + 1 \in DOMAIN queue' /\ queue'[Len(queue) + 1] = FifoOvf
      BY <3>1, <3>2
    <3> QED BY <3>3 DEF Steady
  <2>3. Len(queue) \in Nat /\ Len(queue) <= QueueLen /\ QueueLen \in Nat
    BY SizeAssumption DEF DrainInv, TypeOK
  <2> QED BY <2>1, <2>2, <2>3
<1> QED BY <1>1, <1>2, NoNeighbours DEF GapsAnnounced

LEMMA GapsTakeEvent ==
  ASSUME DrainInv, GapsAnnounced, TakeEvent
  PROVE  GapsAnnounced'
<1>1. UNCHANGED <<line, fifo, fifo_ovf, ring, stash, parser, missed>>
  BY DEF TakeEvent, driver
<1>2. NoGap' = NoGap
  BY <1>1 DEF NoGap
<1>3. task.at = "idle" /\ task'.at \in {"idle", "read", "flush"}
  BY DEF TakeEvent
<1>4. task'.at # "flush" /\ Steady' => Steady
  <2> SUFFICES ASSUME task'.at # "flush", Steady' PROVE Steady
    OBVIOUS
  <2> HIDE DEF Events
  <2>1. /\ queue \in Seq(Events) /\ queue # <<>> /\ Len(queue) \in Nat
        /\ queue' = Tail(queue)
    BY DEF TakeEvent, DrainInv, TypeOK
  <2>2. /\ Len(queue') = Len(queue) - 1 /\ Head(queue) = queue[1]
        /\ \A i \in 1 .. Len(queue') : queue'[i] = queue[i + 1]
    BY <2>1, HeadTailProperties
  <2>4. queue[1] # FifoOvf
    BY <2>2 DEF TakeEvent, FifoOvf, Noise
  <2>5. ASSUME NEW i \in 1 .. Len(queue), i # 1 PROVE queue[i] # FifoOvf
    <3>1. i - 1 \in 1 .. Len(queue') /\ queue'[i - 1] = queue[i]
      BY <2>1, <2>2, <2>5
    <3>2. DOMAIN queue' = 1 .. Len(queue')
      BY <2>1
    <3> QED BY <3>1, <3>2 DEF Steady
  <2>6. DOMAIN queue = 1 .. Len(queue)
    BY <2>1
  <2> QED BY <1>1, <2>4, <2>5, <2>6 DEF Steady
<1> QED BY <1>1, <1>2, <1>3, <1>4 DEF GapsAnnounced

(* How far the parser is from the end of the line, before and behind.      *)
LEMMA Distances ==
  ASSUME NEW l \in Int, NEW f \in Int, NEW s \in Int, NEW r \in Int,
         NEW n \in Int, NEW s1 \in Int, NEW r1 \in Int, s1 + r1 = s + r - n
  PROVE  l - f - s - (r - n) = l - f - s1 - r1
  OBVIOUS

LEMMA GapsRead ==
  ASSUME DrainInv, GapsAnnounced, Read
  PROVE  GapsAnnounced'
<1> DEFINE rest  == SubSeq(ring, ReadLen + 1, Len(ring))
           front == SubSeq(ring, 1, ReadLen)
<1>1. /\ ring \in Seq(Nat) /\ stash \in Seq(Nat) /\ line \in Nat
      /\ Len(fifo) \in Nat /\ Len(ring) \in Nat /\ Len(stash) \in Nat
  BY DEF DrainInv, TypeOK
<1>2. ReadLen \in 1 .. Len(ring)
  BY ReadTakes
<1>3. /\ rest \in Seq(Nat) /\ Len(rest) = Len(ring) - ReadLen
      /\ \/ ring' = rest \o stash /\ stash' = <<>>
         \/ ring' = rest /\ stash' = stash
      /\ task'.at = "look"
      /\ FeedAll(front)
  <2>1. /\ rest \in Seq(Nat) /\ Len(rest) = Len(ring) - ReadLen
        /\ \/ ring' = rest \o stash /\ stash' = <<>>
           \/ ring' = rest /\ stash' = stash
        /\ FeedAll(front)
    BY ReadLeaves
  <2>2. task'.at = "look"
    BY DEF Read
  <2> QED BY <2>1, <2>2
<1>4. UNCHANGED <<line, fifo, fifo_ovf, queue, missed>> /\ task.at = "read"
  BY DEF Read
<1>5. Steady' = Steady
  BY <1>4 DEF Steady
<1>6. CASE ~Steady
  BY <1>4, <1>5, <1>6 DEF GapsAnnounced
<1>7. CASE Steady
  <2> DEFINE end == line - Len(fifo) - Len(stash)
  <2>1. /\ NoGap /\ ~parser.spliced
        /\ parser.last # 0 => parser.last = end - Len(ring)
    BY <1>4, <1>7 DEF GapsAnnounced
  <2>2. end \in Int /\ Neighbours(ring, end) /\ Neighbours(stash, line - Len(fifo))
    BY <1>1, <2>1 DEF NoGap
  <2> HIDE DEF end
  <2>3. Neighbours(rest, end) /\ Neighbours(front, end - (Len(ring) - ReadLen))
    BY <1>1, <1>2, <2>2, CutNeighbours
  <2>4. front \in Seq(Nat) /\ Len(front) = ReadLen
    BY <1>1, <1>2, TakeFront
  <2> HIDE DEF rest, front
  <2>5. end - (Len(ring) - ReadLen) \in Int
    BY <1>1, <1>2, <2>2
  <2>6. ~parser'.spliced /\ parser'.last = end - (Len(ring) - ReadLen)
    <3>1. Len(front) > 0 /\ end - (Len(ring) - ReadLen) - Len(front) = end - Len(ring)
      BY <1>1, <1>2, <2>2, <2>4
    <3> QED
      BY <1>3, <2>1, <2>3, <2>4, <2>5, <3>1, FeedNeighbours DEF DrainInv
  <2>7. /\ NoGap'
        /\ Len(stash') + Len(ring') = Len(stash) + Len(ring) - ReadLen
        /\ Len(stash') \in Nat /\ Len(ring') \in Nat
    <3>1. CASE ring' = rest \o stash /\ stash' = <<>>
      <4>1. Neighbours(rest, line - Len(fifo) - Len(stash)) /\ line - Len(fifo) \in Int
        BY <1>1, <2>3 DEF end
      <4>2. /\ Neighbours(ring', line - Len(fifo))
            /\ Len(ring') = Len(rest) + Len(stash) /\ Len(stash') = 0
        BY <1>1, <1>3, <2>2, <3>1, <4>1, JoinNeighbours
      <4>3. line - Len(fifo) - 0 = line - Len(fifo)
        BY <1>1
      <4>4. NoGap'
        BY <1>4, <2>1, <3>1, <4>2, <4>3, NoNeighbours DEF NoGap
      <4> QED BY <1>1, <1>2, <1>3, <4>2, <4>4
    <3>2. CASE ring' = rest /\ stash' = stash
      <4>1. NoGap'
        BY <1>4, <2>1, <2>3, <3>2 DEF NoGap, end
      <4>2. Len(ring') = Len(ring) - ReadLen /\ Len(stash') = Len(stash)
        BY <1>3, <3>2
      <4>3. Len(ring) - ReadLen \in Nat
            /\ Len(stash) + (Len(ring) - ReadLen) = Len(stash) + Len(ring) - ReadLen
        BY <1>1, <1>2
      <4> QED BY <1>1, <4>1, <4>2, <4>3
    <3> QED BY <1>3, <3>1, <3>2
  <2>8. parser'.last = line' - Len(fifo') - Len(stash') - Len(ring')
    <3>1. /\ line' = line /\ fifo' = fifo /\ ReadLen \in Nat
          /\ end = line - Len(fifo) - Len(stash)
      BY <1>1, <1>2, <1>4 DEF end
    <3>2. /\ Len(stash') + Len(ring') = Len(stash) + Len(ring) - ReadLen
          /\ Len(stash') \in Nat /\ Len(ring') \in Nat
      BY <2>7
    <3>3. line - Len(fifo) - Len(stash) - (Len(ring) - ReadLen)
            = line - Len(fifo) - Len(stash') - Len(ring')
      <4> DEFINE f == Len(fifo)  s == Len(stash)  r == Len(ring)
                 s1 == Len(stash')  r1 == Len(ring')
      <4>1. /\ line \in Int /\ f \in Int /\ s \in Int /\ r \in Int
            /\ s1 \in Int /\ r1 \in Int /\ ReadLen \in Int
            /\ s1 + r1 = s + r - ReadLen
        BY <1>1, <3>1, <3>2
      <4> HIDE DEF f, s, r, s1, r1
      <4>2. line - f - s - (r - ReadLen) = line - f - s1 - r1
        BY <4>1, Distances
      <4> QED BY <4>2 DEF f, s, r, s1, r1
    <3> QED BY <2>6, <3>1, <3>3
  <2>9. ~fifo_ovf' => Neighbours(fifo', line')
    BY <1>4 DEF GapsAnnounced
  <2> QED BY <1>3, <2>6, <2>7, <2>8, <2>9 DEF GapsAnnounced
<1> QED BY <1>6, <1>7

(* Only bytes that the reset of the queue finds in the ring can suffer     *)
(* from it: those that came later are neighbours, or fifo_ovf is set.      *)
LEMMA GapsResetQueue ==
  ASSUME DrainInv, GapsAnnounced, ResetQueue
  PROVE  GapsAnnounced'
<1>1. /\ UNCHANGED <<line, fifo, fifo_ovf, ring, stash, parser>>
      /\ stash = <<>>
      /\ task.at = "reset_queue" /\ task'.at = "reset_parser"
  BY DEF ResetQueue, driver, DrainInv, TypeOK, WindowFits
<1>2. Steady' => NoGap'
  <2> SUFFICES ASSUME Steady' PROVE NoGap'
    OBVIOUS
  <2>1. ~missed /\ ~fifo_ovf
    BY <1>1 DEF Steady, ResetQueue
  <2>2. Neighbours(fifo, line)
    BY <2>1 DEF GapsAnnounced
  <2>3. CASE ring = <<>>
    BY <1>1, <2>2, <2>3, NoNeighbours DEF NoGap
  <2>4. CASE ring # <<>>
    <3>1. ~\E i \in DOMAIN queue : queue[i] = FifoOvf
      BY <2>4 DEF Steady, ResetQueue
    <3>2. NoGap
      BY <1>1, <2>1, <3>1 DEF GapsAnnounced, Steady
    <3> QED BY <1>1, <3>2 DEF NoGap
  <2> QED BY <2>3, <2>4
<1> QED BY <1>1, <1>2 DEF GapsAnnounced

LEMMA GapsNext == DrainInv /\ GapsAnnounced /\ [Next]_vars => GapsAnnounced'
<1> SUFFICES ASSUME DrainInv, GapsAnnounced, [Next]_vars PROVE GapsAnnounced'
  OBVIOUS
<1>1. CASE ReadNothing
  <2>1. /\ UNCHANGED <<line, fifo, fifo_ovf, ring, stash, queue, parser, missed>>
        /\ task.at = "read" /\ task'.at = "idle"
    BY <1>1 DEF ReadNothing, driver
  <2> QED BY <2>1 DEF GapsAnnounced, Steady, NoGap
<1>2. CASE Look
  <2>1. /\ UNCHANGED <<line, fifo, fifo_ovf, ring, stash, queue, parser, missed>>
        /\ task.at = "look"
    BY <1>2 DEF Look, driver
  <2> QED BY <2>1 DEF GapsAnnounced, Steady, NoGap
<1>3. CASE Flush
  <2>1. /\ fifo' = <<>> /\ ring' = <<>> /\ stash' = <<>>
        /\ task'.at = "reset_queue"
    BY <1>3 DEF Flush, DrainInv, TypeOK
  <2> QED BY <2>1, NoNeighbours DEF GapsAnnounced, NoGap
<1>4. CASE ResetParser
  <2>1. /\ UNCHANGED <<line, fifo, fifo_ovf, ring, stash, queue, missed>>
        /\ task.at = "reset_parser"
        /\ parser'.last = 0 /\ ~parser'.spliced
    BY <1>4 DEF ResetParser, driver, FreshParser
  <2> QED BY <2>1 DEF GapsAnnounced, Steady, NoGap
<1>5. CASE UNCHANGED vars
  BY <1>5 DEF vars, driver, GapsAnnounced, Steady, NoGap
<1>6. CASE IsrError
  <2>1. UNCHANGED <<line, fifo, fifo_ovf, ring, stash, task, parser, missed>>
    BY <1>6 DEF IsrError, driver
  <2>2. Steady' => Steady
    <3> HIDE DEF Events
    <3>1. queue \in Seq(Events) /\ queue' = Append(queue, Noise) /\ Noise \in Events
      BY <1>6, EventsAreEvents DEF DrainInv, TypeOK, IsrError, Post
    <3>2. \A i \in DOMAIN queue : i \in DOMAIN queue' /\ queue'[i] = queue[i]
      BY <3>1
    <3> QED BY <2>1, <3>2 DEF Steady
  <2> QED BY <2>1, <2>2 DEF GapsAnnounced, NoGap
<1> QED
  BY <1>1, <1>2, <1>3, <1>4, <1>5, <1>6, GapsArrive, GapsIsrData, GapsIsrOverflow,
     GapsTakeEvent, GapsRead, GapsResetQueue
  DEF Next, TaskStep

(* Bytes of the two sides of a gap end up in one frame only until the      *)
(* overflow is handled, or if its event was lost in a full queue or        *)
(* discarded by the xQueueReset of an earlier one: for every interleaving  *)
(* of the interrupt with the calls of uart_rx_task.                        *)
THEOREM SplicesAreAnnounced == Spec => []SplicedUntilHandled
<1>1. DrainInv /\ GapsAnnounced => SplicedUntilHandled
  <2> SUFFICES ASSUME DrainInv, GapsAnnounced, parser.spliced, ~missed,
                      ~OverflowToHandle
               PROVE  FALSE
    BY DEF SplicedUntilHandled
  <2>1. task.at \in {"idle", "read", "look"}
    BY DEF DrainInv, TypeOK, Places, OverflowToHandle
  <2>2. \A i \in DOMAIN queue : queue[i] # FifoOvf
    BY DEF OverflowToHandle
  <2>3. Steady
    BY <2>2 DEF Steady, OverflowToHandle
  <2> QED BY <2>1, <2>3 DEF GapsAnnounced
<1> QED
  BY <1>1, DrainInit, DrainNext, GapsInit, GapsNext, PTL DEF Spec
=============================================================================
