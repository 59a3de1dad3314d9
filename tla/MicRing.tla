------------------------------- MODULE MicRing -------------------------------
(***************************************************************************)
(* The microphone half of main/usb_hs_device.c.  Receive tasks put audio   *)
(* frames into a FreeRTOS byte-buffer ring and make room by taking out the *)
(* oldest bytes themselves; the USB audio task takes the bytes out in      *)
(* uac_input_cb to fill a buffer for the target PC, padded with silence.   *)
(* Each call of the ring is atomic, the tasks interleave between them.     *)
(*                                                                         *)
(* The ring, as its callers use it: a send stores all of its bytes or none *)
(* and may wrap; a receive hands out one contiguous piece in place, which  *)
(* keeps its room until it is returned, and nobody gets another meanwhile. *)
(*                                                                         *)
(* A byte is the task it came through and its number there, counted from   *)
(* 1: the bytes 2s - 1 and 2s are the two halves of sample s.  The marks   *)
(* in app_state are left out, nothing here reads them.                     *)
(***************************************************************************)
EXTENDS Integers, Sequences

CONSTANTS
  Rx,            \* the receive tasks
  RingBytes,     \* MIC_RING_BUFFER_BYTES
  FrameSamples,  \* the frame->sample_count that occur
  BufferLen,     \* len of a call of uac_input_cb
  MaxSamples     \* bound: samples per receive task

(* The other users of the ring's pieces are not receive tasks.             *)
ASSUME RxAssumption == Rx \intersect {"usb", "nobody"} = {}

(* 16-bit samples, and a frame fits the empty ring.                        *)
ASSUME SizeAssumption ==
  /\ RingBytes \in Nat \ {0} /\ RingBytes % 2 = 0
  /\ BufferLen \in Nat \ {0} /\ BufferLen % 2 = 0
  /\ FrameSamples \subseteq Nat \ {0}
  /\ \A n \in FrameSamples : 2 * n <= RingBytes
  /\ MaxSamples \in Nat

VARIABLES
  ring,        \* the bytes stored and not handed out
  front,       \* where in the buffer of the ring they begin
  held,        \* the piece that is handed out and not returned
  producer,    \* per receive task: where it is, and its frame
  consumer,    \* where uac_input_cb is
  buf,         \* the bytes it has copied in this call
  fed,         \* history, per receive task: bytes of its frames so far
  played,      \* history: the bytes of the finished calls, without silence
  frames,      \* history: the first and last byte of every frame
  overflowed,  \* history: bytes of the frames that found the ring too full
  settled      \* history: bytes of the frames whose handler has returned

ringVars == <<ring, front, held>>
history == <<fed, played, frames, overflowed, settled>>
vars == <<ringVars, producer, consumer, buf, history>>

Source(byte) == byte[1]
Number(byte) == byte[2]

NoPiece == [owner |-> "nobody", bytes |-> <<>>]
IdleProducer == [at |-> "idle", frame |-> <<>>]

Init ==
  /\ ring = <<>> /\ front = 0
  /\ held = NoPiece
  /\ producer = [t \in Rx |-> IdleProducer]
  /\ consumer = "idle"
  /\ buf = <<>>
  /\ fed = [t \in Rx |-> 0]
  /\ played = <<>>
  /\ frames = {}
  /\ overflowed = 0
  /\ settled = 0

-----------------------------------------------------------------------------
(* The ring.                                                               *)

MinOf(a, b) == IF a < b THEN a ELSE b

Fits(bytes) == Len(ring) + Len(held.bytes) + Len(bytes) <= RingBytes

(* xRingbufferSend, without a timeout, when it succeeds                    *)
Store(bytes) ==
  /\ Fits(bytes)
  /\ ring' = ring \o bytes
  /\ UNCHANGED <<front, held>>

(* xRingbufferReceiveUpTo, without a timeout, when it returns a piece      *)
CanReceive == ring # <<>> /\ held = NoPiece

Receive(owner, max) ==
  /\ CanReceive
  /\ LET n == MinOf(MinOf(max, Len(ring)), RingBytes - front) IN
     /\ held' = [owner |-> owner, bytes |-> SubSeq(ring, 1, n)]
     /\ ring' = SubSeq(ring, n + 1, Len(ring))
     /\ front' = (front + n) % RingBytes

(* vRingbufferReturnItem                                                   *)
GiveBack == held' = NoPiece

-----------------------------------------------------------------------------
(* usb_hs_handle_microphone_frame.                                         *)

Goes(t, to) ==
  /\ producer' = [producer EXCEPT ![t].at = to]
  /\ UNCHANGED settled

Returns(t) ==
  /\ producer' = [producer EXCEPT ![t] = IdleProducer]
  /\ settled' = settled + Len(producer[t].frame)

(* A frame arrives.                                                        *)
HandleFrame(t, samples) ==
  /\ producer[t].at = "idle"
  /\ fed[t] + 2 * samples <= 2 * MaxSamples
  /\ fed' = [fed EXCEPT ![t] = @ + 2 * samples]
  /\ frames' = frames \union {<<t, fed[t] + 1, fed[t] + 2 * samples>>}
  /\ producer' = [producer EXCEPT ![t] =
       [at |-> "send", frame |-> [i \in 1 .. 2 * samples |-> <<t, fed[t] + i>>]]]
  /\ UNCHANGED <<ringVars, consumer, buf, played, overflowed, settled>>

Overflows(t) == overflowed' = overflowed + Len(producer[t].frame)

(* Mutant: room is made, and the frame sent, whatever the first try says.  *)
SendTwice(t) ==
  /\ producer[t].at = "send"
  /\ IF Fits(producer[t].frame)
     THEN Store(producer[t].frame)
     ELSE UNCHANGED ringVars
  /\ Goes(t, "drop")
  /\ Overflows(t)
  /\ UNCHANGED <<consumer, buf, fed, played, frames>>

(* Mutant: what fits is sent, and the rest when there is room.             *)
SendPart(t) ==
  /\ producer[t].at = "send"
  /\ LET free == RingBytes - Len(ring) - Len(held.bytes)
         frame == producer[t].frame
         n == MinOf(Len(frame), free)
     IN /\ Store(SubSeq(frame, 1, n))
        /\ producer' = [producer EXCEPT ![t] =
             IF n = Len(frame) THEN IdleProducer
             ELSE [at |-> "drop", frame |-> SubSeq(frame, n + 1, Len(frame))]]
        /\ settled' = settled + n
  /\ UNCHANGED <<consumer, buf, fed, played, frames, overflowed>>

Send(t) ==
  /\ producer[t].at = "send"
  /\ \/ /\ Store(producer[t].frame)
        /\ Returns(t)
        /\ UNCHANGED overflowed
     \/ /\ ~Fits(producer[t].frame)
        /\ Goes(t, "drop")
        /\ Overflows(t)
        /\ UNCHANGED ringVars
  /\ UNCHANGED <<consumer, buf, fed, played, frames>>

(* Mutant: a sample count is taken for a count of bytes.                   *)
DropSamples(t) ==
  /\ producer[t].at = "drop"
  /\ \/ Receive(t, Len(producer[t].frame) \div 2) /\ Goes(t, "return")
     \/ ~CanReceive /\ Returns(t) /\ UNCHANGED ringVars
  /\ UNCHANGED <<consumer, buf, fed, played, frames, overflowed>>

(* Mutant: everything that is stored makes room for the frame.             *)
DropEverything(t) ==
  /\ producer[t].at = "drop"
  /\ \/ Receive(t, RingBytes) /\ Goes(t, "return")
     \/ ~CanReceive /\ Returns(t) /\ UNCHANGED ringVars
  /\ UNCHANGED <<consumer, buf, fed, played, frames, overflowed>>

(* The oldest bytes are taken out; without them the frame is given up.     *)
Drop(t) ==
  /\ producer[t].at = "drop"
  /\ \/ Receive(t, Len(producer[t].frame)) /\ Goes(t, "return")
     \/ ~CanReceive /\ Returns(t) /\ UNCHANGED ringVars
  /\ UNCHANGED <<consumer, buf, fed, played, frames, overflowed>>

(* Mutant: the piece is never returned.                                    *)
DropKeeps(t) ==
  /\ producer[t].at = "return"
  /\ Goes(t, "resend")
  /\ UNCHANGED <<ringVars, consumer, buf, fed, played, frames, overflowed>>

DropReturn(t) ==
  /\ producer[t].at = "return"
  /\ GiveBack
  /\ Goes(t, "resend")
  /\ UNCHANGED <<ring, front, consumer, buf, fed, played, frames, overflowed>>

(* The second try; the frame is given up if it fails.                      *)
Resend(t) ==
  /\ producer[t].at = "resend"
  /\ \/ Store(producer[t].frame)
     \/ ~Fits(producer[t].frame) /\ UNCHANGED ringVars
  /\ Returns(t)
  /\ UNCHANGED <<consumer, buf, fed, played, frames, overflowed>>

Produce(t) == Send(t) \/ Drop(t) \/ DropReturn(t) \/ Resend(t)

-----------------------------------------------------------------------------
(* uac_input_cb.                                                           *)

Callback ==
  /\ consumer = "idle"
  /\ consumer' = "fetch"
  /\ UNCHANGED <<ringVars, producer, buf, history>>

(* Mutant: the callback asks for a whole buffer every time.                *)
FetchWholeBuffer ==
  /\ consumer = "fetch"
  /\ Len(buf) < BufferLen
  /\ Receive("usb", BufferLen)
  /\ consumer' = "copy"
  /\ UNCHANGED <<producer, buf, history>>

Fetch ==
  /\ consumer = "fetch"
  /\ Len(buf) < BufferLen
  /\ Receive("usb", BufferLen - Len(buf))
  /\ consumer' = "copy"
  /\ UNCHANGED <<producer, buf, history>>

(* The piece is copied before it is returned.                              *)
CopyReturn ==
  /\ consumer = "copy"
  /\ buf' = buf \o held.bytes
  /\ GiveBack
  /\ consumer' = "fetch"
  /\ UNCHANGED <<ring, front, producer, history>>

(* The buffer is full, or nothing more can be had: the rest is silence.    *)
Finish ==
  /\ consumer = "fetch"
  /\ Len(buf) = BufferLen \/ ~CanReceive
  /\ played' = played \o buf
  /\ buf' = <<>>
  /\ consumer' = "idle"
  /\ UNCHANGED <<ringVars, producer, fed, frames, overflowed, settled>>

Consume == Callback \/ Fetch \/ CopyReturn \/ Finish

Next ==
  \/ \E t \in Rx, n \in FrameSamples : HandleFrame(t, n)
  \/ \E t \in Rx : Produce(t)
  \/ Consume

Spec == Init /\ [][Next]_vars

(* The receive tasks run, and the target PC keeps recording.               *)
FairSpec ==
  /\ Spec
  /\ \A t \in Rx : WF_vars(Produce(t))
  /\ WF_vars(Consume)

-----------------------------------------------------------------------------
(* Properties.                                                             *)

Byte == Rx \X (1 .. 2 * MaxSamples)

(* Every variable holds a value of its kind; what the ring stores and what *)
(* it has handed out never exceeds its size, and the callback never writes *)
(* beyond the buffer of the USB stack.                                     *)
TypeOK ==
  /\ ring \in Seq(Byte)
  /\ front \in 0 .. RingBytes - 1
  /\ held \in [owner : Rx \union {"usb", "nobody"}, bytes : Seq(Byte)]
  /\ Len(ring) + Len(held.bytes) <= RingBytes
  /\ producer \in [Rx -> [at : {"idle", "send", "drop", "return", "resend"},
                          frame : Seq(Byte)]]
  /\ consumer \in {"idle", "fetch", "copy"}
  /\ buf \in Seq(Byte) /\ Len(buf) <= BufferLen
  /\ fed \in [Rx -> 0 .. 2 * MaxSamples]
  /\ played \in Seq(Byte)
  /\ frames \subseteq Rx \X (1 .. 2 * MaxSamples) \X (1 .. 2 * MaxSamples)
  /\ overflowed \in Nat
  /\ settled \in Nat

(* The bytes on their way to the target PC, in the order it gets them.     *)
Heard ==
  played \o buf \o (IF held.owner = "usb" THEN held.bytes ELSE <<>>) \o ring

(* The target PC hears each source in its order and nothing of it twice,   *)
(* although the receive tasks take bytes out of the ring themselves.       *)
HeardInOrder ==
  \A i, j \in DOMAIN Heard :
    i < j /\ Source(Heard[i]) = Source(Heard[j]) =>
      Number(Heard[i]) < Number(Heard[j])

SameFrame(a, b) ==
  \E f \in frames : \A x \in {a, b} : Source(x) = f[1] /\ Number(x) \in f[2] .. f[3]

(* Two receive tasks can feed the ring at once and yet nothing of one is   *)
(* heard within a frame of the other, also when a part of it was dropped.  *)
FramesUnbroken ==
  \A i, k \in DOMAIN Heard :
    i < k /\ SameFrame(Heard[i], Heard[k]) =>
      \A j \in i .. k : Source(Heard[j]) = Source(Heard[i])

(* Every sample in the buffer of the USB stack is whole and at an even     *)
(* offset: neither the pieces of the ring, which end where its buffer      *)
(* ends, nor the drops cut one, and the silence begins between two.        *)
WholeSamples ==
  \A i \in DOMAIN buf :
    i % 2 = 1 =>
      /\ i + 1 \in DOMAIN buf
      /\ Number(buf[i]) % 2 = 1
      /\ buf[i + 1] = <<Source(buf[i]), Number(buf[i]) + 1>>

(* Audio is lost only when the ring is too full, and then at most twice    *)
(* the bytes of the frame that finds it so: as much of the oldest audio as *)
(* the frame has, and the frame - when the piece taken out was too short,  *)
(* since it ended where the buffer of the ring ends, was too short since   *)
(* the rest is handed out, or another task filled the room.                *)
LossIsBounded ==
  settled - Len(Heard) <= 2 * overflowed

(* The audio stored is eventually played or dropped, once the bounded      *)
(* stream of frames has paused: no piece of the ring is kept.              *)
RingDrains == ring # <<>> ~> ring = <<>>
=============================================================================
