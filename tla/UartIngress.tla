----------------------------- MODULE UartIngress -----------------------------
(***************************************************************************)
(* uart_rx_task of main/uart_transport.c with the ESP-IDF UART driver it   *)
(* reads from.  The driver's interrupt moves bytes from the receiver's     *)
(* FIFO to a ring buffer and posts events to a queue; the task takes an    *)
(* event, drains the ring into the TLV parser, and throws everything away  *)
(* after an overflow.  Line errors are events too: they take a place in    *)
(* the queue, and the task does nothing for them.  The interrupt may come  *)
(* between any two calls the task makes.                                   *)
(*                                                                         *)
(* A byte is its number on the line.  Of the parser only this is kept: the *)
(* last byte it was fed since its last reset, and whether it was fed two   *)
(* bytes as neighbours that were not neighbours on the line.               *)
(***************************************************************************)
EXTENDS Integers, Sequences, SequencesExt

CONSTANTS
  FifoLen,       \* the receiver's FIFO
  RingLen,       \* UART_RX_BUF_SIZE
  QueueLen,      \* UART_EVENT_QUEUE_LEN
  ChunkLen,      \* the task's buffer
  MaxBytes,      \* bound: bytes on the line
  MaxInWindow    \* bound: interrupts between the flush and the queue's reset

(* A FIFO fits the ring, and what can arrive between two calls of the task *)
(* does: at 6 Mbit/s the 32 KiB of the ring take more than 40 ms.          *)
ASSUME SizeAssumption ==
  /\ {FifoLen, RingLen, QueueLen, ChunkLen} \subseteq Nat \ {0}
  /\ MaxBytes \in Nat /\ MaxInWindow \in Nat
  /\ FifoLen * (MaxInWindow + 1) <= RingLen

VARIABLES
  line,        \* bytes the controller has sent
  fifo,        \* the receiver's FIFO
  fifo_ovf,    \* the receiver lost a byte, the interrupt has not seen it
  ring,        \* the driver's ring buffer
  stash,       \* what did not fit the ring: receive interrupts are off
  queue,       \* s_uart_queue
  task,        \* where the task is, and its variable remaining
  window,      \* interrupts since the flush, up to the queue's reset
  parser,      \* s_stream, see above
  missed,      \* history: an overflow event was not handled for itself
  stranded     \* history: bytes wait for which no event will be taken

driver == <<line, fifo, fifo_ovf, ring, stash>>
vars == <<driver, queue, task, window, parser, missed, stranded>>

FreshParser == [last |-> 0, spliced |-> FALSE]

(* Events.                                                                 *)
Data(n) == [type |-> "UART_DATA", size |-> n]
FifoOvf == [type |-> "UART_FIFO_OVF", size |-> 0]
BufferFull == [type |-> "UART_BUFFER_FULL", size |-> 0]

(* A parity or frame error, a break, or any other event but the three.     *)
Noise == [type |-> "UART_BREAK", size |-> 0]

Init ==
  /\ line = 0
  /\ fifo = <<>> /\ fifo_ovf = FALSE
  /\ ring = <<>> /\ stash = <<>>
  /\ queue = <<>>
  /\ task = [at |-> "idle", remaining |-> 0]
  /\ window = 0
  /\ parser = FreshParser
  /\ missed = FALSE /\ stranded = FALSE

-----------------------------------------------------------------------------
(* The receiver and the driver's interrupt.                                *)

(* A byte comes over the line; a full FIFO has no room for it.             *)
Arrive ==
  /\ line < MaxBytes
  /\ line' = line + 1
  /\ IF Len(fifo) < FifoLen
     THEN fifo' = Append(fifo, line + 1) /\ UNCHANGED fifo_ovf
     ELSE fifo_ovf' = TRUE /\ UNCHANGED fifo
  /\ UNCHANGED <<ring, stash, queue, task, window, parser, missed, stranded>>

(* An event that finds the queue full is lost.                             *)
Post(event) ==
  queue' = IF Len(queue) < QueueLen THEN Append(queue, event) ELSE queue

(* Between uart_flush_input and xQueueReset.                               *)
InWindow == task.at = "reset_queue"

(* The interrupt is served.                                                *)
Interrupt ==
  /\ InWindow => window < MaxInWindow
  /\ window' = IF InWindow THEN window + 1 ELSE window

(* The task is going to look into the ring, or to empty it: it is at it,   *)
(* or an event that makes it do so is in the queue.                        *)
Attended ==
  \/ task.at \in {"read", "look", "flush", "reset_queue"}
  \/ \E i \in DOMAIN queue : queue[i] # Noise

(* The FIFO goes to the ring.  While bytes wait in the stash the interrupt *)
(* is off.                                                                 *)
IsrData ==
  /\ fifo # <<>> /\ ~fifo_ovf
  /\ stash = <<>>
  /\ Interrupt
  /\ IF Len(ring) + Len(fifo) <= RingLen
     THEN ring' = ring \o fifo /\ Post(Data(Len(fifo))) /\ UNCHANGED stash
     ELSE stash' = fifo /\ Post(BufferFull) /\ UNCHANGED ring
  /\ fifo' = <<>>
  /\ stranded' = (stranded \/ (Len(queue) = QueueLen /\ ~Attended))
  /\ UNCHANGED <<line, fifo_ovf, task, parser, missed>>

(* The interrupt finds the overflow: it resets the FIFO.                   *)
IsrOverflow ==
  /\ fifo_ovf
  /\ Interrupt
  /\ fifo' = <<>>
  /\ fifo_ovf' = FALSE
  /\ Post(FifoOvf)
  /\ missed' = (missed \/ Len(queue) = QueueLen)
  /\ UNCHANGED <<line, ring, stash, task, parser, stranded>>

(* The interrupt finds an error of the line.                               *)
IsrError ==
  /\ Len(queue) < QueueLen
  /\ Post(Noise)
  /\ UNCHANGED <<driver, task, window, parser, missed, stranded>>

-----------------------------------------------------------------------------
(* uart_rx_task.                                                           *)

(* xQueueReceive and the switch.  Nothing is done for a line error.        *)
TakeEvent ==
  /\ task.at = "idle"
  /\ queue # <<>>
  /\ queue' = Tail(queue)
  /\ \/ /\ Head(queue).type = "UART_DATA"
        /\ task' = [at |-> "read", remaining |-> Head(queue).size]
     \/ /\ Head(queue) \in {FifoOvf, BufferFull}
        /\ task' = [at |-> "flush", remaining |-> 0]
     \/ /\ Head(queue) = Noise
        /\ UNCHANGED task
  /\ UNCHANGED <<driver, window, parser, missed, stranded>>

(* tlv_stream_feed                                                         *)
FeedAll(bytes) ==
  parser' = [last    |-> Last(bytes),
             spliced |-> \/ parser.spliced
                         \/ parser.last # 0 /\ Head(bytes) # parser.last + 1
                         \/ \E i \in 1 .. Len(bytes) - 1 :
                              bytes[i + 1] # bytes[i] + 1]

MinOf(a, b) == IF a < b THEN a ELSE b

(* uart_read_bytes, without a timeout, and the parser's run over what it   *)
(* returns.  The driver refills the ring from the stash once it can.       *)
Read ==
  /\ task.at = "read"
  /\ ring # <<>>
  /\ LET len  == MinOf(MinOf(task.remaining, ChunkLen), Len(ring))
         rest == SubSeq(ring, len + 1, Len(ring))
         fits == Len(rest) + Len(stash) <= RingLen
     IN /\ FeedAll(SubSeq(ring, 1, len))
        /\ ring' = IF fits THEN rest \o stash ELSE rest
        /\ stash' = IF fits THEN <<>> ELSE stash
        /\ task' = [at |-> "look", remaining |-> task.remaining - len]
  /\ UNCHANGED <<line, fifo, fifo_ovf, queue, window, missed, stranded>>

ReadNothing ==
  /\ task.at = "read"
  /\ ring = <<>>
  /\ task' = [at |-> "idle", remaining |-> 0]
  /\ stranded' = FALSE
  /\ UNCHANGED <<driver, queue, window, parser, missed>>

(* Mutant: the ring is not looked at again, an event is good for the bytes *)
(* it announced.                                                           *)
LookAway ==
  /\ task.at = "look"
  /\ task' = IF task.remaining = 0 THEN [at |-> "idle", remaining |-> 0]
                                   ELSE [task EXCEPT !.at = "read"]
  /\ UNCHANGED <<driver, queue, window, parser, missed, stranded>>

(* uart_get_buffered_data_len and the loop condition                       *)
Look ==
  /\ task.at = "look"
  /\ LET remaining == task.remaining + Len(ring)
     IN task' = [at |-> IF remaining = 0 THEN "idle" ELSE "read",
                 remaining |-> remaining]
  /\ stranded' = (stranded /\ task'.at = "read")
  /\ UNCHANGED <<driver, queue, window, parser, missed>>

(* uart_flush_input                                                        *)
Flush ==
  /\ task.at = "flush"
  /\ fifo' = <<>> /\ ring' = <<>> /\ stash' = <<>>
  /\ task' = [task EXCEPT !.at = "reset_queue"]
  /\ window' = 0
  /\ stranded' = FALSE
  /\ UNCHANGED <<line, fifo_ovf, queue, parser, missed>>

(* xQueueReset                                                             *)
ResetQueue ==
  /\ task.at = "reset_queue"
  /\ queue' = <<>>
  /\ task' = [task EXCEPT !.at = "reset_parser"]
  /\ window' = 0
  /\ stranded' = (ring # <<>>)
  /\ missed' = (missed \/ (ring # <<>> /\ \E i \in DOMAIN queue : queue[i] = FifoOvf))
  /\ UNCHANGED <<driver, parser>>

(* Mutant: the parser goes on with the frame it was reading.               *)
KeepParser ==
  /\ task.at = "reset_parser"
  /\ task' = [task EXCEPT !.at = "idle"]
  /\ UNCHANGED <<driver, queue, window, parser, missed, stranded>>

(* tlv_stream_reset                                                        *)
ResetParser ==
  /\ task.at = "reset_parser"
  /\ parser' = FreshParser
  /\ task' = [task EXCEPT !.at = "idle"]
  /\ UNCHANGED <<driver, queue, window, missed, stranded>>

TaskStep ==
  TakeEvent \/ Read \/ ReadNothing \/ Look \/ Flush \/ ResetQueue \/ ResetParser

Next == Arrive \/ IsrData \/ IsrOverflow \/ IsrError \/ TaskStep

Spec == Init /\ [][Next]_vars

(* The task has the second highest priority of the system.  Nothing makes  *)
(* the line send.                                                          *)
FairSpec == Spec /\ WF_vars(TaskStep)

-----------------------------------------------------------------------------
(* Properties.                                                             *)

Waiting == task.at = "idle" /\ queue = <<>>

(* No byte is left behind by a task that waits, though the events of a     *)
(* burst may be lost in a full queue: the ring is empty, and so is the     *)
(* stash, hence the receive interrupts are on and the receiver is not      *)
(* deaf.  There are two exceptions: an event that finds the queue full of  *)
(* line errors, for which the task does not look into the ring, and one    *)
(* discarded by the xQueueReset of an overflow, after the flush.           *)
NothingLeftBehind ==
  Waiting => (ring = <<>> /\ stash = <<>>) \/ stranded

OverflowToHandle ==
  \/ fifo_ovf
  \/ \E i \in DOMAIN queue : queue[i] \in {FifoOvf, BufferFull}
  \/ task.at \in {"flush", "reset_queue", "reset_parser"}

(* Bytes of the two sides of a gap end up in one frame only until the      *)
(* overflow is handled (the task drains the ring ahead of the event), or   *)
(* if its event was lost in a full queue or discarded by the xQueueReset   *)
(* of an earlier overflow.                                                 *)
SplicedUntilHandled == parser.spliced /\ ~missed => OverflowToHandle

(* The parser gets every byte that reached the ring, or an overflow throws *)
(* it away, whatever else is in the queue; but for the stranded bytes,     *)
(* which wait for the next event that is no line error.                    *)
RingDrains == ring # <<>> ~> (ring = <<>> \/ stranded)
=============================================================================
