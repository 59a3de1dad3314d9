------------------------------- MODULE TlvLink -------------------------------
(***************************************************************************)
(* A controller that sends TLV frames over a line to the parser of         *)
(* TlvStream: the UART, whose line has neither flow control nor parity.    *)
(* The line may lose a byte, replace one by another, or make the receive   *)
(* task reset its parser (uart_rx_task does after an overflow), at most    *)
(* MaxNoise times in all.                                                  *)
(***************************************************************************)
EXTENDS TlvStream

CONSTANTS
  Frames,      \* the frames the controller sends, without the sync pair
  MaxFrames,   \* bound: frames sent
  MaxNoise     \* bound: disturbances of the line

(* The controller sends what the firmware accepts.  SYNC0 inside a frame   *)
(* is left out: a parser that lost its place may take it for a beginning,  *)
(* again and again, and no bound on the damage would hold.                 *)
ASSUME FramesAssumption ==
  \A f \in Frames :
    /\ f \in Seq(Byte \ {SYNC0})
    /\ Dispatches(f)
    /\ Len(f) - 3 <= MaxPayload

VARIABLES
  out,         \* the bytes of the last frame that are not sent yet
  sent,        \* the frames the controller has begun to send
  noise,       \* disturbances so far
  quiet,       \* bytes fed since the last disturbance
  aligned      \* the last frame met a parser that was looking for SYNC0,
               \* and nothing has disturbed it since

linkVars == <<out, sent, noise, quiet, aligned>>
allVars == <<vars, linkVars>>

LinkInit ==
  /\ Init
  /\ out = <<>>
  /\ sent = <<>>
  /\ noise = 0
  /\ quiet = 0
  /\ aligned = FALSE

StartFrame(f) ==
  /\ out = <<>>
  /\ Len(sent) < MaxFrames
  /\ out' = <<SYNC0, SYNC1>> \o f
  /\ sent' = Append(sent, f)
  /\ aligned' = (state = "SYNC0")
  /\ UNCHANGED <<vars, noise, quiet>>

Transmit ==
  /\ out # <<>>
  /\ Feed(Head(out))
  /\ out' = Tail(out)
  /\ quiet' = quiet + 1
  /\ UNCHANGED <<sent, noise, aligned>>

Disturb ==
  /\ noise < MaxNoise
  /\ noise' = noise + 1
  /\ quiet' = 0
  /\ aligned' = FALSE
  /\ UNCHANGED sent

Lose ==
  /\ out # <<>>
  /\ Disturb
  /\ out' = Tail(out)
  /\ UNCHANGED vars

Garble(byte) ==
  /\ out # <<>> /\ byte # Head(out)
  /\ Disturb
  /\ Feed(byte)
  /\ out' = Tail(out)

LoseParserState ==
  /\ Disturb
  /\ Restart
  /\ UNCHANGED out

LinkNext ==
  \/ \E f \in Frames : StartFrame(f)
  \/ Transmit
  \/ Lose
  \/ \E byte \in Byte : Garble(byte)
  \/ LoseParserState

LinkSpec == LinkInit /\ [][LinkNext]_allVars

-----------------------------------------------------------------------------
(* Properties.                                                             *)

MaxOf(S) == CHOOSE n \in S : \A m \in S : m <= n

(* The most a parser can swallow when it has taken a wrong byte for SYNC0: *)
(* the rest of a header, and the longest payload a header can announce.    *)
LongestPayload ==
  MaxOf({n \in 0 .. MaxPayload : \E t \in ValidTypes : LengthIsSane(t, n)})
SwallowBound == 4 + LongestPayload

(* A disturbed parser finds its place again: it is looking for SYNC0 at    *)
(* the first frame boundary after that many undisturbed bytes.             *)
ResyncsInTime ==
  out = <<>> /\ quiet >= SwallowBound => state = "SYNC0"

(* A frame that meets a parser looking for SYNC0 gets through whole, and   *)
(* nothing else is delivered in its stead, whatever happened before.       *)
AlignedArrives ==
  out = <<>> /\ aligned =>
    /\ delivered # <<>>
    /\ delivered[Len(delivered)].bytes = sent[Len(sent)]
    /\ delivered[Len(delivered)].start + Len(sent[Len(sent)]) = Len(wire) + 1
=============================================================================
