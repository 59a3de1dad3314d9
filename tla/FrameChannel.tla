---------------------------- MODULE FrameChannel ----------------------------
(***************************************************************************)
(* What a controller expects of the TLV link: the frames it sends arrive   *)
(* whole, once and in order.  Nothing is said of bytes, sync marks or      *)
(* parsers.  SerialLink implements this.                                   *)
(***************************************************************************)
EXTENDS Integers, Sequences

CONSTANTS
  Frames,      \* the frames a controller may send
  MaxFrames    \* bound: frames sent

VARIABLES
  sent,        \* the frames sent so far
  got          \* the frames that have arrived

vars == <<sent, got>>

Init ==
  /\ sent = <<>>
  /\ got = <<>>

Send(f) ==
  /\ Len(sent) < MaxFrames
  /\ sent' = Append(sent, f)
  /\ UNCHANGED got

Deliver ==
  /\ Len(got) < Len(sent)
  /\ got' = Append(got, sent[Len(got) + 1])
  /\ UNCHANGED sent

Next == Deliver \/ \E f \in Frames : Send(f)

(* A frame that was sent does arrive.                                      *)
Spec == Init /\ [][Next]_vars /\ WF_vars(Deliver)
=============================================================================
