------------------------------ MODULE HidReport ------------------------------
(***************************************************************************)
(* From a frame to the bytes of a HID report, and what the target PC reads *)
(* in them: the fields that protocol_tlv_receive_frame takes out of a      *)
(* payload (main/protocol_tlv.c), the reports that the send functions of   *)
(* main/usb_hs_device.c make of them, and the report descriptor.           *)
(*                                                                         *)
(* Payloads are big-endian and have the buttons in front, the structs of   *)
(* usb_hs_device.h have them behind, the reports are little-endian.  A     *)
(* frame is forwarded on its own: nothing of the last one is kept.         *)
(***************************************************************************)
EXTENDS AbsAxis, TlvFormat

CONSTANT Meanings  \* what a controller may want the target PC to see

(* The two's complement of a byte is read with the sign of its top bit.    *)
ASSUME ByteRadixAssumption == ByteRadix = 256

SignedByte == -128 .. 127

(* The fields of a payload, in their widths.                               *)
ASSUME MeaningsAssumption ==
  \A m \in Meanings :
    \/ m \in [type : {KEYBOARD}, keys : Seq(Byte)]
    \/ m \in [type : {MOUSE}, buttons : Byte, x : SignedByte, y : SignedByte,
              wheel : SignedByte, pan : SignedByte]
    \/ m \in [type : {MOUSE_ABSOLUTE}, buttons : Byte, x : UInt16, y : UInt16,
              wheel : SignedByte, pan : SignedByte]

VARIABLES
  max_x, max_y,    \* CONFIG_APP_ABS_MOUSE_MAX_X and _Y
  meant,           \* what the controller's last frame stands for
  report           \* the report made of it, without its id

reportVars == <<max_x, max_y, meant, report>>

Int8(byte) == IF byte >= ByteRadix \div 2 THEN byte - ByteRadix ELSE byte
ByteOf(n) == n % ByteRadix
Msb(n) == ByteOf(n \div ByteRadix)

-----------------------------------------------------------------------------
(* The controller.                                                         *)

PayloadOf(m) ==
  CASE m.type = KEYBOARD -> m.keys
    [] m.type = MOUSE ->
         <<m.buttons, ByteOf(m.x), ByteOf(m.y), ByteOf(m.wheel), ByteOf(m.pan)>>
    [] m.type = MOUSE_ABSOLUTE ->
         <<m.buttons, Msb(m.x), ByteOf(m.x), Msb(m.y), ByteOf(m.y),
           ByteOf(m.wheel), ByteOf(m.pan)>>

FrameOf(m) ==
  LET payload == PayloadOf(m) IN
  <<m.type, Msb(Len(payload)), ByteOf(Len(payload))>> \o payload

-----------------------------------------------------------------------------
(* protocol_tlv_receive_frame: the event's fields.                         *)

UInt16At(payload, i) == payload[i] * ByteRadix + payload[i + 1]

(* Mutant: the payload is copied into usb_mouse_report_t.                  *)
MouseEventCopied(payload) ==
  [x |-> Int8(payload[1]), y |-> Int8(payload[2]), wheel |-> Int8(payload[3]),
   pan |-> Int8(payload[4]), buttons |-> payload[5]]

MouseEvent(payload) ==
  [buttons |-> payload[1], x |-> Int8(payload[2]), y |-> Int8(payload[3]),
   wheel |-> Int8(payload[4]), pan |-> Int8(payload[5])]

MouseAbsEvent(payload) ==
  [buttons |-> payload[1], x |-> UInt16At(payload, 2), y |-> UInt16At(payload, 4),
   wheel |-> Int8(payload[6]), pan |-> Int8(payload[7])]

-----------------------------------------------------------------------------
(* send_keyboard_report_now, send_mouse_report_now and                     *)
(* send_mouse_abs_report_now: the reports.  The keyboard's is the payload. *)

Buttons(e) == e.buttons % 32

MouseReport(e) ==
  <<Buttons(e), ByteOf(e.x), ByteOf(e.y), ByteOf(e.wheel), ByteOf(e.pan)>>

MouseAbsReport(e) ==
  LET scaled_x == ScaleAbsAxis(e.x, max_x)
      scaled_y == ScaleAbsAxis(e.y, max_y)
  IN <<Buttons(e), ByteOf(scaled_x), Msb(scaled_x), ByteOf(scaled_y),
       Msb(scaled_y), ByteOf(e.wheel), ByteOf(e.pan)>>

ReportInit ==
  /\ max_x \in MaxCfgs /\ max_y \in MaxCfgs
  /\ meant = [type |-> 0]
  /\ report = <<>>

Forward(m) ==
  LET f == FrameOf(m)
      payload == SubSeq(f, 4, Len(f))
  IN
  /\ Dispatches(f)
  /\ meant' = m
  /\ report' = CASE m.type = KEYBOARD       -> payload
                 [] m.type = MOUSE          -> MouseReport(MouseEvent(payload))
                 [] m.type = MOUSE_ABSOLUTE -> MouseAbsReport(MouseAbsEvent(payload))
  /\ UNCHANGED <<max_x, max_y>>

ReportNext == \E m \in Meanings : Forward(m)
ReportSpec == ReportInit /\ [][ReportNext]_reportVars

-----------------------------------------------------------------------------
(* The target PC reads the fields in the order, with the sizes and signs   *)
(* of the report descriptor.                                               *)

SeenMouse ==
  [buttons |-> report[1], x |-> Int8(report[2]), y |-> Int8(report[3]),
   wheel |-> Int8(report[4]), pan |-> Int8(report[5])]

SeenMouseAbs ==
  [buttons |-> report[1],
   x |-> report[2] + report[3] * ByteRadix, y |-> report[4] + report[5] * ByteRadix,
   wheel |-> Int8(report[6]), pan |-> Int8(report[7])]

-----------------------------------------------------------------------------
(* Properties.                                                             *)

(* The pixel p of an axis of max pixels is seen where it lies, to within   *)
(* less than the way from one pixel to the next; what lies beyond the last *)
(* pixel is seen on it.                                                    *)
SeenAt(seen, p, max) ==
  LET off == Clamp(p, max) * LogicalMax - seen * (max - 1)
  IN 0 <= off /\ off < max - 1

(* The target PC sees what the controller meant: every byte of a payload   *)
(* reaches the field it is for, across two byte orders, three layouts and  *)
(* the signs; only buttons beyond the fifth are not forwarded.             *)
SeenAsMeant ==
  /\ meant.type = KEYBOARD => report = meant.keys
  /\ meant.type = MOUSE =>
       SeenMouse = [buttons |-> meant.buttons % 32, x |-> meant.x,
                    y |-> meant.y, wheel |-> meant.wheel, pan |-> meant.pan]
  /\ meant.type = MOUSE_ABSOLUTE =>
       /\ SeenMouseAbs.buttons = meant.buttons % 32
       /\ SeenAt(SeenMouseAbs.x, meant.x, max_x)
       /\ SeenAt(SeenMouseAbs.y, meant.y, max_y)
       /\ SeenMouseAbs.wheel = meant.wheel /\ SeenMouseAbs.pan = meant.pan

=============================================================================
