------------------------------ MODULE TlvFormat ------------------------------
(***************************************************************************)
(* The TLV frame of main/protocol_tlv.h and the two sets of checks on it:  *)
(* the ones tlv_stream.c makes when it has read a header, and the ones     *)
(* protocol_tlv_receive_frame makes on a whole frame before it decodes it. *)
(***************************************************************************)
EXTENDS Integers, Sequences

CONSTANTS
  ByteRadix,       \* 256: a byte is 0 .. ByteRadix - 1
  SYNC0, SYNC1,    \* PROTOCOL_TLV_SYNC0 and PROTOCOL_TLV_SYNC1
  KeyboardLen,     \* PROTOCOL_KEYBOARD_PAYLOAD_LEN
  MouseLen,        \* PROTOCOL_MOUSE_PAYLOAD_LEN
  MouseAbsLen,     \* PROTOCOL_MOUSE_ABS_PAYLOAD_LEN
  MicMaxBytes,     \* TLV_MIC_MAX_BYTES
  MaxPayload       \* CONFIG_APP_TLV_MAX_PAYLOAD

Byte == 0 .. ByteRadix - 1

KEYBOARD == 1
MOUSE == 2
MICROPHONE == 3
MOUSE_ABSOLUTE == 4
ValidTypes == {KEYBOARD, MOUSE, MICROPHONE, MOUSE_ABSOLUTE}

ASSUME ByteAssumption ==
  /\ ByteRadix \in Nat /\ ByteRadix > MOUSE_ABSOLUTE
  /\ SYNC0 \in Byte \ ValidTypes /\ SYNC1 \in Byte \ ValidTypes
  /\ SYNC0 # SYNC1

(* The three fixed lengths are positive.  main/Kconfig.projbuild lets the  *)
(* payload limit be 64 .. 65535: it fits the 16 bits of a length.          *)
ASSUME LengthAssumption ==
  /\ {KeyboardLen, MouseLen, MouseAbsLen} \subseteq Nat \ {0}
  /\ MicMaxBytes \in Nat
  /\ MaxPayload \in Nat /\ MaxPayload < ByteRadix * ByteRadix

(* The 16-bit fields.                                                      *)
UInt16 == 0 .. ByteRadix * ByteRadix - 1

-----------------------------------------------------------------------------
(* Mutant: the limit of the buffer is not looked at.                       *)
LengthIsSaneUnlimited(t, length) ==
  CASE t = KEYBOARD       -> length = KeyboardLen
    [] t = MOUSE          -> length = MouseLen
    [] t = MOUSE_ABSOLUTE -> length = MouseAbsLen
    [] t = MICROPHONE     -> length > 0 /\ length % 2 = 0 /\ length <= MicMaxBytes
    [] OTHER              -> FALSE

(* Mutant: half a sample is let through.                                   *)
LengthIsSaneOdd(t, length) ==
  /\ length <= MaxPayload
  /\ CASE t = KEYBOARD       -> length = KeyboardLen
       [] t = MOUSE          -> length = MouseLen
       [] t = MOUSE_ABSOLUTE -> length = MouseAbsLen
       [] t = MICROPHONE     -> length > 0 /\ length <= MicMaxBytes
       [] OTHER              -> FALSE

(* tlv_length_is_sane, with audio enabled as sdkconfig has it              *)
LengthIsSane(t, length) ==
  /\ length <= MaxPayload
  /\ CASE t = KEYBOARD       -> length = KeyboardLen
       [] t = MOUSE          -> length = MouseLen
       [] t = MOUSE_ABSOLUTE -> length = MouseAbsLen
       [] t = MICROPHONE     -> length > 0 /\ length % 2 = 0 /\ length <= MicMaxBytes
       [] OTHER              -> FALSE

(* protocol_tlv_receive_frame: whether a frame, here with the first index  *)
(* 1, gets past all its checks to dispatch_event                           *)
Dispatches(f) ==
  /\ Len(f) >= 3
  /\ f[1] \in ValidTypes
  /\ LET payload_len == f[2] * ByteRadix + f[3] IN
     /\ payload_len = Len(f) - 3
     /\ f[1] = KEYBOARD       => payload_len = KeyboardLen
     /\ f[1] = MOUSE          => payload_len = MouseLen
     /\ f[1] = MOUSE_ABSOLUTE => payload_len = MouseAbsLen
     /\ f[1] = MICROPHONE     => /\ payload_len # 0 /\ payload_len % 2 = 0
                                 /\ payload_len <= MicMaxBytes
=============================================================================
