--------------------------- MODULE HidReportProofs ---------------------------
(* Theorems about AbsAxis and HidReport, for every maximum that            *)
(* main/Kconfig.projbuild allows and all that a frame can hold.            *)
EXTENDS HidReport, SequenceTheorems, TLAPS

-----------------------------------------------------------------------------
(* The scaling of a coordinate.                                            *)

(* A clamped coordinate is at most the last one of the desktop.            *)
LEMMA Clamped ==
  ASSUME NEW m \in Nat, m >= 2, NEW v \in Nat
  PROVE  /\ Clamp(v, m) \in Nat /\ Clamp(v, m) <= m - 1 /\ Clamp(v, m) <= v
         /\ v >= m - 1 => Clamp(v, m) = m - 1
         /\ v = 0 => Clamp(v, m) = 0
  BY SMT DEF Clamp

(* Clamping keeps the order of two coordinates.                            *)
LEMMA ClampMonotone ==
  ASSUME NEW m \in Nat, m >= 2, NEW v \in Nat, NEW w \in Nat, v <= w
  PROVE  Clamp(v, m) <= Clamp(w, m)
  BY SMT DEF Clamp

(* What division does to a multiple of k: for c <= d, c * k / d is between *)
(* 0, at c = 0, and k, at c = d.                                           *)
LEMMA Quotient ==
  ASSUME NEW c \in Nat, NEW d \in Nat \ {0}, NEW k \in Nat, c <= d
  PROVE  /\ (c * k) \div d \in 0 .. k
         /\ c = 0 => (c * k) \div d = 0
         /\ c = d => (c * k) \div d = k
<1>1. (c * k) \div d \in 0 .. k
  BY SMT
<1>2. (d * k) \div d = k /\ (0 * k) \div d = 0
  BY SMT
<1> QED BY <1>1, <1>2

LEMMA QuotientMonotone ==
  ASSUME NEW b \in Nat, NEW c \in Nat, NEW d \in Nat \ {0}, NEW k \in Nat,
         b <= c
  PROVE  (b * k) \div d <= (c * k) \div d
<1>1. b * k \in Nat /\ c * k \in Nat /\ b * k <= c * k
  BY SMT
<1> DEFINE x == b * k
           y == c * k
<1>2. x \in Nat /\ y \in Nat /\ x <= y
  BY <1>1
<1> HIDE DEF x, y
<1>3. x \div d <= y \div d
  BY SMT, <1>2
<1> QED BY <1>3 DEF x, y

(* If d is at most k, one more of k is at least one more of the quotient.  *)
LEMMA QuotientStep ==
  ASSUME NEW b \in Nat, NEW d \in Nat \ {0}, NEW k \in Nat, d <= k
  PROVE  (b * k) \div d < ((b + 1) * k) \div d
<1>1. b * k \in Nat /\ (b + 1) * k = b * k + k
  BY SMT
<1> DEFINE x == b * k
<1>2. x \in Nat
  BY <1>1
<1> HIDE DEF x
<1>3. (x + d) \div d = x \div d + 1
  BY SMT, <1>2
<1>4. (x + d) \div d <= (x + k) \div d
  BY SMT, <1>2
<1>5. x \div d \in Int /\ (x + k) \div d \in Int
  BY SMT, <1>2
<1>6. x \div d < (x + k) \div d
  BY SMT, <1>3, <1>4, <1>5
<1> QED BY <1>1, <1>6 DEF x

(* The greatest product a uint16_t coordinate makes fits an int32_t.       *)
LEMMA ProductFits ==
  ASSUME NEW c \in Nat, c <= UINT16_MAX
  PROVE  c * INT16_MAX <= INT32_MAX
  BY SMT DEF UINT16_MAX, INT16_MAX, INT32_MAX

LEMMA LogicalMaxIsInt16 == LogicalMax = INT16_MAX /\ INT16_MAX \in Nat
  BY SMT DEF LogicalMax, INT16_MAX

(* Neither the product nor the quotient leaves its range.                  *)
LEMMA ScaleInRange ==
  ASSUME NEW m \in Nat, m >= 2, NEW v \in Nat, v <= UINT16_MAX
  PROVE  /\ Product(v, m) <= INT32_MAX
         /\ ScaleAbsAxis(v, m) \in 0 .. LogicalMax
         /\ v = 0 => ScaleAbsAxis(v, m) = 0
         /\ v >= m - 1 => ScaleAbsAxis(v, m) = LogicalMax
<1> DEFINE c == Clamp(v, m)
           d == m - 1
<1>1. c \in Nat /\ d \in Nat \ {0} /\ c <= d
  BY SMT, Clamped
<1>2. c <= UINT16_MAX
  BY SMT, Clamped DEF UINT16_MAX
<1>3. c * INT16_MAX <= INT32_MAX
  BY <1>1, <1>2, ProductFits
<1>4. /\ (c * INT16_MAX) \div d \in 0 .. LogicalMax
      /\ c = 0 => (c * INT16_MAX) \div d = 0
      /\ c = d => (c * INT16_MAX) \div d = LogicalMax
  BY <1>1, Quotient, LogicalMaxIsInt16
<1> QED BY <1>3, <1>4, Clamped DEF Product, ScaleAbsAxis

(* A larger coordinate is never mapped to a smaller one.                   *)
LEMMA ScaleMonotone ==
  ASSUME NEW m \in Nat, m >= 2, NEW v \in Nat, NEW w \in Nat, v <= w
  PROVE  ScaleAbsAxis(v, m) <= ScaleAbsAxis(w, m)
<1>1. /\ Clamp(v, m) \in Nat /\ Clamp(w, m) \in Nat
      /\ Clamp(v, m) <= Clamp(w, m)
  BY Clamped, ClampMonotone
<1>2. m - 1 \in Nat \ {0}
  BY SMT
<1> QED
  BY <1>1, <1>2, QuotientMonotone, LogicalMaxIsInt16 DEF ScaleAbsAxis, Product

-----------------------------------------------------------------------------
(* The pointer's way along one axis.                                       *)

(* The report made of the last frame is the one of its coordinate.         *)
AxisInv ==
  /\ max_cfg \in MaxCfgs
  /\ value \in Coordinates
  /\ scaled = ScaleAbsAxis(value, max_cfg)

LEMMA AxisInvariant == AxisSpec => []AxisInv
<1>1. AxisInit => AxisInv
  BY DEF AxisInit, AxisInv
<1>2. AxisInv /\ [AxisNext]_axisVars => AxisInv'
  BY DEF AxisInv, AxisNext, Move, axisVars
<1> QED BY <1>1, <1>2, PTL DEF AxisSpec

(* The ranges the assumptions give, in the form the lemmas take them.      *)
LEMMA MaxCfgRange ==
  ASSUME NEW m \in MaxCfgs
  PROVE  m \in Nat /\ m >= 2
  BY SMT, MaxCfgAssumption

LEMMA CoordinateRange ==
  ASSUME NEW v \in Coordinates
  PROVE  v \in Nat /\ v <= UINT16_MAX
  BY SMT, CoordinateAssumption

(* Every report is within the range of the descriptor, and no intermediate *)
(* result of the code overflows.                                           *)
THEOREM AlwaysInRange == AxisSpec => []InLogicalRange
<1>1. AxisInv => InLogicalRange
  BY ScaleInRange, MaxCfgRange, CoordinateRange DEF AxisInv, InLogicalRange
<1> QED BY <1>1, AxisInvariant, PTL

(* Both edges of the desktop can be reached, whatever its width.           *)
THEOREM EdgesAlwaysReached == AxisSpec => []EdgesReached
<1>1. AxisInv => EdgesReached
  BY ScaleInRange, MaxCfgRange, CoordinateRange DEF AxisInv, EdgesReached
<1> QED BY <1>1, AxisInvariant, PTL

(* A pointer that moves right never jumps left.                            *)
LEMMA MovesForward == AxisInv /\ [AxisNext]_axisVars => [scaled' >= scaled]_axisVars
<1> SUFFICES ASSUME AxisInv, AxisNext PROVE scaled' >= scaled
  OBVIOUS
<1>1. /\ max_cfg \in Nat /\ max_cfg >= 2
      /\ value \in Nat /\ value <= UINT16_MAX
      /\ value + 1 \in Nat /\ value + 1 <= UINT16_MAX
  BY MaxCfgRange, CoordinateRange DEF AxisInv, AxisNext, Move
<1>2. ScaleAbsAxis(value, max_cfg) <= ScaleAbsAxis(value + 1, max_cfg)
  BY SMT, <1>1, ScaleMonotone
<1>3. scaled' = ScaleAbsAxis(value + 1, max_cfg)
  BY DEF AxisNext, Move
<1>4. /\ ScaleAbsAxis(value, max_cfg) \in Int
      /\ ScaleAbsAxis(value + 1, max_cfg) \in Int
  <2>1. \A k \in 0 .. LogicalMax : k \in Int
    BY SMT
  <2> QED BY <1>1, <2>1, ScaleInRange
<1> QED BY SMT, <1>2, <1>3, <1>4 DEF AxisInv

(* Every pixel of a desktop of the default width, or less, can be pointed  *)
(* at: the quotient grows with each of them.                               *)
LEMMA PixelsStayApart ==
  AxisInv /\ [AxisNext]_axisVars =>
    [max_cfg <= LogicalMax + 1 /\ value' < max_cfg => scaled' > scaled]_axisVars
<1> SUFFICES ASSUME AxisInv, AxisNext, max_cfg <= LogicalMax + 1, value' < max_cfg
             PROVE  scaled' > scaled
  OBVIOUS
<1>1. max_cfg \in Nat /\ max_cfg >= 2 /\ value \in Nat
  BY MaxCfgRange, CoordinateRange DEF AxisInv
<1>2. scaled' = ScaleAbsAxis(value + 1, max_cfg) /\ value' = value + 1
  BY DEF AxisNext, Move
<1>3. Clamp(value, max_cfg) = value /\ Clamp(value + 1, max_cfg) = value + 1
  BY SMT, <1>1, <1>2 DEF Clamp
<1>4. max_cfg - 1 \in Nat \ {0} /\ max_cfg - 1 <= LogicalMax
  BY SMT, <1>1 DEF LogicalMax
<1>5. (value * INT16_MAX) \div (max_cfg - 1)
        < ((value + 1) * INT16_MAX) \div (max_cfg - 1)
  BY <1>1, <1>4, QuotientStep, LogicalMaxIsInt16
<1> DEFINE before == (value * INT16_MAX) \div (max_cfg - 1)
           after == ((value + 1) * INT16_MAX) \div (max_cfg - 1)
<1>6. before \in Int /\ after \in Int
  BY SMT, <1>1, <1>4 DEF INT16_MAX
<1>7. scaled = before /\ scaled' = after
  BY <1>2, <1>3 DEF AxisInv, ScaleAbsAxis, Product
<1> HIDE DEF before, after
<1>8. before < after
  BY <1>5 DEF before, after
<1> QED BY SMT, <1>6, <1>7, <1>8

(* The pointer follows the controller's, for every maximum: it never jumps *)
(* back, and rests on two neighbouring pixels only of a desktop wider than *)
(* the range of the report.                                                *)
THEOREM PixelsStayInOrder == AxisSpec => PixelsInOrder
<1>1. AxisInv /\ [AxisNext]_axisVars =>
        [/\ scaled' >= scaled
         /\ max_cfg <= LogicalMax + 1 /\ value' < max_cfg => scaled' > scaled]_axisVars
  BY MovesForward, PixelsStayApart
<1> QED BY <1>1, AxisInvariant, PTL DEF AxisSpec, PixelsInOrder

-----------------------------------------------------------------------------
(* From a payload to what the target PC sees.                              *)

(* A signed byte survives the way through an unsigned one.                 *)
LEMMA SignedByteBack ==
  \A n \in SignedByte : ByteOf(n) \in Byte /\ Int8(ByteOf(n)) = n
                        /\ ByteOf(Int8(ByteOf(n))) = ByteOf(n)
  BY ByteRadixAssumption DEF SignedByte, ByteOf, Int8, Byte

LEMMA Sizes ==
  /\ \A n \in UInt16 : n \in Nat /\ n <= 65535
  /\ \A n \in Nat : n <= 65535 => n \in UInt16
  /\ \A n \in Byte : n \in Nat /\ n <= 255
  /\ \A n \in Nat : n <= 255 => n \in Byte
<1>1. 256 * 256 = 65536
  OBVIOUS
<1>2. ByteRadix * ByteRadix = 65536
  BY <1>1, ByteRadixAssumption
<1> DEFINE words == ByteRadix * ByteRadix
<1>3. UInt16 = 0 .. words - 1
  BY DEF UInt16
<1>4. /\ \A n \in Byte : n \in Nat /\ n <= 255
      /\ \A n \in Nat : n <= 255 => n \in Byte
  BY ByteRadixAssumption DEF Byte
<1>5. words \in Nat /\ \A n \in Nat : n <= words - 1 <=> n <= 65535
  BY <1>2
<1> HIDE DEF words
<1> QED BY <1>3, <1>4, <1>5

LEMMA Halves ==
  \A n \in Nat : n <= 65535 =>
    /\ n % 256 \in Nat /\ n % 256 <= 255
    /\ n \div 256 \in Nat /\ n \div 256 <= 255
    /\ (n \div 256) % 256 = n \div 256
    /\ (n \div 256) * 256 + (n % 256) = n
    /\ (n % 256) + (n \div 256) * 256 = n
  OBVIOUS

LEMMA WordBack ==
  \A n \in UInt16 : /\ ByteOf(n) \in Byte /\ Msb(n) \in Byte
                    /\ Msb(n) * ByteRadix + ByteOf(n) = n
                    /\ ByteOf(n) + Msb(n) * ByteRadix = n
<1> SUFFICES ASSUME NEW n \in UInt16
             PROVE  /\ n % 256 \in Byte /\ (n \div 256) % 256 \in Byte
                    /\ ((n \div 256) % 256) * 256 + (n % 256) = n
                    /\ (n % 256) + ((n \div 256) % 256) * 256 = n
  BY ByteRadixAssumption DEF ByteOf, Msb
<1>1. n \in Nat /\ n <= 65535
  BY Sizes
<1> QED BY <1>1, Halves, Sizes

(* The payload is what is behind the header.                               *)
LEMMA PayloadBehindHeader ==
  ASSUME NEW a \in Nat, NEW b \in Nat, NEW c \in Nat, NEW s \in Seq(Nat)
  PROVE  SubSeq(<<a, b, c>> \o s, 4, Len(<<a, b, c>> \o s)) = s
<1> DEFINE f == <<a, b, c>> \o s
<1>1. f \in Seq(Nat) /\ Len(f) = 3 + Len(s) /\ Len(s) \in Nat
      /\ \A i \in 1 .. Len(s) : f[3 + i] = s[i]
  OBVIOUS
<1> HIDE DEF f
<1>2. SubSeq(f, 4, Len(f)) \in Seq(Nat) /\ Len(SubSeq(f, 4, Len(f))) = Len(s)
      /\ \A i \in 1 .. Len(s) : SubSeq(f, 4, Len(f))[i] = f[3 + i]
  BY <1>1
<1>3. \A i \in 1 .. Len(s) : SubSeq(f, 4, Len(f))[i] = s[i]
  BY <1>1, <1>2
<1>4. SubSeq(f, 4, Len(f)) = s
  BY <1>2, <1>3, SeqEqual
<1> QED BY <1>4 DEF f

(* A scaled coordinate is less than a pixel's way below the pixel.         *)
LEMMA ScaledAt ==
  ASSUME NEW m \in MaxCfgs, NEW p \in UInt16
  PROVE  /\ ScaleAbsAxis(p, m) \in UInt16
         /\ SeenAt(ScaleAbsAxis(p, m), p, m)
<1> DEFINE x == Product(p, m)
           d == m - 1
<1>1. m \in Nat /\ m >= 2 /\ p \in Nat /\ p <= UINT16_MAX
  BY MaxCfgRange, Sizes DEF UINT16_MAX
<1>2. d \in Nat \ {0} /\ Clamp(p, m) \in Nat
  BY <1>1, Clamped
<1>3. x \in Nat
  BY <1>2 DEF Product, INT16_MAX
<1>4. ScaleAbsAxis(p, m) \in 0 .. LogicalMax
  BY <1>1, ScaleInRange
<1>5. ScaleAbsAxis(p, m) = x \div d
  BY DEF ScaleAbsAxis
<1>6. Clamp(p, m) * LogicalMax = x
  BY LogicalMaxIsInt16 DEF Product
<1> HIDE DEF x, d
<1>7. 0 <= x - (x \div d) * d /\ x - (x \div d) * d < d
  BY <1>2, <1>3
<1>8. SeenAt(ScaleAbsAxis(p, m), p, m)
  BY <1>5, <1>6, <1>7 DEF SeenAt, d
<1>9. ScaleAbsAxis(p, m) \in UInt16
  <2>1. ScaleAbsAxis(p, m) \in Nat /\ ScaleAbsAxis(p, m) <= LogicalMax
    BY <1>4, LogicalMaxIsInt16
  <2>2. LogicalMax <= 65535
    BY DEF LogicalMax
  <2> QED BY <2>1, <2>2, LogicalMaxIsInt16, Sizes
<1> QED BY <1>8, <1>9

ReportInv ==
  /\ max_x \in MaxCfgs /\ max_y \in MaxCfgs
  /\ SeenAsMeant

(* What becomes of each kind of frame.                                     *)
LEMMA ForwardFacts ==
  ASSUME NEW m \in Meanings, Forward(m)
  PROVE  /\ meant' = m /\ UNCHANGED <<max_x, max_y>>
         /\ PayloadOf(m) \in Seq(Byte)
         /\ report' = CASE m.type = KEYBOARD       -> PayloadOf(m)
                        [] m.type = MOUSE          -> MouseReport(MouseEvent(PayloadOf(m)))
                        [] m.type = MOUSE_ABSOLUTE ->
                             MouseAbsReport(MouseAbsEvent(PayloadOf(m)))
<1> DEFINE payload == PayloadOf(m)
           n == Len(payload)
<1>1. payload \in Seq(Byte) /\ m.type \in Nat
  <2>1. CASE m \in [type : {KEYBOARD}, keys : Seq(Byte)]
    <3>1. m.type = KEYBOARD /\ m.keys \in Seq(Byte)
      BY <2>1
    <3>2. payload = m.keys
      BY <3>1 DEF PayloadOf, KEYBOARD, MOUSE, MOUSE_ABSOLUTE
    <3> HIDE DEF payload
    <3> QED BY <3>1, <3>2 DEF KEYBOARD
  <2>2. CASE m \in [type : {MOUSE}, buttons : Byte, x : SignedByte, y : SignedByte,
                    wheel : SignedByte, pan : SignedByte]
    <3>0. m.type = MOUSE
      BY <2>2
    <3>1. /\ m.buttons \in Byte /\ ByteOf(m.x) \in Byte /\ ByteOf(m.y) \in Byte
          /\ ByteOf(m.wheel) \in Byte /\ ByteOf(m.pan) \in Byte
      BY <2>2, SignedByteBack
    <3>2. payload = <<m.buttons, ByteOf(m.x), ByteOf(m.y), ByteOf(m.wheel), ByteOf(m.pan)>>
      BY <3>0 DEF PayloadOf, KEYBOARD, MOUSE, MOUSE_ABSOLUTE
    <3> HIDE DEF payload
    <3> QED BY <3>0, <3>1, <3>2 DEF MOUSE
  <2>3. CASE m \in [type : {MOUSE_ABSOLUTE}, buttons : Byte, x : UInt16, y : UInt16,
                    wheel : SignedByte, pan : SignedByte]
    <3>1. /\ m.buttons \in Byte /\ ByteOf(m.x) \in Byte /\ ByteOf(m.y) \in Byte
          /\ Msb(m.x) \in Byte /\ Msb(m.y) \in Byte
          /\ ByteOf(m.wheel) \in Byte /\ ByteOf(m.pan) \in Byte
      BY <2>3, SignedByteBack, WordBack
    <3>2. payload = <<m.buttons, Msb(m.x), ByteOf(m.x), Msb(m.y), ByteOf(m.y),
                      ByteOf(m.wheel), ByteOf(m.pan)>>
      BY <2>3 DEF PayloadOf, KEYBOARD, MOUSE, MOUSE_ABSOLUTE
    <3> HIDE DEF payload
    <3> QED BY <2>3, <3>1, <3>2 DEF MOUSE_ABSOLUTE
  <2> QED BY <2>1, <2>2, <2>3, MeaningsAssumption
<1>2. payload \in Seq(Nat) /\ n \in Nat
  <2> HIDE DEF payload
  <2>1. \A b \in Byte : b \in Nat
    BY Sizes
  <2> QED BY <1>1, <2>1
<1>3. Msb(n) \in Nat /\ ByteOf(n) \in Nat
  BY <1>2, ByteRadixAssumption DEF Msb, ByteOf
<1>4. SubSeq(FrameOf(m), 4, Len(FrameOf(m))) = payload
  <2>1. FrameOf(m) = <<m.type, Msb(n), ByteOf(n)>> \o payload
    BY DEF FrameOf
  <2> HIDE DEF payload, n
  <2> QED BY <1>1, <1>2, <1>3, <2>1, PayloadBehindHeader
<1> HIDE DEF payload
<1> QED BY <1>1, <1>4 DEF Forward, payload

LEMMA ForwardKeeps ==
  ASSUME ReportInv, NEW m \in Meanings, Forward(m)
  PROVE  ReportInv'
<1> DEFINE payload == PayloadOf(m)
<1>0. /\ meant' = m /\ UNCHANGED <<max_x, max_y>>
      /\ max_x \in MaxCfgs /\ max_y \in MaxCfgs
  BY ForwardFacts DEF ReportInv
<1>1. CASE m \in [type : {KEYBOARD}, keys : Seq(Byte)]
  <2>0. m.type = KEYBOARD
    BY <1>1
  <2>1. report' = m.keys
    <3>1. PayloadOf(m) = m.keys
      BY <2>0 DEF PayloadOf, KEYBOARD, MOUSE, MOUSE_ABSOLUTE
    <3>2. report' = PayloadOf(m)
      BY <2>0, ForwardFacts DEF KEYBOARD, MOUSE, MOUSE_ABSOLUTE
    <3> QED BY <3>1, <3>2
  <2> QED BY <1>0, <2>0, <2>1
       DEF ReportInv, SeenAsMeant, KEYBOARD, MOUSE, MOUSE_ABSOLUTE
<1>2. CASE m \in [type : {MOUSE}, buttons : Byte, x : SignedByte, y : SignedByte,
                  wheel : SignedByte, pan : SignedByte]
  <2>0. m.type = MOUSE
    BY <1>2
  <2>1. /\ Int8(ByteOf(m.x)) = m.x /\ Int8(ByteOf(m.y)) = m.y
        /\ Int8(ByteOf(m.wheel)) = m.wheel /\ Int8(ByteOf(m.pan)) = m.pan
    BY <1>2, SignedByteBack
  <2>2. payload = <<m.buttons, ByteOf(m.x), ByteOf(m.y), ByteOf(m.wheel), ByteOf(m.pan)>>
    BY <2>0 DEF PayloadOf, KEYBOARD, MOUSE, MOUSE_ABSOLUTE
  <2>3. report' = MouseReport(MouseEvent(payload))
    BY <2>0, ForwardFacts DEF KEYBOARD, MOUSE, MOUSE_ABSOLUTE
  <2>4. MouseEvent(payload) = [buttons |-> m.buttons, x |-> m.x, y |-> m.y,
                               wheel |-> m.wheel, pan |-> m.pan]
    BY <2>1, <2>2 DEF MouseEvent
  <2>5. report' = <<m.buttons % 32, ByteOf(m.x), ByteOf(m.y), ByteOf(m.wheel), ByteOf(m.pan)>>
    BY <2>3, <2>4 DEF MouseReport, Buttons
  <2>6. SeenMouse' = [buttons |-> m.buttons % 32, x |-> m.x, y |-> m.y,
                      wheel |-> m.wheel, pan |-> m.pan]
    BY <2>1, <2>5 DEF SeenMouse
  <2> QED BY <1>0, <2>0, <2>6
       DEF ReportInv, SeenAsMeant, KEYBOARD, MOUSE, MOUSE_ABSOLUTE
<1>3. CASE m \in [type : {MOUSE_ABSOLUTE}, buttons : Byte, x : UInt16, y : UInt16,
                  wheel : SignedByte, pan : SignedByte]
  <2> DEFINE at_x == ScaleAbsAxis(m.x, max_x)
             at_y == ScaleAbsAxis(m.y, max_y)
  <2>1. /\ Int8(ByteOf(m.wheel)) = m.wheel /\ Int8(ByteOf(m.pan)) = m.pan
        /\ Msb(m.x) * ByteRadix + ByteOf(m.x) = m.x
        /\ Msb(m.y) * ByteRadix + ByteOf(m.y) = m.y
    BY <1>3, SignedByteBack, WordBack
  <2>2. payload = <<m.buttons, Msb(m.x), ByteOf(m.x), Msb(m.y), ByteOf(m.y),
                    ByteOf(m.wheel), ByteOf(m.pan)>>
        /\ m.type = MOUSE_ABSOLUTE
    BY <1>3 DEF PayloadOf, KEYBOARD, MOUSE, MOUSE_ABSOLUTE
  <2>3. report' = MouseAbsReport(MouseAbsEvent(payload))
    BY <2>2, ForwardFacts DEF KEYBOARD, MOUSE, MOUSE_ABSOLUTE
  <2>4. MouseAbsEvent(payload) = [buttons |-> m.buttons, x |-> m.x, y |-> m.y,
                                  wheel |-> m.wheel, pan |-> m.pan]
    BY <2>1, <2>2 DEF MouseAbsEvent, UInt16At
  <2>5. report' = <<m.buttons % 32, ByteOf(at_x), Msb(at_x), ByteOf(at_y), Msb(at_y),
                    ByteOf(m.wheel), ByteOf(m.pan)>>
    BY <2>3, <2>4 DEF MouseAbsReport, Buttons
  <2>6. /\ ByteOf(at_x) + Msb(at_x) * ByteRadix = at_x
        /\ ByteOf(at_y) + Msb(at_y) * ByteRadix = at_y
        /\ SeenAt(at_x, m.x, max_x) /\ SeenAt(at_y, m.y, max_y)
    BY <1>0, <1>3, ScaledAt, WordBack
  <2> HIDE DEF at_x, at_y
  <2>7. SeenMouseAbs' = [buttons |-> m.buttons % 32, x |-> at_x, y |-> at_y,
                         wheel |-> m.wheel, pan |-> m.pan]
    BY <2>1, <2>5, <2>6 DEF SeenMouseAbs
  <2> QED BY <1>0, <2>2, <2>6, <2>7
       DEF ReportInv, SeenAsMeant, KEYBOARD, MOUSE, MOUSE_ABSOLUTE
<1> QED BY <1>1, <1>2, <1>3, MeaningsAssumption

(* The target PC sees what the controller meant, for every value of every  *)
(* field and every maximum of the desktop.                                 *)
THEOREM EveryFieldArrives == ReportSpec => []SeenAsMeant
<1>1. ReportInit => ReportInv
  BY DEF ReportInit, ReportInv, SeenAsMeant, KEYBOARD, MOUSE, MOUSE_ABSOLUTE
<1>2. ReportInv /\ [ReportNext]_reportVars => ReportInv'
  <2>1. ASSUME ReportInv, UNCHANGED reportVars PROVE ReportInv'
    BY <2>1 DEF ReportInv, reportVars, SeenAsMeant, SeenMouse, SeenMouseAbs
  <2> QED BY <2>1, ForwardKeeps DEF ReportNext
<1>3. ReportInv => SeenAsMeant
  BY DEF ReportInv
<1> QED BY <1>1, <1>2, <1>3, PTL DEF ReportSpec
=============================================================================
