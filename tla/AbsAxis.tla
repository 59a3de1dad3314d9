------------------------------- MODULE AbsAxis -------------------------------
(***************************************************************************)
(* scale_abs_axis of main/usb_hs_device.c: the coordinate of an absolute   *)
(* mouse frame becomes a coordinate of the HID report, whose descriptor    *)
(* declares the logical range 0 .. 0x7FFF.  The specification moves the    *)
(* pointer along one axis, one unit of the controller's at a time.         *)
(***************************************************************************)
EXTENDS Integers

CONSTANTS
  MaxCfgs,     \* the CONFIG_APP_ABS_MOUSE_MAX_X / _Y considered
  Coordinates  \* the coordinates of a frame, 0 .. 65535 in the program

INT16_MAX == 32767
INT32_MAX == 2147483647
UINT16_MAX == 65535
LogicalMax == 32767    \* HID_LOGICAL_MAX_N(0x7FFF, 2)

(* main/Kconfig.projbuild: range 2 65536                                   *)
ASSUME MaxCfgAssumption ==
  \A m \in MaxCfgs : m \in Nat /\ 2 <= m /\ m <= 65536

(* The two bytes of the frame make a uint16_t.                             *)
ASSUME CoordinateAssumption ==
  \A v \in Coordinates : v \in Nat /\ v <= UINT16_MAX

Clamp(value, max_cfg) == IF value >= max_cfg THEN max_cfg - 1 ELSE value

(* The product the code computes in an int32_t.                            *)
Product(value, max_cfg) == Clamp(value, max_cfg) * INT16_MAX

(* Mutant: a coordinate beyond the configured maximum is not clamped.      *)
ScaleUnclamped(value, max_cfg) == (value * INT16_MAX) \div (max_cfg - 1)

(* Mutant: the product is cut to 16 bits.                                  *)
ScaleNarrow(value, max_cfg) ==
  (Product(value, max_cfg) % (UINT16_MAX + 1)) \div (max_cfg - 1)

(* Mutant: the divisor is the number of coordinates, not the last of them. *)
ScaleByCount(value, max_cfg) == Product(value, max_cfg) \div max_cfg

(* Its first lines, for max_cfg <= 1, are dead code: see MaxCfgAssumption. *)
ScaleAbsAxis(value, max_cfg) == Product(value, max_cfg) \div (max_cfg - 1)

VARIABLES
  max_cfg,     \* the configured maximum
  value,       \* the coordinate of the last frame
  scaled       \* the coordinate of the report made of it

axisVars == <<max_cfg, value, scaled>>

AxisInit ==
  /\ max_cfg \in MaxCfgs
  /\ value \in {c \in Coordinates : c - 1 \notin Coordinates}
  /\ scaled = ScaleAbsAxis(value, max_cfg)

(* The next frame puts the pointer one unit further.                       *)
Move ==
  /\ value + 1 \in Coordinates
  /\ value' = value + 1
  /\ scaled' = ScaleAbsAxis(value', max_cfg)
  /\ UNCHANGED max_cfg

AxisNext == Move
AxisSpec == AxisInit /\ [][AxisNext]_axisVars

-----------------------------------------------------------------------------
(* Properties.                                                             *)

(* The report stays within the range its descriptor declares, and neither  *)
(* the int32_t product nor the int16_t result loses a bit, also for a      *)
(* coordinate beyond the configured maximum.                               *)
InLogicalRange ==
  /\ scaled \in 0 .. LogicalMax
  /\ Product(value, max_cfg) <= INT32_MAX

(* Both edges of the remote desktop can be reached, in the range of the    *)
(* report descriptor; main/Kconfig.projbuild:22-23 has 65535 as its end.   *)
EdgesReached ==
  /\ value = 0 => scaled = 0
  /\ value >= max_cfg - 1 => scaled = LogicalMax

(* A pointer that moves right never jumps left; and no two pixels of a     *)
(* desktop fall together, if it is not wider than the 32768 of the         *)
(* default: each of them can be pointed at.                                *)
PixelsInOrder ==
  [][/\ scaled' >= scaled
     /\ max_cfg <= LogicalMax + 1 /\ value' < max_cfg => scaled' > scaled]_axisVars
=============================================================================
