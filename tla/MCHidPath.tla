------------------------------ MODULE MCHidPath ------------------------------
(***************************************************************************)
(* Instance of HidForwarder, AbsAxis and HidReport for TLC: the tasks that *)
(* forward reports, the coordinates of an axis, and the bytes of a report. *)
(* The three share nothing: each moves while the others rest.              *)
(***************************************************************************)
EXTENDS MCHidForwarder, HidReport

CONSTANT MaxStimuli   \* bound: events, suspensions and pulled cables together

(* Every coordinate for the extreme and the default maxima, and for two    *)
(* common desktop widths.                                                  *)
AllCoordinates == 0 .. 65535
SomeMaxCfgs == {2, 3, 1080, 1920, 32768, 32769, 65535, 65536}

(* Every field of a frame goes through all its values, the others          *)
(* meanwhile hold values that differ.                                      *)
SomePixels == {0, 1, 255, 256, 1079, 1920, 32767, 32768, 65535}

Rest == [type |-> MOUSE, buttons |-> 1, x |-> 2, y |-> -3, wheel |-> 4, pan |-> -5]

Moves ==
  { [Rest EXCEPT !.buttons = b] : b \in Byte }
    \union { [Rest EXCEPT !.x = n] : n \in SignedByte }
    \union { [Rest EXCEPT !.y = n] : n \in SignedByte }
    \union { [Rest EXCEPT !.wheel = n] : n \in SignedByte }
    \union { [Rest EXCEPT !.pan = n] : n \in SignedByte }

Jumps ==
  { [Rest EXCEPT !.type = MOUSE_ABSOLUTE, !.x = p, !.y = q] :
      p \in SomePixels, q \in SomePixels }
    \union { [m EXCEPT !.type = MOUSE_ABSOLUTE, !.x = 258, !.y = 772] : m \in Moves }

Keys == { [type |-> KEYBOARD, keys |-> <<2, 0, 4, 5, 6, 7, 8, 255>>] }

SomeMeanings == Moves \union Jumps \union Keys

VARIABLE part

MCInit ==
  /\ Init /\ AxisInit /\ ReportInit
  /\ \/ part = "tasks" /\ max_cfg = 2 /\ max_x = 2 /\ max_y = 2
     \/ part = "axis" /\ max_x = 2 /\ max_y = 2
     \/ part = "report" /\ max_cfg = 2

(* What sets the tasks going.                                              *)
Stimuli == handled["keyboard"] + suspends + detaches

MCNext ==
  /\ \/ /\ part = "tasks"
        /\ Next /\ Stimuli' <= MaxStimuli
        /\ UNCHANGED <<axisVars, reportVars>>
     \/ /\ part = "axis"
        /\ AxisNext
        /\ UNCHANGED <<vars, reportVars>>
     \/ /\ part = "report" /\ meant.type = 0
        /\ ReportNext
        /\ UNCHANGED <<vars, axisVars>>
  /\ UNCHANGED part

MCSpec == MCInit /\ [][MCNext]_<<vars, axisVars, reportVars, part>>
=============================================================================
