---------------------------- MODULE MCSerialLink -----------------------------
(* Instance of SerialLink for TLC: bytes 0 .. 8, SYNC0 = 7, SYNC1 = 8, and *)
(* a ring smaller than most frames.  One payload holds a whole frame.      *)
EXTENDS SerialLink

SomeFrames == { <<KEYBOARD, 0, 2, SYNC0, 0>>,
                <<MOUSE, 0, 1, SYNC1>>,
                <<MOUSE_ABSOLUTE, 0, 3, 4, 0, 2>>,
                <<MICROPHONE, 0, 6, SYNC0, SYNC1, MOUSE, 0, 1, 5>> }

NewerFrames == { <<5, 0, 2, MOUSE, 0>> }
=============================================================================
