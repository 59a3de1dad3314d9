------------------------------ MODULE AppState ------------------------------
(***************************************************************************)
(* The status snapshot of main/app_state.c and its only reader, the        *)
(* display task of main/display_ui.c.  Everybody writes the snapshot and   *)
(* nobody locks it: the receive tasks and core_service_task mark features  *)
(* and note events, the display task refreshes, and the TinyUSB task, the  *)
(* USB audio task and app_main store the state of the bus.  A step is the  *)
(* code between two accesses to the snapshot.                              *)
(*                                                                         *)
(* The three features never meet, so one stands for them: a call is a mark *)
(* of it, a mark of another (which refreshes it), or a noted event.        *)
(*                                                                         *)
(* A time is its distance from now: 0 is now, a Tick takes one from every  *)
(* time kept, and what is too old to matter stays where it is.  The code's *)
(* times are 64 bits in two words; this is a time in which the upper one,  *)
(* which turns every 71 minutes, does not change.  The counter of events   *)
(* and the last source, which no decision reads, are left out.             *)
(***************************************************************************)
EXTENDS Integers

CONSTANTS
  Callers,     \* the tasks that mark features and note events
  Active,      \* FEATURE_ACTIVE_US, in ticks
  SleepAfter,  \* DISPLAY_SLEEP_TIMEOUT_US, in ticks
  MaxDelay     \* bound: ticks a call, or an update of the display, may take

ASSUME TimeAssumption ==
  /\ Active \in Nat /\ SleepAfter \in Nat /\ MaxDelay \in Nat
  /\ MaxDelay < Active /\ Active < SleepAfter /\ 2 * MaxDelay <= SleepAfter

VARIABLES
  active_until,  \* keyboard_active_until, and so on
  hs_active,     \* snapshot.hs_keyboard_active, and so on
  last_event,    \* snapshot.last_event_timestamp_us
  call,          \* per caller: where it is, when it began, the now it passes
                 \* to refresh_feature_activity, the bit it has computed
  display,       \* the same of the display task, with its copy of last_event
  last_touch,    \* s_last_touch_timestamp_us
  awake,         \* s_display_awake
  lit,           \* the colour of the feature's label
  marked,        \* history: when the newest mark began
  noted,         \* history: when the newest event came
  alone          \* history: no call since the display task began

VARIABLES
  s_usb_ready,   \* of usb_hs_device.c
  hs_state,      \* snapshot.hs_state
  started,       \* usb_hs_device_init has returned
  event,         \* where tinyusb_event_handler is
  recording,     \* the target PC has the microphone open
  filled,        \* uac_input_cb has filled its buffer
  streamed,      \* history: audio has filled a buffer since the last attach
  raced          \* history: who met the handler since its last event began

activityVars == <<active_until, hs_active, last_event, call, display,
                  last_touch, awake, lit, marked, noted, alone>>
usbVars == <<s_usb_ready, hs_state, started, event, recording, filled, streamed,
             raced>>
vars == <<activityVars, usbVars>>

IdleCall == [at |-> "idle", began |-> 0, now |-> 0, bit |-> FALSE]
IdleDisplay == [at |-> "idle", now |-> 0, bit |-> FALSE, last |-> 0]

(* How far back a time is kept.  A call may pass the time of another, which *)
(* began a delay before it.                                                *)
Expired == -(2 * MaxDelay)
Forgotten == -(Active + 3 * MaxDelay)

InitActivity ==
  /\ active_until = Expired /\ hs_active = FALSE
  /\ last_event = 0 /\ last_touch = 0
  /\ call = [t \in Callers |-> IdleCall]
  /\ display = IdleDisplay
  /\ awake = TRUE /\ lit = FALSE
  /\ marked = Forgotten /\ noted = 0
  /\ alone = FALSE

InitUsb ==
  /\ s_usb_ready = FALSE
  /\ hs_state = "disconnected"
  /\ started = FALSE
  /\ event = "none"
  /\ recording = FALSE /\ filled = FALSE
  /\ streamed = FALSE /\ raced = {}

Init == InitActivity /\ InitUsb

-----------------------------------------------------------------------------
(* app_state_mark_feature_usage and app_state_note_event.  Both read the   *)
(* clock first and end with refresh_feature_activity: the one at that      *)
(* time, the other at the one it reads in the snapshot.                    *)

Begins(t, at) ==
  /\ call[t].at = "idle"
  /\ call' = [call EXCEPT
       ![t] = [at |-> at, began |-> 0, now |-> 0, bit |-> FALSE]]
  /\ alone' = FALSE

Mark(t) ==
  /\ Begins(t, "until")
  /\ marked' = 0
  /\ UNCHANGED <<active_until, hs_active, last_event, display, last_touch,
                 awake, lit, noted>>

MarkOther(t) ==
  /\ Begins(t, "load")
  /\ UNCHANGED <<active_until, hs_active, last_event, display, last_touch,
                 awake, lit, marked, noted>>

Note(t) ==
  /\ Begins(t, "event")
  /\ noted' = 0
  /\ UNCHANGED <<active_until, hs_active, last_event, display, last_touch,
                 awake, lit, marked>>

Goes(t, to) == call' = [call EXCEPT ![t].at = to]

(* Mutant: a mark extends what is left of the last one.                    *)
StoreUntilAdds(t) ==
  /\ call[t].at = "until"
  /\ active_until' = IF active_until < 0 THEN call[t].now + Active
                                         ELSE active_until + Active
  /\ Goes(t, "load")
  /\ UNCHANGED <<hs_active, last_event, display, last_touch, awake, lit,
                 marked, noted, alone>>

StoreUntil(t) ==
  /\ call[t].at = "until"
  /\ active_until' = call[t].now + Active
  /\ Goes(t, "load")
  /\ UNCHANGED <<hs_active, last_event, display, last_touch, awake, lit,
                 marked, noted, alone>>

StoreEvent(t) ==
  /\ call[t].at = "event"
  /\ last_event' = call[t].now
  /\ Goes(t, "reread")
  /\ UNCHANGED <<active_until, hs_active, display, last_touch, awake, lit,
                 marked, noted, alone>>

(* The time is read back from the snapshot, where another task may have    *)
(* stored its own since; a compiler may keep it in a register instead.     *)
Reread(t) ==
  /\ call[t].at = "reread"
  /\ \E time \in {last_event, call[t].now} :
       call' = [call EXCEPT ![t].at = "load", ![t].now = time]
  /\ UNCHANGED <<active_until, hs_active, last_event, display, last_touch,
                 awake, lit, marked, noted, alone>>

(* refresh_feature_activity: the comparison, and the store of its result.  *)
Load(t) ==
  /\ call[t].at = "load"
  /\ call' = [call EXCEPT ![t].at = "store",
                          ![t].bit = active_until > call[t].now]
  /\ UNCHANGED <<active_until, hs_active, last_event, display, last_touch,
                 awake, lit, marked, noted, alone>>

Store(t) ==
  /\ call[t].at = "store"
  /\ hs_active' = call[t].bit
  /\ call' = [call EXCEPT ![t] = IdleCall]
  /\ UNCHANGED <<active_until, last_event, display, last_touch, awake, lit,
                 marked, noted, alone>>

Continue(t) ==
  StoreUntil(t) \/ StoreEvent(t) \/ Reread(t) \/ Load(t) \/ Store(t)

-----------------------------------------------------------------------------
(* display_task: app_state_get_snapshot, then display_ui_update.           *)

Look ==
  /\ display.at = "idle"
  /\ display' = [display EXCEPT !.at = "load", !.now = 0]
  /\ alone' = \A t \in Callers : call[t].at = "idle"
  /\ UNCHANGED <<active_until, hs_active, last_event, call, last_touch,
                 awake, lit, marked, noted>>

LookLoad ==
  /\ display.at = "load"
  /\ display' = [display EXCEPT !.at = "store",
                                !.bit = active_until > display.now]
  /\ UNCHANGED <<active_until, hs_active, last_event, call, last_touch,
                 awake, lit, marked, noted, alone>>

(* Mutant: the snapshot is returned as the last call has left it.          *)
LookStoreNothing ==
  /\ display.at = "store"
  /\ display' = [display EXCEPT !.at = "copy"]
  /\ UNCHANGED <<active_until, hs_active, last_event, call, last_touch,
                 awake, lit, marked, noted, alone>>

LookStore ==
  /\ display.at = "store"
  /\ hs_active' = display.bit
  /\ display' = [display EXCEPT !.at = "copy"]
  /\ UNCHANGED <<active_until, last_event, call, last_touch, awake, lit,
                 marked, noted, alone>>

(* The snapshot is copied.                                                 *)
Copy ==
  /\ display.at = "copy"
  /\ display' = [display EXCEPT !.at = "update", !.bit = hs_active,
                                !.last = last_event]
  /\ UNCHANGED <<active_until, hs_active, last_event, call, last_touch,
                 awake, lit, marked, noted, alone>>

Later(a, b) == IF a > b THEN a ELSE b

(* Mutant: the display is put to sleep by the time of the last event.      *)
UpdateIgnoresTouch(touched) ==
  /\ display.at = "update"
  /\ last_touch' = IF touched THEN 0 ELSE last_touch
  /\ awake' = (display.last > -SleepAfter)
  /\ lit' = display.bit
  /\ display' = IdleDisplay
  /\ UNCHANGED <<active_until, hs_active, last_event, call, marked, noted, alone>>

(* display_ui_update, with poll_touch_activity and                         *)
(* update_display_power_state: a touch counts from now, and the display    *)
(* sleeps when event and touch are both SleepAfter ago.  A time is never   *)
(* zero or in the future here, so those branches are dead.                 *)
Update(touched) ==
  /\ display.at = "update"
  /\ last_touch' = IF touched THEN 0 ELSE last_touch
  /\ awake' = (Later(display.last, last_touch') > -SleepAfter)
  /\ lit' = display.bit
  /\ display' = IdleDisplay
  /\ UNCHANGED <<active_until, hs_active, last_event, call, marked, noted, alone>>

Redraw == Look \/ LookLoad \/ LookStore \/ Copy \/ \E b \in BOOLEAN : Update(b)

-----------------------------------------------------------------------------
(* Time.  Nobody is held up for more than MaxDelay ticks.                  *)

Older(time, oldest) == Later(time - 1, oldest)

Tick ==
  /\ \A t \in Callers : call[t].began > -MaxDelay
  /\ display.now > -MaxDelay
  /\ active_until' = Older(active_until, Expired)
  /\ last_event' = Older(last_event, -SleepAfter)
  /\ last_touch' = Older(last_touch, -SleepAfter)
  /\ call' = [t \in Callers |->
       IF call[t].at = "idle" THEN call[t]
       ELSE [call[t] EXCEPT !.began = @ - 1, !.now = @ - 1]]
  /\ display' = IF display.at = "idle" THEN display
                ELSE [display EXCEPT !.now = @ - 1,
                                     !.last = Older(@, -SleepAfter)]
  /\ marked' = Older(marked, Forgotten)
  /\ noted' = Older(noted, -SleepAfter)
  /\ UNCHANGED <<hs_active, awake, lit, alone>>

Activity ==
  \/ \E t \in Callers : Mark(t) \/ MarkOther(t) \/ Note(t) \/ Continue(t)
  \/ Redraw
  \/ Tick

-----------------------------------------------------------------------------
(* The state of the bus.                                                   *)

(* The last statement of usb_hs_device_init: the driver runs already.      *)
EndOfInit ==
  /\ ~started
  /\ started' = TRUE
  /\ hs_state' = "disconnected"
  /\ raced' = raced \union {r \in {"init"} : s_usb_ready}
  /\ UNCHANGED <<s_usb_ready, event, recording, filled, streamed>>

(* tinyusb_event_handler, its two stores apart.                            *)
AttachEvent ==
  /\ event = "none" /\ ~s_usb_ready
  /\ s_usb_ready' = TRUE
  /\ event' = "attached"
  /\ streamed' = FALSE
  /\ raced' = {r \in {"audio"} : filled}
  /\ UNCHANGED <<hs_state, started, recording, filled>>

(* A pulled cable ends the recording, but not a call that is under way.    *)
DetachEvent ==
  /\ event = "none" /\ s_usb_ready
  /\ s_usb_ready' = FALSE
  /\ event' = "detached"
  /\ recording' = FALSE
  /\ raced' = {r \in {"audio"} : filled}
  /\ UNCHANGED <<hs_state, started, filled, streamed>>

(* Mutant: only the attach event is shown.                                 *)
StoreAttachedOnly ==
  /\ event # "none"
  /\ hs_state' = IF event = "attached" THEN "mounted" ELSE hs_state
  /\ event' = "none"
  /\ UNCHANGED <<s_usb_ready, started, recording, filled, streamed, raced>>

StoreState ==
  /\ event # "none"
  /\ hs_state' = IF event = "attached" THEN "mounted" ELSE "disconnected"
  /\ event' = "none"
  /\ UNCHANGED <<s_usb_ready, started, recording, filled, streamed, raced>>

(* The target PC opens and closes the microphone, on the TinyUSB task.     *)
OpenMicrophone ==
  /\ event = "none" /\ s_usb_ready /\ ~recording
  /\ recording' = TRUE
  /\ UNCHANGED <<s_usb_ready, hs_state, started, event, filled, streamed, raced>>

CloseMicrophone ==
  /\ event = "none" /\ recording
  /\ recording' = FALSE
  /\ UNCHANGED <<s_usb_ready, hs_state, started, event, filled, streamed, raced>>

(* uac_input_cb has got a whole buffer of audio, and says so.  Without one *)
(* it changes nothing here.                                                *)
FillBuffer ==
  /\ recording /\ ~filled
  /\ filled' = TRUE
  /\ streamed' = TRUE
  /\ UNCHANGED <<s_usb_ready, hs_state, started, event, recording, raced>>

StoreStreaming ==
  /\ filled
  /\ hs_state' = "streaming"
  /\ filled' = FALSE
  /\ UNCHANGED <<s_usb_ready, started, event, recording, streamed, raced>>

Usb ==
  \/ EndOfInit
  \/ AttachEvent \/ DetachEvent \/ StoreState
  \/ OpenMicrophone \/ CloseMicrophone
  \/ FillBuffer \/ StoreStreaming

Next ==
  \/ Activity /\ UNCHANGED usbVars
  \/ Usb /\ UNCHANGED activityVars

Spec == Init /\ [][Next]_vars

(* Time passes, and the display task comes round.  A call that never ends  *)
(* holds time up, and is no rest.                                          *)
Fairness == WF_activityVars(Tick) /\ WF_activityVars(Redraw)

-----------------------------------------------------------------------------
(* Properties.                                                             *)

Redrawn == \E b \in BOOLEAN : Update(b)

(* A label that is drawn green belongs to a feature in use: no matter how  *)
(* the refreshes of several tasks cross, one that saw the end of an older  *)
(* mark cannot light it for longer than three delays behind that end: that *)
(* of the task whose time it has read back, its own, and the display's.    *)
(* And a feature in use is drawn green, if nobody wrote while the snapshot *)
(* was taken: a mark that was overtaken by an older one, or a refresh that *)
(* had an older time, costs it at most the delay of a call.                *)
LabelFollowsUse ==
  [][Redrawn =>
       /\ lit' => marked > -(Active + 3 * MaxDelay)
       /\ alone /\ marked > -(Active - MaxDelay) => lit']_vars

(* The backlight follows the use of the device: it stays on for SleepAfter *)
(* behind the last touch and, but for the delay of a call, behind the last *)
(* event, and is off when both are longer ago.                             *)
BacklightFollowsUse ==
  [][Redrawn =>
       /\ last_touch' > -SleepAfter => awake'
       /\ alone /\ noted > -(SleepAfter - MaxDelay) => awake'
       /\ awake' => noted > -SleepAfter \/ last_touch' > -SleepAfter]_vars

(* When nobody uses the device any more its display goes dark and stays    *)
(* dark: neither a light nor the backlight is left on by a crossed write.  *)
Unused == last_touch # 0 /\ \A t \in Callers : call[t].at = "idle"

GoesDark == <>[]Unused => <>[](~lit /\ ~awake)

(* What the bus and the audio have been doing.                             *)
TrueState ==
  IF ~s_usb_ready THEN "disconnected"
  ELSE IF streamed THEN "streaming" ELSE "mounted"

(* Between the writers the snapshot tells the state of the bus: refused,   *)
(* mounted, or streaming once audio has come since the attach event.  Two  *)
(* races leave something else, until the next event of the bus at most:    *)
(* the end of usb_hs_device_init behind an attach event leaves             *)
(* disconnected, and a call of the audio task that an event overtakes      *)
(* leaves streaming.                                                       *)
StateAgrees ==
  started /\ event = "none" /\ ~filled =>
    \/ hs_state = TrueState
    \/ hs_state = "disconnected" /\ "init" \in raced
    \/ hs_state = "streaming" /\ "audio" \in raced
=============================================================================
