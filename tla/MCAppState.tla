----------------------------- MODULE MCAppState -----------------------------
(***************************************************************************)
(* Instance of AppState and StartUp for TLC.  The two halves of AppState   *)
(* share no variable, so a behaviour of the whole is one of each,          *)
(* interleaved: the activity is explored on a device that has started and  *)
(* whose bus rests, the bus while the device starts, again and again.      *)
(* Of the activity, a touch has no effect on the labels, nor a mark on the *)
(* backlight, so each is explored without the other.                       *)
(***************************************************************************)
EXTENDS StartUp

CONSTANTS uart, core_service

Two == {uart, core_service}

VARIABLE part

mcVars == <<vars, startVars, part>>

(* A device that has started.                                              *)
Started ==
  /\ Init
  /\ pc = "done" /\ nvs = "good" /\ wifi = FALSE
  /\ broken = {} /\ troubles = 0 /\ lost = {}
  /\ running = Services
  /\ ready = UNION {Needs[task] : task \in Services}

MCInit ==
  \/ part \in {"labels", "backlight"} /\ Started
  \/ part = "start" /\ StartInit

InUse(A) ==
  /\ part # "start"
  /\ A
  /\ part = "labels" => last_touch' <= last_touch
  /\ part = "backlight" => marked' <= marked
  /\ UNCHANGED <<usbVars, startVars, part>>

InBoot(A) == part = "start" /\ A /\ UNCHANGED <<activityVars, part>>

MCNext == InUse(Activity) \/ InBoot(StartNext)

(* Fairness of AppState, and BootFairness of StartUp.                      *)
MCSpec ==
  /\ MCInit /\ [][MCNext]_mcVars
  /\ WF_activityVars(InUse(Tick))
  /\ WF_activityVars(InUse(Redraw))
  /\ WF_startVars(InBoot(Boot))
=============================================================================
