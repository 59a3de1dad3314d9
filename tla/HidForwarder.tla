---------------------------- MODULE HidForwarder ----------------------------
(***************************************************************************)
(* The HID half of main/usb_hs_device.c, as the tasks of the firmware run  *)
(* it at the same time and without a lock:                                 *)
(*                                                                         *)
(*   - a receive task (serial_rx_task, uart_rx_task, ...) hands a decoded  *)
(*     report to usb_hs_handle_keyboard / _mouse / _mouse_absolute;        *)
(*   - core_service_task calls usb_hs_poll every 10 ms;                    *)
(*   - the TinyUSB task runs the attach, detach, suspend, resume callbacks *)
(*     for the bus events that TinyUSB's interrupt handler has queued.     *)
(*                                                                         *)
(* A step is the code between two accesses to data another task can touch. *)
(* A report is copied to and from its pending slot in two steps, so that a *)
(* copy can be interrupted; its content is the number of the event it was  *)
(* made from, once for each half.  Memory is taken to be sequentially      *)
(* consistent, with each task's stores in program order.                   *)
(***************************************************************************)
EXTENDS Integers, Sequences, FiniteSets

CONSTANTS
  Rx,           \* the tasks that call the handlers
  Traffic,      \* the kinds of report the controller sends
  MaxReports,   \* bound: events handled per kind
  MaxSuspends,  \* bound: times the target PC suspends the bus
  MaxDetaches   \* bound: times the cable to the target PC is pulled

Kinds == {"keyboard", "mouse", "mouse_abs"}

ASSUME RxAssumption == Rx # {} /\ IsFiniteSet(Rx)
ASSUME TrafficAssumption == Traffic \subseteq Kinds
ASSUME BoundsAssumption ==
  MaxReports \in Nat /\ MaxSuspends \in Nat /\ MaxDetaches \in Nat

VARIABLES
  s_usb_ready,              \* set by the attach, cleared by the detach event
  s_usb_suspended,          \* set by usb_hs_on_suspend, cleared by .._resume
  s_remote_wakeup_enabled,  \* the host armed remote wakeup, not yet used
  s_woke_recently,          \* now - s_last_remote_wakeup_us < 20000
  s_pending_report,         \* per kind: the slot holds a report to send
  s_pending,                \* per kind: the slot
  rx,                       \* per receive task: where it is, and its event
  poll,                     \* where core_service_task is in usb_hs_poll
  bus,                      \* the device as TinyUSB sees it
  wake_allowed,             \* TinyUSB: the host armed remote wakeup
  ep,                       \* TinyUSB: the HID IN endpoint
  events,                   \* TinyUSB: bus events its task has not handled
  callback,                 \* where its task is in usb_hs_on_suspend/_resume
  handled,                  \* per kind: events the handlers accepted so far
  received,                 \* per kind: the reports the target PC received
  signalled,                \* tasks that signalled since wakeup was last armed
  late,                     \* tasks that had signalled before, and had yet to
                            \* disarm when it was
  excused,                  \* per kind: the events whose report was replaced
                            \* in the slot, or met another user of it
  suspends, detaches        \* counters of the bounded events

device == <<s_usb_ready, s_usb_suspended, s_remote_wakeup_enabled,
            s_woke_recently>>
slots  == <<s_pending_report, s_pending>>
tasks  == <<rx, poll>>
tud    == <<events, callback>>
usb    == <<bus, wake_allowed, ep, tud>>
seen   == <<handled, received, signalled, late, excused>>
bounds == <<suspends, detaches>>
vars   == <<device, slots, tasks, usb, seen, bounds>>

-----------------------------------------------------------------------------
(* Reports, program counters and the endpoint.                             *)

Report == [a : Nat, b : Nat]
Whole(n) == [a |-> n, b |-> n]
NoReport == Whole(0)          \* the zero-initialised slot

RxAt == {"idle", "wake", "armed", "throttle", "signal", "stamp", "disarm",
         "send", "store_a", "store_b", "store_flag"}
IdleRx == [at |-> "idle", kind |-> "keyboard", id |-> 0]

PollAt == {"idle", "check", "copy_a", "submit", "clear"}
IdlePoll == [at |-> "idle", kind |-> "keyboard", copy |-> NoReport]

(* usb_hs_poll tries the keyboard, then the mouse, then the absolute mouse *)
AfterKind == [keyboard |-> "mouse", mouse |-> "mouse_abs"]

(* Mutant: the pass goes on past the last kind.                            *)
NextCheckPastEnd(k) ==
  [IdlePoll EXCEPT !.at = "check",
                   !.kind = IF k = "mouse_abs" THEN "none" ELSE AfterKind[k]]
NextCheck(k) ==
  IF k = "mouse_abs" THEN IdlePoll
                     ELSE [IdlePoll EXCEPT !.at = "check", !.kind = AfterKind[k]]

CallbackAt == {"idle", "enabled", "time"}
NoCallback == [at |-> "idle", arm |-> FALSE]
TudIdle == events = <<>> /\ callback.at = "idle"

FreeEndpoint == [status |-> "free", kind |-> "keyboard", report |-> NoReport]
ClaimedEndpoint == [FreeEndpoint EXCEPT !.status = "claimed"]
Transfer(k, r) == [status |-> "busy", kind |-> k, report |-> r]

(* tud_hid_ready: configured, not suspended, and no report on its way.  It *)
(* is modelled together with the claim that tud_hid_report makes (a task   *)
(* that loses the claim after a positive answer fails like one that got a  *)
(* negative answer), except where the poll reads a slot in between.        *)
HidReady == bus = "active" /\ ep.status = "free"

Init ==
  /\ s_usb_ready = FALSE
  /\ s_usb_suspended = FALSE
  /\ s_remote_wakeup_enabled = FALSE
  /\ s_woke_recently = FALSE
  /\ s_pending_report = [k \in Kinds |-> FALSE]
  /\ s_pending = [k \in Kinds |-> NoReport]
  /\ rx = [t \in Rx |-> IdleRx]
  /\ poll = IdlePoll
  /\ bus = "detached"
  /\ wake_allowed = FALSE
  /\ ep = FreeEndpoint
  /\ events = <<>>
  /\ callback = NoCallback
  /\ handled = [k \in Kinds |-> 0]
  /\ received = [k \in Kinds |-> <<>>]
  /\ signalled = {}
  /\ late = {}
  /\ excused = [k \in Kinds |-> {}]
  /\ suspends = 0
  /\ detaches = 0

-----------------------------------------------------------------------------
(* usb_hs_handle_*: the steps of a receive task.                           *)

RxGoes(t, from, to) ==
  /\ rx[t].at = from
  /\ rx' = [rx EXCEPT ![t].at = to]

(* The entry of a handler: an event is dropped unless the device is        *)
(* mounted.                                                                *)
Handle(t, k) ==
  /\ rx[t].at = "idle"
  /\ s_usb_ready
  /\ handled[k] < MaxReports
  /\ handled' = [handled EXCEPT ![k] = @ + 1]
  /\ rx' = [rx EXCEPT ![t] = [at |-> "wake", kind |-> k, id |-> handled[k] + 1]]
  /\ UNCHANGED <<device, slots, poll, usb, received, signalled, late, excused, bounds>>

HandleUnmounted(t) ==
  /\ rx[t].at = "idle"
  /\ ~s_usb_ready
  /\ UNCHANGED vars

(* request_remote_wakeup_if_needed: its three tests, each of a variable    *)
(* that another task stores to, ...                                        *)
WakeTest(t, from, passed, to) ==
  /\ RxGoes(t, from, IF passed THEN to ELSE "send")
  /\ UNCHANGED <<device, slots, poll, usb, seen, bounds>>

WakeIfSuspended(t) == WakeTest(t, "wake", s_usb_suspended, "armed")
WakeIfArmed(t) == WakeTest(t, "armed", s_remote_wakeup_enabled, "throttle")

(* Mutant: the comparison with the time of the last wakeup is turned.      *)
WakeIfRecent(t) == WakeTest(t, "throttle", s_woke_recently, "signal")
WakeIfLongAgo(t) == WakeTest(t, "throttle", ~s_woke_recently, "signal")

(* ... tud_remote_wakeup, which refuses unless TinyUSB holds the bus       *)
(* suspended with wakeup armed ...                                         *)
WakeSignal(t) ==
  LET accepted == bus = "suspended" /\ wake_allowed IN
  /\ RxGoes(t, "signal", IF accepted THEN "stamp" ELSE "send")
  /\ signalled' = IF accepted THEN signalled \union {t} ELSE signalled
  /\ UNCHANGED <<device, slots, poll, usb, handled, received, late, excused, bounds>>

(* ... and the two stores that follow a success.  The time stored is the   *)
(* one read before the call, so it may already be more than 20 ms old.     *)
WakeStamp(t) ==
  /\ RxGoes(t, "stamp", "disarm")
  /\ s_woke_recently' \in BOOLEAN
  /\ UNCHANGED <<s_usb_ready, s_usb_suspended, s_remote_wakeup_enabled,
                 slots, poll, usb, seen, bounds>>

(* Mutant: the wakeup stays armed after it was used.                       *)
WakeStaysArmed(t) ==
  /\ RxGoes(t, "disarm", "send")
  /\ UNCHANGED <<device, slots, poll, usb, seen, bounds>>

WakeDisarm(t) ==
  /\ RxGoes(t, "disarm", "send")
  /\ s_remote_wakeup_enabled' = FALSE
  /\ UNCHANGED <<s_usb_ready, s_usb_suspended, s_woke_recently,
                 slots, poll, usb, seen, bounds>>

(* send_*_report_now: ready, claim, copy to the endpoint buffer, transfer. *)
(* The source of the copy is the task's own, so it is one step.            *)
Send(t) ==
  \/ /\ HidReady
     /\ rx[t].at = "send"
     /\ ep' = Transfer(rx[t].kind, Whole(rx[t].id))
     /\ rx' = [rx EXCEPT ![t] = IdleRx]
     /\ UNCHANGED <<device, slots, poll, bus, wake_allowed, tud, seen, bounds>>
  \/ /\ ~HidReady
     /\ RxGoes(t, "send", "store_a")
     /\ UNCHANGED <<device, slots, poll, usb, seen, bounds>>

(* What a store to a slot may cost: the report it replaces, the report     *)
(* stored if the poll is between its copy of the slot and the reset of the *)
(* flag, and the reports of all tasks that are in handlers of this kind    *)
(* together.                                                               *)
Together(t) == {u \in Rx : rx[u].at # "idle" /\ rx[u].kind = rx[t].kind}

PollInSlot(t) ==
  poll.at \in {"copy_a", "submit", "clear"} /\ poll.kind = rx[t].kind

Excuse(t, replaced) ==
  excused' = [excused EXCEPT ![rx[t].kind] =
    @ \union replaced
      \union {n \in {rx[t].id} : PollInSlot(t)}
      \union {n \in {rx[u].id : u \in Together(t)} : Together(t) # {t}}]

(* The report in a flagged slot.                                           *)
Replaced(t) == {n \in {s_pending[rx[t].kind].a} : s_pending_report[rx[t].kind]}

StoreA(t) ==
  /\ RxGoes(t, "store_a", "store_b")
  /\ s_pending' = [s_pending EXCEPT ![rx[t].kind].a = rx[t].id]
  /\ Excuse(t, Replaced(t))
  /\ UNCHANGED <<device, s_pending_report, poll, usb, handled, received,
                 signalled, late, bounds>>

StoreB(t) ==
  /\ RxGoes(t, "store_b", "store_flag")
  /\ s_pending' = [s_pending EXCEPT ![rx[t].kind].b = rx[t].id]
  /\ Excuse(t, {})
  /\ UNCHANGED <<device, s_pending_report, poll, usb, handled, received,
                 signalled, late, bounds>>

(* Mutant: the handler leaves without raising the flag.                    *)
StoreWithoutFlag(t) ==
  /\ rx[t].at = "store_flag"
  /\ rx' = [rx EXCEPT ![t] = IdleRx]
  /\ Excuse(t, {})
  /\ UNCHANGED <<device, slots, poll, usb, handled, received, signalled, late,
                 bounds>>

StoreFlag(t) ==
  /\ rx[t].at = "store_flag"
  /\ s_pending_report' = [s_pending_report EXCEPT ![rx[t].kind] = TRUE]
  /\ rx' = [rx EXCEPT ![t] = IdleRx]
  /\ Excuse(t, {})
  /\ UNCHANGED <<device, s_pending, poll, usb, handled, received, signalled,
                 late, bounds>>

RxStep(t) ==
  \/ WakeIfSuspended(t) \/ WakeIfArmed(t) \/ WakeIfLongAgo(t)
  \/ WakeSignal(t) \/ WakeStamp(t) \/ WakeDisarm(t)
  \/ Send(t) \/ StoreA(t) \/ StoreB(t) \/ StoreFlag(t)

-----------------------------------------------------------------------------
(* usb_hs_poll: the steps of core_service_task.                            *)

(* Not mounted, or the endpoint cannot take a report: back to sleep.       *)
PollNotReady ==
  /\ poll.at = "idle"
  /\ ~(s_usb_ready /\ HidReady)
  /\ UNCHANGED vars

(* The loop condition.  After a report was sent (progress, continue) the   *)
(* loop tests it again: that is the same step, from "idle", as an active   *)
(* bus implies s_usb_ready.                                                *)
PollBegin ==
  /\ poll.at = "idle"
  /\ s_usb_ready /\ HidReady
  /\ poll' = [poll EXCEPT !.at = "check", !.kind = "keyboard"]
  /\ UNCHANGED <<device, slots, rx, usb, seen, bounds>>

(* Mutant: a kind with nothing to send ends the pass.                      *)
PollGivesUp ==
  /\ poll.at = "check"
  /\ ~(s_pending_report[poll.kind] /\ HidReady)
  /\ poll' = IdlePoll
  /\ UNCHANGED <<device, slots, rx, usb, seen, bounds>>

(* Nothing pending of this kind, or the report cannot be sent now.         *)
PollSkip ==
  /\ poll.at = "check"
  /\ ~(s_pending_report[poll.kind] /\ HidReady)
  /\ poll' = NextCheck(poll.kind)
  /\ UNCHANGED <<device, slots, rx, usb, seen, bounds>>

(* Mutant: the slot is sent whether or not the flag says it holds a report *)
PollClaimBlindly ==
  /\ poll.at = "check"
  /\ HidReady
  /\ ep' = IF poll.kind = "keyboard" THEN ClaimedEndpoint ELSE ep
  /\ poll' = [poll EXCEPT !.at = "copy_a"]
  /\ UNCHANGED <<device, slots, rx, bus, wake_allowed, tud, seen, bounds>>

(* send_*_report_now on the slot.  The keyboard slot is what               *)
(* tud_hid_report copies once it has claimed the endpoint; a mouse slot is *)
(* translated to a HID report first, before the endpoint is claimed.       *)
PollClaim ==
  /\ poll.at = "check"
  /\ s_pending_report[poll.kind] /\ HidReady
  /\ ep' = IF poll.kind = "keyboard" THEN ClaimedEndpoint ELSE ep
  /\ poll' = [poll EXCEPT !.at = "copy_a"]
  /\ UNCHANGED <<device, slots, rx, bus, wake_allowed, tud, seen, bounds>>

(* One half of the slot is copied, ...                                     *)
PollCopyA ==
  /\ poll.at = "copy_a"
  /\ poll' = [poll EXCEPT !.at = "submit", !.copy.a = s_pending[poll.kind].a]
  /\ UNCHANGED <<device, slots, rx, usb, seen, bounds>>

(* ... then the other, and the transfer starts; unless a receive task took *)
(* the endpoint first, or the cable was pulled: the transfer then fails,   *)
(* or is accepted and never reaches anyone.                                *)
PollSubmit ==
  /\ poll.at = "submit"
  /\ LET report == [poll.copy EXCEPT !.b = s_pending[poll.kind].b]
         done   == [poll EXCEPT !.at = "clear", !.copy = report]
     IN \/ /\ bus # "detached" /\ ep.status # "busy"
           /\ ep' = Transfer(poll.kind, report)
           /\ poll' = done
        \/ /\ bus # "detached" /\ ep.status = "busy"
           /\ poll' = NextCheck(poll.kind)
           /\ UNCHANGED ep
        \/ /\ bus = "detached"
           /\ poll' \in {done, NextCheck(poll.kind)}
           /\ UNCHANGED ep
  /\ UNCHANGED <<device, slots, rx, bus, wake_allowed, tud, seen, bounds>>

(* Mutant: the report was sent and its slot stays flagged.                 *)
PollNoClear ==
  /\ poll.at = "clear"
  /\ poll' = IdlePoll
  /\ UNCHANGED <<device, slots, rx, usb, seen, bounds>>

(* The report was sent: its slot no longer holds a report to send.         *)
PollClear ==
  /\ poll.at = "clear"
  /\ s_pending_report' = [s_pending_report EXCEPT ![poll.kind] = FALSE]
  /\ poll' = IdlePoll
  /\ UNCHANGED <<device, s_pending, rx, usb, seen, bounds>>

PollStep ==
  \/ PollBegin \/ PollSkip \/ PollClaim \/ PollCopyA \/ PollSubmit \/ PollClear

-----------------------------------------------------------------------------
(* The target PC, TinyUSB's interrupt handler and its task.  The handler   *)
(* changes the state that tud_hid_ready and tud_remote_wakeup look at and  *)
(* queues the event, for which the task calls back later.                  *)

(* tinyusb_event_handler: TINYUSB_EVENT_ATTACHED, after the task has       *)
(* handled all events of before.  In between, TinyUSB's state and          *)
(* s_usb_ready differ for a moment in which events are still dropped and   *)
(* the poll still returns: it is left out.                                 *)
Attach ==
  /\ bus = "detached" /\ TudIdle
  /\ bus' = "active"
  /\ s_usb_ready' = TRUE
  /\ UNCHANGED <<s_usb_suspended, s_remote_wakeup_enabled, s_woke_recently,
                 slots, tasks, wake_allowed, ep, tud, seen, bounds>>

(* The cable is pulled: TinyUSB resets its state, the endpoint with        *)
(* whatever report it held; its task will skip the events queued before.   *)
HostDetaches ==
  /\ bus # "detached"
  /\ detaches < MaxDetaches
  /\ detaches' = detaches + 1
  /\ bus' = "detached"
  /\ wake_allowed' = FALSE
  /\ ep' = FreeEndpoint
  /\ events' = <<"detach">>
  /\ UNCHANGED <<device, slots, tasks, callback, seen, suspends>>

(* The target PC suspends the bus.  Before, it may have changed whether    *)
(* the device shall wake it, with a request that TinyUSB's task answers.   *)
HostSuspends(remote_wakeup_en) ==
  /\ bus = "active"
  /\ TudIdle \/ remote_wakeup_en = wake_allowed
  /\ suspends < MaxSuspends
  /\ suspends' = suspends + 1
  /\ bus' = "suspended"
  /\ wake_allowed' = remote_wakeup_en
  /\ events' = Append(events, "suspend")
  /\ UNCHANGED <<device, slots, tasks, ep, callback, seen, detaches>>

HostResumes ==
  /\ bus = "suspended"
  /\ bus' = "active"
  /\ events' = Append(events, "resume")
  /\ UNCHANGED <<device, slots, tasks, wake_allowed, ep, callback, seen, bounds>>

NextEvent(e) ==
  /\ callback.at = "idle"
  /\ events # <<>> /\ Head(events) = e
  /\ events' = Tail(events)

(* tinyusb_event_handler: TINYUSB_EVENT_DETACHED resets s_usb_ready only.  *)
OnDetach ==
  /\ NextEvent("detach")
  /\ s_usb_ready' = FALSE
  /\ UNCHANGED <<s_usb_suspended, s_remote_wakeup_enabled, s_woke_recently,
                 slots, tasks, bus, wake_allowed, ep, callback, seen, bounds>>

(* usb_hs_on_suspend and usb_hs_on_resume, called by tud_suspend_cb and    *)
(* tud_resume_cb: the first of their three stores, ...                     *)
OnSuspend ==
  /\ NextEvent("suspend")
  /\ s_usb_suspended' = TRUE
  /\ callback' = [at |-> "enabled", arm |-> wake_allowed]
  /\ UNCHANGED <<s_usb_ready, s_remote_wakeup_enabled, s_woke_recently,
                 slots, tasks, bus, wake_allowed, ep, seen, bounds>>

OnResume ==
  /\ NextEvent("resume")
  /\ s_usb_suspended' = FALSE
  /\ callback' = [at |-> "enabled", arm |-> FALSE]
  /\ UNCHANGED <<s_usb_ready, s_remote_wakeup_enabled, s_woke_recently,
                 slots, tasks, bus, wake_allowed, ep, seen, bounds>>

(* The tasks that have signalled and not disarmed yet.                     *)
Disarming == {t \in Rx : rx[t].at \in {"stamp", "disarm"}}

(* ... the second, ...                                                     *)
StoreEnabled ==
  /\ callback.at = "enabled"
  /\ s_remote_wakeup_enabled' = callback.arm
  /\ callback' = [callback EXCEPT !.at = "time"]
  /\ signalled' = IF callback.arm THEN {} ELSE signalled
  /\ late' = IF callback.arm THEN Disarming ELSE late
  /\ UNCHANGED <<s_usb_ready, s_usb_suspended, s_woke_recently, slots, tasks,
                 bus, wake_allowed, ep, events, handled, received, excused,
                 bounds>>

(* Mutant: the time of the last wakeup survives.                           *)
KeepTime ==
  /\ callback.at = "time"
  /\ callback' = NoCallback
  /\ UNCHANGED <<device, slots, tasks, bus, wake_allowed, ep, events, seen, bounds>>

(* ... and the third, of 0.                                                *)
StoreTime ==
  /\ callback.at = "time"
  /\ s_woke_recently' = FALSE
  /\ callback' = NoCallback
  /\ UNCHANGED <<s_usb_ready, s_usb_suspended, s_remote_wakeup_enabled,
                 slots, tasks, bus, wake_allowed, ep, events, seen, bounds>>

TudStep == OnDetach \/ OnSuspend \/ OnResume \/ StoreEnabled \/ StoreTime

(* The target PC's interrupt-IN transaction takes the report.              *)
HostTakes ==
  /\ bus = "active"
  /\ ep.status = "busy"
  /\ received' = [received EXCEPT ![ep.kind] = Append(@, ep.report)]
  /\ ep' = FreeEndpoint
  /\ UNCHANGED <<device, slots, tasks, bus, wake_allowed, tud, handled,
                 signalled, late, excused, bounds>>

(* 20 ms pass since the last remote wakeup.                                *)
ThrottleExpires ==
  /\ s_woke_recently
  /\ s_woke_recently' = FALSE
  /\ UNCHANGED <<s_usb_ready, s_usb_suspended, s_remote_wakeup_enabled,
                 slots, tasks, usb, seen, bounds>>

Next ==
  \/ \E t \in Rx, k \in Traffic : Handle(t, k)
  \/ \E t \in Rx : HandleUnmounted(t) \/ RxStep(t)
  \/ PollNotReady
  \/ PollStep
  \/ Attach
  \/ HostDetaches
  \/ \E e \in BOOLEAN : HostSuspends(e)
  \/ HostResumes
  \/ TudStep
  \/ HostTakes
  \/ ThrottleExpires

Spec == Init /\ [][Next]_vars

(* Every task runs on (a receive task has the second highest priority of   *)
(* the system, core_service_task sleeps 10 ms at a time, TinyUSB's task    *)
(* waits for its queue) and the target PC polls an active HID endpoint     *)
(* every bInterval.  Nothing makes the controller send, the host suspend   *)
(* or resume, or the cable move.                                           *)
Fairness ==
  /\ \A t \in Rx : WF_vars(RxStep(t))
  /\ WF_vars(PollStep)
  /\ WF_vars(TudStep)
  /\ WF_vars(HostTakes)

FairSpec == Spec /\ Fairness

-----------------------------------------------------------------------------
(* Properties.                                                             *)

(* Every variable holds a value of its kind.                               *)
TypeOK ==
  /\ s_usb_ready \in BOOLEAN
  /\ s_usb_suspended \in BOOLEAN
  /\ s_remote_wakeup_enabled \in BOOLEAN
  /\ s_woke_recently \in BOOLEAN
  /\ s_pending_report \in [Kinds -> BOOLEAN]
  /\ s_pending \in [Kinds -> Report]
  /\ rx \in [Rx -> [at : RxAt, kind : Kinds, id : Nat]]
  /\ poll \in [at : PollAt, kind : Kinds, copy : Report]
  /\ bus \in {"detached", "active", "suspended"}
  /\ wake_allowed \in BOOLEAN
  /\ ep \in [status : {"free", "claimed", "busy"}, kind : Kinds, report : Report]
  /\ events \in Seq({"suspend", "resume", "detach"})
  /\ callback \in [at : CallbackAt, arm : BOOLEAN]
  /\ handled \in [Kinds -> Nat]
  /\ received \in [Kinds -> Seq(Report)]
  /\ signalled \in SUBSET Rx
  /\ late \in SUBSET Rx
  /\ excused \in [Kinds -> SUBSET Nat]
  /\ suspends \in Nat
  /\ detaches \in Nat

Written(k, r) == r.a \in 1..handled[k] /\ r.b \in 1..handled[k]

(* What goes to the target PC was written by a handler of its kind: the    *)
(* zeroes of a slot no handler has filled (for a keyboard: "all keys up")  *)
(* and the slots of other kinds never reach the endpoint, however the      *)
(* stores of the handlers, the copies of the poll and the detaches         *)
(* interleave.                                                             *)
OnlyHandled ==
  /\ \A k \in Kinds : s_pending_report[k] => Written(k, s_pending[k])
  /\ ep.status = "busy" => Written(ep.kind, ep.report)

(* No task signals remote wakeup twice on one arming of it, even if        *)
(* several tasks handle events at once and 20 ms go by between them.  In   *)
(* one suspension it may: with a signal left over from the last one, given *)
(* when the bus sleeps again and usb_hs_on_suspend has not armed yet.      *)
NoSecondSignal == \A t \in signalled : rx[t].at # "signal"

Delivered(k, n) ==
  {i \in DOMAIN received[k] : received[k][i] = Whole(n)}

(* A report can be sent again (a handler raises the flag of a report that  *)
(* the poll has just sent because of an older flag), but no report is sent *)
(* more often than once and once more for each receive task.               *)
DuplicationBound ==
  \A k \in Kinds : \A n \in 1..MaxReports :
    Cardinality(Delivered(k, n)) <= 1 + Cardinality(Rx)

(* Nothing is on its way: every task is between two calls, the endpoint is *)
(* free and no slot is flagged.                                            *)
Quiet ==
  /\ \A t \in Rx : rx[t].at = "idle"
  /\ poll.at = "idle"
  /\ ep.status = "free"
  /\ \A k \in Kinds : ~s_pending_report[k]

NeverDetached == bus # "detached" /\ detaches = 0

(* When all is quiet, every report handled has reached the target PC, also *)
(* one that was left pending - unless a later one replaced it while it was *)
(* pending, it was stored while the poll was between the copy of the slot  *)
(* and the reset of its flag, or another task was handling one of its kind *)
(* at the same time.                                                       *)
LossNeedsOverlap ==
  Quiet /\ NeverDetached =>
    \A k \in Kinds : \A n \in 1..handled[k] :
      n \in excused[k] \/ Delivered(k, n) # {}

(* A target PC that went to sleep with wakeup armed can be woken until it  *)
(* has been, once usb_hs_on_suspend is through: no disarm, time or flag of *)
(* an earlier suspension is left over - unless a task had signalled before *)
(* the callback armed the wakeup, and stores its disarm after it.          *)
ArmedUntilSignalled ==
  bus = "suspended" /\ wake_allowed /\ TudIdle /\ signalled = {} /\ late = {} =>
    s_usb_suspended /\ s_remote_wakeup_enabled /\ ~s_woke_recently

(* A pending report is sent: on an active bus the slot of each kind is     *)
(* emptied, even that of the kind polled last, once the bounded stream of  *)
(* events has paused.                                                      *)
PendingDrains ==
  \A k \in Kinds : []<>(~s_pending_report[k] \/ bus # "active")

(* Activity wakes the target PC: an event a handler has accepted while the *)
(* bus sleeps with wakeup armed leads to the signal, its own or that of an *)
(* event before it, or the bus is awake again - if usb_hs_on_suspend was   *)
(* through by then, and overtaken by no disarm.                            *)
ActivityWakes ==
  \A t \in Rx :
    rx[t].at = "wake" /\ bus = "suspended" /\ wake_allowed /\ TudIdle /\ late = {}
      ~> signalled # {} \/ bus # "suspended"

(* README.md:20-21, "when the host PC suspends with wake enabled, incoming *)
(* keyboard or mouse activity triggers a USB remote wakeup": also an event *)
(* that is in a handler when the bus falls asleep, or comes soon after.    *)
ActivityTriggersWakeup ==
  \A t \in Rx :
    rx[t].at # "idle" /\ bus = "suspended" /\ wake_allowed
      ~> signalled # {} \/ bus # "suspended"

(* README.md:16-17, "keyboard, mouse, and microphone data are forwarded":  *)
(* an older report never follows a newer one of its kind.                  *)
ForwardedInOrder ==
  \A k \in Kinds : \A i, j \in DOMAIN received[k] :
    i < j => received[k][i].a <= received[k][j].a

(* README.md:16-17: when all is quiet, the last report handled of each     *)
(* kind has been forwarded.                                                *)
NewestForwarded ==
  Quiet /\ NeverDetached =>
    \A k \in Kinds : handled[k] > 0 => Delivered(k, handled[k]) # {}

(* README.md:16-17: the reports forwarded are reports that were handled,   *)
(* never the first half of one with the second half of another.            *)
ForwardedWhole ==
  \A k \in Kinds : \A i \in DOMAIN received[k] :
    received[k][i].a = received[k][i].b
=============================================================================
