------------------------- MODULE HidForwarderProofs -------------------------
(* Theorems about HidForwarder, for any set of receive tasks, any traffic  *)
(* and any bounds.                                                         *)
EXTENDS HidForwarder, FiniteSetTheorems, SequenceTheorems, TLAPS

-----------------------------------------------------------------------------
(* The inductive invariants.                                               *)

(* Where the halves of a report come from.  A flag is raised only after    *)
(* both halves of the slot were stored, so a slot that was ever flagged is *)
(* written and stays written; a task between StoreA and StoreFlag has      *)
(* written what it has passed; the poll copies a slot only while, or       *)
(* after, it was flagged.                                                  *)
IdsAccepted ==
  /\ \A k \in Kinds : s_pending[k].a <= handled[k] /\ s_pending[k].b <= handled[k]
  /\ \A t \in Rx : rx[t].at # "idle" => rx[t].id \in 1..handled[rx[t].kind]

StoresUnderWay ==
  \A t \in Rx :
    /\ rx[t].at \in {"store_b", "store_flag"} => s_pending[rx[t].kind].a > 0
    /\ rx[t].at = "store_flag" => s_pending[rx[t].kind].b > 0

CopyUnderWay ==
  /\ poll.at \in {"copy_a", "submit"} => Written(poll.kind, s_pending[poll.kind])
  /\ poll.at = "submit" => poll.copy.a \in 1..handled[poll.kind]

WrittenInv == TypeOK /\ IdsAccepted /\ StoresUnderWay /\ CopyUnderWay /\ OnlyHandled

(* A task that signalled wakeup has the two stores still to make, or the   *)
(* wakeup is disarmed and the task is not past the test of it: it finds it *)
(* armed again only after usb_hs_on_suspend has armed it.                  *)
SignalInv ==
  \A t \in signalled :
    \/ rx[t].at \in {"stamp", "disarm"}
    \/ rx[t].at \notin {"throttle", "signal"} /\ ~s_remote_wakeup_enabled

(* The steps of request_remote_wakeup_if_needed, and those of the bus, of  *)
(* TinyUSB's task and of the clock.                                        *)
WakeStep(t) ==
  \/ WakeIfSuspended(t) \/ WakeIfArmed(t) \/ WakeIfLongAgo(t)
  \/ WakeSignal(t) \/ WakeStamp(t) \/ WakeDisarm(t)

BusStep ==
  \/ Attach \/ HostDetaches \/ (\E e \in BOOLEAN : HostSuspends(e)) \/ HostResumes
  \/ TudStep \/ ThrottleExpires

(* What they have nothing to do with.                                      *)
LEMMA WakeFrame ==
  ASSUME NEW t \in Rx, WakeStep(t)
  PROVE  /\ UNCHANGED <<slots, poll, usb, s_usb_ready, handled, received, excused, bounds>>
         /\ rx[t].at \in {"wake", "armed", "throttle", "signal", "stamp", "disarm"}
         /\ \E to \in {"armed", "throttle", "signal", "stamp", "disarm", "send"} :
              rx' = [rx EXCEPT ![t].at = to]
<1> USE DEF WakeStep, WakeIfSuspended, WakeIfArmed, WakeIfLongAgo, WakeTest,
            WakeSignal, WakeStamp, WakeDisarm, RxGoes, device, seen
<1>1. UNCHANGED <<slots, poll, usb, s_usb_ready, handled, received, excused, bounds>>
  OBVIOUS
<1>2. rx[t].at \in {"wake", "armed", "throttle", "signal", "stamp", "disarm"}
  OBVIOUS
<1>3. \E to \in {"armed", "throttle", "signal", "stamp", "disarm", "send"} :
        rx' = [rx EXCEPT ![t].at = to]
  OBVIOUS
<1> QED BY <1>1, <1>2, <1>3

LEMMA BusFrame ==
  ASSUME BusStep
  PROVE  /\ UNCHANGED <<slots, rx, poll, handled, received, excused>>
         /\ HostDetaches \/ (ep' = ep /\ detaches' = detaches)
<1> USE DEF slots, tasks, seen, bounds
<1>1. CASE Attach \/ HostResumes \/ ThrottleExpires
  BY <1>1 DEF Attach, HostResumes, ThrottleExpires, usb
<1>2. CASE HostDetaches
  BY <1>2 DEF HostDetaches
<1>3. ASSUME NEW e \in BOOLEAN, HostSuspends(e)
      PROVE  UNCHANGED <<slots, rx, poll, handled, received, excused, ep, detaches>>
  BY <1>3 DEF HostSuspends
<1>4. CASE OnDetach \/ OnSuspend \/ OnResume
  BY <1>4 DEF OnDetach, OnSuspend, OnResume
<1>5. CASE StoreEnabled \/ StoreTime
  BY <1>5 DEF StoreEnabled, StoreTime
<1> QED BY <1>1, <1>2, <1>3, <1>4, <1>5 DEF BusStep, TudStep

-----------------------------------------------------------------------------
(* Every variable holds a value of its kind in every reachable state.      *)

RxType == [Rx -> [at : RxAt, kind : Kinds, id : Nat]]
PollType == [at : PollAt, kind : Kinds, copy : Report]
EpType == [status : {"free", "claimed", "busy"}, kind : Kinds, report : Report]

LEMMA ZeroValues ==
  /\ NoReport \in Report
  /\ IdleRx \in [at : RxAt, kind : Kinds, id : Nat]
  /\ IdlePoll \in PollType
  /\ FreeEndpoint \in EpType
  /\ ClaimedEndpoint \in EpType
<1>1. NoReport \in Report
  BY DEF NoReport, Whole, Report
<1>2. "keyboard" \in Kinds
  BY DEF Kinds
<1>3. IdleRx \in [at : RxAt, kind : Kinds, id : Nat]
  BY <1>2 DEF IdleRx, RxAt
<1>4. IdlePoll \in PollType
  BY <1>1, <1>2 DEF IdlePoll, PollType, PollAt
<1>5. FreeEndpoint \in EpType
  BY <1>1, <1>2 DEF FreeEndpoint, EpType
<1>6. ClaimedEndpoint \in EpType
  BY <1>5 DEF ClaimedEndpoint, EpType
<1> QED BY <1>1, <1>3, <1>4, <1>5, <1>6

LEMMA TypeInit == Init => TypeOK
<1> SUFFICES ASSUME Init PROVE TypeOK
  OBVIOUS
<1>1. /\ s_pending \in [Kinds -> Report]
      /\ rx \in RxType
      /\ poll \in PollType
      /\ ep \in EpType
  BY ZeroValues DEF Init, RxType
<1>2. /\ s_pending_report \in [Kinds -> BOOLEAN]
      /\ excused \in [Kinds -> SUBSET Nat]
      /\ handled \in [Kinds -> Nat]
      /\ received \in [Kinds -> Seq(Report)]
  BY DEF Init
<1>3. /\ events \in Seq({"suspend", "resume", "detach"})
      /\ callback \in [at : CallbackAt, arm : BOOLEAN]
  BY DEF Init, NoCallback, CallbackAt
<1> QED BY <1>1, <1>2, <1>3 DEF Init, TypeOK, RxType, PollType, EpType

(* Moving a task on, and moving the poll to the next kind, keep the types. *)
LEMMA RxGoesTypes ==
  ASSUME rx \in RxType, NEW t \in Rx, NEW to \in RxAt,
         rx' = [rx EXCEPT ![t].at = to]
  PROVE  rx' \in RxType
  BY DEF RxType

LEMMA NextCheckTypes ==
  ASSUME NEW k \in Kinds
  PROVE  NextCheck(k) \in PollType
<1>1. CASE k = "mouse_abs"
  BY <1>1, ZeroValues DEF NextCheck
<1>2. CASE k # "mouse_abs"
  <2>1. AfterKind[k] \in Kinds
    BY <1>2 DEF AfterKind, Kinds
  <2> QED BY <1>2, <2>1, ZeroValues DEF NextCheck, PollType, PollAt
<1> QED BY <1>1, <1>2

LEMMA ExcuseTypes ==
  ASSUME TypeOK, NEW t \in Rx, NEW replaced \in SUBSET Nat, Excuse(t, replaced)
  PROVE  excused' \in [Kinds -> SUBSET Nat]
<1>1. \A u \in Rx : rx[u].id \in Nat
  BY DEF TypeOK
<1> DEFINE stored == {n \in {rx[t].id} : PollInSlot(t)}
           shared == {n \in {rx[u].id : u \in Together(t)} : Together(t) # {t}}
<1>2. stored \in SUBSET Nat /\ shared \in SUBSET Nat
  BY <1>1 DEF Together
<1>3. excused' = [excused EXCEPT ![rx[t].kind] = @ \union replaced \union stored \union shared]
  BY DEF Excuse
<1> QED BY <1>2, <1>3 DEF TypeOK

LEMMA ReplacedTypes ==
  ASSUME TypeOK, NEW t \in Rx
  PROVE  Replaced(t) \in SUBSET Nat
  BY SMTT(30) DEF TypeOK, Replaced, Report

(* A step of a receive task that changes only where it is, or also a slot. *)
LEMMA RxPart ==
  ASSUME TypeOK, rx' \in RxType, UNCHANGED <<device, slots, poll, usb, seen, bounds>>
  PROVE  TypeOK'
<1>1. UNCHANGED <<device, slots, poll>>
  OBVIOUS
<1>2. UNCHANGED <<usb, seen, bounds>>
  OBVIOUS
<1> QED
  BY SMTT(30), <1>1, <1>2
  DEF TypeOK, RxType, device, slots, usb, tud, seen, bounds

LEMMA SlotPart ==
  ASSUME TypeOK, rx' \in RxType, s_pending' \in [Kinds -> Report],
         s_pending_report' \in [Kinds -> BOOLEAN], excused' \in [Kinds -> SUBSET Nat],
         UNCHANGED <<device, poll, usb, handled, received, signalled, late, bounds>>
  PROVE  TypeOK'
<1>1. UNCHANGED <<device, poll>>
  OBVIOUS
<1>2. UNCHANGED <<usb, handled, received, signalled, late, bounds>>
  OBVIOUS
<1> QED
  BY SMTT(30), <1>1, <1>2 DEF TypeOK, RxType, device, usb, tud, bounds

(* What a receive task does keeps every variable in its type.              *)
LEMMA RxTypes ==
  ASSUME TypeOK, NEW t \in Rx, RxStep(t)
  PROVE  TypeOK'
<1> USE DEF slots, seen
<1>1. CASE WakeIfSuspended(t) \/ WakeIfArmed(t) \/ WakeIfLongAgo(t)
  <2>1. PICK to \in {"armed", "throttle", "signal", "send"} :
          /\ rx' = [rx EXCEPT ![t].at = to]
          /\ UNCHANGED <<device, slots, poll, usb, seen, bounds>>
    BY <1>1 DEF WakeIfSuspended, WakeIfArmed, WakeIfLongAgo, WakeTest, RxGoes
  <2>2. rx' \in RxType
    BY <2>1, RxGoesTypes DEF TypeOK, RxType, RxAt
  <2> QED BY <2>1, <2>2, RxPart
<1>2. CASE WakeSignal(t)
  <2> DEFINE accepted == bus = "suspended" /\ wake_allowed
  <2>1. (IF accepted THEN "stamp" ELSE "send") \in RxAt
    BY DEF RxAt
  <2>2. rx' \in RxType
    BY <1>2, <2>1, RxGoesTypes DEF TypeOK, WakeSignal, RxGoes, RxType
  <2>3. signalled' \in SUBSET Rx
    BY <1>2 DEF TypeOK, WakeSignal
  <2>4. UNCHANGED <<device, slots, poll, usb, handled, received, late, excused, bounds>>
    BY <1>2 DEF WakeSignal
  <2> QED
    BY SMTT(30), <2>2, <2>3, <2>4 DEF TypeOK, RxType, device, usb, tud, bounds
<1>3. CASE WakeStamp(t) \/ WakeDisarm(t)
  <2>1. PICK to \in {"disarm", "send"} : rx' = [rx EXCEPT ![t].at = to]
    BY <1>3 DEF WakeStamp, WakeDisarm, RxGoes
  <2>2. rx' \in RxType
    BY <2>1, RxGoesTypes DEF TypeOK, RxType, RxAt
  <2>3. /\ s_woke_recently' \in BOOLEAN /\ s_remote_wakeup_enabled' \in BOOLEAN
        /\ UNCHANGED <<s_usb_ready, s_usb_suspended>>
    BY <1>3 DEF WakeStamp, WakeDisarm, TypeOK
  <2>4. UNCHANGED <<slots, poll, usb, seen, bounds>>
    BY <1>3 DEF WakeStamp, WakeDisarm
  <2> QED
    BY SMTT(30), <2>2, <2>3, <2>4 DEF TypeOK, RxType, usb, tud, bounds
<1>5. CASE Send(t)
  <2>1. CASE HidReady
    <3>0. /\ ep' = Transfer(rx[t].kind, Whole(rx[t].id))
          /\ rx' = [rx EXCEPT ![t] = IdleRx]
          /\ UNCHANGED <<device, slots, poll, bus, wake_allowed, tud, seen, bounds>>
      BY <1>5, <2>1 DEF Send
    <3>1. ep' \in EpType
      <4>1. rx[t].kind \in Kinds /\ Whole(rx[t].id) \in Report
        BY DEF TypeOK, Whole, Report
      <4> QED BY <3>0, <4>1 DEF Transfer, EpType
    <3>2. rx' \in RxType
      BY <3>0, ZeroValues DEF TypeOK, RxType
    <3> QED
      BY SMTT(30), <3>0, <3>1, <3>2
      DEF TypeOK, EpType, RxType, device, tud, bounds
  <2>2. CASE ~HidReady
    <3>1. rx' \in RxType
      BY <1>5, <2>2, RxGoesTypes DEF TypeOK, Send, RxGoes, RxAt, RxType
    <3>2. UNCHANGED <<device, slots, poll, usb, seen, bounds>>
      BY <1>5, <2>2 DEF Send
    <3> QED BY <3>1, <3>2, RxPart
  <2> QED BY <2>1, <2>2
<1>6. CASE StoreA(t)
  <2>1. excused' \in [Kinds -> SUBSET Nat]
    BY <1>6, ExcuseTypes, ReplacedTypes DEF StoreA
  <2>2. s_pending' \in [Kinds -> Report]
    BY <1>6 DEF TypeOK, StoreA, Report
  <2>3. rx' \in RxType
    BY <1>6, RxGoesTypes DEF TypeOK, StoreA, RxGoes, RxAt, RxType
  <2>4. /\ s_pending_report' \in [Kinds -> BOOLEAN]
        /\ UNCHANGED <<device, poll, usb, handled, received, signalled, late, bounds>>
    BY <1>6 DEF TypeOK, StoreA
  <2> QED BY <2>1, <2>2, <2>3, <2>4, SlotPart
<1>7. CASE StoreB(t)
  <2>1. excused' \in [Kinds -> SUBSET Nat]
    BY <1>7, ExcuseTypes DEF StoreB
  <2>2. s_pending' \in [Kinds -> Report]
    BY <1>7 DEF TypeOK, StoreB, Report
  <2>3. rx' \in RxType
    BY <1>7, RxGoesTypes DEF TypeOK, StoreB, RxGoes, RxAt, RxType
  <2>4. /\ s_pending_report' \in [Kinds -> BOOLEAN]
        /\ UNCHANGED <<device, poll, usb, handled, received, signalled, late, bounds>>
    BY <1>7 DEF TypeOK, StoreB
  <2> QED BY <2>1, <2>2, <2>3, <2>4, SlotPart
<1>8. CASE StoreFlag(t)
  <2>1. excused' \in [Kinds -> SUBSET Nat]
    BY <1>8, ExcuseTypes DEF StoreFlag
  <2>2. /\ s_pending' \in [Kinds -> Report] /\ s_pending_report' \in [Kinds -> BOOLEAN]
        /\ UNCHANGED <<device, poll, usb, handled, received, signalled, late, bounds>>
    BY <1>8 DEF TypeOK, StoreFlag
  <2>3. rx' \in RxType
    BY <1>8, ZeroValues DEF TypeOK, StoreFlag, RxType
  <2> QED BY <2>1, <2>2, <2>3, SlotPart
<1> QED BY <1>1, <1>2, <1>3, <1>5, <1>6, <1>7, <1>8 DEF RxStep

(* So does what core_service_task does.                                    *)
LEMMA PollTypes ==
  ASSUME TypeOK, PollStep
  PROVE  TypeOK'
<1> USE DEF device, slots, usb, tud, seen, bounds
<1>1. CASE PollBegin
  <2>1. /\ poll' = [poll EXCEPT !.at = "check", !.kind = "keyboard"]
        /\ UNCHANGED <<device, slots, rx, usb, seen, bounds>>
    BY <1>1 DEF PollBegin
  <2>2. "check" \in PollAt /\ "keyboard" \in Kinds
    BY DEF PollAt, Kinds
  <2>3. poll' \in [at : PollAt, kind : Kinds, copy : Report]
    BY <2>1, <2>2 DEF TypeOK
  <2> QED BY SMTT(30), <2>1, <2>3 DEF TypeOK
<1>2. CASE PollSkip
  <2>1. poll' \in PollType
    BY <1>2, NextCheckTypes DEF TypeOK, PollSkip
  <2> QED BY <1>2, <2>1 DEF TypeOK, PollSkip, PollType
<1>3. CASE PollClaim
  <2>1. ep' \in EpType
    BY <1>3, ZeroValues DEF TypeOK, PollClaim, EpType
  <2> QED BY <1>3, <2>1 DEF TypeOK, PollClaim, PollAt, EpType
<1>4. CASE PollCopyA
  <2>1. /\ poll' = [poll EXCEPT !.at = "submit", !.copy.a = s_pending[poll.kind].a]
        /\ UNCHANGED <<device, slots, rx, usb, seen, bounds>>
    BY <1>4 DEF PollCopyA
  <2>2. poll.kind \in Kinds /\ s_pending[poll.kind].a \in Nat /\ "submit" \in PollAt
    BY DEF TypeOK, Report, PollAt
  <2>3. poll' \in [at : PollAt, kind : Kinds, copy : Report]
    BY <2>1, <2>2 DEF TypeOK, Report
  <2> QED BY SMTT(30), <2>1, <2>3 DEF TypeOK
<1>5. CASE PollSubmit
  <2> DEFINE report == [poll.copy EXCEPT !.b = s_pending[poll.kind].b]
             done   == [poll EXCEPT !.at = "clear", !.copy = report]
  <2>1. report \in Report
    BY DEF TypeOK, Report
  <2>2. done \in PollType
    BY <2>1 DEF TypeOK, PollType, PollAt
  <2>3. Transfer(poll.kind, report) \in EpType
    BY <2>1 DEF TypeOK, Transfer, EpType
  <2>4. NextCheck(poll.kind) \in PollType
    BY NextCheckTypes DEF TypeOK
  <2>5. poll' \in PollType /\ ep' \in EpType
    BY <1>5, <2>2, <2>3, <2>4 DEF TypeOK, PollSubmit, EpType
  <2> QED BY <1>5, <2>5 DEF TypeOK, PollSubmit, PollType, EpType
<1>6. CASE PollClear
  <2>1. s_pending_report' \in [Kinds -> BOOLEAN]
    BY <1>6 DEF TypeOK, PollClear
  <2>2. poll' \in PollType
    BY <1>6, ZeroValues DEF PollClear
  <2> QED BY <1>6, <2>1, <2>2 DEF TypeOK, PollClear, PollType
<1> QED BY <1>1, <1>2, <1>3, <1>4, <1>5, <1>6 DEF PollStep

(* So do the bus, TinyUSB's task and the clock.                            *)
LEMMA BusTypes ==
  ASSUME TypeOK, BusStep
  PROVE  TypeOK'
<1> USE DEF device, slots, tasks, seen, bounds
<1> DEFINE EventType == Seq({"suspend", "resume", "detach"})
           CallbackType == [at : CallbackAt, arm : BOOLEAN]
<1>1. CASE Attach
  BY <1>1 DEF TypeOK, Attach, tud
<1>2. CASE HostDetaches
  <2>1. ep' \in EpType
    BY <1>2, ZeroValues DEF HostDetaches
  <2>2. detaches' \in Nat /\ events' \in EventType
    BY <1>2 DEF TypeOK, HostDetaches
  <2> QED BY <1>2, <2>1, <2>2 DEF TypeOK, HostDetaches, EpType
<1>3. ASSUME NEW e \in BOOLEAN, HostSuspends(e) PROVE TypeOK'
  <2>1. suspends' \in Nat /\ events' \in EventType
    BY <1>3 DEF TypeOK, HostSuspends
  <2> QED BY <1>3, <2>1 DEF TypeOK, HostSuspends
<1>4. CASE HostResumes
  <2>1. events' \in EventType
    BY <1>4 DEF TypeOK, HostResumes
  <2> QED BY <1>4, <2>1 DEF TypeOK, HostResumes
<1>5. ASSUME NEW e, NextEvent(e) PROVE events' \in EventType
  BY <1>5 DEF TypeOK, NextEvent
<1>6. CASE OnDetach
  BY <1>5, <1>6 DEF TypeOK, OnDetach
<1>7. CASE OnSuspend
  <2>1. callback' \in CallbackType
    BY <1>7 DEF TypeOK, OnSuspend, CallbackAt
  <2> QED BY <1>5, <1>7, <2>1 DEF TypeOK, OnSuspend
<1>8. CASE OnResume
  <2>1. callback' \in CallbackType
    BY <1>8 DEF OnResume, CallbackAt
  <2> QED BY <1>5, <1>8, <2>1 DEF TypeOK, OnResume
<1>9. CASE StoreEnabled
  <2>1. callback' \in CallbackType
    BY <1>9 DEF TypeOK, StoreEnabled, CallbackAt
  <2>2. s_remote_wakeup_enabled' \in BOOLEAN
    BY <1>9 DEF TypeOK, StoreEnabled
  <2>3. signalled' \in SUBSET Rx /\ late' \in SUBSET Rx
    BY <1>9 DEF TypeOK, StoreEnabled, Disarming
  <2> QED BY <1>9, <2>1, <2>2, <2>3 DEF TypeOK, StoreEnabled
<1>10. CASE StoreTime
  <2>1. callback' \in CallbackType
    BY <1>10 DEF StoreTime, NoCallback, CallbackAt
  <2>2. /\ s_woke_recently' = FALSE
        /\ UNCHANGED <<s_usb_ready, s_usb_suspended, s_remote_wakeup_enabled>>
    BY <1>10 DEF StoreTime
  <2>3. UNCHANGED <<s_pending_report, s_pending, rx, poll, bus, wake_allowed, ep>>
    BY <1>10 DEF StoreTime
  <2>4. UNCHANGED <<events, handled, received, signalled, late, excused, suspends, detaches>>
    BY <1>10 DEF StoreTime
  <2> QED BY <2>1, <2>2, <2>3, <2>4 DEF TypeOK
<1>11. CASE ThrottleExpires
  <2>1. /\ s_woke_recently' = FALSE
        /\ UNCHANGED <<s_usb_ready, s_usb_suspended, s_remote_wakeup_enabled>>
    BY <1>11 DEF ThrottleExpires, usb, tud
  <2>2. UNCHANGED <<s_pending_report, s_pending, rx, poll, bus, wake_allowed, ep>>
    BY <1>11 DEF ThrottleExpires, usb, tud
  <2>3. UNCHANGED <<events, callback, handled, received, signalled, late, excused,
                    suspends, detaches>>
    BY <1>11 DEF ThrottleExpires, usb, tud
  <2> QED BY <2>1, <2>2, <2>3 DEF TypeOK
<1> QED
  BY <1>1, <1>2, <1>3, <1>4, <1>6, <1>7, <1>8, <1>9, <1>10, <1>11
  DEF BusStep, TudStep

LEMMA TypeNext == TypeOK /\ [Next]_vars => TypeOK'
<1> SUFFICES ASSUME TypeOK, [Next]_vars PROVE TypeOK'
  OBVIOUS
<1> USE DEF device, slots, tasks, usb, tud, seen, bounds
<1>1. CASE UNCHANGED vars
  BY <1>1 DEF TypeOK, vars
<1>2. ASSUME NEW t \in Rx, NEW k \in Traffic, Handle(t, k) PROVE TypeOK'
  <2>1. k \in Kinds
    BY TrafficAssumption
  <2>2. handled' \in [Kinds -> Nat]
    BY <1>2, <2>1 DEF TypeOK, Handle
  <2>3. rx' \in RxType
    <3>1. [at |-> "wake", kind |-> k, id |-> handled[k] + 1]
            \in [at : RxAt, kind : Kinds, id : Nat]
      BY <2>1 DEF TypeOK, RxAt
    <3> QED BY <1>2, <3>1 DEF TypeOK, RxType, Handle
  <2>4. UNCHANGED <<s_usb_ready, s_usb_suspended, s_remote_wakeup_enabled,
                    s_woke_recently, s_pending_report, s_pending, poll>>
    BY <1>2 DEF Handle
  <2>5. UNCHANGED <<bus, wake_allowed, ep, events, callback, received, signalled,
                    late, excused, suspends, detaches>>
    BY <1>2 DEF Handle
  <2>6. rx' \in [Rx -> [at : RxAt, kind : Kinds, id : Nat]]
    BY <2>3 DEF RxType
  <2> QED BY ZenonT(40), <2>2, <2>4, <2>5, <2>6 DEF TypeOK
<1>3. ASSUME NEW t \in Rx, HandleUnmounted(t) PROVE TypeOK'
  BY <1>1, <1>3 DEF HandleUnmounted
<1>4. ASSUME NEW t \in Rx, RxStep(t) PROVE TypeOK'
  BY <1>4, RxTypes
<1>5. CASE PollNotReady
  BY <1>1, <1>5 DEF PollNotReady
<1>6. CASE PollStep
  BY <1>6, PollTypes
<1>7. CASE BusStep
  BY <1>7, BusTypes
<1>8. CASE HostTakes
  <2>1. received' \in [Kinds -> Seq(Report)]
    BY <1>8 DEF TypeOK, HostTakes
  <2>2. ep' \in EpType
    BY <1>8, ZeroValues DEF HostTakes
  <2> QED BY <1>8, <2>1, <2>2 DEF TypeOK, HostTakes, EpType
<1> QED
  BY <1>1, <1>2, <1>3, <1>4, <1>5, <1>6, <1>7, <1>8 DEF Next, BusStep

(* The types hold, whatever the tasks and the bounds.                      *)
THEOREM TypeCorrect == Spec => []TypeOK
  BY TypeInit, TypeNext, PTL DEF Spec

-----------------------------------------------------------------------------
(* No second remote wakeup on one arming.                                  *)

LEMMA SignalNext == TypeOK /\ SignalInv /\ [Next]_vars => SignalInv'
<1> SUFFICES ASSUME TypeOK, SignalInv, [Next]_vars PROVE SignalInv'
  OBVIOUS
<1> USE DEF device, slots, tasks, usb, seen, bounds
<1>1. CASE UNCHANGED vars
  BY <1>1 DEF SignalInv, vars
<1>2. ASSUME NEW t \in Rx, NEW k \in Traffic, Handle(t, k) PROVE SignalInv'
  BY <1>2 DEF TypeOK, SignalInv, Handle
<1>3. ASSUME NEW t \in Rx, RxStep(t) PROVE SignalInv'
  <2>1. CASE WakeIfSuspended(t) \/ WakeIfArmed(t) \/ WakeIfLongAgo(t)
    <3>1. UNCHANGED <<signalled, s_remote_wakeup_enabled>>
      BY <2>1 DEF WakeIfSuspended, WakeIfArmed, WakeIfLongAgo, WakeTest
    <3>2. PICK to \in {"armed", "throttle", "signal", "send"} :
            /\ rx' = [rx EXCEPT ![t].at = to]
            /\ rx[t].at \in {"wake", "armed", "throttle"}
            /\ to = "throttle" => s_remote_wakeup_enabled
            /\ to = "signal" => rx[t].at = "throttle"
      BY <2>1 DEF WakeIfSuspended, WakeIfArmed, WakeIfLongAgo, WakeTest, RxGoes
    <3> QED BY <3>1, <3>2 DEF TypeOK, SignalInv
  <2>2. CASE WakeSignal(t)
    BY <2>2 DEF TypeOK, SignalInv, WakeSignal, RxGoes
  <2>3. CASE WakeStamp(t)
    BY <2>3 DEF TypeOK, SignalInv, WakeStamp, RxGoes
  <2>4. CASE WakeDisarm(t)
    BY <2>4 DEF TypeOK, SignalInv, WakeDisarm, RxGoes
  <2>5. CASE Send(t)
    <3>1. CASE HidReady
      <4>1. /\ rx[t].at = "send"
            /\ rx' = [rx EXCEPT ![t] = IdleRx]
            /\ UNCHANGED <<signalled, s_remote_wakeup_enabled>>
        BY <2>5, <3>1 DEF Send
      <4> QED BY <4>1 DEF TypeOK, SignalInv, IdleRx
    <3>2. CASE ~HidReady
      <4>1. /\ rx[t].at = "send"
            /\ rx' = [rx EXCEPT ![t].at = "store_a"]
            /\ UNCHANGED <<signalled, s_remote_wakeup_enabled>>
        BY <2>5, <3>2 DEF Send, RxGoes
      <4> QED BY <4>1 DEF TypeOK, SignalInv
    <3> QED BY <3>1, <3>2
  <2>6. CASE StoreA(t)
    <3>1. UNCHANGED <<signalled, s_remote_wakeup_enabled>>
      BY <2>6 DEF StoreA
    <3>2. rx[t].at = "store_a" /\ rx' = [rx EXCEPT ![t].at = "store_b"]
      BY <2>6 DEF StoreA, RxGoes
    <3> QED BY <3>1, <3>2 DEF TypeOK, SignalInv
  <2>7. CASE StoreB(t)
    <3>1. UNCHANGED <<signalled, s_remote_wakeup_enabled>>
      BY <2>7 DEF StoreB
    <3>2. rx[t].at = "store_b" /\ rx' = [rx EXCEPT ![t].at = "store_flag"]
      BY <2>7 DEF StoreB, RxGoes
    <3> QED BY <3>1, <3>2 DEF TypeOK, SignalInv
  <2>8. CASE StoreFlag(t)
    <3>1. UNCHANGED <<signalled, s_remote_wakeup_enabled>>
      BY <2>8 DEF StoreFlag
    <3>2. rx[t].at = "store_flag" /\ rx' = [rx EXCEPT ![t] = IdleRx]
      BY <2>8 DEF StoreFlag
    <3> QED BY <3>1, <3>2 DEF TypeOK, SignalInv, IdleRx
  <2> QED BY <1>3, <2>1, <2>2, <2>3, <2>4, <2>5, <2>6, <2>7, <2>8 DEF RxStep
<1>4. CASE PollStep
  <2>1. UNCHANGED <<rx, signalled, s_remote_wakeup_enabled>>
    BY <1>4 DEF PollStep, PollBegin, PollSkip, PollClaim, PollCopyA,
       PollSubmit, PollClear
  <2> QED BY <2>1 DEF SignalInv
<1>5. CASE HostTakes
  <2>1. UNCHANGED <<rx, signalled, s_remote_wakeup_enabled>>
    BY <1>5 DEF HostTakes
  <2> QED BY <2>1 DEF SignalInv
<1>6. CASE StoreEnabled
  <2>1. CASE callback.arm
    BY <1>6, <2>1 DEF StoreEnabled, SignalInv
  <2>2. CASE ~callback.arm
    <3>1. UNCHANGED <<rx, signalled>> /\ ~s_remote_wakeup_enabled'
      BY <1>6, <2>2 DEF StoreEnabled
    <3> QED BY <3>1 DEF SignalInv
  <2> QED BY <2>1, <2>2
<1>7. CASE BusStep /\ ~StoreEnabled
  <2>1. UNCHANGED <<signalled, s_remote_wakeup_enabled>>
    BY <1>7 DEF BusStep, TudStep, Attach, HostDetaches, HostSuspends, HostResumes,
       OnDetach, OnSuspend, OnResume, StoreTime, ThrottleExpires
  <2> QED BY <1>7, <2>1, BusFrame DEF SignalInv
<1> QED
  BY <1>1, <1>2, <1>3, <1>4, <1>5, <1>6, <1>7
  DEF Next, BusStep, HandleUnmounted, PollNotReady

(* No receive task comes back to tud_remote_wakeup after a call of it that *)
(* succeeded, however many tasks there are and whatever time passes,       *)
(* before usb_hs_on_suspend has armed the wakeup anew.                     *)
THEOREM WakesOnce == Spec => []NoSecondSignal
<1>1. Init => SignalInv
  BY DEF Init, SignalInv
<1>2. SignalInv => NoSecondSignal
  BY DEF SignalInv, NoSecondSignal
<1> QED BY <1>1, <1>2, SignalNext, TypeCorrect, PTL DEF Spec

-----------------------------------------------------------------------------
(* The wakeup of a sleeping target PC is not disarmed before its time.     *)

(* While the bus is suspended, the event of the suspension is the last in  *)
(* TinyUSB's queue, or its callback has begun.  From the store that arms   *)
(* the wakeup on, a task that has yet to store the time of a wakeup, or    *)
(* the disarm, signalled since then, or is late.                           *)
ArmingUnderWay ==
  \/ callback.at = "enabled" /\ callback.arm
  \/ /\ callback.at # "enabled"
     /\ Disarming \subseteq signalled \union late
     /\ signalled = {} /\ late = {} =>
          /\ s_remote_wakeup_enabled
          /\ callback.at = "idle" => ~s_woke_recently

Announced == events # <<>> /\ events[Len(events)] = "suspend"

ArmedInv ==
  bus = "suspended" =>
    \/ Announced
    \/ events = <<>> /\ s_usb_suspended /\ (wake_allowed => ArmingUnderWay)

LEMMA ArmedRxNext ==
  ASSUME TypeOK, ArmedInv, NEW t \in Rx, RxStep(t)
  PROVE  ArmedInv'
<1> USE DEF device, slots, usb, tud, seen, bounds
<1>1. ASSUME Disarming' \subseteq Disarming,
             UNCHANGED <<bus, wake_allowed, events, callback, signalled, late, device>>
      PROVE  ArmedInv'
  BY <1>1 DEF ArmedInv, Announced, ArmingUnderWay
<1>2. CASE WakeIfSuspended(t) \/ WakeIfArmed(t) \/ WakeIfLongAgo(t)
  <2>1. UNCHANGED <<bus, wake_allowed, events, callback, signalled, late, device>>
    BY <1>2 DEF WakeIfSuspended, WakeIfArmed, WakeIfLongAgo, WakeTest
  <2>2. PICK to \in {"armed", "throttle", "signal", "send"} :
          rx' = [rx EXCEPT ![t].at = to]
    BY <1>2 DEF WakeIfSuspended, WakeIfArmed, WakeIfLongAgo, WakeTest, RxGoes
  <2>3. Disarming' \subseteq Disarming
    BY <2>2 DEF TypeOK, Disarming
  <2> QED BY <1>1, <2>1, <2>3
<1>3. CASE WakeSignal(t)
  <2>1. Disarming' \subseteq Disarming \union {u \in {t} : bus = "suspended" /\ wake_allowed}
    BY <1>3 DEF TypeOK, WakeSignal, RxGoes, Disarming
  <2>2. signalled \subseteq signalled'
        /\ (bus = "suspended" /\ wake_allowed => t \in signalled')
    BY <1>3 DEF WakeSignal
  <2>3. UNCHANGED <<bus, wake_allowed, events, callback, late, device>>
    BY <1>3 DEF WakeSignal
  <2> QED BY <2>1, <2>2, <2>3 DEF ArmedInv, Announced, ArmingUnderWay
<1>4. CASE WakeStamp(t) \/ WakeDisarm(t)
  <2>1. t \in Disarming /\ Disarming' \subseteq Disarming
    BY <1>4 DEF TypeOK, WakeStamp, WakeDisarm, RxGoes, Disarming
  <2>2. UNCHANGED <<bus, wake_allowed, events, callback, signalled, late, s_usb_suspended>>
    BY <1>4 DEF WakeStamp, WakeDisarm
  <2> QED BY <2>1, <2>2 DEF ArmedInv, Announced, ArmingUnderWay
<1>5. CASE Send(t) \/ StoreA(t) \/ StoreB(t) \/ StoreFlag(t)
  <2>1. Disarming' \subseteq Disarming
    <3>1. \/ rx' = [rx EXCEPT ![t] = IdleRx]
          \/ \E to \in {"store_a", "store_b", "store_flag"} :
               rx' = [rx EXCEPT ![t].at = to]
      BY <1>5 DEF Send, StoreA, StoreB, StoreFlag, RxGoes
    <3>2. rx'[t].at \notin {"stamp", "disarm"}
      BY <3>1 DEF TypeOK, IdleRx
    <3>3. \A u \in Rx \ {t} : rx'[u] = rx[u]
      BY <3>1 DEF TypeOK
    <3> QED BY <3>2, <3>3 DEF Disarming
  <2>2. UNCHANGED <<bus, wake_allowed, events, callback, signalled, late, device>>
    BY <1>5 DEF Send, StoreA, StoreB, StoreFlag
  <2> QED BY <1>1, <2>1, <2>2
<1> QED BY <1>2, <1>3, <1>4, <1>5 DEF RxStep

(* The task takes the oldest event; the last stays the last.               *)
LEMMA EventTaken ==
  ASSUME TypeOK, NEW e, NextEvent(e)
  PROVE  /\ callback.at = "idle"
         /\ Announced => Announced' \/ (events' = <<>> /\ e = "suspend")
         /\ events # <<>>
<1>1. /\ events \in Seq({"suspend", "resume", "detach"})
      /\ events # <<>> /\ Head(events) = e /\ events' = Tail(events)
      /\ callback.at = "idle"
  BY DEF TypeOK, NextEvent
<1>2. CASE Len(events) = 1
  <2>1. events' = <<>> /\ Head(events) = events[Len(events)]
    BY <1>1, <1>2
  <2> QED BY <1>1, <2>1 DEF Announced
<1>3. CASE Len(events) > 1
  <2>1. \A q \in Seq({"suspend", "resume", "detach"}) :
          Len(q) > 1 => /\ Len(Tail(q)) = Len(q) - 1
                        /\ Tail(q)[Len(q) - 1] = q[Len(q)]
    OBVIOUS
  <2>2. Len(events') = Len(events) - 1 /\ events'[Len(events')] = events[Len(events)]
    BY <1>1, <1>3, <2>1
  <2>3. events' # <<>>
    <3>1. Len(events') # 0
      BY <1>1, <1>3, <2>2
    <3> QED BY <3>1, EmptySeq
  <2> QED BY <1>1, <2>2, <2>3 DEF Announced
<1>4. Len(events) \in Nat /\ Len(events) # 0
  BY <1>1, EmptySeq
<1>5. Len(events) = 1 \/ Len(events) > 1
  BY <1>4
<1> QED BY <1>2, <1>3, <1>5

LEMMA ArmedBusNext ==
  ASSUME TypeOK, ArmedInv, BusStep
  PROVE  ArmedInv'
<1> USE DEF device, slots, tasks, seen, bounds
<1>1. CASE Attach \/ HostDetaches \/ HostResumes
  <2>1. bus' # "suspended"
    BY <1>1 DEF Attach, HostDetaches, HostResumes
  <2> QED BY <2>1 DEF ArmedInv
<1>2. ASSUME NEW e \in BOOLEAN, HostSuspends(e) PROVE ArmedInv'
  <2>1. events' = Append(events, "suspend") /\ events \in Seq({"suspend", "resume", "detach"})
    BY <1>2 DEF HostSuspends, TypeOK
  <2>2. Announced'
    BY <2>1 DEF Announced
  <2> QED BY <2>2 DEF ArmedInv
<1>3. CASE OnDetach \/ OnResume
  <2>1. bus' = bus /\ (NextEvent("detach") \/ NextEvent("resume"))
    BY <1>3 DEF OnDetach, OnResume
  <2>2. bus = "suspended" => Announced'
    BY <2>1, EventTaken DEF ArmedInv
  <2> QED BY <2>1, <2>2 DEF ArmedInv
<1>4. CASE OnSuspend
  <2>1. /\ NextEvent("suspend")
        /\ bus' = bus /\ wake_allowed' = wake_allowed
        /\ s_usb_suspended' = TRUE
        /\ callback' = [at |-> "enabled", arm |-> wake_allowed]
    BY <1>4 DEF OnSuspend
  <2>2. bus = "suspended" => Announced' \/ events' = <<>>
    BY <2>1, EventTaken DEF ArmedInv
  <2> QED BY <2>1, <2>2 DEF ArmedInv, ArmingUnderWay
<1>5. CASE StoreEnabled
  BY <1>5 DEF TypeOK, StoreEnabled, ArmedInv, Announced, ArmingUnderWay, Disarming
<1>6. CASE StoreTime
  BY <1>6 DEF StoreTime, ArmedInv, Announced, ArmingUnderWay, Disarming, NoCallback
<1>7. CASE ThrottleExpires
  BY <1>7 DEF ThrottleExpires, ArmedInv, Announced, ArmingUnderWay, Disarming, usb, tud
<1> QED
  BY <1>1, <1>2, <1>3, <1>4, <1>5, <1>6, <1>7 DEF BusStep, TudStep

LEMMA ArmedNext == TypeOK /\ ArmedInv /\ [Next]_vars => ArmedInv'
<1> SUFFICES ASSUME TypeOK, ArmedInv, [Next]_vars PROVE ArmedInv'
  OBVIOUS
<1> USE DEF device, slots, tasks, usb, tud, seen, bounds
<1>1. ASSUME Disarming' \subseteq Disarming,
             UNCHANGED <<bus, wake_allowed, events, callback, signalled, late, device>>
      PROVE  ArmedInv'
  BY <1>1 DEF ArmedInv, Announced, ArmingUnderWay
<1>2. ASSUME NEW t \in Rx, NEW k \in Traffic, Handle(t, k) PROVE ArmedInv'
  <2>1. Disarming' \subseteq Disarming
    BY <1>2 DEF TypeOK, Handle, Disarming
  <2>2. UNCHANGED <<bus, wake_allowed, events, callback, signalled, late, device>>
    BY <1>2 DEF Handle
  <2> QED BY <1>1, <2>1, <2>2
<1>3. ASSUME NEW t \in Rx, RxStep(t) PROVE ArmedInv'
  BY <1>3, ArmedRxNext
<1>4. CASE PollStep \/ HostTakes \/ UNCHANGED vars
  <2>1. UNCHANGED <<bus, wake_allowed, events, callback, signalled, late, device, rx>>
    BY <1>4 DEF PollStep, PollBegin, PollSkip, PollClaim, PollCopyA,
       PollSubmit, PollClear, HostTakes, vars
  <2>2. Disarming' = Disarming
    BY <2>1 DEF Disarming
  <2> QED BY <1>1, <2>1, <2>2
<1>5. CASE BusStep
  BY <1>5, ArmedBusNext
<1> QED
  BY <1>2, <1>3, <1>4, <1>5 DEF Next, BusStep, HandleUnmounted, PollNotReady

(* The firmware is ready to wake a target PC that has armed wakeup, from   *)
(* the end of usb_hs_on_suspend until a task has signalled, whatever the   *)
(* number of receive tasks and suspensions; only a task that signalled     *)
(* before the wakeup was armed, and stores its disarm later, can undo it.  *)
THEOREM StaysArmed == Spec => []ArmedUntilSignalled
<1>1. Init => ArmedInv
  BY DEF Init, ArmedInv
<1>2. ArmedInv => ArmedUntilSignalled
  BY DEF ArmedInv, ArmedUntilSignalled, Announced, ArmingUnderWay, TudIdle
<1> QED BY <1>1, <1>2, ArmedNext, TypeCorrect, PTL DEF Spec

-----------------------------------------------------------------------------
(* Only handled reports reach the endpoint.                                *)

(* What the parts of WrittenInv say depends on these variables alone.      *)
LEMMA WrittenFrame ==
  ASSUME WrittenInv, UNCHANGED <<slots, rx, poll, ep, handled>>
  PROVE  IdsAccepted' /\ StoresUnderWay' /\ CopyUnderWay' /\ OnlyHandled'
  BY DEF WrittenInv, IdsAccepted, StoresUnderWay, CopyUnderWay, OnlyHandled,
     Written, slots

LEMMA HandleWritten ==
  ASSUME WrittenInv, NEW t \in Rx, NEW k \in Kinds, Handle(t, k)
  PROVE  IdsAccepted' /\ StoresUnderWay' /\ CopyUnderWay' /\ OnlyHandled'
<1>1. \A j \in Kinds : handled[j] \in Nat /\ handled'[j] \in Nat
                         /\ handled[j] <= handled'[j]
  BY DEF WrittenInv, TypeOK, Handle
<1>2. UNCHANGED <<s_pending, s_pending_report, poll, ep>>
  BY DEF Handle, slots, usb
<1>3. \A u \in Rx : u # t => rx'[u] = rx[u]
  BY DEF WrittenInv, TypeOK, Handle
<1>4. rx'[t].at = "wake" /\ rx'[t].kind = k /\ rx'[t].id = handled[k] + 1
  BY DEF WrittenInv, TypeOK, Handle
<1>5. handled'[k] = handled[k] + 1
  BY DEF WrittenInv, TypeOK, Handle
<1>6. /\ \A j \in Kinds : s_pending[j].a \in Nat /\ s_pending[j].b \in Nat
      /\ \A u \in Rx : rx[u].kind \in Kinds /\ rx[u].id \in Nat
      /\ poll.kind \in Kinds /\ poll.copy.a \in Nat
      /\ ep.kind \in Kinds /\ ep.report.a \in Nat /\ ep.report.b \in Nat
  BY DEF WrittenInv, TypeOK, Report
<1>7. IdsAccepted'
  <2>1. \A u \in Rx : u # t /\ rx'[u].at # "idle" => rx'[u].id \in 1..handled'[rx'[u].kind]
    BY <1>1, <1>3, <1>6 DEF WrittenInv, IdsAccepted
  <2>2. rx'[t].id \in 1..handled'[rx'[t].kind]
    BY <1>1, <1>4, <1>5
  <2>3. \A j \in Kinds : s_pending'[j].a <= handled'[j] /\ s_pending'[j].b <= handled'[j]
    BY <1>1, <1>2, <1>6 DEF WrittenInv, IdsAccepted
  <2> QED BY <2>1, <2>2, <2>3 DEF IdsAccepted
<1>8. StoresUnderWay'
  BY <1>2, <1>3, <1>4 DEF WrittenInv, StoresUnderWay
<1>9. \A j \in Kinds : \A i \in Nat : i \in 1..handled[j] => i \in 1..handled'[j]
  BY <1>1
<1>10. CopyUnderWay'
  BY <1>2, <1>6, <1>9 DEF WrittenInv, CopyUnderWay, Written
<1>11. OnlyHandled'
  BY <1>2, <1>6, <1>9 DEF WrittenInv, OnlyHandled, Written
<1> QED BY <1>7, <1>8, <1>10, <1>11

(* A task that moves on keeps its event.                                   *)
LEMMA RxMoved ==
  ASSUME TypeOK, NEW t \in Rx, NEW to, rx' = [rx EXCEPT ![t].at = to]
  PROVE  \A u \in Rx : /\ rx'[u].kind = rx[u].kind
                       /\ rx'[u].id = rx[u].id
                       /\ rx'[u].at = IF u = t THEN to ELSE rx[u].at
  BY DEF TypeOK

LEMMA RxWritten ==
  ASSUME WrittenInv, NEW t \in Rx, RxStep(t)
  PROVE  IdsAccepted' /\ StoresUnderWay' /\ CopyUnderWay' /\ OnlyHandled'
<1> USE DEF WrittenInv, device, usb, bounds, seen
<1>1. CASE WakeStep(t)
  <2>1. /\ UNCHANGED <<slots, poll, ep, handled>>
        /\ \E to \in {"armed", "throttle", "signal", "stamp", "disarm", "send"} :
             rx' = [rx EXCEPT ![t].at = to]
        /\ rx[t].at # "idle"
    BY <1>1, WakeFrame
  <2>2. PICK to \in {"armed", "throttle", "signal", "stamp", "disarm", "send"} :
          rx' = [rx EXCEPT ![t].at = to]
    BY <2>1
  <2>3. UNCHANGED <<s_pending, s_pending_report, poll, ep, handled>>
    BY <2>1 DEF slots
  <2>4. IdsAccepted'
    BY <2>1, <2>2, <2>3, RxMoved DEF IdsAccepted
  <2>5. StoresUnderWay'
    BY <2>2, <2>3, RxMoved DEF StoresUnderWay
  <2> QED BY <2>3, <2>4, <2>5 DEF CopyUnderWay, OnlyHandled, Written
<1>2. CASE Send(t)
  <2>1. CASE HidReady
    <3>1. rx' = [rx EXCEPT ![t] = IdleRx] /\ UNCHANGED <<slots, poll, handled>>
      BY <1>2, <2>1 DEF Send
    <3>2. IdsAccepted' /\ StoresUnderWay'
      BY <3>1 DEF TypeOK, IdsAccepted, StoresUnderWay, slots, IdleRx
    <3>3. Written(rx[t].kind, Whole(rx[t].id))
      BY <1>2, <2>1 DEF IdsAccepted, Written, Whole, Send
    <3>4. ep' = Transfer(rx[t].kind, Whole(rx[t].id))
      BY <1>2, <2>1 DEF Send
    <3>5. OnlyHandled'
      BY <3>1, <3>3, <3>4 DEF OnlyHandled, Written, Transfer, slots
    <3> QED BY <3>1, <3>2, <3>5 DEF CopyUnderWay, Written, slots
  <2>2. CASE ~HidReady
    <3>1. /\ rx[t].at = "send"
          /\ rx' = [rx EXCEPT ![t].at = "store_a"]
          /\ UNCHANGED <<slots, poll, ep, handled>>
      BY <1>2, <2>2 DEF Send, RxGoes
    <3>2. IdsAccepted' /\ StoresUnderWay'
      BY <3>1 DEF TypeOK, IdsAccepted, StoresUnderWay, slots
    <3> QED BY <3>1, <3>2 DEF CopyUnderWay, OnlyHandled, Written, slots
  <2> QED BY <2>1, <2>2
<1>3. CASE StoreA(t)
  <2>1. /\ rx[t].at = "store_a"
        /\ rx' = [rx EXCEPT ![t].at = "store_b"]
        /\ s_pending' = [s_pending EXCEPT ![rx[t].kind].a = rx[t].id]
        /\ UNCHANGED <<s_pending_report, poll, ep, handled>>
    BY <1>3 DEF StoreA, RxGoes
  <2>2. rx[t].id \in 1..handled[rx[t].kind] /\ rx[t].kind \in Kinds
    BY <2>1 DEF TypeOK, IdsAccepted
  <2>3. \A k \in Kinds :
          /\ s_pending[k].a \in Nat /\ s_pending[k].b \in Nat
          /\ s_pending'[k].a = IF k = rx[t].kind THEN rx[t].id ELSE s_pending[k].a
          /\ s_pending'[k].b = s_pending[k].b
    BY <2>1, <2>2 DEF TypeOK, Report
  <2>4. \A u \in Rx : rx[u].kind \in Kinds
    BY DEF TypeOK
  <2>5. \A k \in Kinds : handled[k] \in Nat
    BY DEF TypeOK
  <2>6. IdsAccepted'
    BY <2>1, <2>2, <2>3, <2>5, RxMoved DEF IdsAccepted
  <2>7. StoresUnderWay'
    BY <2>1, <2>2, <2>3, <2>4, <2>5, RxMoved DEF StoresUnderWay
  <2>8. CopyUnderWay' /\ OnlyHandled'
    BY <2>1, <2>2 DEF TypeOK, Report, CopyUnderWay, OnlyHandled, Written
  <2> QED BY <2>6, <2>7, <2>8
<1>4. CASE StoreB(t)
  <2>1. /\ rx[t].at = "store_b"
        /\ rx' = [rx EXCEPT ![t].at = "store_flag"]
        /\ s_pending' = [s_pending EXCEPT ![rx[t].kind].b = rx[t].id]
        /\ UNCHANGED <<s_pending_report, poll, ep, handled>>
    BY <1>4 DEF StoreB, RxGoes
  <2>2. rx[t].id \in 1..handled[rx[t].kind] /\ rx[t].kind \in Kinds
    BY <2>1 DEF TypeOK, IdsAccepted
  <2>3. \A k \in Kinds :
          /\ s_pending[k].a \in Nat /\ s_pending[k].b \in Nat
          /\ s_pending'[k].b = IF k = rx[t].kind THEN rx[t].id ELSE s_pending[k].b
          /\ s_pending'[k].a = s_pending[k].a
    BY <2>1, <2>2 DEF TypeOK, Report
  <2>4. \A u \in Rx : rx[u].kind \in Kinds
    BY DEF TypeOK
  <2>5. \A k \in Kinds : handled[k] \in Nat
    BY DEF TypeOK
  <2>6. IdsAccepted'
    BY <2>1, <2>2, <2>3, <2>5, RxMoved DEF IdsAccepted
  <2>7. StoresUnderWay'
    BY <2>1, <2>2, <2>3, <2>4, <2>5, RxMoved DEF StoresUnderWay
  <2>8. CopyUnderWay' /\ OnlyHandled'
    BY <2>1, <2>2 DEF TypeOK, Report, CopyUnderWay, OnlyHandled, Written
  <2> QED BY <2>6, <2>7, <2>8
<1>5. CASE StoreFlag(t)
  <2>1. /\ rx[t].at = "store_flag"
        /\ rx' = [rx EXCEPT ![t] = IdleRx]
        /\ s_pending_report' = [s_pending_report EXCEPT ![rx[t].kind] = TRUE]
        /\ UNCHANGED <<s_pending, poll, ep, handled>>
    BY <1>5 DEF StoreFlag
  <2>2. IdsAccepted' /\ StoresUnderWay'
    BY <2>1 DEF TypeOK, IdsAccepted, StoresUnderWay, IdleRx
  <2>3. Written(rx[t].kind, s_pending[rx[t].kind])
    <3>1. /\ rx[t].kind \in Kinds
          /\ s_pending[rx[t].kind] \in Report
          /\ handled[rx[t].kind] \in Nat
      BY DEF TypeOK
    <3>2. /\ s_pending[rx[t].kind].a > 0 /\ s_pending[rx[t].kind].b > 0
          /\ s_pending[rx[t].kind].a <= handled[rx[t].kind]
          /\ s_pending[rx[t].kind].b <= handled[rx[t].kind]
      BY <2>1, <3>1 DEF IdsAccepted, StoresUnderWay
    <3> QED BY <3>1, <3>2 DEF Report, Written
  <2>4. OnlyHandled'
    BY <2>1, <2>3 DEF TypeOK, OnlyHandled, Written
  <2> QED BY <2>1, <2>2, <2>4 DEF CopyUnderWay, Written
<1> QED BY <1>1, <1>2, <1>3, <1>4, <1>5 DEF RxStep, WakeStep

LEMMA NextCheckAt ==
  ASSUME NEW k
  PROVE  NextCheck(k).at \in {"idle", "check"}
  BY DEF NextCheck, IdlePoll

LEMMA PollWritten ==
  ASSUME WrittenInv, PollStep
  PROVE  IdsAccepted' /\ StoresUnderWay' /\ CopyUnderWay' /\ OnlyHandled'
<1> USE DEF WrittenInv, device, usb, bounds, seen
<1>0. UNCHANGED <<s_pending, rx, handled>>
  BY DEF PollStep, PollBegin, PollSkip, PollClaim, PollCopyA, PollSubmit,
     PollClear, slots
<1>1. IdsAccepted' /\ StoresUnderWay'
  BY <1>0 DEF IdsAccepted, StoresUnderWay
<1>2. CASE PollBegin
  BY <1>0, <1>1, <1>2 DEF TypeOK, PollBegin, CopyUnderWay, OnlyHandled, Written,
     slots
<1>3. CASE PollSkip
  <2>1. poll'.at \notin {"copy_a", "submit"} /\ UNCHANGED <<s_pending_report, ep>>
    BY <1>3, NextCheckAt DEF PollSkip, slots
  <2> QED
    BY <1>0, <1>1, <2>1 DEF CopyUnderWay, OnlyHandled, Written
<1>4. CASE PollClaim
  <2>1. Written(poll.kind, s_pending[poll.kind])
    BY <1>4 DEF TypeOK, PollClaim, OnlyHandled
  <2>2. CopyUnderWay'
    BY <1>0, <1>4, <2>1 DEF TypeOK, PollClaim, CopyUnderWay, Written
  <2>3. ep'.status # "busy" \/ ep' = ep
    BY <1>4 DEF PollClaim, ClaimedEndpoint, FreeEndpoint
  <2> QED
    BY <1>0, <1>1, <1>4, <2>2, <2>3 DEF PollClaim, OnlyHandled, Written, slots
<1>5. CASE PollCopyA
  <2>1. CopyUnderWay'
    BY <1>0, <1>5 DEF TypeOK, PollCopyA, CopyUnderWay, Written, Report
  <2> QED BY <1>0, <1>1, <1>5, <2>1 DEF PollCopyA, OnlyHandled, Written, slots
<1>6. CASE PollSubmit
  <2> DEFINE report == [poll.copy EXCEPT !.b = s_pending[poll.kind].b]
             done   == [poll EXCEPT !.at = "clear", !.copy = report]
  <2>1. Written(poll.kind, report)
    BY <1>6 DEF TypeOK, Report, PollSubmit, CopyUnderWay, Written
  <2>2. CopyUnderWay'
    <3>1. done.at = "clear"
      BY DEF TypeOK
    <3>2. poll' = done \/ poll' = NextCheck(poll.kind)
      BY <1>6 DEF PollSubmit
    <3> QED BY <3>1, <3>2, NextCheckAt DEF CopyUnderWay
  <2>3. ep' = ep \/ ep' = Transfer(poll.kind, report)
    BY <1>6 DEF PollSubmit
  <2>4. UNCHANGED s_pending_report
    BY <1>6 DEF PollSubmit, slots
  <2>5. \A k \in Kinds : s_pending_report'[k] => Written(k, s_pending[k])'
    BY <1>0, <2>4 DEF OnlyHandled, Written
  <2>6. ASSUME ep' = ep PROVE OnlyHandled'
    BY <1>0, <2>5, <2>6 DEF OnlyHandled, Written
  <2>7. ASSUME ep' = Transfer(poll.kind, report) PROVE OnlyHandled'
    BY <1>0, <2>1, <2>5, <2>7 DEF OnlyHandled, Written, Transfer
  <2>8. OnlyHandled'
    BY <2>3, <2>6, <2>7
  <2> QED BY <1>1, <2>2, <2>8
<1>7. CASE PollClear
  <2>1. /\ poll' = IdlePoll
        /\ s_pending_report' = [s_pending_report EXCEPT ![poll.kind] = FALSE]
        /\ ep' = ep
    BY <1>7 DEF PollClear
  <2>2. CopyUnderWay'
    BY <2>1 DEF CopyUnderWay, IdlePoll
  <2>3. \A k \in Kinds : s_pending_report'[k] => s_pending_report[k]
    BY <2>1 DEF TypeOK
  <2> QED
    BY <1>0, <1>1, <2>1, <2>2, <2>3 DEF OnlyHandled, Written
<1> QED BY <1>2, <1>3, <1>4, <1>5, <1>6, <1>7 DEF PollStep

LEMMA WrittenNext == WrittenInv /\ [Next]_vars => WrittenInv'
<1> DEFINE Rest == IdsAccepted /\ StoresUnderWay /\ CopyUnderWay /\ OnlyHandled
<1> SUFFICES ASSUME WrittenInv, [Next]_vars PROVE Rest'
  BY TypeNext DEF WrittenInv
<1> USE DEF device, usb, bounds, tasks, seen
<1>1. CASE UNCHANGED vars
  BY <1>1, WrittenFrame DEF vars
<1>2. ASSUME NEW t \in Rx, NEW k \in Traffic, Handle(t, k) PROVE Rest'
  BY <1>2, HandleWritten, TrafficAssumption
<1>3. ASSUME NEW t \in Rx, RxStep(t) PROVE Rest'
  BY <1>3, RxWritten
<1>4. CASE PollStep
  BY <1>4, PollWritten
<1>5. CASE BusStep /\ ~HostDetaches
  BY <1>5, BusFrame, WrittenFrame
<1>6. CASE HostDetaches \/ HostTakes
  <2>1. UNCHANGED <<slots, rx, poll, handled>> /\ ep' = FreeEndpoint
    BY <1>6 DEF HostDetaches, HostTakes
  <2>2. ep'.status # "busy"
    BY <2>1 DEF FreeEndpoint
  <2> QED
    BY <2>1, <2>2 DEF WrittenInv, IdsAccepted, StoresUnderWay, CopyUnderWay,
       OnlyHandled, Written, slots
<1> QED
  BY <1>1, <1>2, <1>3, <1>4, <1>5, <1>6
  DEF Next, BusStep, HandleUnmounted, PollNotReady

LEMMA InitWritten == Init => WrittenInv
<1> SUFFICES ASSUME Init PROVE WrittenInv
  OBVIOUS
<1>1. TypeOK
  BY TypeInit
<1>2. IdsAccepted /\ StoresUnderWay
  BY DEF Init, IdsAccepted, StoresUnderWay, NoReport, Whole, IdleRx
<1>3. CopyUnderWay /\ OnlyHandled
  BY DEF Init, CopyUnderWay, OnlyHandled, IdlePoll, FreeEndpoint
<1> QED BY <1>1, <1>2, <1>3 DEF WrittenInv

(* Only reports that a handler accepted for a kind are ever flagged for    *)
(* it or given to the endpoint, whatever the number of receive tasks.      *)
THEOREM OnlyHandledSent == Spec => []OnlyHandled
<1>1. WrittenInv => OnlyHandled
  BY DEF WrittenInv
<1> QED BY InitWritten, <1>1, WrittenNext, PTL DEF Spec

-----------------------------------------------------------------------------
(* Where every report is that was handled and not excused.                 *)

(* Before the first attach no handler accepts and no poll runs.            *)
UnusedBefore == bus = "detached" => ~s_usb_ready /\ poll.at = "idle"

(* A task that is storing its report finds its own halves in the slot, or  *)
(* it met another task there and what is in the slot is excused.           *)
StoredOrExcused ==
  \A t \in Rx :
    /\ rx[t].at \in {"store_b", "store_flag"} =>
         \/ s_pending[rx[t].kind].a = rx[t].id
         \/ {s_pending[rx[t].kind].a, rx[t].id} \subseteq excused[rx[t].kind]
    /\ rx[t].at = "store_flag" =>
         \/ s_pending[rx[t].kind].b = rx[t].id
         \/ rx[t].id \in excused[rx[t].kind]

(* The places of a report on its way.                                      *)
InEndpoint(k, n) == ep.status = "busy" /\ ep.kind = k /\ ep.report = Whole(n)
InHandler(k, n) == \E t \in Rx : rx[t].at # "idle" /\ rx[t].kind = k /\ rx[t].id = n
InSlot(k, n) == s_pending_report[k] /\ s_pending[k] = Whole(n)

(* What the poll has taken from the slot is what the slot still holds, or  *)
(* what was stored since is excused: the flag the poll resets is that of a *)
(* report it has sent.                                                     *)
CopiedOrExcused ==
  /\ poll.at = "submit" =>
       \/ poll.copy.a = s_pending[poll.kind].a
       \/ s_pending[poll.kind].a \in excused[poll.kind]
  /\ poll.at = "clear" =>
       \A n \in Nat :
         s_pending[poll.kind] = Whole(n) =>
           \/ n \in excused[poll.kind]
           \/ Delivered(poll.kind, n) # {}
           \/ InEndpoint(poll.kind, n)

(* No report that was handled is nowhere.                                  *)
Accounted ==
  \A k \in Kinds : \A n \in 1..handled[k] :
    \/ n \in excused[k]
    \/ Delivered(k, n) # {}
    \/ InEndpoint(k, n)
    \/ InHandler(k, n)
    \/ InSlot(k, n)

(* All of it, as long as the cable was never pulled.                       *)
LossInv ==
  detaches = 0 =>
    UnusedBefore /\ StoredOrExcused /\ CopiedOrExcused /\ Accounted

(* What a store excuses, and that nothing ceases to be excused.            *)
LEMMA ExcuseGrows ==
  ASSUME TypeOK, NEW t \in Rx, NEW replaced \in SUBSET Nat, Excuse(t, replaced)
  PROVE  /\ \A k \in Kinds : excused[k] \subseteq excused'[k]
         /\ replaced \subseteq excused'[rx[t].kind]
         /\ PollInSlot(t) => rx[t].id \in excused'[rx[t].kind]
         /\ \A u \in Rx :
              u # t /\ rx[u].at # "idle" /\ rx[t].at # "idle" /\ rx[u].kind = rx[t].kind
                => {rx[u].id, rx[t].id} \subseteq excused'[rx[t].kind]
<1> DEFINE stored == {n \in {rx[t].id} : PollInSlot(t)}
           shared == {n \in {rx[u].id : u \in Together(t)} : Together(t) # {t}}
<1>1. excused' = [excused EXCEPT ![rx[t].kind] = @ \union replaced \union stored \union shared]
  BY DEF Excuse
<1>2. rx[t].kind \in Kinds
  BY DEF TypeOK
<1>3. /\ \A k \in Kinds : excused[k] \subseteq excused'[k]
      /\ replaced \union stored \union shared \subseteq excused'[rx[t].kind]
  <2> HIDE DEF stored, shared
  <2> QED BY <1>1, <1>2 DEF TypeOK
<1>4. PollInSlot(t) => rx[t].id \in stored
  OBVIOUS
<1>5. ASSUME NEW u \in Rx, u # t, rx[u].at # "idle", rx[t].at # "idle",
             rx[u].kind = rx[t].kind
      PROVE  {rx[u].id, rx[t].id} \subseteq shared
  <2>1. u \in Together(t) /\ t \in Together(t)
    BY <1>5 DEF Together
  <2>2. Together(t) # {t}
    BY <1>5, <2>1
  <2> QED BY <2>1, <2>2
<1> QED BY <1>3, <1>4, <1>5

(* The parts of LossInv depend on these variables alone.                   *)
LossVars == <<rx, slots, poll, ep, handled, received, excused>>

LEMMA LossFrame ==
  ASSUME UNCHANGED LossVars, StoredOrExcused, CopiedOrExcused, Accounted
  PROVE  StoredOrExcused' /\ CopiedOrExcused' /\ Accounted'
  BY DEF LossVars, slots, StoredOrExcused, CopiedOrExcused, Accounted, Delivered,
     InEndpoint, InHandler, InSlot

(* A new event is with its handler.                                        *)
LEMMA LossHandle ==
  ASSUME TypeOK, StoredOrExcused, CopiedOrExcused, Accounted,
         NEW t \in Rx, NEW k \in Kinds, Handle(t, k)
  PROVE  StoredOrExcused' /\ CopiedOrExcused' /\ Accounted'
<1>0. /\ rx[t].at = "idle"
      /\ handled' = [handled EXCEPT ![k] = @ + 1]
      /\ rx' = [rx EXCEPT ![t] = [at |-> "wake", kind |-> k, id |-> handled[k] + 1]]
      /\ UNCHANGED <<slots, poll, ep, received, excused>>
  BY DEF Handle, usb
<1>1. /\ rx'[t] = [at |-> "wake", kind |-> k, id |-> handled[k] + 1]
      /\ \A u \in Rx \ {t} : rx'[u] = rx[u]
  BY <1>0 DEF TypeOK
<1>2. StoredOrExcused'
  BY <1>0, <1>1 DEF StoredOrExcused, slots
<1>3. CopiedOrExcused'
  BY <1>0 DEF CopiedOrExcused, slots, Delivered, InEndpoint
<1>4. ASSUME NEW j \in Kinds, NEW n \in 1..handled'[j], n \notin 1..handled[j]
      PROVE  InHandler(j, n)'
  <2>1. j = k /\ n = handled[k] + 1
    BY <1>0, <1>4 DEF TypeOK
  <2> QED BY <1>1, <2>1 DEF InHandler
<1>5. \A j \in Kinds, n \in Nat :
        /\ InHandler(j, n) => InHandler(j, n)'
        /\ InEndpoint(j, n) => InEndpoint(j, n)'
        /\ InSlot(j, n) => InSlot(j, n)'
        /\ Delivered(j, n)' = Delivered(j, n)
  BY <1>0, <1>1 DEF InHandler, InEndpoint, InSlot, Delivered, slots
<1>6. Accounted'
  BY <1>0, <1>4, <1>5 DEF TypeOK, Accounted
<1> QED BY <1>2, <1>3, <1>6

(* A task on its way to the endpoint or the slot keeps its event.          *)
LEMMA LossMoves ==
  ASSUME TypeOK, StoredOrExcused, CopiedOrExcused, Accounted,
         NEW t \in Rx,
         NEW to \in {"armed", "throttle", "signal", "stamp", "disarm", "send", "store_a"},
         rx' = [rx EXCEPT ![t].at = to],
         UNCHANGED <<slots, poll, ep, handled, received, excused>>
  PROVE  StoredOrExcused' /\ CopiedOrExcused' /\ Accounted'
<1>1. \A u \in Rx : /\ rx'[u].kind = rx[u].kind
                    /\ rx'[u].id = rx[u].id
                    /\ rx'[u].at = IF u = t THEN to ELSE rx[u].at
  BY DEF TypeOK
<1>2. StoredOrExcused'
  BY <1>1 DEF StoredOrExcused, slots
<1>3. CopiedOrExcused'
  BY DEF CopiedOrExcused, slots, Delivered, InEndpoint
<1>4. \A j \in Kinds, n \in Nat :
        /\ InHandler(j, n) => InHandler(j, n)'
        /\ InEndpoint(j, n) => InEndpoint(j, n)'
        /\ InSlot(j, n) => InSlot(j, n)'
        /\ Delivered(j, n)' = Delivered(j, n)
  BY <1>1 DEF InHandler, InEndpoint, InSlot, Delivered, slots
<1>5. Accounted'
  <2>1. \A j \in Kinds : \A n \in 1..handled[j] : n \in Nat
    OBVIOUS
  <2> QED BY <1>4, <2>1 DEF Accounted
<1> QED BY <1>2, <1>3, <1>5

(* An endpoint that is free takes the report of the task.                  *)
LEMMA LossSend ==
  ASSUME TypeOK, StoredOrExcused, CopiedOrExcused, Accounted,
         NEW t \in Rx, Send(t), HidReady
  PROVE  StoredOrExcused' /\ CopiedOrExcused' /\ Accounted'
<1>0. /\ rx' = [rx EXCEPT ![t] = IdleRx]
      /\ ep' = Transfer(rx[t].kind, Whole(rx[t].id))
      /\ UNCHANGED <<slots, poll, handled, received, excused>>
  BY DEF Send, seen
<1>1. rx'[t] = IdleRx /\ \A u \in Rx \ {t} : rx'[u] = rx[u]
  BY <1>0 DEF TypeOK
<1>2. StoredOrExcused'
  BY <1>0, <1>1 DEF StoredOrExcused, slots, IdleRx
<1>3. \A j \in Kinds, n \in Nat : ~InEndpoint(j, n)
  BY DEF InEndpoint, HidReady
<1>4. CopiedOrExcused'
  BY <1>0, <1>3 DEF TypeOK, CopiedOrExcused, slots, Delivered
<1>5. \A j \in Kinds, n \in Nat :
        /\ InHandler(j, n) => InHandler(j, n)' \/ InEndpoint(j, n)'
        /\ InSlot(j, n) => InSlot(j, n)'
        /\ Delivered(j, n)' = Delivered(j, n)
  BY <1>0, <1>1 DEF InHandler, InEndpoint, InSlot, Delivered, slots, Transfer
<1>6. Accounted'
  BY <1>0, <1>3, <1>5 DEF TypeOK, Accounted
<1> QED BY <1>2, <1>4, <1>6

(* A store puts the reports it may cost among the excused: the one in a    *)
(* flagged slot, and those of the tasks it meets.                          *)
LEMMA LossStoreA ==
  ASSUME TypeOK, StoredOrExcused, CopiedOrExcused, Accounted,
         NEW t \in Rx, StoreA(t)
  PROVE  StoredOrExcused' /\ CopiedOrExcused' /\ Accounted'
<1>0. /\ rx[t].at = "store_a"
      /\ rx' = [rx EXCEPT ![t].at = "store_b"]
      /\ s_pending' = [s_pending EXCEPT ![rx[t].kind].a = rx[t].id]
      /\ Excuse(t, Replaced(t))
      /\ UNCHANGED <<s_pending_report, poll, ep, handled, received>>
  BY DEF StoreA, RxGoes, usb
<1>1. \A u \in Rx : /\ rx'[u].kind = rx[u].kind
                    /\ rx'[u].id = rx[u].id
                    /\ rx'[u].at = IF u = t THEN "store_b" ELSE rx[u].at
  BY <1>0 DEF TypeOK
<1>2. \A u \in Rx : rx[u].kind \in Kinds
  BY DEF TypeOK
<1>3. \A k \in Kinds :
        /\ s_pending'[k].a = IF k = rx[t].kind THEN rx[t].id ELSE s_pending[k].a
        /\ s_pending'[k].b = s_pending[k].b
        /\ k # rx[t].kind => s_pending'[k] = s_pending[k]
  BY <1>0, <1>2 DEF TypeOK, Report
<1>4. /\ \A k \in Kinds : excused[k] \subseteq excused'[k]
      /\ Replaced(t) \subseteq excused'[rx[t].kind]
      /\ PollInSlot(t) => rx[t].id \in excused'[rx[t].kind]
      /\ \A u \in Rx : u # t /\ rx[u].at # "idle" /\ rx[u].kind = rx[t].kind
           => {rx[u].id, rx[t].id} \subseteq excused'[rx[t].kind]
  BY <1>0, ExcuseGrows, ReplacedTypes
<1>5. StoredOrExcused'
  <2> SUFFICES ASSUME NEW u \in Rx, rx'[u].at \in {"store_b", "store_flag"}
               PROVE  /\ \/ s_pending'[rx[u].kind].a = rx[u].id
                         \/ {s_pending'[rx[u].kind].a, rx[u].id}
                              \subseteq excused'[rx[u].kind]
                      /\ rx'[u].at = "store_flag" =>
                         \/ s_pending'[rx[u].kind].b = rx[u].id
                         \/ rx[u].id \in excused'[rx[u].kind]
    BY <1>1 DEF StoredOrExcused
  <2>1. CASE u = t
    BY <1>1, <1>2, <1>3, <2>1
  <2>2. CASE u # t /\ rx[u].kind = rx[t].kind
    BY <1>1, <1>2, <1>3, <1>4, <2>2
  <2>3. CASE u # t /\ rx[u].kind # rx[t].kind
    BY <1>1, <1>2, <1>3, <1>4, <2>3 DEF StoredOrExcused
  <2> QED BY <2>1, <2>2, <2>3
<1>6. CopiedOrExcused'
  <2>1. poll.kind \in Kinds
    BY DEF TypeOK
  <2>2. CASE poll.kind = rx[t].kind
    <3>1. poll.at \in {"submit", "clear"} => s_pending'[poll.kind].a \in excused'[poll.kind]
      BY <1>2, <1>3, <1>4, <2>2 DEF PollInSlot
    <3> QED BY <1>0, <3>1 DEF CopiedOrExcused, Whole
  <2>3. CASE poll.kind # rx[t].kind
    BY <1>0, <1>3, <1>4, <2>1, <2>3 DEF CopiedOrExcused, Delivered, InEndpoint
  <2> QED BY <2>2, <2>3
<1>7. ASSUME NEW j \in Kinds, NEW n \in Nat, InSlot(j, n)
      PROVE  n \in excused'[j] \/ InSlot(j, n)'
  <2>1. CASE j = rx[t].kind
    BY <1>4, <1>7, <2>1 DEF InSlot, Replaced, Whole
  <2>2. CASE j # rx[t].kind
    BY <1>0, <1>3, <1>7, <2>2 DEF InSlot
  <2> QED BY <2>1, <2>2
<1>8. \A j \in Kinds, n \in Nat :
        /\ InHandler(j, n) => InHandler(j, n)'
        /\ InEndpoint(j, n) => InEndpoint(j, n)'
        /\ Delivered(j, n)' = Delivered(j, n)
  BY <1>0, <1>1 DEF InHandler, InEndpoint, Delivered
<1>9. Accounted'
  <2>1. \A j \in Kinds : \A n \in 1..handled[j] : n \in Nat
    OBVIOUS
  <2> QED BY <1>0, <1>4, <1>7, <1>8, <2>1 DEF Accounted
<1> QED BY <1>5, <1>6, <1>9

LEMMA LossStoreB ==
  ASSUME TypeOK, StoredOrExcused, CopiedOrExcused, Accounted,
         NEW t \in Rx, StoreB(t)
  PROVE  StoredOrExcused' /\ CopiedOrExcused' /\ Accounted'
<1>0. /\ rx[t].at = "store_b"
      /\ rx' = [rx EXCEPT ![t].at = "store_flag"]
      /\ s_pending' = [s_pending EXCEPT ![rx[t].kind].b = rx[t].id]
      /\ Excuse(t, {})
      /\ UNCHANGED <<s_pending_report, poll, ep, handled, received>>
  BY DEF StoreB, RxGoes, usb
<1>1. \A u \in Rx : /\ rx'[u].kind = rx[u].kind
                    /\ rx'[u].id = rx[u].id
                    /\ rx'[u].at = IF u = t THEN "store_flag" ELSE rx[u].at
  BY <1>0 DEF TypeOK
<1>2. \A u \in Rx : rx[u].kind \in Kinds
  BY DEF TypeOK
<1>3. \A k \in Kinds :
        /\ s_pending'[k].b = IF k = rx[t].kind THEN rx[t].id ELSE s_pending[k].b
        /\ s_pending'[k].a = s_pending[k].a
        /\ k # rx[t].kind => s_pending'[k] = s_pending[k]
  BY <1>0, <1>2 DEF TypeOK, Report
<1>4. /\ \A k \in Kinds : excused[k] \subseteq excused'[k]
      /\ PollInSlot(t) => rx[t].id \in excused'[rx[t].kind]
      /\ \A u \in Rx : u # t /\ rx[u].at # "idle" /\ rx[u].kind = rx[t].kind
           => {rx[u].id, rx[t].id} \subseteq excused'[rx[t].kind]
  BY <1>0, ExcuseGrows
<1>5. StoredOrExcused'
  <2> SUFFICES ASSUME NEW u \in Rx, rx'[u].at \in {"store_b", "store_flag"}
               PROVE  /\ \/ s_pending'[rx[u].kind].a = rx[u].id
                         \/ {s_pending'[rx[u].kind].a, rx[u].id}
                              \subseteq excused'[rx[u].kind]
                      /\ rx'[u].at = "store_flag" =>
                         \/ s_pending'[rx[u].kind].b = rx[u].id
                         \/ rx[u].id \in excused'[rx[u].kind]
    BY <1>1 DEF StoredOrExcused
  <2>0. \/ s_pending'[rx[u].kind].a = rx[u].id
        \/ {s_pending'[rx[u].kind].a, rx[u].id} \subseteq excused'[rx[u].kind]
    BY <1>0, <1>1, <1>2, <1>3, <1>4 DEF StoredOrExcused
  <2>1. CASE u = t
    BY <1>1, <1>2, <1>3, <2>0, <2>1
  <2>2. CASE u # t /\ rx[u].kind = rx[t].kind
    BY <1>1, <1>2, <1>3, <1>4, <2>0, <2>2
  <2>3. CASE u # t /\ rx[u].kind # rx[t].kind
    BY <1>1, <1>2, <1>3, <1>4, <2>0, <2>3 DEF StoredOrExcused
  <2> QED BY <2>1, <2>2, <2>3
<1>6. CopiedOrExcused'
  <2>1. poll.kind \in Kinds
    BY DEF TypeOK
  <2>2. CASE poll.kind = rx[t].kind
    <3>1. /\ poll.at = "clear" => s_pending'[poll.kind].b \in excused'[poll.kind]
          /\ s_pending'[poll.kind].a = s_pending[poll.kind].a
      BY <1>2, <1>3, <1>4, <2>2 DEF PollInSlot
    <3> QED BY <1>0, <1>4, <2>1, <3>1 DEF CopiedOrExcused, Whole
  <2>3. CASE poll.kind # rx[t].kind
    BY <1>0, <1>3, <1>4, <2>1, <2>3 DEF CopiedOrExcused, Delivered, InEndpoint
  <2> QED BY <2>2, <2>3
<1>7. ASSUME NEW j \in Kinds, NEW n \in Nat, InSlot(j, n)
      PROVE  n \in excused'[j] \/ InSlot(j, n)'
  <2>1. CASE j = rx[t].kind
    <3>1. s_pending[j].a = n /\ s_pending[j].b = n
      BY <1>7 DEF InSlot, Whole
    <3>2. n = rx[t].id \/ n \in excused'[j]
      BY <1>0, <1>4, <2>1, <3>1 DEF StoredOrExcused
    <3>3. s_pending'[j] = [s_pending[j] EXCEPT !.b = rx[t].id]
      BY <1>0, <2>1 DEF TypeOK
    <3>4. n = rx[t].id => s_pending'[j] = Whole(n)
      BY <3>1, <3>3 DEF TypeOK, Report, Whole
    <3> QED BY <1>0, <1>7, <3>2, <3>4 DEF InSlot
  <2>2. CASE j # rx[t].kind
    BY <1>0, <1>3, <1>7, <2>2 DEF InSlot
  <2> QED BY <2>1, <2>2
<1>8. \A j \in Kinds, n \in Nat :
        /\ InHandler(j, n) => InHandler(j, n)'
        /\ InEndpoint(j, n) => InEndpoint(j, n)'
        /\ Delivered(j, n)' = Delivered(j, n)
  BY <1>0, <1>1 DEF InHandler, InEndpoint, Delivered
<1>9. Accounted'
  <2>1. \A j \in Kinds : \A n \in 1..handled[j] : n \in Nat
    OBVIOUS
  <2> QED BY <1>0, <1>4, <1>7, <1>8, <2>1 DEF Accounted
<1> QED BY <1>5, <1>6, <1>9

(* When the flag is raised the report stored is in the slot, or excused.   *)
LEMMA LossStoreFlag ==
  ASSUME TypeOK, StoredOrExcused, CopiedOrExcused, Accounted,
         NEW t \in Rx, StoreFlag(t)
  PROVE  StoredOrExcused' /\ CopiedOrExcused' /\ Accounted'
<1>0. /\ rx[t].at = "store_flag"
      /\ rx' = [rx EXCEPT ![t] = IdleRx]
      /\ s_pending_report' = [s_pending_report EXCEPT ![rx[t].kind] = TRUE]
      /\ Excuse(t, {})
      /\ UNCHANGED <<s_pending, poll, ep, handled, received>>
  BY DEF StoreFlag, usb
<1>1. rx'[t] = IdleRx /\ \A u \in Rx \ {t} : rx'[u] = rx[u]
  BY <1>0 DEF TypeOK
<1>2. \A u \in Rx : rx[u].kind \in Kinds
  BY DEF TypeOK
<1>3. \A k \in Kinds : excused[k] \subseteq excused'[k]
  BY <1>0, ExcuseGrows
<1>4. StoredOrExcused'
  <2>1. \A u \in Rx : rx'[u].at \in {"store_b", "store_flag"} => rx'[u] = rx[u]
    BY <1>1 DEF IdleRx
  <2> QED BY <1>0, <1>2, <1>3, <2>1 DEF StoredOrExcused
<1>5. CopiedOrExcused'
  <2>1. poll.kind \in Kinds
    BY DEF TypeOK
  <2> QED BY <1>0, <1>3, <2>1 DEF CopiedOrExcused, Delivered, InEndpoint
<1>6. \A j \in Kinds, n \in Nat :
        /\ InSlot(j, n) => InSlot(j, n)'
        /\ InEndpoint(j, n) => InEndpoint(j, n)'
        /\ Delivered(j, n)' = Delivered(j, n)
  BY <1>0 DEF TypeOK, InSlot, InEndpoint, Delivered
<1>7. ASSUME NEW j \in Kinds, NEW n \in Nat, InHandler(j, n)
      PROVE  InHandler(j, n)' \/ InSlot(j, n)' \/ n \in excused'[j]
  <2>1. PICK u \in Rx : rx[u].at # "idle" /\ rx[u].kind = j /\ rx[u].id = n
    BY <1>7 DEF InHandler
  <2>2. CASE u # t
    BY <1>1, <2>1, <2>2 DEF InHandler
  <2>3. CASE u = t
    <3>1. n \in excused'[j] \/ (s_pending[j].a = n /\ s_pending[j].b = n)
      BY <1>0, <1>3, <2>1, <2>3 DEF StoredOrExcused
    <3>2. s_pending[j].a = n /\ s_pending[j].b = n => s_pending[j] = Whole(n)
      BY DEF TypeOK, Report, Whole
    <3>3. s_pending_report'[j] /\ s_pending' = s_pending
      BY <1>0, <2>1, <2>3 DEF TypeOK
    <3> QED BY <3>1, <3>2, <3>3 DEF InSlot
  <2> QED BY <2>2, <2>3
<1>8. Accounted'
  <2>1. \A j \in Kinds : \A n \in 1..handled[j] : n \in Nat
    OBVIOUS
  <2> QED BY <1>0, <1>3, <1>6, <1>7, <2>1 DEF Accounted
<1> QED BY <1>4, <1>5, <1>8

(* The steps of the poll that neither send a report nor reset a flag.      *)
LEMMA LossPollGoes ==
  ASSUME TypeOK, StoredOrExcused, CopiedOrExcused, Accounted,
         PollBegin \/ PollSkip \/ PollClaim \/ PollCopyA
  PROVE  StoredOrExcused' /\ CopiedOrExcused' /\ Accounted'
<1>0. UNCHANGED <<slots, rx, handled, received, excused>>
  BY DEF PollBegin, PollSkip, PollClaim, PollCopyA, seen
<1>1. ep' = ep \/ ep.status = "free"
  BY DEF PollBegin, PollSkip, PollClaim, PollCopyA, usb, HidReady
<1>2. StoredOrExcused'
  BY <1>0 DEF StoredOrExcused, slots
<1>3. poll'.at \in {"idle", "check", "copy_a"}
      \/ (poll'.at = "submit" /\ poll'.copy.a = s_pending'[poll'.kind].a)
  <2>1. CASE PollBegin
    BY <2>1 DEF PollBegin, TypeOK
  <2>2. CASE PollSkip
    BY <2>2, NextCheckAt DEF PollSkip
  <2>3. CASE PollClaim
    BY <2>3 DEF PollClaim, TypeOK
  <2>4. CASE PollCopyA
    BY <1>0, <2>4 DEF PollCopyA, TypeOK, Report, slots
  <2> QED BY <2>1, <2>2, <2>3, <2>4
<1>4. CopiedOrExcused'
  BY <1>3 DEF CopiedOrExcused
<1>5. \A j \in Kinds, n \in Nat :
        /\ InHandler(j, n) => InHandler(j, n)'
        /\ InEndpoint(j, n) => InEndpoint(j, n)'
        /\ InSlot(j, n) => InSlot(j, n)'
        /\ Delivered(j, n)' = Delivered(j, n)
  BY <1>0, <1>1 DEF InHandler, InEndpoint, InSlot, Delivered, slots
<1>6. Accounted'
  <2>1. \A j \in Kinds : \A n \in 1..handled[j] : n \in Nat
    OBVIOUS
  <2> QED BY <1>0, <1>5, <2>1 DEF Accounted
<1> QED BY <1>2, <1>4, <1>6

(* What the poll sends is what the slot holds, or that is excused.         *)
LEMMA LossPollSubmit ==
  ASSUME TypeOK, UnusedBefore, StoredOrExcused, CopiedOrExcused, Accounted,
         PollSubmit
  PROVE  StoredOrExcused' /\ CopiedOrExcused' /\ Accounted'
<1> DEFINE report == [poll.copy EXCEPT !.b = s_pending[poll.kind].b]
           done   == [poll EXCEPT !.at = "clear", !.copy = report]
<1>0. poll.at = "submit" /\ UNCHANGED <<slots, rx, handled, received, excused>>
  BY DEF PollSubmit, seen
<1>1. \/ /\ ep.status # "busy"
         /\ ep' = Transfer(poll.kind, report)
         /\ poll' = done
      \/ poll' = NextCheck(poll.kind) /\ ep' = ep
  BY <1>0 DEF PollSubmit, UnusedBefore
<1>2. StoredOrExcused'
  BY <1>0 DEF StoredOrExcused, slots
<1>3. CopiedOrExcused'
  <2>1. CASE poll' = NextCheck(poll.kind)
    BY <2>1, NextCheckAt DEF CopiedOrExcused
  <2>2. CASE ep' = Transfer(poll.kind, report) /\ poll' = done
    <3>1. poll'.at = "clear" /\ poll'.kind = poll.kind
      BY <2>2 DEF TypeOK
    <3>2. ASSUME NEW n \in Nat, s_pending[poll.kind] = Whole(n)
          PROVE  n \in excused[poll.kind] \/ report = Whole(n)
      <4>1. s_pending[poll.kind].a = n /\ s_pending[poll.kind].b = n
        BY <3>2 DEF Whole
      <4>2. poll.copy.a = n => report = Whole(n)
        BY SMTT(30), <4>1 DEF TypeOK, Report, Whole
      <4> QED BY <1>0, <4>1, <4>2 DEF CopiedOrExcused
    <3>3. ep'.status = "busy" /\ ep'.kind = poll.kind /\ ep'.report = report
      BY <2>2 DEF Transfer
    <3>4. \A n \in Nat : s_pending'[poll.kind] = Whole(n) =>
            n \in excused'[poll.kind] \/ InEndpoint(poll.kind, n)'
      BY <1>0, <3>1, <3>2, <3>3 DEF InEndpoint, slots
    <3> QED BY <3>1, <3>4 DEF CopiedOrExcused, InEndpoint
  <2> QED BY <1>1, <2>1, <2>2
<1>4. \A j \in Kinds, n \in Nat :
        /\ InHandler(j, n) => InHandler(j, n)'
        /\ InEndpoint(j, n) => InEndpoint(j, n)'
        /\ InSlot(j, n) => InSlot(j, n)'
        /\ Delivered(j, n)' = Delivered(j, n)
  BY <1>0, <1>1 DEF InHandler, InEndpoint, InSlot, Delivered, slots
<1>5. Accounted'
  <2>1. \A j \in Kinds : \A n \in 1..handled[j] : n \in Nat
    OBVIOUS
  <2> QED BY <1>0, <1>4, <2>1 DEF Accounted
<1> QED BY <1>2, <1>3, <1>5

(* The flag that is reset is that of a report sent, or excused.            *)
LEMMA LossPollClear ==
  ASSUME TypeOK, StoredOrExcused, CopiedOrExcused, Accounted, PollClear
  PROVE  StoredOrExcused' /\ CopiedOrExcused' /\ Accounted'
<1>0. /\ poll.at = "clear"
      /\ s_pending_report' = [s_pending_report EXCEPT ![poll.kind] = FALSE]
      /\ poll' = IdlePoll
      /\ UNCHANGED <<s_pending, ep, rx, handled, received, excused>>
  BY DEF PollClear, usb, seen
<1>1. StoredOrExcused'
  BY <1>0 DEF StoredOrExcused
<1>2. CopiedOrExcused'
  BY <1>0 DEF CopiedOrExcused, IdlePoll
<1>3. \A j \in Kinds, n \in Nat :
        /\ InHandler(j, n) => InHandler(j, n)'
        /\ InEndpoint(j, n) => InEndpoint(j, n)'
        /\ Delivered(j, n)' = Delivered(j, n)
  BY <1>0 DEF InHandler, InEndpoint, Delivered
<1>4. ASSUME NEW j \in Kinds, NEW n \in Nat, InSlot(j, n)
      PROVE  InSlot(j, n)' \/ n \in excused[j] \/ Delivered(j, n) # {} \/ InEndpoint(j, n)
  <2>1. CASE j = poll.kind
    BY <1>0, <1>4, <2>1 DEF CopiedOrExcused, InSlot
  <2>2. CASE j # poll.kind
    BY <1>0, <1>4, <2>2 DEF TypeOK, InSlot
  <2> QED BY <2>1, <2>2
<1>5. Accounted'
  <2>1. \A j \in Kinds : \A n \in 1..handled[j] : n \in Nat
    OBVIOUS
  <2> QED BY <1>0, <1>3, <1>4, <2>1 DEF Accounted
<1> QED BY <1>1, <1>2, <1>5

(* The target PC takes the report, whole.                                  *)
LEMMA LossHostTakes ==
  ASSUME TypeOK, StoredOrExcused, CopiedOrExcused, Accounted, HostTakes
  PROVE  StoredOrExcused' /\ CopiedOrExcused' /\ Accounted'
<1>0. /\ ep.status = "busy"
      /\ received' = [received EXCEPT ![ep.kind] = Append(@, ep.report)]
      /\ ep' = FreeEndpoint
      /\ UNCHANGED <<slots, rx, poll, handled, excused>>
  BY DEF HostTakes, tasks
<1>1. StoredOrExcused'
  BY <1>0 DEF StoredOrExcused, slots
<1>2. ASSUME NEW j \in Kinds, NEW n \in Nat
      PROVE  /\ Delivered(j, n) # {} => Delivered(j, n)' # {}
             /\ InEndpoint(j, n) => Delivered(j, n)' # {}
  <2>1. CASE j # ep.kind
    <3>1. received'[j] = received[j]
      BY <1>0, <2>1 DEF TypeOK
    <3> QED BY <2>1, <3>1 DEF Delivered, InEndpoint
  <2>2. CASE j = ep.kind
    <3> DEFINE old == received[j]
    <3>1. old \in Seq(Report) /\ ep.report \in Report
      BY DEF TypeOK
    <3>2. received'[j] = Append(old, ep.report)
      BY <1>0, <2>2 DEF TypeOK
    <3> HIDE DEF old
    <3>3. /\ DOMAIN received'[j] = 1..(Len(old) + 1)
          /\ received'[j][Len(old) + 1] = ep.report
          /\ \A i \in 1..Len(old) : received'[j][i] = old[i]
          /\ Len(old) + 1 \in 1..(Len(old) + 1)
          /\ DOMAIN old = 1..Len(old)
          /\ 1..Len(old) \subseteq 1..(Len(old) + 1)
      BY <3>1, <3>2
    <3>4. InEndpoint(j, n) => Len(old) + 1 \in Delivered(j, n)'
      BY <3>3 DEF InEndpoint, Delivered
    <3>5. Delivered(j, n) \subseteq Delivered(j, n)'
      BY <3>3 DEF Delivered, old
    <3> QED BY <3>4, <3>5
  <2> QED BY <2>1, <2>2
<1>3. CopiedOrExcused'
  <2>1. poll.kind \in Kinds
    BY DEF TypeOK
  <2> QED BY <1>0, <1>2, <2>1 DEF CopiedOrExcused, slots
<1>4. \A j \in Kinds, n \in Nat :
        /\ InHandler(j, n) => InHandler(j, n)'
        /\ InSlot(j, n) => InSlot(j, n)'
  BY <1>0 DEF InHandler, InSlot, slots
<1>5. Accounted'
  <2>1. \A j \in Kinds : \A n \in 1..handled[j] : n \in Nat
    OBVIOUS
  <2> QED BY <1>0, <1>2, <1>4, <2>1 DEF Accounted
<1> QED BY <1>1, <1>3, <1>5

LEMMA UnusedBeforeNext ==
  ASSUME TypeOK, UnusedBefore, [Next]_vars, detaches' = 0
  PROVE  UnusedBefore'
<1> USE DEF device, slots, tasks, usb, seen, bounds
<1>1. CASE UNCHANGED vars
  BY <1>1 DEF vars, UnusedBefore
<1>2. ASSUME NEW t \in Rx, NEW k \in Traffic, Handle(t, k) PROVE UnusedBefore'
  BY <1>2 DEF Handle, UnusedBefore
<1>3. ASSUME NEW t \in Rx, RxStep(t) PROVE UnusedBefore'
  <2>1. UNCHANGED <<bus, s_usb_ready, poll>>
    BY <1>3, WakeFrame DEF RxStep, WakeStep, Send, StoreA, StoreB, StoreFlag
  <2> QED BY <2>1 DEF UnusedBefore
<1>4. CASE PollStep
  <2>1. UNCHANGED <<bus, s_usb_ready>>
    BY <1>4 DEF PollStep, PollBegin, PollSkip, PollClaim, PollCopyA,
       PollSubmit, PollClear
  <2>2. poll.at # "idle" \/ s_usb_ready
    BY <1>4 DEF PollStep, PollBegin, PollSkip, PollClaim, PollCopyA,
       PollSubmit, PollClear
  <2> QED BY <2>1, <2>2 DEF UnusedBefore
<1>5. CASE Attach \/ HostResumes \/ HostTakes \/ \E e \in BOOLEAN : HostSuspends(e)
  <2>1. bus' # "detached"
    BY <1>5 DEF Attach, HostResumes, HostTakes, HostSuspends
  <2> QED BY <2>1 DEF UnusedBefore
<1>6. CASE TudStep \/ ThrottleExpires
  <2>1. UNCHANGED <<bus, poll>> /\ (s_usb_ready' = s_usb_ready \/ s_usb_ready' = FALSE)
    BY <1>6 DEF TudStep, OnDetach, OnSuspend, OnResume, StoreEnabled, StoreTime,
       ThrottleExpires
  <2> QED BY <2>1 DEF UnusedBefore
<1>7. CASE HostDetaches
  BY <1>7 DEF HostDetaches, TypeOK
<1> QED
  BY <1>1, <1>2, <1>3, <1>4, <1>5, <1>6, <1>7
  DEF Next, HandleUnmounted, PollNotReady

LEMMA DetachesCount ==
  ASSUME TypeOK, [Next]_vars, detaches' = 0
  PROVE  detaches = 0
<1> USE DEF device, slots, tasks, usb, seen, bounds
<1>1. CASE HostDetaches
  BY <1>1 DEF HostDetaches, TypeOK
<1>2. ASSUME NEW t \in Rx, RxStep(t) PROVE detaches = 0
  BY <1>2, WakeFrame DEF RxStep, WakeStep, Send, StoreA, StoreB, StoreFlag
<1>3. CASE PollStep
  BY <1>3 DEF PollStep, PollBegin, PollSkip, PollClaim, PollCopyA,
     PollSubmit, PollClear
<1>4. CASE HostTakes \/ UNCHANGED vars
  BY <1>4 DEF HostTakes, vars
<1>5. CASE BusStep
  BY <1>1, <1>5, BusFrame
<1>6. ASSUME NEW t \in Rx, NEW k \in Traffic, Handle(t, k) PROVE detaches = 0
  BY <1>6 DEF Handle
<1> QED
  BY <1>2, <1>3, <1>4, <1>5, <1>6 DEF Next, BusStep, HandleUnmounted, PollNotReady

LEMMA LossNext == TypeOK /\ LossInv /\ [Next]_vars => LossInv'
<1> DEFINE Rest == StoredOrExcused /\ CopiedOrExcused /\ Accounted
<1> SUFFICES ASSUME TypeOK, LossInv, [Next]_vars, detaches' = 0
             PROVE  UnusedBefore' /\ Rest'
  BY DEF LossInv
<1> USE DEF device, slots, tasks, usb, seen, bounds
<1>0. UnusedBefore /\ Rest
  <2>1. detaches = 0
    BY DetachesCount
  <2> QED BY <2>1 DEF LossInv
<1>1. UnusedBefore'
  BY <1>0, UnusedBeforeNext
<1>2. ASSUME UNCHANGED LossVars PROVE Rest'
  BY <1>0, <1>2, LossFrame
<1>3. ASSUME NEW t \in Rx, NEW k \in Traffic, Handle(t, k) PROVE Rest'
  BY <1>0, <1>3, LossHandle, TrafficAssumption
<1>4. ASSUME NEW t \in Rx, RxStep(t) PROVE Rest'
  <2>1. CASE WakeStep(t) \/ (Send(t) /\ ~HidReady)
    <3>1. /\ UNCHANGED <<slots, poll, ep, handled, received, excused>>
          /\ \E to \in {"armed", "throttle", "signal", "stamp", "disarm", "send", "store_a"} :
               rx' = [rx EXCEPT ![t].at = to]
      BY <2>1, WakeFrame DEF Send, RxGoes
    <3> QED BY <1>0, <3>1, LossMoves
  <2>2. CASE Send(t) /\ HidReady
    BY <1>0, <2>2, LossSend
  <2>3. CASE StoreA(t)
    BY <1>0, <2>3, LossStoreA
  <2>4. CASE StoreB(t)
    BY <1>0, <2>4, LossStoreB
  <2>5. CASE StoreFlag(t)
    BY <1>0, <2>5, LossStoreFlag
  <2> QED BY <1>4, <2>1, <2>2, <2>3, <2>4, <2>5 DEF RxStep, WakeStep
<1>5. ASSUME PollStep PROVE Rest'
  <2>1. CASE PollBegin \/ PollSkip \/ PollClaim \/ PollCopyA
    BY <1>0, <2>1, LossPollGoes
  <2>2. CASE PollSubmit
    BY <1>0, <2>2, LossPollSubmit
  <2>3. CASE PollClear
    BY <1>0, <2>3, LossPollClear
  <2> QED BY <1>5, <2>1, <2>2, <2>3 DEF PollStep
<1>6. ASSUME HostTakes PROVE Rest'
  BY <1>0, <1>6, LossHostTakes
<1>7. ASSUME UNCHANGED vars \/ (BusStep /\ ~HostDetaches) PROVE Rest'
  <2>1. UNCHANGED LossVars
    BY <1>7, BusFrame DEF vars, LossVars
  <2> QED BY <1>2, <2>1
<1>8. ASSUME HostDetaches PROVE Rest'
  BY <1>8 DEF HostDetaches, TypeOK
<1> QED
  BY <1>1, <1>3, <1>4, <1>5, <1>6, <1>7, <1>8
  DEF Next, BusStep, HandleUnmounted, PollNotReady

(* A report that was handled is only lost when a later one replaced it in  *)
(* its slot, when it was stored while the poll was in the slot, or when    *)
(* another task was in a handler of its kind: for any number of tasks and  *)
(* reports, as long as the target PC stays attached.                       *)
THEOREM NothingElseLost == Spec => []LossNeedsOverlap
<1>1. Init => LossInv
  <2> SUFFICES ASSUME Init
               PROVE  UnusedBefore /\ StoredOrExcused /\ CopiedOrExcused /\ Accounted
    BY DEF LossInv
  <2>1. UnusedBefore /\ CopiedOrExcused
    BY DEF Init, UnusedBefore, CopiedOrExcused, IdlePoll
  <2>2. StoredOrExcused
    BY DEF Init, StoredOrExcused, IdleRx
  <2>3. Accounted
    BY DEF Init, Accounted
  <2> QED BY <2>1, <2>2, <2>3
<1>2. LossInv => LossNeedsOverlap
  BY DEF LossInv, LossNeedsOverlap, Quiet, NeverDetached, Accounted,
     InEndpoint, InHandler, InSlot
<1> QED BY <1>1, <1>2, LossNext, TypeCorrect, PTL DEF Spec

-----------------------------------------------------------------------------
(* How often a report can be sent.                                         *)

(* No two handlers have the same event, and the flag of the slot the poll  *)
(* is in stays raised.                                                     *)
IdsUnique ==
  \A t, u \in Rx :
    rx[t].at # "idle" /\ rx[u].at # "idle"
      /\ rx[t].kind = rx[u].kind /\ rx[t].id = rx[u].id
    => t = u

FlagHeld == poll.at \in {"copy_a", "submit", "clear"} => s_pending_report[poll.kind]

(* Report n has not been sent, nor the first half of it stored.            *)
Before == {"wake", "armed", "throttle", "signal", "stamp", "disarm", "send", "store_a"}

Early(k, n) ==
  \/ n > handled[k]
  \/ \E t \in Rx : rx[t].at \in Before /\ rx[t].kind = k /\ rx[t].id = n

(* What the number of times it can still be sent depends on: the flags     *)
(* that are raised or will be by a task that is past its first store, and  *)
(* the copy of the poll.  A task that has the first store ahead of it      *)
(* will replace the report before it raises the flag.                      *)
Storing(k) == {t \in Rx : rx[t].at \in {"store_b", "store_flag"} /\ rx[t].kind = k}
FlagToSend(k) == s_pending_report[k] /\ ~(poll.at = "clear" /\ poll.kind = k)
Copied(k, n) == poll.at = "submit" /\ poll.kind = k /\ poll.copy.a = n

One(b) == IF b THEN 1 ELSE 0
Sent(k, n) == Cardinality(Delivered(k, n)) + One(InEndpoint(k, n))

Budget(k, n) ==
  /\ Early(k, n) =>
       /\ Delivered(k, n) = {}
       /\ ~InEndpoint(k, n)
       /\ ~Copied(k, n)
       /\ s_pending[k].a # n
  /\ ~Early(k, n) /\ s_pending[k].a = n =>
       Sent(k, n) + One(FlagToSend(k)) + Cardinality(Storing(k)) <= 1 + Cardinality(Rx)
  /\ ~Early(k, n) /\ s_pending[k].a # n =>
       Sent(k, n) + One(Copied(k, n)) <= 1 + Cardinality(Rx)

BudgetInv == \A k \in Kinds : \A n \in Nat \ {0} : Budget(k, n)

LEMMA IdsUniqueNext ==
  TypeOK /\ IdsAccepted /\ IdsUnique /\ [Next]_vars => IdsUnique'
<1> SUFFICES ASSUME TypeOK, IdsAccepted, IdsUnique, [Next]_vars PROVE IdsUnique'
  OBVIOUS
<1> USE DEF device, slots, tasks, usb, seen, bounds
<1>1. ASSUME UNCHANGED rx PROVE IdsUnique'
  BY <1>1 DEF IdsUnique
<1>2. ASSUME NEW t \in Rx, NEW k \in Traffic, Handle(t, k) PROVE IdsUnique'
  <2>1. k \in Kinds
    BY TrafficAssumption
  <2>2. /\ rx'[t] = [at |-> "wake", kind |-> k, id |-> handled[k] + 1]
        /\ \A u \in Rx \ {t} : rx'[u] = rx[u]
    BY <1>2 DEF Handle, TypeOK
  <2>3. \A u \in Rx : rx[u].at # "idle" /\ rx[u].kind = k => rx[u].id # handled[k] + 1
    BY <2>1 DEF TypeOK, IdsAccepted
  <2> QED BY <2>2, <2>3 DEF IdsUnique
<1>3. ASSUME NEW t \in Rx, RxStep(t) PROVE IdsUnique'
  <2>1. CASE rx' = [rx EXCEPT ![t] = IdleRx]
    <3>1. rx'[t].at = "idle" /\ \A u \in Rx \ {t} : rx'[u] = rx[u]
      BY <2>1 DEF TypeOK, IdleRx
    <3> QED BY <3>1 DEF IdsUnique
  <2>2. CASE \E to \in RxAt : rx' = [rx EXCEPT ![t].at = to]
    <3>1. rx[t].at # "idle"
      BY <1>3, WakeFrame DEF RxStep, WakeStep, Send, StoreA, StoreB, StoreFlag, RxGoes
    <3>2. \A u \in Rx : /\ rx'[u].kind = rx[u].kind
                        /\ rx'[u].id = rx[u].id
                        /\ u # t => rx'[u].at = rx[u].at
      BY <2>2 DEF TypeOK
    <3> QED BY <3>1, <3>2 DEF IdsUnique
  <2>3. \/ rx' = [rx EXCEPT ![t] = IdleRx]
        \/ \E to \in RxAt : rx' = [rx EXCEPT ![t].at = to]
    BY <1>3, WakeFrame DEF RxStep, WakeStep, Send, StoreA, StoreB, StoreFlag, RxGoes, RxAt
  <2> QED BY <2>1, <2>2, <2>3
<1>4. CASE PollStep \/ BusStep \/ HostTakes \/ UNCHANGED vars
  <2>1. UNCHANGED rx
    BY <1>4, BusFrame DEF PollStep, PollBegin, PollSkip, PollClaim, PollCopyA,
       PollSubmit, PollClear, HostTakes, vars
  <2> QED BY <1>1, <2>1
<1> QED BY <1>2, <1>3, <1>4 DEF Next, BusStep, HandleUnmounted, PollNotReady

LEMMA FlagHeldNext == TypeOK /\ FlagHeld /\ [Next]_vars => FlagHeld'
<1> SUFFICES ASSUME TypeOK, FlagHeld, [Next]_vars PROVE FlagHeld'
  OBVIOUS
<1> USE DEF device, slots, tasks, usb, seen, bounds
<1>1. ASSUME UNCHANGED poll, \A k \in Kinds : s_pending_report[k] => s_pending_report'[k]
      PROVE  FlagHeld'
  BY <1>1 DEF TypeOK, FlagHeld
<1>2. ASSUME NEW t \in Rx, NEW k \in Traffic, Handle(t, k) PROVE FlagHeld'
  BY <1>1, <1>2 DEF Handle
<1>3. ASSUME NEW t \in Rx, RxStep(t) PROVE FlagHeld'
  <2>1. CASE StoreFlag(t)
    BY <1>1, <2>1 DEF StoreFlag, TypeOK
  <2>2. CASE ~StoreFlag(t)
    <3>1. UNCHANGED <<poll, s_pending_report>>
      BY <1>3, <2>2, WakeFrame DEF RxStep, WakeStep, Send, StoreA, StoreB
    <3> QED BY <1>1, <3>1
  <2> QED BY <2>1, <2>2
<1>4. CASE PollStep
  <2>1. CASE PollBegin
    BY <2>1 DEF PollBegin, FlagHeld, TypeOK
  <2>2. CASE PollSkip
    BY <2>2, NextCheckAt DEF PollSkip, FlagHeld
  <2>3. CASE PollClaim \/ PollCopyA
    BY <2>3 DEF PollClaim, PollCopyA, FlagHeld, TypeOK
  <2>4. CASE PollSubmit
    <3>1. UNCHANGED s_pending_report /\ s_pending_report[poll.kind]
      BY <2>4 DEF PollSubmit, FlagHeld
    <3>2. poll'.kind = poll.kind \/ poll'.at \in {"idle", "check"}
      BY <2>4, NextCheckAt DEF PollSubmit, TypeOK
    <3> QED BY <3>1, <3>2 DEF FlagHeld
  <2>5. CASE PollClear
    BY <2>5 DEF PollClear, FlagHeld, IdlePoll
  <2> QED BY <1>4, <2>1, <2>2, <2>3, <2>4, <2>5 DEF PollStep
<1>5. CASE BusStep \/ HostTakes \/ UNCHANGED vars
  <2>1. UNCHANGED <<poll, s_pending_report>>
    BY <1>5, BusFrame DEF HostTakes, vars
  <2> QED BY <1>1, <2>1
<1> QED BY <1>2, <1>3, <1>4, <1>5 DEF Next, BusStep, HandleUnmounted, PollNotReady

(* The sets that are counted are finite.                                   *)
LEMMA Counted ==
  ASSUME TypeOK, NEW k \in Kinds, NEW n
  PROVE  /\ IsFiniteSet(Delivered(k, n)) /\ Cardinality(Delivered(k, n)) \in Nat
         /\ IsFiniteSet(Storing(k)) /\ Cardinality(Storing(k)) \in Nat
         /\ Cardinality(Rx) \in Nat
<1>1. received[k] \in Seq(Report)
  BY DEF TypeOK
<1>2. Delivered(k, n) \subseteq 1..Len(received[k]) /\ Len(received[k]) \in Nat
  BY <1>1 DEF Delivered
<1>3. IsFiniteSet(1..Len(received[k]))
  BY <1>2, FS_Interval
<1>4. IsFiniteSet(Delivered(k, n))
  BY <1>2, <1>3, FS_Subset
<1>5. Storing(k) \subseteq Rx
  BY DEF Storing
<1>6. IsFiniteSet(Storing(k))
  BY <1>5, RxAssumption, FS_Subset
<1> QED BY <1>4, <1>6, RxAssumption, FS_CardinalityType

(* A step that brings no new copy of report n nearer to the endpoint.      *)
LEMMA BudgetKept ==
  ASSUME TypeOK, NEW k \in Kinds, NEW n \in Nat \ {0}, Budget(k, n),
         Early(k, n)' <=> Early(k, n),
         Delivered(k, n)' = Delivered(k, n),
         InEndpoint(k, n)' => InEndpoint(k, n),
         Copied(k, n)' => Copied(k, n),
         FlagToSend(k)' => FlagToSend(k),
         Storing(k)' = Storing(k),
         s_pending'[k].a = s_pending[k].a
  PROVE  Budget(k, n)'
<1> DEFINE d == Cardinality(Delivered(k, n))
           s == Cardinality(Storing(k))
           bound == 1 + Cardinality(Rx)
<1>1. d \in Nat /\ s \in Nat /\ bound \in Nat
  BY Counted
<1>2. /\ Cardinality(Delivered(k, n))' = d
      /\ Cardinality(Storing(k))' = s
      /\ (1 + Cardinality(Rx))' = bound
  OBVIOUS
<1>3. /\ One(InEndpoint(k, n))' <= One(InEndpoint(k, n))
      /\ One(Copied(k, n))' <= One(Copied(k, n))
      /\ One(FlagToSend(k))' <= One(FlagToSend(k))
      /\ One(InEndpoint(k, n)) \in Nat /\ One(InEndpoint(k, n))' \in Nat
      /\ One(Copied(k, n)) \in Nat /\ One(Copied(k, n))' \in Nat
      /\ One(FlagToSend(k)) \in Nat /\ One(FlagToSend(k))' \in Nat
  BY DEF One
<1> HIDE DEF d, s, bound
<1> QED BY <1>1, <1>2, <1>3 DEF Budget, Sent, d, s, bound

LEMMA BudgetHandle ==
  ASSUME TypeOK, BudgetInv, NEW t \in Rx, NEW j \in Kinds, Handle(t, j),
         NEW k \in Kinds, NEW n \in Nat \ {0}
  PROVE  Budget(k, n)'
<1>0. /\ rx[t].at = "idle"
      /\ handled' = [handled EXCEPT ![j] = @ + 1]
      /\ UNCHANGED <<slots, poll, ep, received>>
  BY DEF Handle, usb
<1>1. /\ rx'[t] = [at |-> "wake", kind |-> j, id |-> handled[j] + 1]
      /\ \A u \in Rx \ {t} : rx'[u] = rx[u]
  BY DEF Handle, TypeOK
<1>2. Early(k, n)' <=> Early(k, n)
  <2>1. n > handled'[k] <=> n > handled[k] /\ ~(k = j /\ n = handled[j] + 1)
    BY <1>0 DEF TypeOK
  <2>2. (\E u \in Rx : rx'[u].at \in Before /\ rx'[u].kind = k /\ rx'[u].id = n)
          <=> \/ \E u \in Rx : rx[u].at \in Before /\ rx[u].kind = k /\ rx[u].id = n
              \/ (k = j /\ n = handled[j] + 1)
    BY <1>0, <1>1 DEF Before
  <2>3. k = j /\ n = handled[j] + 1 => n > handled[k]
    BY DEF TypeOK
  <2> QED BY <2>1, <2>2, <2>3 DEF Early
<1>3. Storing(k)' = Storing(k)
  BY <1>0, <1>1 DEF Storing
<1> QED
  BY <1>0, <1>2, <1>3, BudgetKept
  DEF BudgetInv, Delivered, InEndpoint, Copied, FlagToSend, slots

(* A task on its way to its first store, or from the first to the second.  *)
LEMMA BudgetMoves ==
  ASSUME TypeOK, BudgetInv, NEW t \in Rx,
         NEW to \in RxAt, rx' = [rx EXCEPT ![t].at = to],
         \/ rx[t].at \in Before /\ to \in Before
         \/ rx[t].at = "store_b" /\ to = "store_flag",
         UNCHANGED <<s_pending_report, poll, ep, handled, received>>,
         \A k \in Kinds : s_pending'[k].a = s_pending[k].a,
         NEW k \in Kinds, NEW n \in Nat \ {0}
  PROVE  Budget(k, n)'
<1>1. \A u \in Rx : /\ rx'[u].kind = rx[u].kind
                    /\ rx'[u].id = rx[u].id
                    /\ rx'[u].at = IF u = t THEN to ELSE rx[u].at
  BY SMTT(30) DEF TypeOK
<1>2. \A u \in Rx : rx'[u].at \in Before <=> rx[u].at \in Before
  BY <1>1 DEF Before
<1>3. Early(k, n)' <=> Early(k, n)
  BY <1>1, <1>2 DEF Early
<1>4. Storing(k)' = Storing(k)
  BY <1>1 DEF Storing, Before
<1> QED
  BY <1>3, <1>4, BudgetKept
  DEF BudgetInv, Delivered, InEndpoint, Copied, FlagToSend

(* A report sent at once is never stored.                                  *)
LEMMA BudgetSend ==
  ASSUME TypeOK, IdsAccepted, IdsUnique, BudgetInv, NEW t \in Rx, Send(t), HidReady,
         NEW k \in Kinds, NEW n \in Nat \ {0}
  PROVE  Budget(k, n)'
<1>0. /\ rx[t].at = "send"
      /\ rx' = [rx EXCEPT ![t] = IdleRx]
      /\ ep' = Transfer(rx[t].kind, Whole(rx[t].id))
      /\ UNCHANGED <<slots, poll, handled, received>>
  BY DEF Send, seen
<1>1. rx'[t].at = "idle" /\ \A u \in Rx \ {t} : rx'[u] = rx[u]
  BY <1>0 DEF TypeOK, IdleRx
<1>2. Budget(k, n)
  BY DEF BudgetInv
<1>3. CASE k = rx[t].kind /\ n = rx[t].id
  <2>1. Early(k, n)
    BY <1>0, <1>3 DEF Early, Before
  <2>2. ~Early(k, n)'
    <3>1. n \in 1..handled[k] /\ handled' = handled
      BY <1>0, <1>3 DEF IdsAccepted
    <3>2. ~(n > handled'[k])
      BY <3>1 DEF TypeOK
    <3>3. \A u \in Rx : ~(rx'[u].at \in Before /\ rx'[u].kind = k /\ rx'[u].id = n)
      BY <1>0, <1>1, <1>3 DEF IdsUnique, Before
    <3> QED BY <3>2, <3>3 DEF Early
  <2>3. Delivered(k, n)' = {} /\ s_pending'[k].a # n /\ ~Copied(k, n)'
    BY <1>0, <1>2, <2>1 DEF Budget, Delivered, slots, Copied
  <2>4. Cardinality(Delivered(k, n))' = 0
    BY <2>3, FS_EmptySet
  <2>5. Cardinality(Rx) \in Nat
    BY Counted
  <2>6. One(InEndpoint(k, n))' \in {0, 1} /\ One(Copied(k, n))' = 0
    BY <2>3 DEF One
  <2> QED BY <2>2, <2>3, <2>4, <2>5, <2>6 DEF Budget, Sent
<1>4. CASE ~(k = rx[t].kind /\ n = rx[t].id)
  <2>1. Early(k, n)' <=> Early(k, n)
    BY <1>0, <1>1, <1>4 DEF Early, Before
  <2>2. ~InEndpoint(k, n)'
    BY <1>0, <1>4 DEF InEndpoint, Transfer, Whole
  <2>3. Storing(k)' = Storing(k)
    BY <1>0, <1>1 DEF Storing
  <2> QED
    BY <1>0, <1>2, <2>1, <2>2, <2>3, BudgetKept
    DEF Delivered, Copied, FlagToSend, slots
<1> QED BY <1>3, <1>4

(* The first store: each flag that can send the report from now on is      *)
(* raised, or will be by a task that is past its own first store.          *)
LEMMA BudgetStoreA ==
  ASSUME TypeOK, IdsAccepted, IdsUnique, FlagHeld, BudgetInv, NEW t \in Rx, StoreA(t),
         NEW k \in Kinds, NEW n \in Nat \ {0}
  PROVE  Budget(k, n)'
<1>0. /\ rx[t].at = "store_a"
      /\ rx' = [rx EXCEPT ![t].at = "store_b"]
      /\ s_pending' = [s_pending EXCEPT ![rx[t].kind].a = rx[t].id]
      /\ UNCHANGED <<s_pending_report, poll, ep, handled, received>>
  BY DEF StoreA, RxGoes, usb
<1>1. \A u \in Rx : /\ rx'[u].kind = rx[u].kind
                    /\ rx'[u].id = rx[u].id
                    /\ rx'[u].at = IF u = t THEN "store_b" ELSE rx[u].at
  BY <1>0 DEF TypeOK
<1>2. s_pending'[k].a = IF k = rx[t].kind THEN rx[t].id ELSE s_pending[k].a
  BY <1>0 DEF TypeOK, Report
<1>3. Budget(k, n)
  BY DEF BudgetInv
<1>4. /\ Delivered(k, n)' = Delivered(k, n)
      /\ InEndpoint(k, n)' = InEndpoint(k, n)
      /\ Copied(k, n)' = Copied(k, n)
      /\ FlagToSend(k)' = FlagToSend(k)
  BY <1>0 DEF Delivered, InEndpoint, Copied, FlagToSend
<1>5. CASE k = rx[t].kind /\ n = rx[t].id
  <2>1. Early(k, n)
    BY <1>0, <1>5 DEF Early, Before
  <2>2. s_pending'[k].a = n
    BY <1>2, <1>5
  <2>3. Cardinality(Delivered(k, n))' = 0 /\ One(InEndpoint(k, n))' = 0
    BY <1>3, <1>4, <2>1, FS_EmptySet DEF Budget, One
  <2>4. Storing(k)' \subseteq Rx
    BY DEF Storing
  <2>5. IsFiniteSet(Storing(k)') /\ Cardinality(Storing(k)') <= Cardinality(Rx)
    BY <2>4, RxAssumption, FS_Subset
  <2>6. Cardinality(Storing(k)') \in Nat /\ Cardinality(Rx) \in Nat
    BY <2>5, RxAssumption, FS_CardinalityType
  <2>7. One(FlagToSend(k))' \in {0, 1}
    BY DEF One
  <2>8. ~Early(k, n)'
    <3>1. n \in 1..handled[k] /\ handled' = handled
      BY <1>0, <1>5 DEF IdsAccepted
    <3>2. ~(n > handled'[k])
      BY <3>1 DEF TypeOK
    <3>3. \A u \in Rx : ~(rx'[u].at \in Before /\ rx'[u].kind = k /\ rx'[u].id = n)
      BY <1>0, <1>1, <1>5 DEF IdsUnique, Before
    <3> QED BY <3>2, <3>3 DEF Early
  <2>9. Cardinality(Storing(k))' = Cardinality(Storing(k)')
    OBVIOUS
  <2> QED BY <2>2, <2>3, <2>5, <2>6, <2>7, <2>8, <2>9 DEF Budget, Sent
<1>6. CASE k = rx[t].kind /\ n # rx[t].id
  <2>1. Early(k, n)' <=> Early(k, n)
    BY <1>0, <1>1, <1>6 DEF Early, Before
  <2>2. s_pending'[k].a # n
    BY <1>2, <1>6
  <2>3. CASE Early(k, n)
    BY <1>3, <1>4, <2>1, <2>2, <2>3 DEF Budget
  <2>4. CASE ~Early(k, n)
    <3> DEFINE d == Cardinality(Delivered(k, n))
               s == Cardinality(Storing(k))
               bound == 1 + Cardinality(Rx)
    <3>1. d \in Nat /\ s \in Nat /\ bound \in Nat
      BY Counted
    <3>2. One(Copied(k, n)) <= One(FlagToSend(k))
      BY DEF FlagHeld, Copied, FlagToSend, One
    <3>3. /\ One(InEndpoint(k, n)) \in Nat
          /\ One(Copied(k, n)) \in Nat
          /\ One(FlagToSend(k)) \in Nat
      BY DEF One
    <3>4. \/ d + One(InEndpoint(k, n)) + One(FlagToSend(k)) + s <= bound
          \/ d + One(InEndpoint(k, n)) + One(Copied(k, n)) <= bound
      BY <1>3, <2>4 DEF Budget, Sent
    <3>5. d + One(InEndpoint(k, n)) + One(Copied(k, n)) <= bound
      <4> HIDE DEF d, s, bound
      <4> QED BY <3>1, <3>2, <3>3, <3>4
    <3>6. (Sent(k, n) + One(Copied(k, n)))' = Sent(k, n) + One(Copied(k, n))
      BY <1>4 DEF Sent
    <3> QED BY <2>1, <2>2, <2>4, <3>5, <3>6 DEF Budget, Sent
  <2> QED BY <2>3, <2>4
<1>7. CASE k # rx[t].kind
  <2>1. Early(k, n)' <=> Early(k, n)
    BY <1>0, <1>1, <1>7 DEF Early, Before
  <2>2. Storing(k)' = Storing(k)
    BY <1>0, <1>1, <1>7 DEF Storing
  <2> QED BY <1>2, <1>3, <1>4, <1>7, <2>1, <2>2, BudgetKept
<1> QED BY <1>5, <1>6, <1>7

(* The flag a task raises was counted as long as the task was storing.     *)
LEMMA BudgetStoreFlag ==
  ASSUME TypeOK, BudgetInv, NEW t \in Rx, StoreFlag(t),
         NEW k \in Kinds, NEW n \in Nat \ {0}
  PROVE  Budget(k, n)'
<1>0. /\ rx[t].at = "store_flag"
      /\ rx' = [rx EXCEPT ![t] = IdleRx]
      /\ s_pending_report' = [s_pending_report EXCEPT ![rx[t].kind] = TRUE]
      /\ UNCHANGED <<s_pending, poll, ep, handled, received>>
  BY DEF StoreFlag, usb
<1>1. rx'[t].at = "idle" /\ \A u \in Rx \ {t} : rx'[u] = rx[u]
  BY <1>0 DEF TypeOK, IdleRx
<1>2. Budget(k, n)
  BY DEF BudgetInv
<1>3. Early(k, n)' <=> Early(k, n)
  BY <1>0, <1>1 DEF Early, Before
<1>4. /\ Delivered(k, n)' = Delivered(k, n)
      /\ InEndpoint(k, n)' = InEndpoint(k, n)
      /\ Copied(k, n)' = Copied(k, n)
  BY <1>0 DEF Delivered, InEndpoint, Copied
<1>5. CASE k = rx[t].kind
  <2> DEFINE d == Cardinality(Delivered(k, n))
             s == Cardinality(Storing(k))
             bound == 1 + Cardinality(Rx)
  <2>1. d \in Nat /\ s \in Nat /\ bound \in Nat
    BY Counted
  <2>2. t \in Storing(k) /\ Storing(k)' = Storing(k) \ {t}
    BY <1>0, <1>1, <1>5 DEF Storing
  <2>3. Cardinality(Storing(k)') = s - 1
    BY <2>2, Counted, FS_RemoveElement
  <2>4. /\ One(InEndpoint(k, n)) \in Nat
        /\ One(FlagToSend(k)) \in Nat
        /\ One(FlagToSend(k))' \in {0, 1}
        /\ One(FlagToSend(k))' <= One(FlagToSend(k)) + 1
    BY DEF One
  <2>5. /\ Sent(k, n)' = d + One(InEndpoint(k, n))
        /\ Sent(k, n) = d + One(InEndpoint(k, n))
        /\ One(Copied(k, n))' = One(Copied(k, n))
    BY <1>4 DEF Sent
  <2>6. Sent(k, n)' + One(FlagToSend(k))' + Cardinality(Storing(k)')
          <= Sent(k, n) + One(FlagToSend(k)) + s
    <3> HIDE DEF d, s
    <3> QED BY <2>1, <2>3, <2>4, <2>5
  <2>7. ~Early(k, n) /\ s_pending[k].a = n =>
          Sent(k, n)' + One(FlagToSend(k))' + Cardinality(Storing(k)') <= bound
    <3>1. ~Early(k, n) /\ s_pending[k].a = n =>
            Sent(k, n) + One(FlagToSend(k)) + s <= bound
      BY <1>2 DEF Budget
    <3>2. Sent(k, n) \in Nat /\ Sent(k, n)' \in Nat
      BY <2>1, <2>4, <2>5
    <3>3. Cardinality(Storing(k)') \in Int
      BY <2>1, <2>3
    <3> HIDE DEF s, bound
    <3> QED BY <2>1, <2>4, <2>6, <3>1, <3>2, <3>3
  <2>8. Cardinality(Storing(k))' = Cardinality(Storing(k)')
    OBVIOUS
  <2> QED BY <1>0, <1>2, <1>3, <1>4, <2>5, <2>7, <2>8 DEF Budget
<1>6. CASE k # rx[t].kind
  <2>1. Storing(k)' = Storing(k)
    BY <1>0, <1>1, <1>6 DEF Storing
  <2>2. FlagToSend(k)' = FlagToSend(k)
    BY <1>0, <1>6 DEF FlagToSend, TypeOK
  <2> QED BY <1>0, <1>2, <1>3, <1>4, <2>1, <2>2, BudgetKept
<1> QED BY <1>5, <1>6

(* The poll copies the first half of what is stored, and of nothing early. *)
LEMMA BudgetPollGoes ==
  ASSUME TypeOK, FlagHeld, BudgetInv, PollBegin \/ PollSkip \/ PollClaim \/ PollCopyA,
         NEW k \in Kinds, NEW n \in Nat \ {0}
  PROVE  Budget(k, n)'
<1>0. UNCHANGED <<slots, rx, handled, received>>
  BY DEF PollBegin, PollSkip, PollClaim, PollCopyA, seen
<1>1. Budget(k, n)
  BY DEF BudgetInv
<1>2. /\ Early(k, n)' <=> Early(k, n)
      /\ Delivered(k, n)' = Delivered(k, n)
      /\ Storing(k)' = Storing(k)
      /\ s_pending'[k].a = s_pending[k].a
  BY <1>0 DEF Early, Delivered, Storing, slots
<1>3. InEndpoint(k, n)' => InEndpoint(k, n)
  BY DEF InEndpoint, PollBegin, PollSkip, PollClaim, PollCopyA, usb,
     ClaimedEndpoint, FreeEndpoint
<1>4. FlagToSend(k)' => FlagToSend(k)
  <2>1. poll.at # "clear"
    BY DEF PollBegin, PollSkip, PollClaim, PollCopyA
  <2> QED BY <1>0, <2>1 DEF FlagToSend, slots
<1>5. CASE PollBegin \/ PollSkip \/ PollClaim
  <2>1. poll'.at # "submit"
    BY <1>5, NextCheckAt DEF PollBegin, PollSkip, PollClaim, TypeOK
  <2> QED BY <1>1, <1>2, <1>3, <1>4, <2>1, BudgetKept DEF Copied
<1>6. CASE PollCopyA
  <2>1. Copied(k, n)' => s_pending[k].a = n
    BY <1>6 DEF PollCopyA, Copied, TypeOK, Report
  <2>2. CASE s_pending[k].a = n
    <3>1. ~Early(k, n)
      BY <1>1, <2>2 DEF Budget
    <3> DEFINE d == Cardinality(Delivered(k, n))
               s == Cardinality(Storing(k))
               bound == 1 + Cardinality(Rx)
    <3>2. d \in Nat /\ s \in Nat /\ bound \in Nat
      BY Counted
    <3>3. d + One(InEndpoint(k, n)) + One(FlagToSend(k)) + s <= bound
      BY <1>1, <2>2, <3>1 DEF Budget, Sent
    <3>4. /\ One(InEndpoint(k, n)) \in Nat /\ One(InEndpoint(k, n))' \in Nat
          /\ One(InEndpoint(k, n))' <= One(InEndpoint(k, n))
          /\ One(FlagToSend(k)) \in Nat /\ One(FlagToSend(k))' \in Nat
          /\ One(FlagToSend(k))' <= One(FlagToSend(k))
      BY <1>3, <1>4 DEF One
    <3>5. d + One(InEndpoint(k, n))' + One(FlagToSend(k))' + s <= bound
      <4> HIDE DEF d, s, bound
      <4> QED BY <3>2, <3>3, <3>4
    <3>6. /\ Cardinality(Delivered(k, n))' = d
          /\ Cardinality(Storing(k))' = s
          /\ (1 + Cardinality(Rx))' = bound
      BY <1>2
    <3> QED BY <1>2, <2>2, <3>1, <3>5, <3>6 DEF Budget, Sent
  <2>3. CASE s_pending[k].a # n
    BY <1>1, <1>2, <1>3, <1>4, <2>1, <2>3, BudgetKept
  <2> QED BY <2>2, <2>3
<1> QED BY <1>5, <1>6

(* What the poll sends was copied, and its flag is no longer to be sent.   *)
LEMMA BudgetPollSubmit ==
  ASSUME TypeOK, FlagHeld, BudgetInv, PollSubmit,
         NEW k \in Kinds, NEW n \in Nat \ {0}
  PROVE  Budget(k, n)'
<1> DEFINE report == [poll.copy EXCEPT !.b = s_pending[poll.kind].b]
           done   == [poll EXCEPT !.at = "clear", !.copy = report]
<1>0. poll.at = "submit" /\ UNCHANGED <<slots, rx, handled, received>>
  BY DEF PollSubmit, seen
<1>1. Budget(k, n)
  BY DEF BudgetInv
<1>2. /\ Early(k, n)' <=> Early(k, n)
      /\ Delivered(k, n)' = Delivered(k, n)
      /\ Storing(k)' = Storing(k)
      /\ s_pending'[k].a = s_pending[k].a
  BY <1>0 DEF Early, Delivered, Storing, slots
<1>3. poll' = done \/ poll' = NextCheck(poll.kind)
  BY DEF PollSubmit
<1>4. done.at = "clear" /\ done.kind = poll.kind
  BY DEF TypeOK
<1>5. ~Copied(k, n)'
  BY <1>3, <1>4, NextCheckAt DEF Copied
<1>6. FlagToSend(k)' => FlagToSend(k)
  BY <1>0 DEF FlagToSend, slots
<1>7. CASE ep' = ep
  BY <1>1, <1>2, <1>5, <1>6, <1>7, BudgetKept DEF InEndpoint
<1>8. CASE ep.status # "busy" /\ ep' = Transfer(poll.kind, report) /\ poll' = done
  <2>1. ~InEndpoint(k, n)
    BY <1>8 DEF InEndpoint
  <2>2. InEndpoint(k, n)' => Copied(k, n)
    <3>1. report.a = poll.copy.a
      BY DEF TypeOK, Report
    <3>2. InEndpoint(k, n)' => poll.kind = k /\ report = Whole(n)
      BY <1>8 DEF InEndpoint, Transfer
    <3>3. report = Whole(n) => report.a = n
      BY DEF Whole
    <3> QED BY <1>0, <3>1, <3>2, <3>3 DEF Copied
  <2>3. k = poll.kind => FlagToSend(k) /\ ~FlagToSend(k)'
    BY <1>0, <1>4, <1>8 DEF FlagHeld, FlagToSend
  <2>4. k # poll.kind => ~InEndpoint(k, n)'
    BY <1>8 DEF InEndpoint, Transfer
  <2> DEFINE d == Cardinality(Delivered(k, n))
             s == Cardinality(Storing(k))
             bound == 1 + Cardinality(Rx)
             e1 == One(InEndpoint(k, n)')
             f0 == One(FlagToSend(k))
             f1 == One(FlagToSend(k)')
             c0 == One(Copied(k, n))
  <2>5. d \in Nat /\ s \in Nat /\ bound \in Nat
    BY Counted
  <2>6. /\ e1 \in Nat /\ f0 \in Nat /\ f1 \in Nat /\ c0 \in Nat
        /\ e1 <= c0
        /\ e1 + f1 <= f0
    BY <1>6, <2>2, <2>3, <2>4 DEF One
  <2>7. /\ One(InEndpoint(k, n)) = 0
        /\ One(Copied(k, n)') = 0
    BY <1>5, <2>1 DEF One
  <2>8. d + f0 + s <= bound => d + e1 + f1 + s <= bound
    <3> HIDE DEF d, s, bound, e1, f0, f1, c0
    <3> QED BY <2>5, <2>6
  <2>9. d + c0 <= bound => d + e1 <= bound
    <3> HIDE DEF d, s, bound, e1, f0, f1, c0
    <3> QED BY <2>5, <2>6
  <2>10. /\ Sent(k, n) = d
         /\ Sent(k, n)' = d + e1
         /\ One(FlagToSend(k))' = f1
         /\ Cardinality(Storing(k))' = s
         /\ (1 + Cardinality(Rx))' = bound
         /\ (Sent(k, n) + One(Copied(k, n)))' = d + e1
    <3>1. Sent(k, n)' = d + e1 /\ One(Copied(k, n))' = 0
      BY <1>2, <2>7 DEF Sent
    <3>2. d + e1 + 0 = d + e1
      BY <2>5, <2>6
    <3>3. Sent(k, n) = d
      <4>1. d + 0 = d
        <5> HIDE DEF d
        <5> QED BY <2>5
      <4> QED BY <2>7, <4>1 DEF Sent
    <3> QED BY <1>2, <3>1, <3>2, <3>3
  <2>11. ASSUME Early(k, n) PROVE Budget(k, n)'
    BY <1>1, <1>2, <1>5, <2>2, <2>11 DEF Budget
  <2>12. ASSUME ~Early(k, n) PROVE Budget(k, n)'
    <3>1. /\ s_pending[k].a = n => d + f0 + s <= bound
          /\ s_pending[k].a # n => d + c0 <= bound
      BY <1>1, <2>10, <2>12 DEF Budget
    <3>2. /\ s_pending[k].a = n => d + e1 + f1 + s <= bound
          /\ s_pending[k].a # n => d + e1 <= bound
      BY <2>8, <2>9, <3>1
    <3> HIDE DEF d, s, bound, e1, f0, f1, c0
    <3> QED BY <1>2, <2>10, <2>12, <3>2 DEF Budget
  <2> QED BY <2>11, <2>12
<1> QED BY <1>7, <1>8 DEF PollSubmit

(* What the target PC takes was in the endpoint.                           *)
LEMMA BudgetHostTakes ==
  ASSUME TypeOK, BudgetInv, HostTakes,
         NEW k \in Kinds, NEW n \in Nat \ {0}
  PROVE  Budget(k, n)'
<1>0. /\ ep.status = "busy"
      /\ received' = [received EXCEPT ![ep.kind] = Append(@, ep.report)]
      /\ ep' = FreeEndpoint
      /\ UNCHANGED <<slots, rx, poll, handled>>
  BY DEF HostTakes, tasks
<1>1. Budget(k, n)
  BY DEF BudgetInv
<1>2. /\ Early(k, n)' <=> Early(k, n)
      /\ Storing(k)' = Storing(k)
      /\ s_pending'[k].a = s_pending[k].a
      /\ Copied(k, n)' = Copied(k, n)
      /\ FlagToSend(k)' = FlagToSend(k)
  BY <1>0 DEF Early, Storing, Copied, FlagToSend, slots
<1>3. ~InEndpoint(k, n)'
  BY <1>0 DEF InEndpoint, FreeEndpoint
<1>4. CASE ~InEndpoint(k, n)
  <2>1. Delivered(k, n)' = Delivered(k, n)
    <3>1. CASE k # ep.kind
      BY <1>0, <3>1 DEF Delivered, TypeOK
    <3>2. CASE k = ep.kind
      <4> DEFINE old == received[k]
      <4>1. old \in Seq(Report) /\ ep.report \in Report
        BY DEF TypeOK
      <4>2. received'[k] = Append(old, ep.report)
        BY <1>0, <3>2 DEF TypeOK
      <4>3. ep.report # Whole(n)
        BY <1>0, <1>4, <3>2 DEF InEndpoint
      <4> HIDE DEF old
      <4>4. /\ DOMAIN received'[k] = 1..(Len(old) + 1)
            /\ received'[k][Len(old) + 1] = ep.report
            /\ \A i \in 1..Len(old) : received'[k][i] = old[i]
            /\ DOMAIN old = 1..Len(old)
            /\ \A i \in 1..(Len(old) + 1) : i \in 1..Len(old) \/ i = Len(old) + 1
            /\ 1..Len(old) \subseteq 1..(Len(old) + 1)
        BY <4>1, <4>2
      <4> QED BY <4>3, <4>4 DEF Delivered, old
    <3> QED BY <3>1, <3>2
  <2> QED BY <1>1, <1>2, <1>3, <2>1, BudgetKept
<1>5. CASE InEndpoint(k, n)
  <2> DEFINE old == received[k]
             d == Cardinality(Delivered(k, n))
  <2>1. ~Early(k, n)
    BY <1>1, <1>5 DEF Budget
  <2>2. old \in Seq(Report) /\ ep.report \in Report /\ k = ep.kind
        /\ ep.report = Whole(n)
    BY <1>5 DEF TypeOK, InEndpoint
  <2>3. received'[k] = Append(old, ep.report)
    BY <1>0, <2>2 DEF TypeOK
  <2>4. /\ DOMAIN received'[k] = 1..(Len(old) + 1)
        /\ received'[k][Len(old) + 1] = ep.report
        /\ \A i \in 1..Len(old) : received'[k][i] = old[i]
        /\ DOMAIN old = 1..Len(old)
        /\ \A i \in 1..(Len(old) + 1) : i \in 1..Len(old) \/ i = Len(old) + 1
        /\ 1..Len(old) \subseteq 1..(Len(old) + 1)
        /\ Len(old) + 1 \in 1..(Len(old) + 1)
        /\ Len(old) + 1 \notin 1..Len(old)
    <3> HIDE DEF old
    <3> QED BY <2>2, <2>3
  <2>5. /\ Delivered(k, n)' = Delivered(k, n) \union {Len(old) + 1}
        /\ Len(old) + 1 \notin Delivered(k, n)
    <3> DEFINE next == Len(old) + 1
    <3>1. \A i \in 1..Len(old) : i \in 1..next /\ received'[k][i] = received[k][i]
      BY <2>4
    <3>2. received'[k][next] = Whole(n)
      BY <2>2, <2>4
    <3> QED BY <2>4, <3>1, <3>2 DEF Delivered
  <2>6. Cardinality(Delivered(k, n)') = d + 1
    BY <2>5, Counted, FS_AddElement
  <2>7. d \in Nat
    BY Counted
  <2>8. One(InEndpoint(k, n)) = 1 /\ One(InEndpoint(k, n))' = 0
    BY <1>3, <1>5 DEF One
  <2>9. Sent(k, n)' = Sent(k, n)
    <3>1. Sent(k, n)' = Cardinality(Delivered(k, n)') + One(InEndpoint(k, n))'
      BY DEF Sent
    <3> HIDE DEF d
    <3>2. (d + 1) + 0 = d + 1
      BY <2>7
    <3> QED BY <2>6, <2>8, <3>1, <3>2 DEF Sent, d
  <2> QED BY <1>1, <1>2, <2>1, <2>9 DEF Budget
<1> QED BY <1>4, <1>5

LEMMA BudgetNext ==
  TypeOK /\ IdsAccepted /\ IdsUnique /\ FlagHeld /\ BudgetInv /\ [Next]_vars
    => BudgetInv'
<1> SUFFICES ASSUME TypeOK, IdsAccepted, IdsUnique, FlagHeld, BudgetInv, [Next]_vars,
                    NEW k \in Kinds, NEW n \in Nat \ {0}
             PROVE  Budget(k, n)'
  BY DEF BudgetInv
<1> USE DEF device, slots, tasks, usb, seen, bounds
<1>1. ASSUME UNCHANGED <<s_pending, s_pending_report, rx, handled, received>>,
             UNCHANGED ep \/ ep' = FreeEndpoint,
             UNCHANGED poll
      PROVE  Budget(k, n)'
  <2>1. /\ Early(k, n)' <=> Early(k, n)
        /\ Delivered(k, n)' = Delivered(k, n)
        /\ Storing(k)' = Storing(k)
        /\ s_pending'[k].a = s_pending[k].a
    BY <1>1 DEF Early, Delivered, Storing
  <2>2. /\ InEndpoint(k, n)' => InEndpoint(k, n)
        /\ Copied(k, n)' => Copied(k, n)
        /\ FlagToSend(k)' => FlagToSend(k)
    BY <1>1 DEF InEndpoint, Copied, FlagToSend, FreeEndpoint
  <2> QED BY <2>1, <2>2, BudgetKept DEF BudgetInv
<1>2. ASSUME NEW t \in Rx, NEW j \in Traffic, Handle(t, j) PROVE Budget(k, n)'
  BY <1>2, BudgetHandle, TrafficAssumption
<1>3. ASSUME NEW t \in Rx, RxStep(t) PROVE Budget(k, n)'
  <2>1. CASE WakeStep(t) \/ (Send(t) /\ ~HidReady)
    <3>1. /\ UNCHANGED <<s_pending_report, s_pending, poll, ep, handled, received>>
          /\ rx[t].at \in Before
          /\ \E to \in Before \intersect RxAt : rx' = [rx EXCEPT ![t].at = to]
      BY <2>1, WakeFrame DEF Send, RxGoes, Before, RxAt
    <3> QED BY <3>1, BudgetMoves
  <2>2. CASE Send(t) /\ HidReady
    BY <2>2, BudgetSend
  <2>3. CASE StoreA(t)
    BY <2>3, BudgetStoreA
  <2>4. CASE StoreB(t)
    <3>1. /\ UNCHANGED <<s_pending_report, poll, ep, handled, received>>
          /\ rx[t].at = "store_b"
          /\ rx' = [rx EXCEPT ![t].at = "store_flag"]
          /\ "store_flag" \in RxAt
      BY <2>4 DEF StoreB, RxGoes, RxAt
    <3>2. \A j \in Kinds : s_pending'[j].a = s_pending[j].a
      BY <2>4 DEF StoreB, TypeOK, Report
    <3> QED BY <3>1, <3>2, BudgetMoves
  <2>5. CASE StoreFlag(t)
    BY <2>5, BudgetStoreFlag
  <2> QED BY <1>3, <2>1, <2>2, <2>3, <2>4, <2>5 DEF RxStep, WakeStep
<1>4. CASE PollStep
  <2>1. CASE PollBegin \/ PollSkip \/ PollClaim \/ PollCopyA
    BY <2>1, BudgetPollGoes
  <2>2. CASE PollSubmit
    BY <2>2, BudgetPollSubmit
  <2>3. CASE PollClear
    <3>1. FlagToSend(k)' => FlagToSend(k)
      BY <2>3 DEF PollClear, FlagToSend, TypeOK
    <3>2. UNCHANGED <<s_pending, rx, handled, received, ep>> /\ poll' = IdlePoll
      BY <2>3 DEF PollClear
    <3> QED
      BY <3>1, <3>2, BudgetKept
      DEF BudgetInv, Early, Delivered, Storing, InEndpoint, Copied, IdlePoll
  <2> QED BY <1>4, <2>1, <2>2, <2>3 DEF PollStep
<1>5. CASE HostTakes
  BY <1>5, BudgetHostTakes
<1>6. CASE BusStep \/ UNCHANGED vars
  <2>1. /\ UNCHANGED <<s_pending, s_pending_report, rx, handled, received, poll>>
        /\ UNCHANGED ep \/ ep' = FreeEndpoint
    BY <1>6, BusFrame DEF HostDetaches, vars
  <2> QED BY <1>1, <2>1
<1> QED BY <1>2, <1>3, <1>4, <1>5, <1>6 DEF Next, BusStep, HandleUnmounted, PollNotReady

(* However the stores of the handlers and the flag meet the poll, no       *)
(* report is delivered more often than once and once more for each         *)
(* receive task.                                                           *)
THEOREM RepeatsAreBounded == Spec => []DuplicationBound
<1> DEFINE Inv == WrittenInv /\ IdsUnique /\ FlagHeld /\ BudgetInv
<1>1. Init => WrittenInv
  BY InitWritten
<1>2. Init => IdsUnique /\ FlagHeld
  BY DEF Init, IdsUnique, FlagHeld, IdleRx, IdlePoll
<1>3. Init => BudgetInv
  <2> SUFFICES ASSUME Init, NEW k \in Kinds, NEW n \in Nat \ {0} PROVE Budget(k, n)
    BY DEF BudgetInv
  <2>1. Early(k, n)
    BY DEF Init, Early
  <2>2. Delivered(k, n) = {} /\ ~InEndpoint(k, n) /\ ~Copied(k, n)
    BY DEF Init, Delivered, InEndpoint, FreeEndpoint, Copied, IdlePoll
  <2>3. s_pending[k].a # n
    BY DEF Init, NoReport, Whole
  <2> QED BY <2>1, <2>2, <2>3 DEF Budget
<1>4. Inv /\ [Next]_vars => Inv'
  BY WrittenNext, IdsUniqueNext, FlagHeldNext, BudgetNext DEF WrittenInv
<1>5. Inv => DuplicationBound
  <2> SUFFICES ASSUME Inv, NEW k \in Kinds, NEW n \in 1..MaxReports
               PROVE  Cardinality(Delivered(k, n)) <= 1 + Cardinality(Rx)
    BY DEF DuplicationBound
  <2>1. n \in Nat \ {0}
    BY BoundsAssumption
  <2>2. Budget(k, n)
    BY <2>1 DEF BudgetInv
  <2> DEFINE d == Cardinality(Delivered(k, n))
             s == Cardinality(Storing(k))
             r == Cardinality(Rx)
  <2>3. d \in Nat /\ s \in Nat /\ r \in Nat
    BY Counted DEF WrittenInv
  <2>4. CASE Early(k, n)
    <3>1. d = 0
      BY <2>2, <2>4, FS_EmptySet DEF Budget
    <3> HIDE DEF d, r
    <3> QED BY <2>3, <3>1 DEF d, r
  <2>5. CASE ~Early(k, n)
    <3>1. /\ One(InEndpoint(k, n)) \in Nat
          /\ One(FlagToSend(k)) \in Nat
          /\ One(Copied(k, n)) \in Nat
      BY DEF One
    <3>2. \/ d + One(InEndpoint(k, n)) + One(FlagToSend(k)) + s <= 1 + r
          \/ d + One(InEndpoint(k, n)) + One(Copied(k, n)) <= 1 + r
      BY <2>2, <2>5 DEF Budget, Sent
    <3>3. d <= 1 + r
      <4> HIDE DEF d, s, r
      <4> QED BY <2>3, <3>1, <3>2
    <3> QED BY <3>3
  <2> QED BY <2>4, <2>5
<1> QED BY <1>1, <1>2, <1>3, <1>4, <1>5, PTL DEF Spec
=============================================================================
