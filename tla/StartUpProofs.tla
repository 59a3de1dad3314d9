---------------------------- MODULE StartUpProofs ----------------------------
(* Theorems about StartUp and about AppState, which it extends: for any    *)
(* faults of the board, any number of restarts, any set of tasks that      *)
(* write the snapshot, and any times that TimeAssumption allows.           *)
EXTENDS StartUp, TLAPS

-----------------------------------------------------------------------------
(* The start.  What is there when app_main has come to a call.             *)

FromDisplay == {"core_task", "display_task", "done"}
FromUart == {"uart_driver", "uart_task"} \union FromDisplay
FromSerial == {"serial_driver", "serial_task"} \union FromUart
FromHandler == {"wifi", "udp_task"} \union FromSerial
FromUsb == {"tinyusb", "uac", "usb_state", "handler"} \union FromHandler
FromRing == {"ring"} \union FromUsb
FromPanel == {"lcd", "add_disp", "touch", "labels"} \union FromRing

(* The parts app_main has made in the calls behind it.                     *)
Made ==
  /\ pc \in {"lvgl"} \union FromPanel => "snapshot" \in ready
  /\ pc \in {"touch", "labels"} => "s_display" \in ready
  /\ pc \in FromUsb => "s_mic_ring" \in ready
  /\ pc \in FromUsb \ {"tinyusb"} => "s_tinyusb" \in ready
  /\ pc \in FromHandler => "s_handler" \in ready
  /\ pc = "udp_task" => "softap" \in ready
  /\ pc = "serial_task" => "serial_driver" \in ready
  /\ pc = "uart_task" => "s_uart_queue" \in ready
  /\ pc = "display_task" => "labels" \in ready

(* No part is there without those it is made of or uses.                   *)
Grounded ==
  /\ "labels" \in ready => "s_display" \in ready
  /\ "s_tinyusb" \in ready => {"snapshot", "s_mic_ring"} \subseteq ready
  /\ "uac_input_cb" \in ready => "s_mic_ring" \in ready

StartTypes ==
  /\ pc \in Calls \union {"abort", "done"}
  /\ running \subseteq DOMAIN Needs
  /\ wifi \in BOOLEAN

StartInv == StartTypes /\ Made /\ Grounded /\ UsesWhatIsThere

(* The tasks app_main has created, or has gone on without.                 *)
Accounted ==
  /\ wifi /\ pc \in FromSerial => "udp" \in running \union lost
  /\ pc \in FromUart => "serial" \in running \union lost
  /\ pc \in FromDisplay => "uart" \in running
  /\ pc \in {"display_task", "done"} => "core_service" \in running \union lost
  /\ pc \in FromRing => "labels" \in ready \/ "display" \in lost
  /\ pc = "done" => "display" \in running \union lost
  /\ "uart" \notin lost

(* The state of the bus is told as it is, but for what a race has left,    *)
(* and what an event or the audio task is about to store is known.         *)
BusInv ==
  /\ event \in {"none", "attached", "detached"}
  /\ event = "attached" => s_usb_ready /\ ~recording /\ ~streamed
  /\ event = "detached" => ~s_usb_ready
  /\ recording => s_usb_ready
  /\ filled /\ "audio" \notin raced => s_usb_ready /\ streamed
  /\ event = "none" /\ ~filled =>
       \/ hs_state = TrueState
       \/ hs_state = "disconnected" /\ "init" \in raced
       \/ hs_state = "streaming" /\ "audio" \in raced

-----------------------------------------------------------------------------

LEMMA NeedsOfTasks ==
  /\ DOMAIN Needs = {"serial", "udp", "uart", "core_service", "display"}
  /\ Needs["serial"] = {"snapshot", "s_mic_ring", "s_handler", "serial_driver"}
  /\ Needs["udp"] = {"snapshot", "s_mic_ring", "s_handler", "softap"}
  /\ Needs["uart"] = {"snapshot", "s_mic_ring", "s_handler", "s_uart_queue"}
  /\ Needs["core_service"] = {"s_tinyusb"}
  /\ Needs["display"] = {"snapshot", "s_display", "labels"}
  BY DEF Needs

(* A step that takes nothing away and starts no task needs only look to    *)
(* what app_main expects at its next call.                                 *)
LEMMA NothingTaken ==
  ASSUME StartInv, ready \subseteq ready', running' \subseteq running,
         UNCHANGED <<wifi, usbVars>>,
         pc' \in Calls \union {"abort", "done"}, Made', Grounded'
  PROVE  StartInv'
<1>1. \A task \in running' : Needs[task] \subseteq ready'
  BY DEF StartInv, UsesWhatIsThere
<1> QED BY <1>1 DEF StartInv, StartTypes, UsesWhatIsThere, usbVars

(* So does a task that is created where what it uses is there.             *)
LEMMA TaskStarted ==
  ASSUME StartInv, NEW task \in DOMAIN Needs, running' = running \union {task},
         Needs[task] \subseteq ready, ready' = ready,
         UNCHANGED <<wifi, usbVars>>,
         pc' \in Calls \union {"abort", "done"}, Made'
  PROVE  StartInv'
<1>1. \A t \in running' : Needs[t] \subseteq ready'
  BY DEF StartInv, UsesWhatIsThere
<1> QED BY <1>1 DEF StartInv, StartTypes, Grounded, UsesWhatIsThere, usbVars

LEMMA StartInvInit == StartInit => StartInv
  BY DEF StartInit, Init, InitUsb, Nothing, StartInv, StartTypes, Made, Grounded,
         UsesWhatIsThere, Calls, FromPanel, FromRing, FromUsb, FromHandler,
         FromSerial, FromUart, FromDisplay

LEMMA StartInvBoot == StartInv /\ Boot => StartInv'
<1> SUFFICES ASSUME StartInv, Boot PROVE StartInv'
  OBVIOUS
<1> USE DEF Calls, FromPanel, FromRing, FromUsb, FromHandler, FromSerial, FromUart,
            FromDisplay
<1>1. CASE Flash
  <2>1. ready \subseteq ready' /\ running' = running /\ UNCHANGED <<wifi, usbVars>>
    BY <1>1 DEF Flash, NvsInit, NvsErase, NvsInitAgain, Does
  <2>2. pc' \in {"nvs_erase", "nvs_again", "spiffs", "state", "abort"}
    BY <1>1 DEF Flash, NvsInit, NvsErase, NvsInitAgain, Does
  <2>3. ready' = ready \/ ready' = ready \union {"spiffs"}
    BY <1>1 DEF Flash, NvsInit, NvsErase, NvsInitAgain, Does
  <2>4. Made' /\ Grounded'
    BY <2>2, <2>3 DEF StartInv, Made, Grounded
  <2> QED BY <2>1, <2>2, <2>4, NothingTaken
<1>2. CASE StateInit
  <2>1. ready' = ready \union {"snapshot"} /\ pc' = "lvgl"
        /\ running' = running /\ UNCHANGED <<wifi, usbVars>>
    BY <1>2 DEF StateInit, Does
  <2>2. Made' /\ Grounded'
    BY <2>1 DEF StartInv, Made, Grounded
  <2> QED BY <2>1, <2>2, NothingTaken
<1>3. CASE DisplayNoMem
  <2>1. ready' = ready /\ pc' = "ring" /\ pc \in {"lvgl", "lcd"}
        /\ running' = running /\ UNCHANGED <<wifi, usbVars>>
    BY <1>3 DEF DisplayNoMem
  <2>2. Made' /\ Grounded'
    BY <2>1 DEF StartInv, Made, Grounded
  <2> QED BY <2>1, <2>2, NothingTaken
<1>4. CASE DisplayInit
  <2>1. ready \subseteq ready' /\ running' = running /\ UNCHANGED <<wifi, usbVars>>
    BY <1>4 DEF DisplayInit, Does, GoesOnWithout
  <2>2. \/ pc = "lvgl" /\ pc' = "lcd" /\ ready' = ready \union {"lvgl"}
        \/ pc = "lcd" /\ pc' = "add_disp" /\ ready' = ready \union {"panel"}
        \/ pc = "add_disp" /\ pc' = "touch" /\ ready' = ready \union {"s_display"}
        \/ pc = "touch" /\ pc' = "labels" /\ ready' = ready \union {"s_touch_handle"}
        \/ pc = "touch" /\ pc' = "labels" /\ ready' = ready
        \/ pc = "labels" /\ pc' = "ring" /\ ready' = ready \union {"labels"}
    BY <1>4 DEF DisplayInit, Does, GoesOnWithout
  <2>3. Made' /\ Grounded'
    BY <2>2 DEF StartInv, Made, Grounded
  <2> QED BY <2>1, <2>2, <2>3, NothingTaken
<1>5. CASE UsbInit
  <2>1. ready \subseteq ready' /\ running' = running /\ wifi' = wifi
    BY <1>5 DEF UsbInit, Does
  <2>2. \/ pc = "ring" /\ pc' = "tinyusb" /\ ready' = ready \union {"s_mic_ring"}
        \/ pc = "tinyusb" /\ pc' = "uac" /\ ready' = ready \union {"s_tinyusb"}
        \/ pc = "uac" /\ pc' = "usb_state" /\ ready' = ready \union {"uac_input_cb"}
        \/ pc = "usb_state" /\ pc' = "handler" /\ ready' = ready
    BY <1>5 DEF UsbInit, Does
  <2>3. Made' /\ Grounded'
    BY <2>2 DEF StartInv, Made, Grounded
  <2>4. UNCHANGED <<s_usb_ready, recording, filled>>
    BY <1>5 DEF UsbInit, Does, usbVars, EndOfInit
  <2>5. \A task \in running' : Needs[task] \subseteq ready'
    BY <2>1 DEF StartInv, UsesWhatIsThere
  <2> QED
    BY <2>1, <2>2, <2>3, <2>4, <2>5 DEF StartInv, StartTypes, UsesWhatIsThere
<1>6. CASE HandlerInit
  <2>1. ready' = ready \union {"s_handler"} /\ pc = "handler"
        /\ pc' \in {"wifi", "serial_driver"}
        /\ running' = running /\ UNCHANGED <<wifi, usbVars>>
    BY <1>6 DEF HandlerInit, Does
  <2>2. Made' /\ Grounded'
    BY <2>1 DEF StartInv, Made, Grounded
  <2> QED BY <2>1, <2>2, NothingTaken
<1>7. CASE NetworkStart \/ SerialStart \/ UartStart
  <2>1. UNCHANGED <<wifi, usbVars>>
    BY <1>7 DEF NetworkStart, SerialStart, UartStart, Does, Starts
  <2>2. \/ pc = "wifi" /\ pc' = "udp_task" /\ ready' = ready \union {"softap"}
           /\ running' = running
        \/ pc = "serial_driver" /\ pc' = "serial_task"
           /\ ready' = ready \union {"serial_driver"} /\ running' = running
        \/ pc = "uart_driver" /\ pc' = "uart_task"
           /\ ready' = ready \union {"s_uart_queue"} /\ running' = running
        \/ pc = "udp_task" /\ pc' = "serial_driver" /\ ready' = ready
           /\ running' = running \union {"udp"}
        \/ pc = "serial_task" /\ pc' = "uart_driver" /\ ready' = ready
           /\ running' = running \union {"serial"}
        \/ pc = "uart_task" /\ pc' = "core_task" /\ ready' = ready
           /\ running' = running \union {"uart"}
    BY <1>7 DEF NetworkStart, SerialStart, UartStart, Does, Starts
  <2>3. Made' /\ Grounded'
    BY <2>2 DEF StartInv, Made, Grounded
  <2>4. CASE running' = running
    BY <2>1, <2>2, <2>3, <2>4, NothingTaken
  <2>5. CASE pc = "udp_task" /\ running' = running \union {"udp"} /\ ready' = ready
    <3>1. Needs["udp"] \subseteq ready /\ "udp" \in DOMAIN Needs
      BY <2>5, NeedsOfTasks DEF StartInv, Made, Grounded
    <3> QED BY <2>1, <2>2, <2>3, <2>5, <3>1, TaskStarted
  <2>6. CASE pc = "serial_task" /\ running' = running \union {"serial"} /\ ready' = ready
    <3>1. Needs["serial"] \subseteq ready /\ "serial" \in DOMAIN Needs
      BY <2>6, NeedsOfTasks DEF StartInv, Made, Grounded
    <3> QED BY <2>1, <2>2, <2>3, <2>6, <3>1, TaskStarted
  <2>7. CASE pc = "uart_task" /\ running' = running \union {"uart"} /\ ready' = ready
    <3>1. Needs["uart"] \subseteq ready /\ "uart" \in DOMAIN Needs
      BY <2>7, NeedsOfTasks DEF StartInv, Made, Grounded
    <3> QED BY <2>1, <2>2, <2>3, <2>7, <3>1, TaskStarted
  <2> QED BY <2>2, <2>4, <2>5, <2>6, <2>7
<1>8. CASE ServicesStart
  <2>1. UNCHANGED <<ready, wifi, usbVars>>
    BY <1>8 DEF ServicesStart, Starts, GoesOnWithout
  <2>2. \/ pc = "core_task" /\ pc' \in {"display_task", "done"}
           /\ (pc' = "display_task" => "labels" \in ready)
           /\ running' \in {running, running \union {"core_service"}}
        \/ pc = "display_task" /\ pc' = "done"
           /\ running' \in {running, running \union {"display"}}
    BY <1>8 DEF ServicesStart, Starts, GoesOnWithout
  <2>3. Made' /\ Grounded'
    BY <2>1, <2>2 DEF StartInv, Made, Grounded
  <2>4. CASE running' = running
    BY <2>1, <2>2, <2>3, <2>4, NothingTaken
  <2>5. CASE pc = "core_task" /\ running' = running \union {"core_service"}
    <3>1. Needs["core_service"] \subseteq ready /\ "core_service" \in DOMAIN Needs
      BY <2>5, NeedsOfTasks DEF StartInv, Made
    <3> QED BY <2>1, <2>2, <2>3, <2>5, <3>1, TaskStarted
  <2>6. CASE pc = "display_task" /\ running' = running \union {"display"}
    <3>1. Needs["display"] \subseteq ready /\ "display" \in DOMAIN Needs
      BY <2>6, NeedsOfTasks DEF StartInv, Made, Grounded
    <3> QED BY <2>1, <2>2, <2>3, <2>6, <3>1, TaskStarted
  <2> QED BY <2>2, <2>4, <2>5, <2>6
<1>9. CASE CheckFails
  <2>1. UNCHANGED <<ready, running, wifi, usbVars>> /\ pc' = "abort"
    BY <1>9 DEF CheckFails
  <2>2. Made' /\ Grounded'
    BY <2>1 DEF StartInv, Made, Grounded
  <2> QED BY <2>1, <2>2, NothingTaken
<1>10. CASE Reboot
  BY <1>10
  DEF Reboot, Restart, StartInv, StartTypes, Made, Grounded, UsesWhatIsThere
<1> QED
  BY <1>1, <1>2, <1>3, <1>4, <1>5, <1>6, <1>7, <1>8, <1>9, <1>10 DEF Boot

LEMMA StartInvNext == StartInv /\ [StartNext]_<<startVars, usbVars>> => StartInv'
<1> SUFFICES ASSUME StartInv, [StartNext]_<<startVars, usbVars>> PROVE StartInv'
  OBVIOUS
<1>1. CASE PowerCut
  BY <1>1
  DEF PowerCut, Restart, StartInv, StartTypes, Made, Grounded, UsesWhatIsThere, Calls,
      FromPanel, FromRing, FromUsb, FromHandler, FromSerial, FromUart, FromDisplay
<1>2. CASE \/ TaskGivesUp("serial", "serial_buffer")
           \/ TaskGivesUp("udp", "udp_socket")
  <2>1. UNCHANGED <<pc, ready, wifi, usbVars>> /\ running' \subseteq running
    BY <1>2 DEF TaskGivesUp
  <2>2. pc' \in Calls \union {"abort", "done"} /\ Made' /\ Grounded'
    BY <2>1 DEF StartInv, StartTypes, Made, Grounded
  <2> QED BY <2>1, <2>2, NothingTaken
<1>3. CASE BusEvent
  <2>1. UNCHANGED <<pc, ready, running, wifi>>
    BY <1>3 DEF BusEvent, startVars
  <2>2. "snapshot" \in ready
    BY <1>3 DEF BusEvent, StartInv, Grounded
  <2>3. recording' \/ filled' => "s_mic_ring" \in ready
    BY <1>3
    DEF BusEvent, StartInv, Grounded, UsesWhatIsThere, AttachEvent, DetachEvent,
        StoreState, OpenMicrophone, CloseMicrophone, FillBuffer, StoreStreaming
  <2> QED
    BY <2>1, <2>2, <2>3 DEF StartInv, StartTypes, Made, Grounded, UsesWhatIsThere
<1>4. CASE UNCHANGED <<startVars, usbVars>>
  BY <1>4
  DEF startVars, usbVars, StartInv, StartTypes, Made, Grounded, UsesWhatIsThere
<1> QED BY <1>1, <1>2, <1>3, <1>4, StartInvBoot DEF StartNext

(* Nothing runs before what it uses is there, whatever fails and whenever  *)
(* the power is cut: app_main makes its calls in an order that allows it.  *)
THEOREM StartsInOrder == StartSpec => []UsesWhatIsThere
<1>1. StartInv => UsesWhatIsThere
  BY DEF StartInv
<1> QED BY <1>1, StartInvInit, StartInvNext, PTL DEF StartSpec

-----------------------------------------------------------------------------
(* The tasks of a device that has started.                                 *)

LEMMA AccountedInit == StartInit => Accounted
  BY DEF StartInit, Nothing, Accounted, FromRing, FromUsb, FromHandler, FromSerial,
         FromUart, FromDisplay

LEMMA AccountedNext ==
  StartInv /\ Accounted /\ [StartNext]_<<startVars, usbVars>> => Accounted'
<1> SUFFICES ASSUME StartInv, Accounted, [StartNext]_<<startVars, usbVars>>
             PROVE  Accounted'
  OBVIOUS
<1> USE DEF FromRing, FromUsb, FromHandler, FromSerial, FromUart, FromDisplay
<1>1. CASE Flash \/ StateInit \/ DisplayInit
  <2>1. running' = running /\ ready \subseteq ready'
        /\ (lost' = lost \/ lost' = lost \union {"touch"}) /\ wifi' = wifi
    BY <1>1
    DEF Flash, NvsInit, NvsErase, NvsInitAgain, StateInit, DisplayInit, Does,
        GoesOnWithout
  <2>2. \/ pc' \notin FromRing
        \/ pc' = "ring" /\ "labels" \in ready'
    BY <1>1
    DEF Flash, NvsInit, NvsErase, NvsInitAgain, StateInit, DisplayInit, Does,
        GoesOnWithout
  <2> QED BY <2>1, <2>2 DEF Accounted
<1>2. CASE DisplayNoMem
  BY <1>2 DEF DisplayNoMem, Accounted
<1>3. CASE UsbInit
  <2>1. running' = running /\ ready \subseteq ready' /\ lost' = lost /\ wifi' = wifi
    BY <1>3 DEF UsbInit, Does
  <2>2. /\ pc \in {"ring", "tinyusb", "uac", "usb_state"}
        /\ pc' \in {"tinyusb", "uac", "usb_state", "handler"}
    BY <1>3 DEF UsbInit, Does
  <2> QED BY <2>1, <2>2 DEF Accounted
<1>4. CASE HandlerInit
  <2>1. running' = running /\ ready \subseteq ready' /\ lost' = lost /\ wifi' = wifi
    BY <1>4 DEF HandlerInit, Does
  <2>2. /\ pc = "handler"
        /\ pc' = IF wifi THEN "wifi" ELSE "serial_driver"
    BY <1>4 DEF HandlerInit, Does
  <2> QED BY <2>1, <2>2 DEF Accounted
<1>5. CASE NetworkStart \/ SerialStart \/ UartStart
  <2>1. ready \subseteq ready' /\ lost' = lost /\ wifi' = wifi
    BY <1>5 DEF NetworkStart, SerialStart, UartStart, Does, Starts
  <2>2. \/ pc = "wifi" /\ pc' = "udp_task" /\ running' = running
        \/ pc = "serial_driver" /\ pc' = "serial_task" /\ running' = running
        \/ pc = "uart_driver" /\ pc' = "uart_task" /\ running' = running
        \/ pc = "udp_task" /\ pc' = "serial_driver"
           /\ running' = running \union {"udp"}
        \/ pc = "serial_task" /\ pc' = "uart_driver"
           /\ running' = running \union {"serial"}
        \/ pc = "uart_task" /\ pc' = "core_task"
           /\ running' = running \union {"uart"}
    BY <1>5 DEF NetworkStart, SerialStart, UartStart, Does, Starts
  <2> QED BY <2>1, <2>2 DEF Accounted
<1>6. CASE ServicesStart
  <2>1. ready' = ready /\ wifi' = wifi
    BY <1>6 DEF ServicesStart, Starts, GoesOnWithout
  <2>2. \/ /\ pc = "core_task"
           /\ pc' = IF "labels" \in ready THEN "display_task" ELSE "done"
           /\ \/ running' = running \union {"core_service"} /\ lost' = lost
              \/ running' = running /\ lost' = lost \union {"core_service"}
        \/ /\ pc = "display_task" /\ pc' = "done"
           /\ \/ running' = running \union {"display"} /\ lost' = lost
              \/ running' = running /\ lost' = lost \union {"display"}
    BY <1>6 DEF ServicesStart, Starts, GoesOnWithout
  <2> QED BY <2>1, <2>2 DEF Accounted
<1>7. CASE CheckFails
  BY <1>7 DEF CheckFails, Accounted
<1>8. CASE Reboot \/ PowerCut
  BY <1>8 DEF Reboot, PowerCut, Restart, Accounted
<1>9. CASE \/ TaskGivesUp("serial", "serial_buffer")
           \/ TaskGivesUp("udp", "udp_socket")
  <2>1. UNCHANGED <<pc, ready, wifi>>
    BY <1>9 DEF TaskGivesUp
  <2>2. PICK task \in {"serial", "udp"} :
          running' = running \ {task} /\ lost' = lost \union {task}
    BY <1>9 DEF TaskGivesUp
  <2> QED BY <2>1, <2>2 DEF Accounted
<1>10. CASE BusEvent \/ UNCHANGED <<startVars, usbVars>>
  BY <1>10 DEF BusEvent, startVars, Accounted
<1> QED
  BY <1>1, <1>2, <1>3, <1>4, <1>5, <1>6, <1>7, <1>8, <1>9, <1>10 DEF StartNext, Boot

(* A device that has started has every task, but for those a failure has   *)
(* cost that app_main does not look at, and never without the UART.        *)
THEOREM GapsAreKnown == StartSpec => []OnlyKnownGaps
<1>1. StartInv /\ Accounted => OnlyKnownGaps
  BY DEF StartInv, StartTypes, Accounted, OnlyKnownGaps, Services, FromRing, FromUsb,
         FromHandler, FromSerial, FromUart, FromDisplay
<1> QED
  BY <1>1, StartInvInit, StartInvNext, AccountedInit, AccountedNext, PTL DEF StartSpec

-----------------------------------------------------------------------------
(* The state of the bus in the snapshot.                                   *)

LEMMA BusInit == InitUsb => BusInv
  BY DEF InitUsb, BusInv, TrueState

LEMMA BusUsb == BusInv /\ Usb => BusInv'
<1> SUFFICES ASSUME BusInv, Usb PROVE BusInv'
  OBVIOUS
<1>1. CASE EndOfInit
  BY <1>1 DEF EndOfInit, BusInv, TrueState
<1>2. CASE AttachEvent
  BY <1>2 DEF AttachEvent, BusInv, TrueState
<1>3. CASE DetachEvent
  BY <1>3 DEF DetachEvent, BusInv, TrueState
<1>4. CASE StoreState
  BY <1>4 DEF StoreState, BusInv, TrueState
<1>5. CASE OpenMicrophone
  BY <1>5 DEF OpenMicrophone, BusInv, TrueState
<1>6. CASE CloseMicrophone
  BY <1>6 DEF CloseMicrophone, BusInv, TrueState
<1>7. CASE FillBuffer
  BY <1>7 DEF FillBuffer, BusInv, TrueState
<1>8. CASE StoreStreaming
  BY <1>8 DEF StoreStreaming, BusInv, TrueState
<1> QED BY <1>1, <1>2, <1>3, <1>4, <1>5, <1>6, <1>7, <1>8 DEF Usb

LEMMA BusStart == BusInv /\ [StartNext]_<<startVars, usbVars>> => BusInv'
<1> SUFFICES ASSUME BusInv, [StartNext]_<<startVars, usbVars>> PROVE BusInv'
  OBVIOUS
<1>1. CASE UNCHANGED usbVars
  BY <1>1 DEF usbVars, BusInv, TrueState
<1>2. CASE Usb
  BY <1>2, BusUsb
<1>3. CASE Restart
  BY <1>3 DEF Restart, BusInv, TrueState
<1>4. CASE Boot
  <2>1. UNCHANGED usbVars \/ EndOfInit \/ Restart
    BY <1>4
    DEF Boot, Flash, NvsInit, NvsErase, NvsInitAgain, StateInit, DisplayInit,
        DisplayNoMem, UsbInit, HandlerInit, NetworkStart, SerialStart, UartStart,
        ServicesStart, CheckFails, Reboot, Does, Starts, GoesOnWithout
  <2> QED BY <1>1, <1>2, <1>3, <2>1 DEF Usb
<1>5. CASE PowerCut
  BY <1>3, <1>5 DEF PowerCut
<1>6. CASE \/ TaskGivesUp("serial", "serial_buffer")
           \/ TaskGivesUp("udp", "udp_socket")
  BY <1>1, <1>6 DEF TaskGivesUp
<1>7. CASE BusEvent
  BY <1>2, <1>7 DEF BusEvent, Usb
<1> QED BY <1>1, <1>4, <1>5, <1>6, <1>7 DEF StartNext, usbVars

(* Between the writers the snapshot tells the state of the bus, whatever   *)
(* the bus does while the device starts and starts again.  Two races leave *)
(* something else until the next event of the bus: disconnected after the  *)
(* end of usb_hs_device_init behind an attach event, and streaming after a *)
(* call of the audio task that an event has overtaken.                     *)
THEOREM TellsTheBus == StartSpec => []StateAgrees
<1>1. BusInv => StateAgrees
  BY DEF BusInv, StateAgrees
<1>2. StartInit => BusInv
  BY BusInit DEF StartInit, Init
<1> QED BY <1>1, <1>2, BusStart, PTL DEF StartSpec

-----------------------------------------------------------------------------
(* The activity of the device.  A step takes the time of every access, so  *)
(* what is said of a time is said with the delays that lie between.        *)

OneCall == [at : {"idle", "until", "event", "reread", "load", "store"},
            began : -MaxDelay .. 0, now : -(2 * MaxDelay) .. 0, bit : BOOLEAN]

OneRedraw == [at : {"idle", "load", "store", "copy", "update"},
              now : -MaxDelay .. 0, bit : BOOLEAN, last : -SleepAfter .. 0]

ActivityTypes ==
  /\ active_until \in Expired .. Active
  /\ hs_active \in BOOLEAN /\ alone \in BOOLEAN
  /\ last_event \in -SleepAfter .. 0 /\ last_touch \in -SleepAfter .. 0
  /\ call \in [Callers -> OneCall]
  /\ display \in OneRedraw
  /\ marked \in Forgotten .. 0
  /\ noted \in -SleepAfter .. 0

(* A display that was alone when it began is alone as long as it says so.  *)
AloneIsAlone ==
  display.at # "idle" /\ alone => \A t \in Callers : call[t].at = "idle"

(* A call goes by its own time, or by one it has read back: that of a call *)
(* which was under way when it began itself.                               *)
TimesPassed ==
  \A t \in Callers :
    /\ call[t].at \in {"until", "event", "reread"} => call[t].now = call[t].began
    /\ call[t].at = "reread" => last_event >= call[t].began - MaxDelay
    /\ call[t].at \in {"load", "store"} => call[t].now >= call[t].began - MaxDelay

(* No mark promises more than the newest, and a bit that was computed from *)
(* it is wrong for no longer than the time it was computed by is old.      *)
LightInv ==
  /\ active_until > Expired => active_until <= marked + Active
  /\ \A t \in Callers :
       /\ call[t].at = "until" => call[t].now <= marked
       /\ call[t].at = "store" /\ call[t].bit => call[t].now < marked + Active
  /\ display.at = "store" /\ display.bit => display.now < marked + Active
  /\ display.at = "copy" /\ hs_active =>
       marked > display.now - (Active + 2 * MaxDelay)
  /\ display.at = "update" /\ display.bit =>
       marked > display.now - (Active + 2 * MaxDelay)

(* Once the mark is stored, and while the display is alone, none is missed *)
GreenInv ==
  /\ (\A t \in Callers : call[t].at # "until") =>
       active_until >= marked + Active - MaxDelay
  /\ alone /\ marked > -(Active - MaxDelay) =>
       /\ display.at = "store" => display.bit
       /\ display.at = "copy" => hs_active
       /\ display.at = "update" => display.bit

(* The same for the event that was noted last.                             *)
BackInv ==
  /\ last_event <= noted
  /\ \A t \in Callers : call[t].at = "event" => call[t].now <= noted
  /\ display.at = "update" => display.last <= noted
  /\ (\A t \in Callers : call[t].at # "event") => last_event >= noted - MaxDelay
  /\ display.at = "update" /\ alone => display.last >= noted - MaxDelay

UseInv ==
  ActivityTypes /\ AloneIsAlone /\ TimesPassed /\ LightInv /\ GreenInv /\ BackInv

LEMMA Times ==
  /\ Active \in Nat /\ SleepAfter \in Nat /\ MaxDelay \in Nat
  /\ MaxDelay < Active /\ Active < SleepAfter
  /\ Forgotten = -(Active + 3 * MaxDelay) /\ Forgotten \in Int
  /\ Expired = -(2 * MaxDelay) /\ Expired \in Int
  BY TimeAssumption DEF Forgotten, Expired

(* What the callers write, for the caller itself and for the others.       *)
LEMMA CallChanges ==
  ASSUME ActivityTypes, NEW t \in Callers,
         NEW c \in OneCall, call' = [call EXCEPT ![t] = c]
  PROVE  /\ call' \in [Callers -> OneCall]
         /\ call'[t] = c
         /\ \A u \in Callers \ {t} : call'[u] = call[u]
  BY DEF ActivityTypes

LEMMA UseInit == InitActivity => UseInv
<1> SUFFICES ASSUME InitActivity PROVE UseInv
  OBVIOUS
<1>1. ActivityTypes
  <2>1. IdleCall \in OneCall
    BY Times DEF IdleCall, OneCall
  <2>2. display \in OneRedraw
    BY Times DEF InitActivity, IdleDisplay, OneRedraw
  <2>3. call \in [Callers -> OneCall]
    BY <2>1 DEF InitActivity
  <2>4. Expired \in Expired .. Active /\ 0 \in -SleepAfter .. 0
        /\ Forgotten \in Forgotten .. 0
    BY Times DEF Expired
  <2> QED BY <2>2, <2>3, <2>4 DEF InitActivity, ActivityTypes
<1>2. AloneIsAlone /\ TimesPassed /\ LightInv /\ GreenInv /\ BackInv
  BY Times
  DEF InitActivity, IdleCall, IdleDisplay, Expired, AloneIsAlone, TimesPassed,
      LightInv, GreenInv, BackInv
<1> QED BY <1>1, <1>2 DEF UseInv

(* A call begins: the display is alone no more.                            *)
LEMMA UseBegins ==
  ASSUME UseInv, NEW t \in Callers, Mark(t) \/ MarkOther(t) \/ Note(t)
  PROVE  UseInv'
<1>1. PICK at \in {"until", "load", "event"} :
        /\ Begins(t, at)
        /\ at = "until" => marked' = 0 /\ noted' = noted
        /\ at = "load" => marked' = marked /\ noted' = noted
        /\ at = "event" => noted' = 0 /\ marked' = marked
  BY DEF Mark, MarkOther, Note
<1>2. UNCHANGED <<active_until, hs_active, last_event, display, last_touch, awake, lit>>
  BY DEF Mark, MarkOther, Note
<1> DEFINE c == [at |-> at, began |-> 0, now |-> 0, bit |-> FALSE]
<1>3. call' = [call EXCEPT ![t] = c] /\ call[t].at = "idle" /\ alone' = FALSE
  BY <1>1 DEF Begins
<1>4. /\ call' \in [Callers -> OneCall]
      /\ call'[t] = c
      /\ \A u \in Callers \ {t} : call'[u] = call[u]
  <2>1. 0 \in -MaxDelay .. 0 /\ 0 \in -(2 * MaxDelay) .. 0
    BY Times
  <2>2. c \in OneCall
    BY <2>1 DEF OneCall
  <2> QED BY <1>3, <2>2, CallChanges DEF UseInv
<1>10. c.at = at /\ c.began = 0 /\ c.now = 0
  OBVIOUS
<1> HIDE DEF c
<1>11. TimesPassed'
  <2>1. 0 >= 0 - MaxDelay
    BY Times
  <2>2. \A u \in Callers : call'[u] = c \/ call'[u] = call[u]
    BY <1>4
  <2> HIDE DEF c
  <2> QED BY <1>1, <1>2, <1>10, <2>1, <2>2 DEF UseInv, TimesPassed
<1>5. /\ marked \in Int /\ noted \in Int /\ marked <= 0 /\ noted <= 0
      /\ marked' \in {marked, 0} /\ noted' \in {noted, 0}
  BY <1>1, Times DEF UseInv, ActivityTypes
<1>6. ActivityTypes'
  <2>1. marked' \in Forgotten .. 0 /\ noted' \in -SleepAfter .. 0
    BY <1>5, Times DEF UseInv, ActivityTypes
  <2> QED BY <1>2, <1>3, <1>4, <2>1 DEF UseInv, ActivityTypes
<1>7. LightInv'
  <2>1. /\ active_until \in Int /\ display.now \in Int /\ marked' \in Int /\ marked' >= marked
        /\ \A u \in Callers : call[u].now \in Int
    BY <1>5, Times DEF UseInv, ActivityTypes, OneCall, OneRedraw
  <2>2. ASSUME NEW u \in Callers
        PROVE  /\ call'[u].at = "until" => call'[u].now <= marked'
               /\ call'[u].at = "store" /\ call'[u].bit => call'[u].now < marked' + Active
    <3>1. CASE u = t
      <4>1. call'[u] = c /\ c.at = at /\ c.now = 0
        BY <1>4, <1>10, <3>1
      <4> QED BY <1>1, <4>1
    <3>2. CASE u # t
      BY <1>4, <1>5, <2>1, <3>2, Times DEF UseInv, LightInv
    <3> QED BY <3>1, <3>2
  <2>3. active_until' > Expired => active_until' <= marked' + Active
    <3>1. active_until > Expired => active_until <= marked + Active
      BY DEF UseInv, LightInv
    <3> QED BY <1>2, <1>5, <2>1, <3>1, Times
  <2>4. /\ display'.at = "store" /\ display'.bit => display'.now < marked' + Active
        /\ display'.at = "copy" /\ hs_active' =>
             marked' > display'.now - (Active + 2 * MaxDelay)
        /\ display'.at = "update" /\ display'.bit =>
             marked' > display'.now - (Active + 2 * MaxDelay)
    BY <1>2, <1>5, <2>1, Times DEF UseInv, LightInv
  <2> QED BY <2>2, <2>3, <2>4 DEF LightInv
<1>8. GreenInv'
  <2> SUFFICES ASSUME \A u \in Callers : call'[u].at # "until"
               PROVE  active_until' >= marked' + Active - MaxDelay
    BY <1>3 DEF GreenInv
  <2>1. marked' = marked
    BY <1>1, <1>4, <1>10
  <2>2. \A u \in Callers : call[u].at # "until"
    BY <1>3, <1>4
  <2> QED BY <1>2, <2>1, <2>2 DEF UseInv, GreenInv
<1>9. BackInv'
  <2>1. last_event \in Int /\ noted' \in Int /\ noted' >= noted
    BY <1>5 DEF UseInv, ActivityTypes
  <2>2. \A u \in Callers : call'[u].at = "event" => call'[u].now <= noted'
    <3>1. c.at = "event" => c.now <= noted'
      BY <1>1, <1>10
    <3>2. \A u \in Callers : call[u].now \in Int
      BY DEF UseInv, ActivityTypes, OneCall
    <3>3. \A u \in Callers : call[u].at = "event" => call[u].now <= noted
      BY DEF UseInv, BackInv
    <3>4. \A u \in Callers : call'[u] = c \/ call'[u] = call[u]
      BY <1>4
    <3> QED BY <1>5, <2>1, <3>1, <3>2, <3>3, <3>4
  <2>3. (\A u \in Callers : call'[u].at # "event") => last_event >= noted' - MaxDelay
    <3> SUFFICES ASSUME \A u \in Callers : call'[u].at # "event"
                 PROVE  last_event >= noted' - MaxDelay
      OBVIOUS
    <3>1. at # "event" /\ noted' = noted
      BY <1>1, <1>4, <1>10
    <3>2. \A u \in Callers : call[u].at # "event"
      BY <1>3, <1>4
    <3> QED BY <3>1, <3>2 DEF UseInv, BackInv
  <2>4. /\ last_event' <= noted'
        /\ display'.at = "update" => display'.last <= noted'
    <3>1. display.last \in Int
      BY DEF UseInv, ActivityTypes, OneRedraw
    <3> QED BY <1>2, <1>5, <2>1, <3>1 DEF UseInv, BackInv
  <2> QED BY <1>2, <1>3, <2>2, <2>3, <2>4 DEF BackInv
<1> QED BY <1>3, <1>6, <1>7, <1>8, <1>9, <1>11 DEF UseInv, AloneIsAlone

(* A call goes on.                                                         *)
LEMMA UseContinues ==
  ASSUME UseInv, NEW t \in Callers, Continue(t)
  PROVE  UseInv'
<1>1. /\ UNCHANGED <<display, last_touch, awake, lit, marked, noted, alone>>
      /\ call[t].at # "idle"
  BY DEF Continue, StoreUntil, StoreEvent, Reread, Load, Store
<1>2. display.at # "idle" => ~alone
  BY <1>1 DEF UseInv, AloneIsAlone
<1>3. /\ call \in [Callers -> OneCall]
      /\ active_until \in Int /\ last_event \in Int /\ marked \in Int /\ noted \in Int
      /\ marked <= 0 /\ noted <= 0 /\ display.now \in Int /\ display.now <= 0
      /\ \A u \in Callers : /\ call[u].now \in Int /\ -(2 * MaxDelay) <= call[u].now
                            /\ call[u].now <= 0 /\ call[u].bit \in BOOLEAN
                            /\ call[u].began \in Int /\ -MaxDelay <= call[u].began
                            /\ call[u].began <= 0
  BY Times DEF UseInv, ActivityTypes, OneCall, OneRedraw
<1>4. /\ \A u \in Callers : /\ call[u].at = "until" => call[u].now <= marked
                            /\ call[u].at = "store" /\ call[u].bit => call[u].now < marked + Active
                            /\ call[u].at = "event" => call[u].now <= noted
      /\ active_until > Expired => active_until <= marked + Active
  BY DEF UseInv, LightInv, BackInv
<1>5. AloneIsAlone'
  BY <1>1, <1>2 DEF AloneIsAlone
<1>10. TimesPassed
  BY DEF UseInv
<1>6. CASE StoreUntil(t)
  <2> DEFINE c == [call[t] EXCEPT !.at = "load"]
  <2>1. /\ UNCHANGED <<hs_active, last_event>> /\ call[t].at = "until"
        /\ active_until' = call[t].now + Active
        /\ call' = [call EXCEPT ![t] = c]
    BY <1>6 DEF StoreUntil, Goes
  <2>2. c \in OneCall /\ c.at = "load" /\ c.now = c.began
    BY <1>3, <1>10, <2>1 DEF OneCall, TimesPassed
  <2>3. /\ call' \in [Callers -> OneCall] /\ call'[t] = c
        /\ \A u \in Callers \ {t} : call'[u] = call[u]
    BY <2>1, <2>2, CallChanges DEF UseInv
  <2>10. call[t].now = call[t].began
    BY <1>10, <2>1 DEF TimesPassed
  <2>11. TimesPassed'
    <3>1. c.now >= c.began - MaxDelay
      BY <1>3, <2>2, <2>10, Times
    <3>2. \A u \in Callers : call'[u] = c \/ call'[u] = call[u]
      BY <2>3
    <3> HIDE DEF c
    <3> QED BY <1>10, <2>1, <2>2, <3>1, <3>2 DEF TimesPassed
  <2> HIDE DEF c
  <2>4. active_until' \in Expired .. Active
    BY <1>3, <2>1, <2>10, Times
  <2>5. ActivityTypes'
    BY <1>1, <2>1, <2>3, <2>4 DEF UseInv, ActivityTypes
  <2>6. active_until' <= marked + Active /\ active_until' >= marked + Active - MaxDelay
    BY <1>3, <1>4, <2>1, <2>10, Times
  <2>7. LightInv'
    BY <1>1, <2>1, <2>2, <2>3, <2>6 DEF UseInv, LightInv
  <2>8. GreenInv'
    BY <1>1, <1>2, <2>1, <2>6 DEF UseInv, GreenInv
  <2>9. BackInv'
    BY <1>1, <2>1, <2>2, <2>3 DEF UseInv, BackInv
  <2> QED BY <1>5, <2>5, <2>7, <2>8, <2>9, <2>11 DEF UseInv
<1>7. CASE StoreEvent(t)
  <2> DEFINE c == [call[t] EXCEPT !.at = "reread"]
  <2>1. /\ UNCHANGED <<hs_active, active_until>> /\ call[t].at = "event"
        /\ last_event' = call[t].now
        /\ call' = [call EXCEPT ![t] = c]
    BY <1>7 DEF StoreEvent, Goes
  <2>2. c \in OneCall /\ c.at = "reread" /\ c.now = c.began
    BY <1>3, <1>10, <2>1 DEF OneCall, TimesPassed
  <2>3. /\ call' \in [Callers -> OneCall] /\ call'[t] = c
        /\ \A u \in Callers \ {t} : call'[u] = call[u]
    BY <2>1, <2>2, CallChanges DEF UseInv
  <2>10. call[t].now = call[t].began
    BY <1>10, <2>1 DEF TimesPassed
  <2>11. TimesPassed'
    <3>1. \A u \in Callers : last_event' >= call[u].began - MaxDelay
      BY <1>3, <2>1, <2>10, Times
    <3>2. /\ \A u \in Callers : call'[u] = c \/ call'[u] = call[u]
          /\ c.began = call[t].began
      BY <2>3
    <3> HIDE DEF c
    <3> QED BY <1>10, <2>2, <3>1, <3>2 DEF TimesPassed
  <2> HIDE DEF c
  <2>4. last_event' \in -SleepAfter .. 0
    BY <1>3, <2>1, <2>10, Times
  <2>5. ActivityTypes'
    BY <1>1, <2>1, <2>3, <2>4 DEF UseInv, ActivityTypes
  <2>6. last_event' <= noted /\ last_event' >= noted - MaxDelay
    BY <1>3, <1>4, <2>1, <2>10, Times
  <2>7. LightInv'
    BY <1>1, <2>1, <2>2, <2>3 DEF UseInv, LightInv
  <2>8. GreenInv'
    BY <1>1, <2>1, <2>2, <2>3 DEF UseInv, GreenInv
  <2>9. BackInv'
    BY <1>1, <2>1, <2>2, <2>3, <2>6 DEF UseInv, BackInv
  <2> QED BY <1>5, <2>5, <2>7, <2>8, <2>9, <2>11 DEF UseInv
<1>11. CASE Reread(t)
  <2>1. PICK time \in {last_event, call[t].now} :
          call' = [call EXCEPT ![t].at = "load", ![t].now = time]
    BY <1>11 DEF Reread
  <2>2. UNCHANGED <<hs_active, active_until, last_event>> /\ call[t].at = "reread"
    BY <1>11 DEF Reread
  <2>3. /\ time \in Int /\ time <= 0 /\ time >= call[t].began - MaxDelay
        /\ time >= -(2 * MaxDelay)
    <3>1. last_event >= call[t].began - MaxDelay /\ call[t].now = call[t].began
      BY <1>10, <2>2 DEF TimesPassed
    <3>2. last_event <= 0
      BY DEF UseInv, ActivityTypes
    <3> QED BY <1>3, <3>1, <3>2, Times
  <2> DEFINE c == [call[t] EXCEPT !.at = "load", !.now = time]
  <2>4. /\ c \in OneCall /\ c.at = "load" /\ c.now = time
        /\ c.began = call[t].began
    <3>1. time \in -(2 * MaxDelay) .. 0
      BY <2>3, Times
    <3> QED BY <1>3, <3>1 DEF OneCall
  <2>5. call' = [call EXCEPT ![t] = c]
    BY <2>1
  <2>6. /\ call' \in [Callers -> OneCall] /\ call'[t] = c
        /\ \A u \in Callers \ {t} : call'[u] = call[u]
    BY <2>4, <2>5, CallChanges DEF UseInv
  <2> HIDE DEF c
  <2>7. ActivityTypes'
    BY <1>1, <2>2, <2>6 DEF UseInv, ActivityTypes
  <2>8. TimesPassed'
    <3>1. \A u \in Callers : call'[u] = c \/ call'[u] = call[u]
      BY <2>6
    <3> QED BY <1>10, <2>2, <2>3, <2>4, <3>1 DEF TimesPassed
  <2>9. LightInv'
    BY <1>1, <2>2, <2>4, <2>6 DEF UseInv, LightInv
  <2>10. GreenInv'
    BY <1>1, <2>2, <2>4, <2>6 DEF UseInv, GreenInv
  <2>11. BackInv'
    BY <1>1, <2>2, <2>4, <2>6 DEF UseInv, BackInv
  <2> QED BY <1>5, <2>7, <2>8, <2>9, <2>10, <2>11 DEF UseInv
<1>8. CASE Load(t)
  <2> DEFINE b == active_until > call[t].now
             c == [call[t] EXCEPT !.at = "store", !.bit = b]
  <2>1. /\ UNCHANGED <<hs_active, active_until, last_event>> /\ call[t].at = "load"
        /\ call' = [call EXCEPT ![t] = c]
    BY <1>8 DEF Load
  <2>2. c \in OneCall /\ c.at = "store" /\ c.now = call[t].now
        /\ c.bit = b /\ c.began = call[t].began
    <3>1. b \in BOOLEAN /\ call[t] \in OneCall
      BY <1>3
    <3> HIDE DEF b
    <3> QED BY <3>1 DEF OneCall
  <2>3. /\ call' \in [Callers -> OneCall] /\ call'[t] = c
        /\ \A u \in Callers \ {t} : call'[u] = call[u]
    BY <2>1, <2>2, CallChanges DEF UseInv
  <2> HIDE DEF c
  <2>4. ActivityTypes'
    BY <1>1, <2>1, <2>3 DEF UseInv, ActivityTypes
  <2>5. c.bit => c.now < marked + Active
    <3>1. c.bit => active_until > call[t].now
      BY <2>2
    <3> QED BY <1>3, <1>4, <2>2, <3>1, Times
  <2>9. TimesPassed'
    <3>1. \A u \in Callers : call'[u] = c \/ call'[u] = call[u]
      BY <2>3
    <3> QED BY <1>10, <2>1, <2>2, <3>1 DEF TimesPassed
  <2>6. LightInv'
    BY <1>1, <2>1, <2>2, <2>3, <2>5 DEF UseInv, LightInv
  <2>7. GreenInv'
    BY <1>1, <2>1, <2>2, <2>3 DEF UseInv, GreenInv
  <2>8. BackInv'
    BY <1>1, <2>1, <2>2, <2>3 DEF UseInv, BackInv
  <2> QED BY <1>5, <2>4, <2>6, <2>7, <2>8, <2>9 DEF UseInv
<1>9. CASE Store(t)
  <2>1. /\ UNCHANGED <<active_until, last_event>> /\ call[t].at = "store"
        /\ hs_active' = call[t].bit
        /\ call' = [call EXCEPT ![t] = IdleCall]
    BY <1>9 DEF Store
  <2>2. IdleCall \in OneCall /\ IdleCall.at = "idle"
    BY Times DEF IdleCall, OneCall
  <2>3. /\ call' \in [Callers -> OneCall] /\ call'[t] = IdleCall
        /\ \A u \in Callers \ {t} : call'[u] = call[u]
    BY <2>1, <2>2, CallChanges DEF UseInv
  <2>9. TimesPassed'
    <3>1. \A u \in Callers : call'[u] = IdleCall \/ call'[u] = call[u]
      BY <2>3
    <3> QED BY <1>10, <2>1, <2>2, <3>1 DEF TimesPassed
  <2>4. ActivityTypes'
    BY <1>1, <1>3, <2>1, <2>3 DEF UseInv, ActivityTypes
  <2>5. ASSUME hs_active' PROVE marked > display.now - (Active + 2 * MaxDelay)
    <3>1. call[t].now < marked + Active
      BY <1>4, <2>1, <2>5
    <3>2. call[t].now >= -(2 * MaxDelay) /\ call[t].now \in Int
      BY <1>3
    <3> QED BY <1>3, <3>1, <3>2, Times
  <2>6. LightInv'
    BY <1>1, <2>1, <2>2, <2>3, <2>5 DEF UseInv, LightInv
  <2>7. GreenInv'
    BY <1>1, <1>2, <2>1, <2>2, <2>3 DEF UseInv, GreenInv
  <2>8. BackInv'
    BY <1>1, <2>1, <2>2, <2>3 DEF UseInv, BackInv
  <2> QED BY <1>5, <2>4, <2>6, <2>7, <2>8, <2>9 DEF UseInv
<1> QED BY <1>6, <1>7, <1>8, <1>9, <1>11 DEF Continue

(* The display task comes round.                                           *)
LEMMA UseRedraws ==
  ASSUME UseInv, Redraw
  PROVE  UseInv'
<1>1. UNCHANGED <<active_until, last_event, call, marked, noted>>
  BY DEF Redraw, Look, LookLoad, LookStore, Copy, Update
<1>2. /\ display \in OneRedraw /\ hs_active \in BOOLEAN
      /\ active_until \in Int /\ last_event \in Int /\ marked \in Int /\ noted \in Int
      /\ marked <= 0 /\ noted <= 0
      /\ display.now \in Int /\ -MaxDelay <= display.now /\ display.now <= 0
      /\ last_event \in -SleepAfter .. 0
  BY Times DEF UseInv, ActivityTypes, OneRedraw
<1>3. /\ active_until > Expired => active_until <= marked + Active
      /\ \A u \in Callers : /\ call[u].at = "until" => call[u].now <= marked
                            /\ call[u].at = "store" /\ call[u].bit => call[u].now < marked + Active
                            /\ call[u].at = "event" => call[u].now <= noted
      /\ last_event <= noted
      /\ (\A u \in Callers : call[u].at # "until") =>
           active_until >= marked + Active - MaxDelay
      /\ (\A u \in Callers : call[u].at # "event") => last_event >= noted - MaxDelay
  BY DEF UseInv, LightInv, GreenInv, BackInv
<1>9. TimesPassed'
  BY <1>1 DEF UseInv, TimesPassed
<1>4. CASE Look
  <2>1. /\ UNCHANGED <<hs_active, last_touch>> /\ display'.at = "load"
        /\ alone' = \A u \in Callers : call[u].at = "idle"
    BY <1>2, <1>4 DEF Look, OneRedraw
  <2>2. display' \in OneRedraw
    <3>1. 0 \in -MaxDelay .. 0 /\ display' = [display EXCEPT !.at = "load", !.now = 0]
      BY <1>4, Times DEF Look
    <3> QED BY <1>2, <3>1 DEF OneRedraw
  <2>3. ActivityTypes'
    BY <1>1, <2>1, <2>2 DEF UseInv, ActivityTypes
  <2>4. AloneIsAlone' /\ LightInv' /\ GreenInv' /\ BackInv'
    BY <1>1, <1>3, <2>1 DEF AloneIsAlone, LightInv, GreenInv, BackInv
  <2> QED BY <1>9, <2>3, <2>4 DEF UseInv
<1>5. CASE LookLoad
  <2> DEFINE b == active_until > display.now
  <2>1. /\ UNCHANGED <<hs_active, last_touch, alone>> /\ display.at = "load"
        /\ display' = [display EXCEPT !.at = "store", !.bit = b]
    BY <1>5 DEF LookLoad
  <2>2. /\ display' \in OneRedraw /\ display'.at = "store"
        /\ display'.now = display.now /\ display'.bit = b
    <3>1. b \in BOOLEAN
      OBVIOUS
    <3> HIDE DEF b
    <3> QED BY <1>2, <2>1, <3>1 DEF OneRedraw
  <2>3. ActivityTypes'
    BY <1>1, <2>1, <2>2 DEF UseInv, ActivityTypes
  <2>4. b => display.now < marked + Active
    BY <1>2, <1>3, Times
  <2>5. ASSUME alone, marked > -(Active - MaxDelay) PROVE b
    <3>1. active_until >= marked + Active - MaxDelay
      BY <1>3, <2>1, <2>5 DEF UseInv, AloneIsAlone
    <3> QED BY <1>2, <2>5, <3>1, Times
  <2> HIDE DEF b
  <2>6. LightInv' /\ BackInv'
    BY <1>1, <1>3, <2>1, <2>2, <2>4 DEF LightInv, BackInv
  <2>7. GreenInv'
    BY <1>1, <1>3, <2>1, <2>2, <2>5 DEF GreenInv
  <2>8. AloneIsAlone'
    BY <1>1, <2>1, <2>2 DEF UseInv, AloneIsAlone
  <2> QED BY <1>9, <2>3, <2>6, <2>7, <2>8 DEF UseInv
<1>6. CASE LookStore
  <2>1. /\ UNCHANGED <<last_touch, alone>> /\ display.at = "store"
        /\ hs_active' = display.bit
        /\ display' = [display EXCEPT !.at = "copy"]
    BY <1>6 DEF LookStore
  <2>2. /\ display' \in OneRedraw /\ display'.at = "copy" /\ hs_active' \in BOOLEAN
        /\ display'.now = display.now
    BY <1>2, <2>1 DEF OneRedraw
  <2>3. ActivityTypes'
    BY <1>1, <2>1, <2>2 DEF UseInv, ActivityTypes
  <2>4. ASSUME hs_active' PROVE marked > display.now - (Active + 2 * MaxDelay)
    <3>1. display.now < marked + Active
      BY <2>1, <2>4 DEF UseInv, LightInv
    <3> QED BY <1>2, <3>1, Times
  <2>5. LightInv' /\ BackInv'
    BY <1>1, <1>3, <2>1, <2>2, <2>4 DEF LightInv, BackInv
  <2>6. GreenInv'
    BY <1>1, <1>3, <2>1, <2>2 DEF UseInv, GreenInv
  <2>7. AloneIsAlone'
    BY <1>1, <2>1, <2>2 DEF UseInv, AloneIsAlone
  <2> QED BY <1>9, <2>3, <2>5, <2>6, <2>7 DEF UseInv
<1>7. CASE Copy
  <2>1. /\ UNCHANGED <<hs_active, last_touch, alone>> /\ display.at = "copy"
        /\ display' = [display EXCEPT !.at = "update", !.bit = hs_active,
                                      !.last = last_event]
    BY <1>7 DEF Copy
  <2>2. /\ display' \in OneRedraw /\ display'.at = "update"
        /\ display'.now = display.now /\ display'.bit = hs_active
        /\ display'.last = last_event
    BY <1>2, <2>1 DEF OneRedraw
  <2>3. ActivityTypes'
    BY <1>1, <2>1, <2>2 DEF UseInv, ActivityTypes
  <2>4. LightInv'
    BY <1>1, <1>3, <2>1, <2>2 DEF UseInv, LightInv
  <2>5. GreenInv'
    BY <1>1, <1>3, <2>1, <2>2 DEF UseInv, GreenInv
  <2>6. BackInv'
    <3>1. alone => \A u \in Callers : call[u].at = "idle"
      BY <2>1 DEF UseInv, AloneIsAlone
    <3> QED BY <1>1, <1>3, <2>1, <2>2, <3>1 DEF BackInv
  <2>7. AloneIsAlone'
    BY <1>1, <2>1, <2>2 DEF UseInv, AloneIsAlone
  <2> QED BY <1>9, <2>3, <2>4, <2>5, <2>6, <2>7 DEF UseInv
<1>8. CASE \E b \in BOOLEAN : Update(b)
  <2>1. /\ UNCHANGED <<hs_active, alone>> /\ display' = IdleDisplay
        /\ last_touch' \in {0, last_touch}
    BY <1>8 DEF Update
  <2>2. display' \in OneRedraw /\ display'.at = "idle"
    BY <2>1, Times DEF IdleDisplay, OneRedraw
  <2>3. last_touch' \in -SleepAfter .. 0
    BY <2>1, Times DEF UseInv, ActivityTypes
  <2>4. ActivityTypes'
    BY <1>1, <2>1, <2>2, <2>3 DEF UseInv, ActivityTypes
  <2>5. LightInv' /\ BackInv' /\ GreenInv' /\ AloneIsAlone'
    BY <1>1, <1>3, <2>1, <2>2 DEF LightInv, BackInv, GreenInv, AloneIsAlone
  <2> QED BY <1>9, <2>4, <2>5 DEF UseInv
<1> QED BY <1>4, <1>5, <1>6, <1>7, <1>8 DEF Redraw

(* A time that ages: it loses one, or stays where it is kept at most.      *)
LEMMA Ages ==
  ASSUME NEW x \in Int, NEW oldest \in Int, x >= oldest
  PROVE  /\ Older(x, oldest) \in Int /\ Older(x, oldest) >= oldest
         /\ Older(x, oldest) >= x - 1 /\ Older(x, oldest) <= x
         /\ Older(x, oldest) > oldest => Older(x, oldest) = x - 1
         /\ Older(x, oldest) = x - 1 \/ (Older(x, oldest) = x /\ x = oldest)
  BY DEF Older, Later

(* Two times that age together.                                            *)
LEMMA BothAge ==
  ASSUME NEW x \in Int, NEW y \in Int, NEW aged \in Int, NEW d \in Int,
         x <= y + d, aged >= y - 1
  PROVE  x - 1 <= aged + d
  OBVIOUS

LEMMA CallAges ==
  ASSUME NEW c \in OneCall, c.began - 1 \in -MaxDelay .. 0,
         c.now - 1 \in -(2 * MaxDelay) .. 0
  PROVE  [c EXCEPT !.began = @ - 1, !.now = @ - 1] \in OneCall
<1> DEFINE b == c.began - 1
           n == c.now - 1
<1>1. b \in -MaxDelay .. 0 /\ n \in -(2 * MaxDelay) .. 0
  OBVIOUS
<1>2. SUFFICES [c EXCEPT !.began = b, !.now = n] \in OneCall
  OBVIOUS
<1> HIDE DEF b, n
<1> QED BY <1>1 DEF OneCall

LEMMA UseTicks ==
  ASSUME UseInv, Tick
  PROVE  UseInv'
<1>1. /\ call \in [Callers -> OneCall] /\ display \in OneRedraw
      /\ active_until \in Int /\ active_until >= Expired /\ active_until <= Active
      /\ last_event \in Int /\ last_event >= -SleepAfter /\ last_event <= 0
      /\ last_touch \in Int /\ last_touch >= -SleepAfter /\ last_touch <= 0
      /\ marked \in Int /\ marked >= Forgotten /\ marked <= 0
      /\ noted \in Int /\ noted >= -SleepAfter /\ noted <= 0
  BY Times DEF UseInv, ActivityTypes
<1>2. /\ UNCHANGED <<hs_active, alone>>
      /\ active_until' = Older(active_until, Expired)
      /\ last_event' = Older(last_event, -SleepAfter)
      /\ last_touch' = Older(last_touch, -SleepAfter)
      /\ marked' = Older(marked, Forgotten)
      /\ noted' = Older(noted, -SleepAfter)
  BY DEF Tick
<1>3. /\ active_until' \in Int /\ active_until' >= active_until - 1
      /\ active_until' > Expired => active_until' = active_until - 1
      /\ active_until' >= Expired /\ active_until' <= active_until
  BY <1>1, <1>2, Ages, Times
<1>4. /\ last_event' \in Int /\ last_event' >= last_event - 1
      /\ last_event' > -SleepAfter => last_event' = last_event - 1
      /\ last_event' >= -SleepAfter /\ last_event' <= last_event
  BY <1>1, <1>2, Ages, Times
<1>5. /\ marked' \in Int /\ marked' >= marked - 1
      /\ marked' > Forgotten => marked' = marked - 1
      /\ marked' >= Forgotten /\ marked' <= marked
  BY <1>1, <1>2, Ages, Times
<1>6. /\ noted' \in Int /\ noted' >= noted - 1
      /\ noted' > -SleepAfter => noted' = noted - 1
      /\ noted' >= -SleepAfter /\ noted' <= noted
  BY <1>1, <1>2, Ages, Times
<1>7. last_touch' \in -SleepAfter .. 0
  <2>1. last_touch' \in Int /\ last_touch' >= -SleepAfter /\ last_touch' <= last_touch
    BY <1>1, <1>2, Ages, Times
  <2> QED BY <1>1, <2>1, Times
<1>8. ASSUME NEW u \in Callers
      PROVE  /\ call'[u] \in OneCall /\ call[u].now \in Int /\ call[u].began \in Int
             /\ call'[u].at = call[u].at /\ call'[u].bit = call[u].bit
             /\ call[u].at # "idle" => /\ call'[u].now = call[u].now - 1
                                       /\ call'[u].began = call[u].began - 1
  <2>1. call[u] \in OneCall /\ call[u].began > -MaxDelay
    BY <1>1 DEF Tick
  <2>2. call'[u] = IF call[u].at = "idle" THEN call[u]
                   ELSE [call[u] EXCEPT !.began = @ - 1, !.now = @ - 1]
    BY DEF Tick
  <2>3. /\ call[u].now \in Int /\ call[u].now <= 0
        /\ call[u].began \in Int /\ call[u].began - 1 \in -MaxDelay .. 0
    BY <2>1, Times DEF OneCall
  <2>4. CASE call[u].at = "idle"
    BY <2>1, <2>2, <2>3, <2>4
  <2>5. CASE call[u].at # "idle"
    <3>1. call[u].at \in {"until", "event", "reread", "load", "store"}
      BY <2>1, <2>5 DEF OneCall
    <3>2. call[u].now >= call[u].began - MaxDelay
      BY <2>3, <3>1, Times DEF UseInv, TimesPassed
    <3>3. call[u].now - 1 \in -(2 * MaxDelay) .. 0
      BY <2>1, <2>3, <3>2, Times
    <3>4. [call[u] EXCEPT !.began = @ - 1, !.now = @ - 1] \in OneCall
      BY <2>1, <2>3, <3>3, CallAges
    <3>5. call'[u] = [call[u] EXCEPT !.began = @ - 1, !.now = @ - 1]
      BY <2>2, <2>5
    <3> QED BY <2>1, <2>3, <3>4, <3>5 DEF OneCall
  <2> QED BY <2>4, <2>5
<1>9. call' \in [Callers -> OneCall]
  <2>1. call' = [u \in Callers |-> call'[u]]
    BY DEF Tick
  <2> QED BY <1>8, <2>1
<1>10. /\ display' \in OneRedraw /\ display.now \in Int /\ display.last \in Int
       /\ display'.at = display.at /\ display'.bit = display.bit
       /\ display.at # "idle" =>
            /\ display'.now = display.now - 1
            /\ display'.last = Older(display.last, -SleepAfter)
       /\ display.last >= -SleepAfter
  <2>1. /\ display.now > -MaxDelay
        /\ display' = IF display.at = "idle" THEN display
                      ELSE [display EXCEPT !.now = @ - 1, !.last = Older(@, -SleepAfter)]
    BY DEF Tick
  <2>2. /\ display.now \in Int /\ display.now - 1 \in -MaxDelay .. 0
        /\ display.last \in Int /\ display.last >= -SleepAfter /\ display.last <= 0
    BY <1>1, <2>1, Times DEF OneRedraw
  <2>3. Older(display.last, -SleepAfter) \in -SleepAfter .. 0
    <3>1. /\ Older(display.last, -SleepAfter) \in Int
          /\ Older(display.last, -SleepAfter) >= -SleepAfter
          /\ Older(display.last, -SleepAfter) <= display.last
      <4>1. -SleepAfter \in Int
        BY Times
      <4> QED BY <2>2, <4>1, Ages
    <3> QED BY <2>2, <3>1, Times
  <2> HIDE DEF Older
  <2> QED BY <1>1, <2>1, <2>2, <2>3 DEF OneRedraw
<1>11. ActivityTypes'
  <2>1. /\ active_until' \in Expired .. Active /\ last_event' \in -SleepAfter .. 0
        /\ marked' \in Forgotten .. 0 /\ noted' \in -SleepAfter .. 0
    BY <1>1, <1>3, <1>4, <1>5, <1>6, Times
  <2> QED BY <1>2, <1>7, <1>9, <1>10, <2>1 DEF UseInv, ActivityTypes
<1>12. AloneIsAlone'
  BY <1>2, <1>8, <1>10 DEF UseInv, AloneIsAlone
<1>16. TimesPassed'
  <2> SUFFICES ASSUME NEW u \in Callers
      PROVE  /\ call'[u].at \in {"until", "event", "reread"} => call'[u].now = call'[u].began
             /\ call'[u].at = "reread" => last_event' >= call'[u].began - MaxDelay
             /\ call'[u].at \in {"load", "store"} => call'[u].now >= call'[u].began - MaxDelay
    BY DEF TimesPassed
  <2>1. /\ call[u].at \in {"until", "event", "reread"} => call[u].now = call[u].began
        /\ call[u].at = "reread" => last_event >= call[u].began - MaxDelay
        /\ call[u].at \in {"load", "store"} => call[u].now >= call[u].began - MaxDelay
    BY DEF UseInv, TimesPassed
  <2> QED BY <1>1, <1>4, <1>8, <2>1, Times
<1>13. LightInv'
  <2>1. active_until' > Expired => active_until' <= marked' + Active
    <3> SUFFICES ASSUME active_until' > Expired
                 PROVE  active_until' <= marked' + Active
      OBVIOUS
    <3>1. active_until' = active_until - 1 /\ active_until > Expired
      BY <1>1, <1>3, Times
    <3>2. active_until <= marked + Active
      BY <3>1 DEF UseInv, LightInv
    <3>3. /\ active_until \in Int /\ marked \in Int /\ marked' \in Int /\ Active \in Int
          /\ marked' >= marked - 1
      BY <1>1, <1>5, Times
    <3>4. active_until - 1 <= marked' + Active
      BY <3>2, <3>3, BothAge
    <3> QED BY <3>1, <3>4
  <2>2. ASSUME NEW u \in Callers
        PROVE  /\ call'[u].at = "until" => call'[u].now <= marked'
               /\ call'[u].at = "store" /\ call'[u].bit =>
                    call'[u].now < marked' + Active
    BY <1>1, <1>5, <1>8, Times DEF UseInv, LightInv
  <2>3. /\ display'.at = "store" /\ display'.bit => display'.now < marked' + Active
        /\ display'.at = "copy" /\ hs_active' =>
             marked' > display'.now - (Active + 2 * MaxDelay)
        /\ display'.at = "update" /\ display'.bit =>
             marked' > display'.now - (Active + 2 * MaxDelay)
    BY <1>1, <1>2, <1>5, <1>10, Times DEF UseInv, LightInv
  <2> QED BY <2>1, <2>2, <2>3 DEF LightInv
<1>14. GreenInv'
  <2>1. (\A u \in Callers : call'[u].at # "until") =>
          active_until' >= marked' + Active - MaxDelay
    <3> SUFFICES ASSUME \A u \in Callers : call'[u].at # "until"
                 PROVE  active_until' >= marked' + Active - MaxDelay
      OBVIOUS
    <3>1. active_until >= marked + Active - MaxDelay
      BY <1>8 DEF UseInv, GreenInv
    <3>2. CASE marked' > Forgotten
      BY <1>1, <1>3, <1>5, <3>1, <3>2, Times
    <3>3. CASE marked' = Forgotten
      BY <1>1, <1>3, <3>3, Times
    <3> QED BY <1>5, <3>2, <3>3, Times
  <2>2. marked' > -(Active - MaxDelay) => marked > -(Active - MaxDelay)
    BY <1>1, <1>5, Times
  <2> QED BY <1>2, <1>10, <2>1, <2>2 DEF UseInv, GreenInv
<1>15. BackInv'
  <2>1. last_event' <= noted'
    BY <1>1, <1>4, <1>6, Times DEF UseInv, BackInv
  <2>2. \A u \in Callers : call'[u].at = "event" => call'[u].now <= noted'
    BY <1>1, <1>6, <1>8, Times DEF UseInv, BackInv
  <2>3. (\A u \in Callers : call'[u].at # "event") => last_event' >= noted' - MaxDelay
    <3> SUFFICES ASSUME \A u \in Callers : call'[u].at # "event"
                 PROVE  last_event' >= noted' - MaxDelay
      OBVIOUS
    <3>1. last_event >= noted - MaxDelay
      BY <1>8 DEF UseInv, BackInv
    <3>2. CASE noted' > -SleepAfter
      BY <1>1, <1>4, <1>6, <3>1, <3>2, Times
    <3>3. CASE noted' = -SleepAfter
      BY <1>1, <1>4, <3>3, Times
    <3> QED BY <1>6, <3>2, <3>3, Times
  <2>4. display'.at = "update" =>
          /\ display'.last <= noted'
          /\ alone' => display'.last >= noted' - MaxDelay
    <3> SUFFICES ASSUME display'.at = "update"
                 PROVE  /\ display'.last <= noted'
                        /\ alone' => display'.last >= noted' - MaxDelay
      OBVIOUS
    <3>1. /\ display'.last = Older(display.last, -SleepAfter)
          /\ display.last <= noted
          /\ alone => display.last >= noted - MaxDelay
      BY <1>10 DEF UseInv, BackInv
    <3>2. /\ display'.last \in Int /\ display'.last >= -SleepAfter
          /\ display'.last >= display.last - 1
          /\ display'.last > -SleepAfter => display'.last = display.last - 1
      <4>1. -SleepAfter \in Int
        BY Times
      <4> HIDE DEF Older
      <4> QED BY <1>10, <3>1, <4>1, Ages
    <3>3. display'.last <= noted'
      BY <1>1, <1>6, <1>10, <3>1, <3>2, Times
    <3>4. ASSUME alone' PROVE display'.last >= noted' - MaxDelay
      <4>1. display.last >= noted - MaxDelay
        BY <1>2, <3>1, <3>4
      <4>2. CASE noted' > -SleepAfter
        BY <1>1, <1>6, <1>10, <3>2, <4>1, <4>2, Times
      <4>3. CASE noted' = -SleepAfter
        BY <3>2, <4>3, Times
      <4> QED BY <1>6, <4>2, <4>3, Times
    <3> QED BY <3>3, <3>4
  <2> QED BY <2>1, <2>2, <2>3, <2>4 DEF BackInv
<1> QED BY <1>11, <1>12, <1>13, <1>14, <1>15, <1>16 DEF UseInv

LEMMA UseNext == UseInv /\ [Next]_vars => UseInv'
<1> SUFFICES ASSUME UseInv, [Next]_vars PROVE UseInv'
  OBVIOUS
<1>1. CASE UNCHANGED activityVars
  BY <1>1
  DEF activityVars, UseInv, ActivityTypes, AloneIsAlone, TimesPassed, LightInv,
      GreenInv, BackInv
<1>2. CASE Activity
  BY <1>2, UseBegins, UseContinues, UseRedraws, UseTicks DEF Activity
<1> QED BY <1>1, <1>2 DEF Next, vars

(* Every time that app_state.c and display_ui.c keep stays in its bounds.  *)
THEOREM ActivityTyped == Spec => []ActivityTypes
<1>1. UseInv => ActivityTypes
  BY DEF UseInv
<1>2. Init => UseInv
  BY UseInit DEF Init
<1> QED BY <1>1, <1>2, UseNext, PTL DEF Spec

(* A label that is drawn green belongs to a feature in use, and a feature  *)
(* in use is drawn green if nobody writes while the snapshot is taken: for *)
(* every set of tasks whose refreshes cross, whosever time they read back, *)
(* and for every delay.                                                    *)
THEOREM LabelsTellUse == Spec => LabelFollowsUse
<1>1. ASSUME UseInv, [Next]_vars
      PROVE  [Redrawn =>
                /\ lit' => marked > -(Active + 3 * MaxDelay)
                /\ alone /\ marked > -(Active - MaxDelay) => lit']_vars
  <2> SUFFICES ASSUME NEW b \in BOOLEAN, Update(b)
               PROVE  /\ lit' => marked > -(Active + 3 * MaxDelay)
                      /\ alone /\ marked > -(Active - MaxDelay) => lit'
    BY DEF Redrawn
  <2>1. display.at = "update" /\ lit' = display.bit
    BY DEF Update
  <2>2. display.now \in Int /\ display.now >= -MaxDelay /\ marked \in Int
    BY <1>1, Times DEF UseInv, ActivityTypes, OneRedraw
  <2>3. ASSUME lit' PROVE marked > -(Active + 3 * MaxDelay)
    <3>1. marked > display.now - (Active + 2 * MaxDelay)
      BY <1>1, <2>1, <2>3 DEF UseInv, LightInv
    <3> QED BY <2>2, <3>1, Times
  <2>4. alone /\ marked > -(Active - MaxDelay) => lit'
    BY <1>1, <2>1 DEF UseInv, GreenInv
  <2> QED BY <2>3, <2>4
<1>2. Init => UseInv
  BY UseInit DEF Init
<1> QED BY <1>1, <1>2, UseNext, PTL DEF Spec, LabelFollowsUse

(* The backlight follows the use of the device, event or touch, for every  *)
(* set of tasks and every delay.                                           *)
THEOREM BacklightTellsUse == Spec => BacklightFollowsUse
<1>1. ASSUME UseInv, [Next]_vars
      PROVE  [Redrawn =>
                /\ last_touch' > -SleepAfter => awake'
                /\ alone /\ noted > -(SleepAfter - MaxDelay) => awake'
                /\ awake' => noted > -SleepAfter \/ last_touch' > -SleepAfter]_vars
  <2> SUFFICES ASSUME NEW b \in BOOLEAN, Update(b)
               PROVE  /\ last_touch' > -SleepAfter => awake'
                      /\ alone /\ noted > -(SleepAfter - MaxDelay) => awake'
                      /\ awake' => noted > -SleepAfter \/ last_touch' > -SleepAfter
    BY DEF Redrawn
  <2>1. /\ display.at = "update"
        /\ awake' <=> Later(display.last, last_touch') > -SleepAfter
        /\ last_touch' \in {0, last_touch}
    BY DEF Update
  <2>2. display.last \in Int /\ noted \in Int /\ last_touch' \in Int
    BY <1>1, <2>1, Times DEF UseInv, ActivityTypes, OneRedraw
  <2>3. awake' <=> display.last > -SleepAfter \/ last_touch' > -SleepAfter
    BY <2>1, <2>2, Times DEF Later
  <2>4. display.last <= noted /\ (alone => display.last >= noted - MaxDelay)
    BY <1>1, <2>1 DEF UseInv, BackInv
  <2>5. alone /\ noted > -(SleepAfter - MaxDelay) => display.last > -SleepAfter
    BY <2>2, <2>4, Times
  <2>6. display.last > -SleepAfter => noted > -SleepAfter
    BY <2>2, <2>4, Times
  <2> QED BY <2>3, <2>5, <2>6
<1>2. Init => UseInv
  BY UseInit DEF Init
<1> QED BY <1>1, <1>2, UseNext, PTL DEF Spec, BacklightFollowsUse
=============================================================================
