------------------------------- MODULE StartUp -------------------------------
(***************************************************************************)
(* app_main of main/hid_forwarder_main.c with the calls it makes to start  *)
(* the parts of the firmware.  A failed call makes the board start again   *)
(* (ESP_ERROR_CHECK), costs the device its display, or goes unnoticed; the *)
(* power may be cut between any two calls.  The parts that are started     *)
(* already run: the bus attaches and detaches, the target PC records, the  *)
(* receive tasks fetch their buffers.                                      *)
(*                                                                         *)
(* Calls that fail in the same way and stand side by side are one step.    *)
(***************************************************************************)
EXTENDS AppState, FiniteSets

CONSTANTS
  MaxTroubles,  \* bound: calls that fail by chance, and power cuts
  MaxBroken     \* bound: faults a board has for good

(* The calls of app_main in their order, and those of the tasks it starts. *)
Calls == {"nvs", "nvs_erase", "nvs_again", "spiffs", "state", "lvgl", "lcd",
          "add_disp", "touch", "labels", "ring", "tinyusb", "uac", "usb_state",
          "handler", "wifi", "udp_task", "serial_driver", "serial_task",
          "uart_driver", "uart_task", "core_task", "display_task"}

TaskCalls == {"serial_buffer", "udp_socket"}

(* The faults a call can have: an error, or ESP_ERR_NO_MEM where that is   *)
(* told apart.                                                             *)
Faults ==
  ((Calls \union TaskCalls) \ {"state", "labels", "usb_state", "handler"}) \X {"error"}
    \union {"lvgl", "lcd"} \X {"no_mem"}

ASSUME FaultsAssumption == MaxTroubles \in Nat /\ MaxBroken \in Nat

VARIABLES
  pc,          \* the call app_main makes next, "abort", or "done"
  nvs,         \* the NVS partition, which outlives a restart
  wifi,        \* CONFIG_APP_WIFI_ENABLE && SOC_WIFI_SUPPORTED
  broken,      \* the faults of this board
  troubles,    \* counter of the bounded faults
  ready,       \* what the calls that succeeded have set up
  running,     \* the tasks that serve
  lost         \* history: the tasks a failure has cost, since the start

startVars == <<pc, nvs, wifi, broken, troubles, ready, running, lost>>

Nothing == ready = {} /\ running = {} /\ lost = {}

StartInit ==
  /\ Init
  /\ pc = "nvs"
  /\ nvs \in {"good", "stale"}
  /\ wifi \in BOOLEAN
  /\ broken \in {F \in SUBSET Faults : Cardinality(F) <= MaxBroken}
  /\ troubles = 0
  /\ Nothing

-----------------------------------------------------------------------------
(* How a call ends.                                                        *)

Works(call_) == <<call_, "error">> \notin broken /\ <<call_, "no_mem">> \notin broken

(* A call fails since the board is broken, or by chance.                   *)
Fault(call_, err) ==
  \/ <<call_, err>> \in broken /\ UNCHANGED troubles
  \/ /\ Works(call_) /\ <<call_, err>> \in Faults
     /\ troubles < MaxTroubles
     /\ troubles' = troubles + 1

(* app_main makes the call at, which sets up part, and goes on.            *)
Does(at, next, part) ==
  /\ pc = at /\ Works(at)
  /\ pc' = next
  /\ ready' = ready \union {part}
  /\ UNCHANGED <<nvs, wifi, broken, troubles, running, lost, usbVars>>

(* The same, for a call that creates a task.                               *)
Starts(at, next, task) ==
  /\ pc = at /\ Works(at)
  /\ pc' = next
  /\ running' = running \union {task}
  /\ UNCHANGED <<nvs, wifi, broken, troubles, ready, lost, usbVars>>

(* Its failure is noticed by nobody, or only logged.                       *)
GoesOnWithout(at, next, task) ==
  /\ pc = at /\ Fault(at, "error")
  /\ pc' = next
  /\ lost' = lost \union {task}
  /\ UNCHANGED <<nvs, wifi, broken, ready, running, usbVars>>

(* ESP_ERROR_CHECK aborts.                                                 *)
Unchecked == {"touch", "core_task", "display_task"}

CheckFails ==
  /\ pc \in Calls \ Unchecked
  /\ Fault(pc, "error")
  /\ pc' = "abort"
  /\ UNCHANGED <<nvs, wifi, broken, ready, running, lost, usbVars>>

-----------------------------------------------------------------------------
(* app_main: the flash.                                                    *)

(* nvs_flash_init answers NO_FREE_PAGES or NEW_VERSION_FOUND ...           *)
NvsInit ==
  /\ pc = "nvs" /\ Works("nvs")
  /\ pc' = IF nvs = "good" THEN "spiffs" ELSE "nvs_erase"
  /\ UNCHANGED <<nvs, wifi, broken, troubles, ready, running, lost, usbVars>>

(* Mutant: the partition is initialised again without having been erased.  *)
NvsEraseForgotten ==
  /\ pc = "nvs_erase" /\ Works("nvs_erase")
  /\ pc' = "nvs_again"
  /\ UNCHANGED <<nvs, wifi, broken, troubles, ready, running, lost, usbVars>>

(* ... and works once the partition was erased.                            *)
NvsErase ==
  /\ pc = "nvs_erase" /\ Works("nvs_erase")
  /\ nvs' = "good"
  /\ pc' = "nvs_again"
  /\ UNCHANGED <<wifi, broken, troubles, ready, running, lost, usbVars>>

NvsInitAgain ==
  /\ pc = "nvs_again" /\ Works("nvs_again")
  /\ pc' = IF nvs = "good" THEN "spiffs" ELSE "abort"
  /\ UNCHANGED <<nvs, wifi, broken, troubles, ready, running, lost, usbVars>>

Flash == NvsInit \/ NvsErase \/ NvsInitAgain \/ Does("spiffs", "state", "spiffs")

-----------------------------------------------------------------------------
(* app_main: app_state_init and display_ui_init.                           *)

StateInit == Does("state", "lvgl", "snapshot")

(* Not enough memory: the device starts without its display.               *)
DisplayNoMem ==
  /\ pc \in {"lvgl", "lcd"} /\ Fault(pc, "no_mem")
  /\ pc' = "ring"
  /\ lost' = lost \union {"display"}
  /\ UNCHANGED <<nvs, wifi, broken, ready, running, usbVars>>

(* A touch panel that does not answer is only logged.                      *)
DisplayInit ==
  \/ Does("lvgl", "lcd", "lvgl")
  \/ Does("lcd", "add_disp", "panel")
  \/ Does("add_disp", "touch", "s_display")
  \/ Does("touch", "labels", "s_touch_handle")
  \/ GoesOnWithout("touch", "labels", "touch")
  \/ Does("labels", "ring", "labels")

-----------------------------------------------------------------------------
(* app_main: usb_hs_device_init.  Its last statement is EndOfInit.         *)

(* Mutant: the driver is installed first, the ring is created after it.    *)
UsbInitRingLast ==
  \/ Does("ring", "tinyusb", "nothing")
  \/ Does("tinyusb", "uac", "s_tinyusb")
  \/ Does("uac", "usb_state", "uac_input_cb")
  \/ /\ pc = "usb_state"
     /\ EndOfInit
     /\ pc' = "handler"
     /\ ready' = ready \union {"s_mic_ring"}
     /\ UNCHANGED <<nvs, wifi, broken, troubles, running, lost>>

UsbInit ==
  \/ Does("ring", "tinyusb", "s_mic_ring")
  \/ Does("tinyusb", "uac", "s_tinyusb")
  \/ Does("uac", "usb_state", "uac_input_cb")
  \/ /\ pc = "usb_state"
     /\ EndOfInit
     /\ pc' = "handler"
     /\ UNCHANGED <<nvs, wifi, broken, troubles, ready, running, lost>>

-----------------------------------------------------------------------------
(* app_main: the decoder, the transports and the service tasks.            *)

HandlerInit == Does("handler", IF wifi THEN "wifi" ELSE "serial_driver", "s_handler")

NetworkStart ==
  \/ Does("wifi", "udp_task", "softap")
  \/ Starts("udp_task", "serial_driver", "udp")

SerialStart ==
  \/ Does("serial_driver", "serial_task", "serial_driver")
  \/ Starts("serial_task", "uart_driver", "serial")

(* Mutant: a receive task that cannot be created is not an error.          *)
UartStartUnchecked ==
  \/ Does("uart_driver", "uart_task", "s_uart_queue")
  \/ Starts("uart_task", "core_task", "uart")
  \/ GoesOnWithout("uart_task", "core_task", "uart")

UartStart ==
  \/ Does("uart_driver", "uart_task", "s_uart_queue")
  \/ Starts("uart_task", "core_task", "uart")

ServicesStart ==
  LET next == IF "labels" \in ready THEN "display_task" ELSE "done" IN
  \/ Starts("core_task", next, "core_service")
  \/ GoesOnWithout("core_task", next, "core_service")
  \/ Starts("display_task", "done", "display")
  \/ GoesOnWithout("display_task", "done", "display")

(* The panic handler restarts the board, a power cut does too.             *)
Restart ==
  /\ pc' = "nvs"
  /\ ready' = {} /\ running' = {} /\ lost' = {}
  /\ s_usb_ready' = FALSE /\ hs_state' = "disconnected" /\ started' = FALSE
  /\ event' = "none" /\ recording' = FALSE /\ filled' = FALSE
  /\ streamed' = FALSE /\ raced' = {}
  /\ UNCHANGED <<nvs, wifi, broken>>

Reboot == pc = "abort" /\ Restart /\ UNCHANGED troubles

Boot ==
  \/ Flash \/ StateInit \/ DisplayInit \/ DisplayNoMem \/ UsbInit \/ HandlerInit
  \/ NetworkStart \/ SerialStart \/ UartStart \/ ServicesStart
  \/ CheckFails
  \/ Reboot

-----------------------------------------------------------------------------
(* What happens meanwhile.                                                 *)

PowerCut ==
  /\ troubles < MaxTroubles
  /\ troubles' = troubles + 1
  /\ Restart

(* serial_rx_task gets no memory for its buffer, udp_listener_task no      *)
(* socket or no port: the task deletes itself.                             *)
TaskGivesUp(task, at) ==
  /\ task \in running
  /\ Fault(at, "error")
  /\ running' = running \ {task}
  /\ lost' = lost \union {task}
  /\ UNCHANGED <<pc, nvs, wifi, broken, ready, usbVars>>

(* The bus events come once the driver is installed, the callbacks of the  *)
(* audio task once uac_device_init has registered them.                    *)
BusEvent ==
  /\ "s_tinyusb" \in ready /\ pc # "abort"
  /\ \/ AttachEvent \/ DetachEvent \/ StoreState
     \/ "uac_input_cb" \in ready /\ (OpenMicrophone \/ CloseMicrophone)
     \/ FillBuffer \/ StoreStreaming
  /\ UNCHANGED startVars

StartNext ==
  \/ Boot
  \/ PowerCut
  \/ TaskGivesUp("serial", "serial_buffer") \/ TaskGivesUp("udp", "udp_socket")
  \/ BusEvent

StartSpec == StartInit /\ [][StartNext]_<<startVars, usbVars>>

(* app_main runs on; the panic handler restarts the board at once.         *)
BootFairness == WF_<<startVars, usbVars>>(Boot)

-----------------------------------------------------------------------------
(* Properties.                                                             *)

(* What a task or a callback uses without asking.                          *)
Needs ==
  [serial |-> {"snapshot", "s_mic_ring", "s_handler", "serial_driver"},
   udp |-> {"snapshot", "s_mic_ring", "s_handler", "softap"},
   uart |-> {"snapshot", "s_mic_ring", "s_handler", "s_uart_queue"},
   core_service |-> {"s_tinyusb"},
   display |-> {"snapshot", "s_display", "labels"}]

(* Nothing runs before what it uses is there, although the parts start one *)
(* after the other while those before them run: no frame finds the decoder *)
(* without a handler, no audio callback the ring missing, and no event is  *)
(* wiped out by app_state_init.                                            *)
UsesWhatIsThere ==
  /\ \A task \in running : Needs[task] \subseteq ready
  /\ s_usb_ready => "snapshot" \in ready
  /\ recording \/ filled => "s_mic_ring" \in ready

(* A device that has started has every task, but for those a failure has   *)
(* cost that app_main does not look at, since the last restart: never the  *)
(* UART, and the poll of the pending reports only if its task could not be *)
(* created.                                                                *)
Services == {"serial", "uart", "core_service", "display"} \union {t \in {"udp"} : wifi}

OnlyKnownGaps ==
  pc = "done" => Services \ running \subseteq lost \ {"uart"}

(* A board starts in the end, whatever fails by chance, whenever the power *)
(* is cut and whatever is in the NVS partition - unless a call is broken   *)
(* whose error is checked; a display short of memory does not keep it from *)
(* forwarding, unless it is the one of lvgl_port_add_disp_dsi.             *)
Tolerated ==
  (Unchecked \union TaskCalls) \X {"error"} \union {"lvgl", "lcd"} \X {"no_mem"}

StartsUnlessBroken == broken \subseteq Tolerated => <>[](pc = "done")
=============================================================================
