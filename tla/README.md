# A TLA+ model of CaptureKVMBridge

CaptureKVMBridge is the firmware of an ESP32-P4 board that sits between two computers. A *controller*
sends keyboard, mouse and microphone data as TLV frames over a serial line; the firmware shows the
*target PC* a USB keyboard, two mice and a microphone and forwards the data to it. The code is about
2000 lines of C in `src/main`, run by half a dozen FreeRTOS tasks on two cores without a single lock.
This directory models it in TLA+, checks the models with TLC and proves the central properties with
the TLA+ proof system.

## 1. The system

| Part | Source | State | Operations |
| --- | --- | --- | --- |
| UART transport | `uart_transport.c` | driver ring and event queue, `s_stream` | `uart_rx_task`: drain on data, flush on overflow |
| USB Serial/JTAG transport | `serial_transport.c` | `s_stream` | `serial_rx_task`: read and feed |
| UDP transport | `network_transport.c` | none | `udp_listener_task`: check a datagram (compiled out on the ESP32-P4) |
| TLV stream parser | `tlv_stream.c` | `tlv_stream_t`, one per transport | init, reset, feed |
| TLV decoder | `protocol_tlv.c` | log counters | `protocol_tlv_receive_frame`: check, decode, dispatch |
| HID report path | `usb_hs_device.c` | ready/suspended/wakeup flags, a pending slot per kind | handlers, `usb_hs_poll`, attach, detach, suspend, resume |
| Absolute axis | `usb_hs_device.c` | none | `scale_abs_axis` |
| Microphone path | `usb_hs_device.c` | `s_mic_ring` | frame handler, `uac_input_cb` |
| Status state | `app_state.c` | one snapshot | mark, note, refresh, get |
| Status display | `display_ui.c` | widgets, backlight | init, update, sleep, wake |
| Start-up | `hid_forwarder_main.c`, and the init functions it calls | the NVS partition in flash | `app_main`, `handle_protocol_event`, the service tasks |

**How they interact.** Each transport has a receive task of the second highest priority. It feeds its
parser; a complete frame goes by callback, in the same task, through decoder and
`handle_protocol_event` to the HID handlers or the microphone handler. So two receive tasks may be in
the same handler at once. `core_service_task` (priority 5, core 1) calls `usb_hs_poll` every 10 ms;
the TinyUSB task (priority 5, core 0) runs the bus callbacks; the USB audio task pulls from the
microphone ring. All of them write the status snapshot, and `display_task` reads it.

**What is hard.** (a) Shared variables without locks, on two cores. (b) Each HID kind has a one-report
pending slot that a handler stores and the poll sends and clears. (c) A byte stream without checksum,
escape or timeout. (d) A driver interrupt that posts to a bounded queue and drops what does not fit.
(e) A ring from which the producers also take. (f) Bus events - pulled cable, suspension - at any
moment. (g) A start-up of which every call may fail, in one of three ways: restart, do without, or not
notice; the parts started first run while the others are missing. The only thing that outlives a restart
is the NVS partition, and nothing but its initialisation depends on it.

**What makes each part correct.** Parser: stays in its buffer, delivers only what was on the wire, finds its
place again. Transport: no byte is left behind, the interrupt is not left off. HID path: reports arrive,
whole, in order, not more often than bounded; activity wakes a sleeping target PC, and no task twice. Axis and reports:
range, edges, monotone; the target PC reads what the controller meant. UDP: a datagram has a fate of its
own. Start-up: nothing runs before what it uses is there, and a tolerable board starts. Microphone: order,
unbroken frames, whole samples, no silence while the ring is stuck. Status: shows the state there is.

`PROJECT.json` lists every hazard with its line and the properties that cover it.

## 2. Modules

| Module | Models | Proofs |
| --- | --- | --- |
| `HidForwarder` | HID report path | `HidForwarderProofs` |
| `TlvFormat` | the frame, both sets of length checks | |
| `TlvStream` (extends `TlvFormat`) | the parser, byte by byte | `TlvStreamProofs` |
| `FrameChannel` | abstract: frames sent arrive whole, once, in order | |
| `SerialLink` (extends `TlvStream`) | composition: controller, USB Serial/JTAG ring, `serial_rx_task`, parser, decoder; `Channel` is the refinement | `SerialLinkProofs` |
| `TlvLink` (extends `TlvStream`) | a controller and a noisy line in front of the parser | `TlvLinkProofs` |
| `UdpListener` (extends `TlvFormat`) | `udp_listener_task` | `TlvLinkProofs` |
| `AbsAxis` | `scale_abs_axis` | `HidReportProofs` |
| `HidReport` (extends `AbsAxis`, `TlvFormat`) | fields of a frame, bytes of a report, what the target PC reads | `HidReportProofs` |
| `UartIngress` | `uart_rx_task` with the driver's interrupt | `UartIngressProofs` |
| `MicRing` | microphone handler, `uac_input_cb`, the FreeRTOS ring | `MicRingProofs` |
| `AppState` | the status snapshot, the display's update, the bus state | `StartUpProofs` |
| `StartUp` (extends `AppState`) | `app_main`, failures, restarts, power cuts | `StartUpProofs` |

The `MC...` modules hold the instances for TLC; `PROJECT.json` maps every definition to its lines.
Operators whose comment begins with "Mutant:" are plausible bugs: put in the place of the definition
that follows them, each makes TLC find the property named in `PROJECT.json` violated.

### HidForwarder

A step is the code between two accesses to data another task can touch. A receive task goes through
`Handle` (entry, dropped by `HandleUnmounted` when not mounted), `WakeIfSuspended`, `WakeIfArmed`,
`WakeIfLongAgo`, `WakeSignal`, `WakeStamp`, `WakeDisarm` (`request_remote_wakeup_if_needed`, its three tests and its
two stores apart), `Send` (`send_*_report_now`) and, when that fails, `StoreA`, `StoreB`, `StoreFlag`. The poll goes
through `PollBegin`, then per kind `PollSkip` or `PollClaim`, `PollCopyA`, `PollSubmit`, `PollClear`.

TinyUSB's interrupt handler and its task are apart (external, from how `tud_*` is used): `HostSuspends`,
`HostResumes`, `HostDetaches` change at once what `tud_hid_ready` and `tud_remote_wakeup` look at, and queue an event
in `events`. The task takes it later: `OnDetach`, or `OnSuspend` / `OnResume`, the first store of
`usb_hs_on_suspend` / `usb_hs_on_resume`, with `StoreEnabled` and `StoreTime` as the second and the third; `callback`
is where it is between them. So a handler meets a bus that sleeps while the flags do not say so yet, or only some of
them. `Attach` is one step: when TinyUSB's state and `s_usb_ready` differ there, handlers and poll return
early, as before. `HostTakes` is the target PC.

The three handlers are one action with the kind as a parameter, and so are the three `send_*` functions. They have the
same lines but for the names; `Handle` and `RxStep` are mapped to all three, the steps inside to the keyboard's.
A report is two halves, each the number of the event it came from: a copy of a slot takes two steps, so
a torn report is one whose halves differ. `s_last_remote_wakeup_us` is kept as the only thing the code
asks of it, whether it is less than 20 ms ago; `ThrottleExpires` is the clock.

Choices: memory is sequentially consistent and each task's stores are in program order. `tud_hid_ready`
and the claim in `tud_hid_report` are one step, except where the poll reads a slot in between. A bus
reset without unmount, the first 20 ms after boot, and the activity marks in `app_state` (which nothing
here reads) are left out. `handled`, `received`, `signalled` are history, and so are `late` (the tasks that
had signalled and not disarmed when wakeup was armed) and `excused` (the events whose
loss has an excuse: another user of the slot was in it between their store and their sending, or a newer
event replaced them).

### TlvFormat, TlvStream, SerialLink, TlvLink, FrameChannel

One action per branch of `tlv_stream_feed`. The frame buffer is a function on `0 .. MaxPayload + 2`; the
16-bit `expected` and `received` are numbers, and `TypeOK` shows that they do not wrap. The counters of
the log messages are left out. The callback branch for a frame without payload (`tlv_stream.c:183-187`)
is unreachable, since no sane length is 0; lemma `SaneLength` proves it. `LengthIsSane` is the build with
audio enabled, as `sdkconfig` has it. `wire` and `delivered` are history. `Restart` is the
`tlv_stream_reset` of the UART task.

`SerialLink` composes a route: the controller (external: it is not in this repository) sends packets, the
driver's ring (external) keeps them, `Read`, `Drain`, `DrainEnds` are the two reads of `serial_rx_task`, `TakeByte`
is `tlv_feed`, and `ReceiveFrame` what `protocol_tlv_receive_frame` makes of a complete frame: history `handled` are
the frames the handler was called for.
The controller waits while the ring is full: a driver that drops packets instead would be a line as in
`TlvLink`. `FrameChannel` says what a controller expects of the route, without bytes, and `ImplementsChannel` is
the refinement, with `got` mapped to `handled`. Payloads may hold anything, whole frames included; frames of
types this firmware does not know may come between, if no `SYNC0` is in them.

`TlvLink` is the line of the UART, which may lose or change a byte, and lets the receive task reset its parser.
Frames of this link hold no `SYNC0` byte behind their sync pair: there is no escape, and with
such payloads a parser that lost its place could follow false headers for ever. This is a limit of the
protocol, and the bound `ResyncsInTime` names is for traffic without it.

### AbsAxis

`ScaleAbsAxis` with C's integer division; the `int32_t` product is `Product`. The branch for
`max_cfg <= 1` is dead: Kconfig's range begins at 2.

### HidReport

`MouseEvent`, `MouseAbsEvent` are the decoder's, `MouseReport`, `MouseAbsReport` the send functions'; the keyboard's
report is the payload. `PayloadOf` is the controller, from the layout the decoder expects; `SeenMouseAbs` reads a
report by the descriptor in `usb_hs_device.c`, `SeenMouse` by TinyUSB's (external). There is no state between
two frames, so a behaviour is one frame.

### UdpListener

One action, `Receive`, is one turn of the loop: `recvfrom` puts the datagram over what is left of the last one
and cuts it at the buffer's end, `Passes` are the checks. The network is external: a datagram of the set may
come at any time, any number of times, or never. `heard`, and `from` in `forwarded`, are history.

### UartIngress

A byte is its number on the line, so that a gap is a jump in the numbers. `Arrive`, `IsrData`, `IsrOverflow`,
`IsrError` are the receiver and the ESP-IDF driver (external, from how `uart_rx_task` uses it: the queue drops an
event that does not fit; a full ring turns the receive interrupt off until a read makes room). An error event
(`Noise`: parity, frame, break, and the `default` of the switch) takes a place in the queue, and `TakeEvent` does
nothing for it. `TakeEvent`, `Read`, `ReadNothing`, `Look`, `Flush`, `ResetQueue`, `ResetParser` are the calls of the
task, and the interrupt may come between any two. `stranded` is history: the event of bytes in the ring found a queue
with nothing but error events, of a task that was not at the ring (`Attended`), or was discarded by `xQueueReset`;
they wait for the next event that is no error. If they are in the driver's stash the receive interrupt is off, and
that event is the overflow of the FIFO. Of the parser only the last byte fed and whether it was fed two bytes across a
gap are kept. The assumption `FifoLen * (MaxInWindow + 1) <= RingLen` says that the ring (32 KiB, 40 ms at 6 Mbit/s)
does not fill between `uart_flush_input` and `xQueueReset`.

### MicRing

A byte is its source and its number there, so samples, frames and sources can be told apart. `Store`,
`Receive`, `GiveBack` are the FreeRTOS byte-buffer ring (external): all or nothing on send, one contiguous
piece at a time on receive, room freed on return. `Send`, `Drop`, `DropReturn`, `Resend` are
`usb_hs_handle_microphone_frame`; `Callback`, `Fetch`, `CopyReturn`, `Finish` are `uac_input_cb`. `overflowed` and
`settled` are history: the bytes of the frames that found no room, and of those whose handler has returned.

### AppState

Two halves that share no variable. *Activity*: `Mark`, `MarkOther`, `Note`, `StoreUntil`, `StoreEvent`, `Reread`,
`Load`, `Store` are the calls of `app_state.c`; `Look`, `LookLoad`, `LookStore`, `Copy` are `app_state_get_snapshot`;
`Update` is `display_ui_update` with the touch panel and the backlight. The three features never meet, so one stands
for them. Times are kept as their distance from now and go stale by `Tick`, so time is unbounded and the state space
finite; `MaxDelay` bounds how long a call may be held up. `app_state_note_event` refreshes with the timestamp it reads
back from the snapshot (`Reread`): its own, or the one another task has stored in between; an optimised build may use
the one in the register, so both are allowed. `Expired` and `Forgotten` are as far back as a time can matter, two and
three delays behind an end. The branches of `update_display_power_state` for a timestamp that is zero or in the future
are dead. *Bus state*: `AttachEvent`, `DetachEvent`, `StoreState`, `FillBuffer`, `StoreStreaming`, `EndOfInit` are the
writers of `hs_state`; `OpenMicrophone`, `CloseMicrophone` are the target PC. `streamed` and `raced` are history:
whether audio has come since the last attach, and which of the two races has met the last event. The counter of events
and the last source, which no decision reads, are left out; so are 64-bit stores torn at the turn of the upper word.

### StartUp

`pc` is the call `app_main` makes next. A call works, fails because the board is `broken` (for good), or fails by
chance (at most `MaxTroubles` times, power cuts included). `CheckFails` is `ESP_ERROR_CHECK`, `DisplayNoMem` the one
error that is told apart, `GoesOnWithout` a failure that is logged or not looked at, `TaskGivesUp` a receive task that
deletes itself. `ready` and `running` are what there is, `lost` is history. Calls that fail in the same way and stand
side by side are one. Meanwhile `BusEvent` runs the bus half of `AppState`, from the moment the driver is
installed; its last statement in `usb_hs_device_init` is the step of `UsbInit` that races with it. The
handlers' own work is in the other modules.

## 3. Runs

| Run | Instance | Shows |
| --- | --- | --- |
| `hid_tasks` | `MCHidPath`: 2 receive tasks, keyboard, up to 3 events, 2 suspensions and 1 pulled cable, 4 of these in all, symmetric; every coordinate 0 .. 65535, maxima at the edges of Kconfig's range; every value of every field of a frame | `NoSecondSignal`, `ArmedUntilSignalled`, `DuplicationBound`, `LossNeedsOverlap`; `InLogicalRange`, `EdgesReached`, `PixelsInOrder`; `SeenAsMeant` |
| `hid_kinds` | 1 receive task, all kinds, 1 event each, 1 suspension, 1 pulled cable, fair | `TypeOK`, `OnlyHandled`, `PendingDrains`, `ActivityWakes` |
| `hid_order`, `hid_newest`, `hid_whole` | 1 receive task, keyboard, up to 3 events | violated: see Findings |
| `hid_asleep` | 1 receive task, keyboard, 2 events, 1 suspension, fair | violated: see Findings |
| `link_clean` | `SerialLink`: 4 kinds of frame, 3 frames, 1 of a newer controller, ring 4, packets of 3, fair | `ImplementsChannel`, with liveness, `QuietMeansHandled` |
| `link_noise` | `TlvLink`: 2 frames chosen to be misread, 3 sent, 2 disturbances; `UdpListener`: 17 datagrams, 3 received | the parser's invariants, `ResyncsInTime`, `AlignedArrives`; `ForwardedWasThere`, `FateOfItsOwn`, `RoutesAgree` |
| `udp_limit` | the same | violated: see Findings |
| `uart` | FIFO 3, ring 6, queue 2, chunk 2, 12 bytes, line errors at any time, fair | `NothingLeftBehind`, `SplicedUntilHandled`, `RingDrains` |
| `mic` | 2 sources, ring of 3 samples, callback of 2, frames of 1 and 2, 3 samples each, fair | `HeardInOrder`, `FramesUnbroken`, `WholeSamples`, `LossIsBounded`, `RingDrains` |
| `status` | 2 callers, indicator 2 ticks, backlight 3, delay 1, unbounded time, fair; start-up with every single permanent fault and one passing one | `StateAgrees`, `LabelFollowsUse`, `BacklightFollowsUse`, `GoesDark`; `UsesWhatIsThere`, `OnlyKnownGaps`, `StartsUnlessBroken` |

**Why the bounds are enough.** Two receive tasks are all the transports of the board. Two events suffice for each of
the races of the slot (one stored, one that meets it), three for a race on top of a stale flag; two suspensions for
what survives one: a signal of the first that disarms the second needs one event, two suspensions and a resume.
`MaxStimuli` spares the combination of all bounds at once. Three kinds are all, and a kind polled last. The bytes of
the link are nine values: four types, two lengths besides, two sync bytes, zero; three frames let the longest misread
payload begin in the first and end in the third, two disturbances first lose the place and then forge a sync. A UART
queue of two is full of line errors after two, or of one error and the data event of a burst, and a ring of two FIFOs
is full after two interrupts. In the ring of three samples the pieces wrap at every frame. In `status` two callers and
the display are enough for a stale write between two fresh ones, and the bounds the properties name are tight: with
one delay less each is violated. `MCAppState` explores each half of `AppState` while the other rests: the activity on
a device that has started, the bus while it starts; of the activity, the labels without touches and the backlight
without marks, neither of which has an effect on the other. `MCHidPath` does the same for the tasks, the axis and the
reports, which share nothing. One fault for good and one by chance put every failure behind every other, and a power
cut at every call of every broken board. The ring of `SerialLink` is shorter than a frame and longer than a packet, so
that pieces begin and end anywhere. The datagrams are a whole one of each length around the limit, one for each check
that must fail, one that is cut.

`CHECK_DEADLOCK FALSE` stands where the input is bounded and everything may come to rest when it ends:
the controller of the link, the events of `hid_tasks` and the sweep of the axis, the bytes of the UART. `HidForwarder`
(`hid_kinds`), `MicRing` and `AppState` with `StartUp` are checked for deadlock.

**Fairness.** `HidForwarder`: each receive task, the poll (its task sleeps 10 ms at a time), the TinyUSB task (it
waits for its queue) and the target PC's polling of an active endpoint are weakly fair; traffic, cable and suspension
are not. `UartIngress`: only the receive task. `MicRing`: the receive tasks' steps inside the handler and the audio
callback of a target PC that keeps recording. `AppState`: time passes and the display task comes round; the callers
need none, since time waits for a call that has begun. `SerialLink`: a controller that has begun a frame sends its
packets, and the task runs. `StartUp`: `app_main` runs on and the panic handler restarts the board; faults by chance
are bounded, those for good are not.

### Findings

Four runs show disagreements with the README: three with its claim that keyboard and mouse data "are forwarded"
(README.md:16-17), one with the remote wake support of README.md:20-21. One shows a disagreement with Kconfig.

* `hid_order` - a report left pending because the endpoint was busy is sent by the poll *behind* a newer
  one that a handler has sent directly. A key can stay pressed.
* `hid_newest` - a report stored between the poll's copy of the slot and the reset of its flag is lost,
  until the next event of the kind.
* `hid_whole` - a report sent while another task stores the slot mixes two events.
* `hid_asleep` - an event whose handler looks at the suspension flags before `usb_hs_on_suspend` has stored them all,
  though the bus sleeps already, is left in the slot and wakes nobody: the poll never asks for a wakeup.
* `udp_limit` - Kconfig.projbuild:41 has payloads above the limit dropped; the two longest within it are dropped too,
  since the UDP buffer has no room for the sync pair.

Kconfig.projbuild:22-23 further says that coordinates are mapped to 0 .. 65535. They are mapped to 0 .. 32767, as the
HID descriptor has it (`EdgesReached`).

`LossNeedsOverlap` and `DuplicationBound` are the other side: these races, and no others, lose a report,
and a repetition is bounded. `LossIsBounded` is the same for audio: an overflow costs at most two frames, and
that is tight.

Some properties hold with an exception that a reader should know of:

* `NoSecondSignal` counts from the arming: a task left at `tud_remote_wakeup` by the last suspension can signal and
  disarm when the bus sleeps again and line 653 has not armed it yet, and signal once more after it has.
* `ArmedUntilSignalled` and `ActivityWakes` speak of a suspension whose callback is through and which no disarm of
  before has overtaken; `hid_asleep` is the rest.
* `NothingLeftBehind` and `RingDrains`: line errors are taken from the queue without a look at the ring
  (uart_transport.c:68-76). A queue full of them drops the event of a burst, and its bytes wait for the next.
* `StateAgrees`: the last statement of `usb_hs_device_init` may come behind an attach event and leave "disconnected";
  a call of the audio task that a bus event overtakes leaves "streaming". Either lasts until the next bus event.
  "Streaming" means that audio has come since the attach: the code does not take it back.
* `LabelFollowsUse`: a label may stay lit three delays behind the end of its mark, one of them because of the time that
  app_state.c:62 reads back.
* `SeenAsMeant`: a movement of -128 is passed on, though the descriptor's minimum is -127.
* `StartsUnlessBroken`: a display whose buffers do not fit in memory restarts the board for ever:
  `lvgl_port_add_disp_dsi` answers `NULL`, which becomes `ESP_FAIL` instead of `ESP_ERR_NO_MEM`.

## 4. Proofs

Every safety property that a passing run checks is also a theorem, as is the safety part of the refinement. The
theorems hold for every value of the constants that meets the named assumptions; the bounds of the runs (events,
bytes, frames, disturbances) are arbitrary in them.

* **HidForwarderProofs.** For any finite set of receive tasks and any bounds. `TypeCorrect` is inductive as it
  stands. `WakesOnce`: that a task which has signalled cannot reach the signal again, before the wakeup is armed
  anew, rests on `SignalInv`, which says that behind the signal the task is on its way to disarm the wakeup, or the
  wakeup is disarmed and the task is not past its tests.
  `StaysArmed` needs `ArmedInv`: a bus that sleeps has its event last in TinyUSB's queue (`Announced`), or its callback
  has begun, and from the store that arms on each task about to disarm has signalled since or is `late`
  (`ArmingUnderWay`). `OnlyHandledSent` needs `WrittenInv`: the event a task carries was accepted
  (`IdsAccepted`), the parts of a store that are done are in the slot (`StoresUnderWay`), the half the poll has
  copied was written (`CopyUnderWay`). `NothingElseLost` needs `LossInv`: an event without an excuse is delivered, or
  is in the endpoint, in a handler or in the slot (`Accounted`); a task that is storing finds its own halves in the
  slot, or has an excuse (`StoredOrExcused`); the flag the poll resets is that of a report it has sent, or what was
  stored since has an excuse (`CopiedOrExcused`).
  `RepeatsAreBounded` needs `BudgetInv`, a budget of one delivery per task and one more for each event: what is sent,
  what the slot's flag will send again, and the tasks that can still raise it stay within, counted by cardinality.
* **TlvStreamProofs.** `StreamTypes`, `StaysInBuffer`, `DeliversWire`, `DecoderAccepts`, `NoByteTwice` for every
  radix, sync pair, set of lengths and byte stream. `StreamInv` says, for each state of the parser, which of
  the last bytes of the wire the filled part of the frame buffer holds, and that `type` and `expected` are
  what these bytes say. `NoByteTwice` adds that no frame delivered reaches into those bytes (`ApartInv`).
* **SerialLinkProofs.** `SafeChannel`: the route implements the safety part of `FrameChannel` - the initial states
  map to initial states, each step to a step of the channel or to a stutter. `SerialInv` is about the bytes on the
  wire, in the task's buffer, in the ring and in the controller, joined to one `Line`: it is a row of marked frames
  without a gap, the parser is at a place in one of them and in the state that goes with the place, and all frames for
  this firmware up to it have been handled. How the row is cut into the four buffers does not matter to it.
  `NothingHeldBack` follows, since an idle route has the parser at the end of the line.
* **TlvLinkProofs.** `FindsItsPlace`: the parser of a disturbed line is in its place in the frame under way
  (`InPlaceAt`), or hunts, or what it can still swallow (`Wants`) and the undisturbed bytes it has had are together
  within `SwallowBound` (`ResyncInv`). A byte that is not `SYNC0` makes it want at least one less; a `SYNC0` begins a
  frame and puts it in its place. `AlignedFramesArrive`: what an aligned parser has of the frame is the end of the
  wire (`AlignedInv`), and a complete frame is what is on the wire. That the longest payload exists, as a maximum of a
  bounded set, is lemma `MaxExists`, from the well-foundedness of the naturals. `ParserOnNoisyLine` has the parser's
  own invariants for the specification of the line, as the run checks them. `ForwardsWhatWasThere`,
  `WholeFramesArrive`, `SameFrames` are about `UdpListener`, for every payload limit and any set of datagrams. First,
  the checks on the buffer depend on the datagram alone (`PassesIfFits`), as what is read of the buffer the datagram
  has overwritten (`ReadIsDatagram`). Then `UdpInv`: each frame forwarded is the one of a datagram that fits, and each
  datagram that fits was forwarded.
* **HidReportProofs.** `AlwaysInRange`, `EdgesAlwaysReached`, `PixelsStayInOrder` for every
  maximum and coordinate, from lemmas on integer division: a quotient of `c * 32767` by `d >= c` is at most
  32767, and division is monotone. `EveryFieldArrives` for every value of every field and both maxima: a byte and a
  word, signed or not, is read back as what it was written from (`SignedByteBack`, `WordBack`).
* **UartIngressProofs.** `IngressTypes`; `LeavesNothing`, from `DrainInv`: bytes in the ring that are not `stranded`
  have an event that is no line error, or a task that goes on until the ring is empty (`SomeoneLooks`), and what
  arrives between flush and reset of the queue fits the ring (`WindowFits`). `SplicesAreAnnounced`, from
  `GapsAnnounced`: while no overflow is to be handled and none was missed, FIFO, stash and ring hold neighbours, up to
  the last byte sent, and the parser has the byte before them.
* **MicRingProofs.** For any set of receive tasks, also an infinite one. `TypeCorrect` from `MicInv`: who holds a
  piece of the ring is where its next step returns it (`Owners`), and what a handler still has is the last its source
  has fed (`FramesUnderWay`). `SamplesStayWhole` from `WholeInv`: every buffer holds whole samples and the ring is
  read from an even offset. `SourcesInOrder` and `FramesStayUnbroken` from `OrderInv`: the sequence `Heard` of all that
  was played, is in the callback's buffer, in its piece and in the ring is in order, frame by frame, and older than
  the frames under way. `LossStaysBounded` from `LossInv`: each handler that has met a full ring owes
  (`Due`) what it can still lose, and the sum over the tasks is the cardinality of a set of tokens (`Owed`), so that no
  induction over the tasks is needed.
* **StartUpProofs.** `StartsInOrder` from `StartInv`: what `app_main` has made goes by the place of `pc` (`Made`), and
  no part is there without those it is made of (`Grounded`). `GapsAreKnown` from `Accounted`, task by task.
  `TellsTheBus` from `BusInv`, what is told in the middle of an event, and that a buffer filled with audio belongs to
  an attached bus unless an event has overtaken it. `ActivityTyped`, `LabelsTellUse`, `BacklightTellsUse` are about
  the other half of `AppState`, from `UseInv`: how far the stored times, the arguments of the calls under way and the
  bits computed from them can lag behind the newest mark, at most by what `MaxDelay` allows. These hold for the
  specification without its fairness.

**Assumptions.** `ByteAssumption`, `LengthAssumption`: types and sync bytes differ, the payload limit fits 16 bits.
`FramesAssumption`, `SerialAssumption`: the controller sends frames the firmware accepts; on the noisy line, none
with a `SYNC0` inside. `ByteRadixAssumption`, `MeaningsAssumption` (`HidReport`): bytes of 8 bits, fields of the
widths `protocol_tlv.h` gives them. `CoordinateAssumption` and the range of the maxima: Kconfig's.
`RxAssumption`: receive tasks are finitely many where repetitions are counted (`HidForwarder`), and none is called
like the callback (`MicRing`). `SizeAssumption`: a ring of whole samples that holds a frame (`MicRing`); the ring
does not fill between `uart_flush_input` and `xQueueReset` (`UartIngress`). `TimeAssumption`: a call is held up for
less than an indicator is lit, and the backlight stays on longer than that.

**Only model-checked.** Everything temporal beyond `[]`: `PendingDrains`, `ActivityWakes`, `RingDrains` of the UART
and of the microphone, `GoesDark`, `StartsUnlessBroken`, and the liveness in `ImplementsChannel`, since the prover
has neither liveness under fairness nor `ENABLED`. There are no RECURSIVE operators, and no statement that would
need an induction over data.

## 5. Not modelled

The descriptors other than the absolute mouse's (constant tables), the texts and layout of the labels, pins, baud
rate and Wi-Fi settings, log messages and their counters, the generator of mock events (nothing calls it), build
files. Reasons are in `PROJECT.json`. TinyUSB, the ESP-IDF drivers, lwIP and FreeRTOS are modelled from how
`src/main` uses them.

## 6. Plan

Done: 1. `HidForwarder` with proofs; 2. `TlvFormat`, `TlvStream` with proofs, `FrameChannel`, `TlvLink`;
3. `AbsAxis` with proofs; 4. `UartIngress`; 5. `MicRing`; 6. `AppState`; 7. `StartUp`; 8. `UdpListener` with proofs;
9. `HidReport`; 10. `SerialLink`; 11. proofs of `SerialLink` and of `TlvLink`; 12. proofs of `StartUp` and of
`AppState`; 13. proofs of `UartIngress` and of `MicRing`; 14. loss and repetition in `HidForwarder`, `SeenAsMeant`.

Next:

15. The steps that the liveness properties rest on, as action properties with proofs: a pending flag that is up is
    taken down by the poll's own step or stays up; a byte of the UART's ring leaves it at the front.
