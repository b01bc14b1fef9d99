# Verification of xboxdrv

TLA+ models of the parts of xboxdrv whose correctness depends on the order of
events, the TLC runs that check them on small instances, and proofs of the
most important properties for every instance.

xboxdrv is a user-space driver: it reads Xbox and similar gamepads over USB and
feeds what they report, rewritten by a configuration, into virtual input
devices of the kernel (uinput). It is one process with one GLib main loop. No
two handlers run at the same time, but much is not atomic: a handler only
queues a callback for later, the destructor of a controller runs the USB event
loop (and with it the handlers of other controllers) until its transfers are
back, and SIGINT runs `shutdown()` in the signal handler.

## Inventory

| Part | State | Operations | What makes it correct |
|---|---|---|---|
| Daemon (`xboxdrv_daemon`, `udev_subsystem`, `controller_slot`, `controller`) | slots, list of inactive controllers, active and disconnected flags, queued idle callbacks | udev add, USB reports, disconnect and activation callbacks, signal | every controller has one owner; no flag is forgotten; slots respect their match rules; unplugging and signals have their effect |
| USB transfers (`usb_controller`) | set of submitted transfers, disconnected flag | submit, read, write and control callbacks, destructor | exactly one read in flight; no callback into a dead object; the destructor returns |
| Controller thread and message processor (`controller_thread`, `uinput_message_processor`, `controller_slot_config`) | last raw and last modified message, current configuration | message, timeout, toggle, D-Bus SetConfig | one toggle per press; nothing stays pressed by a configuration that was left |
| Buttons of a configuration (`uinput_config`, `button_map`, `ui_key_event_*`) | button state, emitter values, key counters | `send_button` | shift layers are exclusive; a key is up when nothing holds it |
| Axes of a configuration (`uinput_config`, `axis_map`) | axis state, last button state | `send_axis`, `reset_all_outputs` | only the event an axis is bound to now is deflected |
| Button handlers and filters (`buttonevent/`, `buttonfilter/`) | timers, cycle positions, macro positions | press, release, update | every press is released |
| Axis handlers and filters (`axisevent/`, `axisfilter/`) | zone, remainder, repeat timer | send, update | an axis in the middle holds no key and repeats no motion, however it got there |
| Modifiers (`modifier/`, `xboxmsg`) | none, or the filters' | update | a remapping loses and invents nothing |
| Force feedback (`force_feedback_handler`, `linux_uinput`) | effects, play state, the request being answered | upload, erase, play, stop, gain, timer | driver and pad have the effects of the applications; the motors come to rest |
| Virtual devices (`uinput`, `linux_uinput`, `ui_*_event_collector`) | devices with their events, repeated motions | add event, finish, send, timer | a repeated motion keeps its pace and ends; an event gets to the device that announced it |
| Chatpad (`chatpad`) | position in the wake-up series, key state, LEDs | control requests, timers, reads | the keep-alive goes on; keys and LEDs follow the reports |
| Headset and USB interface (`headset`, `usb_interface`) | a transfer per endpoint, a file to play and one to record | submit, callbacks | playing ends |
| Evdev controller (`evdev_controller`, `evdev_absmap`) | message, force-feedback ids | read, upload, erase | ids map one to one; axes keep their order |
| Single-controller program (`xboxdrv_main`, `xboxdrv`) | one controller, a child process | find, start, run, signal, disconnect, child exit | the program ends when controller or child do, and leaves no LED on |
| D-Bus interface (`dbus_subsystem`, `xboxdrv_g_*`) | none | calls into the daemon and slots | |
| Other controllers (`firestorm_dual_controller`, `saitek_*`, `t_wireless_controller`) | none | `parse` | a stick that is let go is at 0, and one that moves further is reported further |
| Options and configuration files (`command_line_options`, `arg_parser`, `ini_*`, `options`, `uinput_options`) | the `Options` object, open files and their directories | options, pairs of a section, presets | presets in any order bind no two inputs to one code; macros are looked up beside the file that names them |
| Logs, tables, names | none | | |

The controller calls the daemon through three callbacks (message, activation,
disconnect). The daemon binds the message callback by creating a
`ControllerThread` in a slot; the thread passes messages to its
`UInputMessageProcessor`, which owns no state of the outputs: that belongs to
the configurations of the slot and survives the thread.

What is hard here: flags that change inside a callback that reads them
(nested event loop), callbacks that outlive what they point to, the order of
activation and disconnection callbacks, a device reported twice, shift buttons
that shift each other while other buttons are held, a configuration left while
its keys are down, an axis whose last binding is recomputed instead of stored.
`PROJECT.json` lists each of them at its line.

## Modules

| Module | Models | Extended by |
|---|---|---|
| `XboxdrvDaemon` | the daemon | `MCXboxdrvDaemon` (instances), `XboxdrvDaemonProofs` |
| `USBController` | the transfers of one controller | `USBProofs` |
| `ShiftButtons` | the buttons and message types both halves of a configuration know | `UInputMessageProcessor`, `UInputAxes` |
| `UInputMessageProcessor` | thread, processor, buttons, keys | `MCUInputMessageProcessor`, `UInputConfigProofs` |
| `UInputAxes` | axes of a configuration | `MCUInputAxes`, `UInputConfigProofs` |
| `Registry` | what the daemon promises about controllers and slots | `XboxdrvDaemon` implements it |
| `ButtonEvents` | button handlers, virtual keys over time | `MCButtonEvents`, `ButtonEventsProofs` |
| `ButtonFilters` | the filters of `buttonfilter/` | `ButtonEvents`, `Modifiers` |
| `AxisFilters` | axis conversions and the filters of `axisfilter/` | `XboxMsg`, `UInput`, `ForceFeedback` |
| `XboxMsg` | the messages of the pads and their accessors | `Pads` |
| `Pads` | how other pads and evdev devices make such messages | `Modifiers` |
| `Modifiers` | the modifiers of a configuration over a stream of messages | `MCModifiers`, `ModifiersProofs` |
| `UInput` | devices, names, ids and repeated motions of `UInput` | `AxisEvents` |
| `AxisEvents` | the handlers of `axisevent/` | `VirtualDevices` |
| `ForceFeedback` | emulated effects, and the effects of an evdev pad | `VirtualDevices` |
| `VirtualDevices` | axis events, the kernel's force feedback and the 10 ms timer together | `MCVirtualDevices`, `VirtualDevicesProofs` |
| `Chatpad` | the chatpad's conversation, keys and LEDs | `Accessories` |
| `Accessories` | chatpad and headset beside a wired pad | `MCAccessories`, `USBProofs` |
| `ArgParser` | the option table and the words of a command line | `Program` |
| `IniParser` | configuration files, construct by construct | `Options` |
| `Names` | names of buttons and axes | `Options` |
| `UInputOptions` | the presets of a configuration | `Options` |
| `Options` | what options and pairs do to the `Options` object | `Program` |
| `Program` | `Xboxdrv::main` and `XboxdrvMain` from the command line to the exit | `MCProgram`, `ProgramProofs` |
| `MinTheorems` | lemmas: least and greatest elements, induction up to a bound, functions that recursion defines | the proof modules |

Two proof modules cover two components each, which share constants or their
place in the program: `UInputConfigProofs` the halves of a configuration,
`USBProofs` what is done with transfers. So that both can be extended at once the
definitions of the second have names of their own (`AxesSpec`,
`AccessoriesSpec`).

Operators whose comment starts with "Not the code" are deliberate errors: each
property is shown to fail when one of them takes the place of the definition
it stands before.

### XboxdrvDaemon

`slots` is `m_controller_slots` (a slot's thread is represented by the
controller it holds), `inactive` is `m_inactive_controllers`, `active`, `gone`
and `bound` are the controllers with `m_is_active`, `m_is_disconnected` and a
set `m_msg_cb`; `idle` is the queue of `g_idle_add`. `EnumerateDevice`,
`UdevAdd` and `Launch...` are `process_match` and `launch_controller_thread`;
`ConnectionLost` to `ResubmitFails` are the ways `on_read_data` can go;
`DispatchIdle` to `EndOfList` are the two idle callbacks, one loop iteration a
step; `Destroyed` ends the wait in `~USBController`, during which `Reads` is
enabled for the other controllers; `Signal` is `shutdown()`; `Teardown` is the
end of `run()`.

Kept: every flag, guard, early return and the order of effects. Abstracted:
LED numbers, scripts, names, match rules (`Matches` says which devices a rule
matches), message contents. An object is created only for a device that no
object of the process drives, because claiming the interface a second time
fails. A failed write that ends in `send_disconnect` while a read is still in
flight is modelled in `USBController`, not here. `--no-uinput` is not modelled:
it fills the slots with null pointers (`init_uinput`, line 216), which
`find_free_slot` dereferences for the first wired controller.

### Registry

The daemon without callbacks, queues and positions of loops: a controller is
absent, waits (in the list), is served (in a slot) or is leaving (its destructor
runs), and `Stage` in `XboxdrvDaemon` reads that off slots, list and `dying`.
`ImplementsRegistry` is the refinement `R!Spec`: every step of the daemon, with a
loop of an idle callback half way through or a destructor waiting, is a step of the
registry or none. So only a controller that is switched on at that moment gets
a slot, the best one for it; only one that is not loses it; one that was pulled
leaves before its device can come back; and nobody else is touched by any of
these.

### USBController

One controller object from constructor to destructor. `m_transfers` and
`pending` are kept apart on purpose: what the destructor waits for, and what
libusb will call back. Control requests have the life of writes. A constructor
that throws after the read was submitted (the chatpad or headset of
`Xbox360Controller`) runs the destructor without a disconnect callback set;
if the device goes at that moment, the empty callback throws out of the
destructor and the process terminates (`life = "terminated"`).

### UInputMessageProcessor

`Send` is `UInputMessageProcessor::send`: toggle, modifiers, comparison, and
the list of `send_button` calls that follow, which `SendButton` then makes one
at a time. `down` holds the emitters with value 1, `value` the counters of the
key collectors. `ButtonsOf` gives the buttons each message type passes on, in
order; `Modified` what the modifiers of a configuration do to the buttons.
A button that shifts itself (`A+A`) is excluded by `BindingsAssumption`: its
event is pressed unshifted and released shifted.

### UInputAxes

`CurrentEvent` and `LastEvent` are the two loops of `send_axis`, which differ
in where their `break` stands. `AxesOf` gives the axes each message type passes
on: an `Xbox360Msg`, which is also what `reset_all_outputs()` sends, has none of
the pressure axes that the other two types have. `lost` is history: for each axis the reasons
for which a change of its event, while it was deflected, may have been missed.
There are three: the message did not send the axis (`unsent`), an ordinary button
was held before the shift button (`covered`), or a reset came right after the
message that changed the event (`hasty`), since a reset does not move
`last_button_state` on.

### ButtonEvents

What happens to a press once `UInputMessageProcessor` has decided which event
it reaches. `Update` is `UInputConfig::update`: it queues one call of
`ButtonEvent::update` per bound event, in the order of `ButtonMap`, and
`Perform` makes them one by one (the filters' and the handler's update, then
the send of the last raw state again). `ButtonDown` and `ButtonUp` are
`ButtonEvent::send`. In one message the updates come first and an event is
released before it is pressed at most once: `spent` holds the events released
since the last update. `Leave` is the reset of a configuration that stops being
the current one; from then on it is not updated.

The filters are those of `ButtonFilters`: `Filter` and `Passed` are the `filter`
and `update` of each, `Filtered` and `FiltersAfter` the chain of them. `KeySend`/`KeyUpdate` are keys with a hold threshold, `CycleSend`
the cycle sequences, `MacroSend`/`MacroUpdate` macros, `RelSend` relative
repetition. Time is what the code counts: milliseconds as whole numbers, deltas
of 0 included because the controller thread cuts them. The emitters of one
`UIEventSequence` are always sent together and are one group.

Abstracted: the `const` and `log` filters (a constant, a copy), the `exec` and
`abs` handlers (their effect is outside or an axis), a macro's initialisation
and axis events, the period of relative repetitions (only who repeats).
`overlapped` is history: whether two events with a sequence or axis in common
were ever on together.

### AxisFilters, XboxMsg and Modifiers

`XboxMsg` has the three message layouts: which buttons are one bit and which a
byte that says how hard they are pressed, which sticks are 16 bits and which are
bytes. `Store` cuts a value to its field, as the bit fields of the packed
structs do. `GetAxis`, `SetAxis` and their `Float` versions are the accessors
with their differences kept: `SetAxis` and `SetAxisFloat` put stick values into
the bytes of a PS3 pad as they are, a trigger axis is split into two bytes, the
PS3 trigger as a float is made of two bits. So on a PS3 pad an axis that a
modifier centres is set to 0 in a byte whose centre is 128: the four-way
restrictor, of which doc/xboxdrv.xml:1417 says that the diagonals "are filtered
out from the output", makes every movement a diagonal, and axis maps and
deadzones deflect a stick at rest. `EndsReached`, `RestStaysRest`
and `ThrottleFollows` therefore leave out the sticks of PS3 pads
(`SticksAsBytes`). `AxisFilters` has `to_float`,
`from_float` and the filters, with C++'s truncating division. Floats are exact
fractions: single precision loses at most one more step of an axis when a byte
goes to a float and back, so no property is stated of single steps.

`Modifiers` runs a chain of modifiers on each message, as
`UInputMessageProcessor::send` does, and on the last one again at a timeout.
`states` are the filters of mappings and `m_last_unpressed_axis`. `ButtonMapped`,
`AxisMapped`, `DpadRestricted`, `DpadRotated` and `FourWay` are the `update`
functions; `SignedAxis` and `Merged` are the inversion and the merge of the axis
map. Messages come from a pad whose report is one (`Sent`), from a report of one of
the pads of `Pads` (`Report`, their `parse`), or from the events of an evdev device
up to its `SYN_REPORT` (`Synchronised`); `Pads` keeps what differs between these
pads: which bits are which buttons, whether a byte is signed or counted from the
other end, one centre or two, and the conversion of an evdev axis from its range. The rotate and square modifiers need angles and roots, stat counts presses
for a report, and the sensitivity filter is a real power: these are left out.

### UInput, AxisEvents, ForceFeedback and VirtualDevices

`VirtualDevices` is one `UInput` and what drives it. `Message` sends the axes a
message moved to their events, after `update` told each event the time that went
by; `Timeout` is `UInput::on_timeout`: repeated motions, then the rumble
handler. The handlers of `AxisEvents` keep their last value, the timer of a
relative repetition and the rest of a motion that is less than a step; `out` is
what they reach of `UInput`: repeated motions under their key, key emitters that
are on, absolute values. The key of a repeated motion has no slot, because
`UIEvent::operator<` compares none, so two slots share one entry.

The other half is force feedback. Applications and the kernel are external:
`Uploads`, `Erases`, `Plays`, `Stops` and `SetsGain` put events into the queue of
the uinput device, an upload or erase waits for its answer, and `GivesUp` is the
kernel's 30-second limit, after which the event is still in the queue.
`ReadUpload`, `ReadErase`, `ReadPlay` and `ReadGain` are `on_read_data`, one event
a step. With a pad that has only motors the effects go to `ForceFeedbackHandler`
(`HandlerUpdated`, once per timer callback); with an evdev pad they go to its
device, which hands out ids of its own and may refuse an effect. `kernel` is what
the applications think they have, and the properties compare the two.

Abstracted: magnitudes and gain to a few bits with the code's divisions kept, the
names and ids of devices to who provided them, the kernel's sending of the
events. `turns` and `lost` are history of a repeated motion.

### Chatpad and Accessories

A chatpad is a record, and `Chatpad` has the functions of `chatpad.cpp` on it: the
answer to a control request (`OnControl`), the timer (`OnTimeout`), a report
(`Process`). `Accessories` puts it beside the headset on one device handle, with
its own transfers, and lets submissions and transfers fail, the device go and the
controller be destroyed at any step. `lit`, `heard` and `held` are the chatpad's side
of the conversation. `flight` is what the headset has in flight. An exception in a
callback leaves the main loop and ends the program (`Throws`).

### Program and the modules of its options

`ParseArgs` turns the words of a command line into options, all before the first
is applied, so that an error leaves nothing done. `ApplyOption` is `apply_opt` of
the next one, `ReadConstruct` reads one construct of the innermost open file: a
file may include others, in the middle, through `config`. `Options` has every
setter; a configuration slot or button map keeps the events that matter (their
code, filters and the directory their macro is looked up in). `Numerals`,
`Percentages`, `Pairs` and `Parts` are the conversions of text, as tables of the
texts a run uses. `UInputOptions` is `uinput_options.cpp`.

`Program` goes on with `Xboxdrv::main`: scheduling, the mode, finding a
controller (`FindByPath`, `FindById`, `FindKnown`), creating it, the LED
(`InitController`), the processor, the child process and the main loop. `lit` is
the LED of the device, apart from what the controller object remembers (`m_led`);
`asked` is history, of a `shutdown()` after `init_controller()`. A signal runs
`Shutdown` between any two of these steps once the handler is installed, and
kills the process before. The modes that only print end at once; the daemon mode
ends here and goes on in `XboxdrvDaemon`.

## Runs

| Run | Shows | Bounds |
|---|---|---|
| `daemon` | safety of slots, list and flags; no switch and no disconnect is forgotten; the daemon implements `Registry` | 2 slots (one with a rule for the receiver), a receiver with 2 ports, a wired pad, 2 queued callbacks |
| `daemon_live` | unplugging, switching off and signals have their effect | 1 slot, 1 port, 1 wired pad, 2 queued callbacks |
| `daemon_dead_thread` | a parked controller calls its deleted thread (violation) | as `daemon_live` |
| `processor` | shift layers, toggle, reset | 2 configurations, 4 buttons, 3 message types, 3 keys of which one is shared |
| `axes` | no axis stays deflected but for three reasons | 2 axes (a stick shifted by two buttons, a pressure by one), an ordinary button, 2 message types, 2 positions |
| `axes_ordinary_button` | an ordinary button hides the last event of a shifted axis, with no other reason met (violation) | 1 axis, 2 buttons |
| `buttons` | filters, hold thresholds, cycles, macros and repetition leave no key behind | 15 events in ten configurations of one to three, deltas of 0, 1 and 2 ms, delays up to 3 ms |
| `messages` | remapping loses and invents nothing, ends and rest survive, pads' reports keep the order of their sticks | 22 chains of no to three modifiers on three pads, four other pads and an evdev device; bytes of 6 bits, sticks of 7 bits, a second of 4 ms, deltas of 0 and 1 ms |
| `usb` | transfers of one controller | 3 transfer objects |
| `devices` | axis events let go, repeated motions keep their pace, effects are those of the applications, motors come to rest | 7 setups of two axes or of a pad; 3 effects, 2 ids, 3 queued events, 3 uploads or plays, 1 failure |
| `accessories` | keep-alive, keys and LEDs of the chatpad; playback | 4 setups, 2 modifiers and 2 keys, 3 chunks, 1 failure, 2 LED requests in flight |
| `program` | presets, nested files, signals at any step | about 1900 starts: each option once, each two of those that interact, each three presets; nested, missing and wrong files |

Two slots and three controllers are enough for every pair of places a
controller can move between to be contended, with a controller before and one
after the position of each loop; two queued callbacks give each order of the
two kinds, and a second callback queued while the first runs. In the button
model, four buttons give a shift, a button that is both shifted and shift, an
ordinary button and the toggle; the shared key is bound in both configurations.
In `buttons` every filter and every handler is bound, alone or with the events
it can disturb; thresholds, delays and rates are larger than one delta, so that
they are reached exactly, passed, and missed. In `messages` the stick values are
both ends, the centre and their neighbours, a report has every value of a byte,
and the seven-bit stick keeps what matters of the real one: two halves of unequal
length and more than a byte. The longest chain has three modifiers, one reading
what the other has written. In `devices` the queue holds an upload, a play and a
stop at once, and the failure can hit any of the requests. In `accessories` two
modifiers are the least that change in one report while a request for the other
is in flight. In `program` three presets are every order of one that clears a
binding, one that moves it and one that uses its code.

Where a property carries a condition it names what the code does not promise:
`mixed` messages in the processor, two buttons of one sequence held together in
`ButtonEvents`, failed requests in `EffectsFollowKernel` and `KeepAliveContinues`,
the three reasons of `lost` in `NoAxisStuck`, a program asked to stop before
`init_controller()` in `LedOffAtExit`. The run `axes` meets every reason, alone and
together. The conditions are those of the deviations below.

Fairness (`XboxdrvDaemon`): the main loop goes on (weak fairness of the
enumeration, of entering the loop and of destruction). Idle callbacks have a
lower GLib priority than I/O and could be starved by I/O that is always ready;
pads report every few milliseconds, which leaves the loop time, so idle steps
are strongly fair. libusb reports a vanished device (strong fairness of
`NoDevice`), and `g_main_loop_run` looks at its flag after every iteration
(strong fairness of `Teardown`). Nothing is assumed of users, hardware or
signals. In `ButtonEvents` the calls of an
update are made (weak fairness of `Perform`), and updates with a positive delta
recur (strong fairness): the thread's timeout recurs and real time is not cut to
zero for ever. `USBController` assumes that libusb calls back for cancelled transfers
and for those of a device that is gone. `VirtualDevices` assumes that the 10 ms
timer fires and that the main loop reads the uinput device while it has events,
`Accessories` that timers fire and that a control request and a write come back;
neither assumes anything of applications, users or of the device staying there.
`Program` assumes that the main loop dispatches the child watch and the
disconnect callback, and that `main()` returns from what does not wait; parsing
and starting may block for ever.

## Proofs

Each theorem holds for every value of the constants that satisfies the
assumptions of its module, for any number of steps.

| Module | Theorem | Property |
|---|---|---|
| `XboxdrvDaemonProofs` | `TypeCorrect` | `TypeOK` |
| | `ControllersOwnedOnce` | `OwnedOnce` |
| | `RulesRespected` | `SlotsRespectRules` |
| | `NoTakeover` | `NoSlotTakenOver`: no step replaces the controller of a slot by another; no run checks it, since `ImplementsRegistry` says more |
| | `DaemonImplementsRegistry` | `ImplementsRegistry`, the refinement |
| | `DisconnectsAreSwept` | `NoDisconnectForgotten` |
| | `SwitchesAreSwept` | `NoSwitchForgotten` |
| `USBProofs` | `NoCallbackOutlives` | `NoCallbackLeft` |
| | `AlwaysReading` | `OneReadInFlight` |
| | `ChatpadFollowed` | `ChatpadFollows` |
| `UInputConfigProofs` | `ShiftLayersExclusive` | `PressedIsSelected` |
| | `LeftConfigsLetGo` | `OnlyCurrentPresses` |
| | `ToggledOncePerPress` | `ToggleOncePerPress`, if modifiers keep the toggle button (`ToggleSurvives`) |
| | `NeutralMeansReleased` | `NeutralReleasesAll`, if modifiers press nothing themselves (`NeutralStays`) |
| | `AxesStickForThreeReasons` | `NoAxisStuck` |
| `ButtonEventsProofs` | `KeysFollow` | `KeysFollowState` |
| | `SharedFollow` | `SharedFollowState` |
| | `LettingGo` | `LetGoReleasesAll`, if macros release what they press (`MacrosRelease`) |
| `VirtualDevicesProofs` | `EffectsKept` | `EffectsFollowKernel` |
| | `RestLetsGo` | `RestIsStill` |
| | `MotionKeepsPace` | `RepeatKeepsPace` |
| `ModifiersProofs` | `DirectionStays` | `DirectionKept` |
| | `ButtonMapsExact` | `ButtonsRemapped` |
| | `RestKept` | `RestStaysRest` |
| | `EndsStayReachable` | `EndsReached` |
| `ProgramProofs` | `NoLedLeftOn` | `LedOffAtExit` |
| | `MacrosFoundBesideTheirFile` | `ContextIsOpenFiles` |
| | `PresetsKeepApart` | `PresetsShareNoCode` |

### The arguments

Daemon. `TypeOK` is inductive once the position of a slot loop is known
to be a slot (`LoopOK`). `OwnedOnce` is inductive over it: the work is in
`PlacementSteps`, which reduces a step to the few that move a controller, and
in the facts about `RemoveAt` and `\o`. `RulesRespected` and `NoTakeover` follow
from `SlotSteps`: a slot changes to empty or to a controller whose lowest
candidate it is. For the refinement the same case analysis shows what each step
does to `Stage`: the positions of the loops, the queue and the flags that no
stage mentions change without a trace in the registry, and the others are one of
its actions, or the end. `NoDisconnectForgotten` is inductive once only objects
that exist are disconnected (`SweepInv`): the two loops of the callback go
upwards, a controller moves only to a place that is still ahead of a loop
or with a callback queued behind it, and erasing an entry of the list moves
the entries behind it together with the position. `NoSwitchForgotten` has two parts
(`SwitchInv`). A pad that is off and in a slot was put there on, so it was switched
since, and that queued a callback, which looks at every slot that is not behind it.
The second part is about what the callback has passed in the list. It destroys no
controller, so no event loop runs inside it and no pad is switched meanwhile
(`Undisturbed`); and there it only takes slots, so that what was too late for a slot
stays too late.

Transfers. `NoCallbackLeft` and `OneReadInFlight` need the invariant that
transfers, their kinds and the sets that hold them agree.

Chatpad. `ChatpadFollows` speaks of a moment without requests. `ChatpadOK` extends
it to any: for each LED the last request in flight decides what it is going to
show, and if there is none it shows it already (`Shows`). A report appends the
requests for the LEDs it toggles (`LightsAppended`), an answer takes the first
one (`FirstTaken`), commands stand between them and change nothing.

Message processor. `PressedIsSelected` needs only that shift layers are functions
of the held buttons; the lemma of its step shows that the events a changed
button can take the selection from are exactly those `Cleared` releases.
`OnlyCurrentPresses` needs what the code relies on without saying so (`LeaveInv`):
as long as messages keep one type, a configuration that is not the current
one holds no button for which its reset has no release left to make. For
`NeutralReleasesAll` a second half is added (`FollowInv`): what
the current configuration holds, the last message holds too or its release is
due, and the counter of a key is the number of pressed events it is in
(`Counted`). The hypotheses are conditions on the configuration. A modifier that
takes the toggle button away makes it toggle with every message (see the
deviations); an inverted filter of a button map presses a button of a
message without any.

Axes. `NoAxisStuck` is inductive, for every binding of axes. A message leaves an
axis right that it does not send, unless the axis is deflected and changes its
event (`unsent`). For one it sends, the two loops of `send_axis` agree on the buttons
before, unless an ordinary button was held before the shift button (`LoopsAgree`,
`covered`), and those buttons are the ones the event was last bound under, except
for a reset (`hasty`). Where no reason is met `send_axis` therefore sees the change,
puts the last event to rest and moves the current one (`SendAxesStep`); an axis at
rest needs neither.

Button events. `KeysFollow` needs that the hold counter of a key that is off is
0. `SharedFollow` needs that at most one of the events that share is on, which
`overlapped` records, and that nobody moves the cursor of a cycle while its button
is on (`OneOfShared`, `CursorUnset`). `LettingGo` has two parts. An event without
a toggle or inverted filter is off after its button is up and updated, because its
click filters have seen the release (`SettledInv`). And every pressed key has a
holder: a group of emitters that is down or a running macro that is still to
release it (`HeldInv`). With the first part no group is down, and
with no macro running nothing holds a key. A macro that ends without a
release leaves its key down for ever, as its author wrote it: hence the
hypothesis.

The three hypotheses hold of the configurations of the runs, where TLC evaluates
the same properties without them.

Virtual devices. `EffectsFollowKernel` speaks of an empty queue only. `KernelInv`
extends it to any queue: what the driver or the pad has, changed by the events
that are still in the queue, is what the applications have (`LeavesPlaying`,
`LeavesGain`: the last event for an effect, or for the gain, decides). It also
says that one request is in the queue at most, that the kernel owns the id it
asks about, and that no effect is turned after its erasure.
`RestLetsGo` follows from `DrivenInv`: every pressed key and every repeated motion
has an axis that is deflected now and drives it. That is an
invariant of each single `send` and `update` in the loops over the axes,
not only of whole messages. `MotionKeepsPace` has an invariant (`PaceInv`) of the same
grain: the rest of a motion stays below two steps, and one that stands a
whole step against its motion does so after a turn of which no step was lost
yet, so the next `update` still owes it (`Paid`, `Against`). Rests are fractions;
they are compared over a common denominator (`Amounts`), in which a turn of the
loop adds and takes away integers (`StepKeeps`). For this the value of an axis has
to stay an integer through all its filters (`ValuesInt`), which is where the assumption
that no filter divides by 0 is needed.

Modifiers. All loops of the code (over modifiers, mappings, filters and events)
are recursive functions; `LoopExists` shows once that such functions exist,
and the lemmas `...Steps` give their values step by step. `DirectionKept` is
inductive with the fact that the axis a restrictor remembers is never the one it shows.
`ButtonsRemapped` needs an invariant of each of the two loops of
`ButtonmapModifier::update`: after i mappings the pressed buttons are those that
no left side has cleared and those of the first i right sides. `RestStaysRest` is
proved per modifier and carried along the chain. For an axis map it is not true
between its two loops, since a pressure that is cleared is half one; `Waiting`
names the fields that still wait for their own mapping, and the loop empties that set. The
proof showed that the property was stated too widely at first, with
deadzones and inverted pressures for which no chain of the run failed. So was
`EndsReached`: an axis that two mappings take or set, a deadzone that covers an end,
TRIGGER mapped next to one of its triggers and a turned pressure that the pad does not
have all break it, and are excluded now (`Permutes`, `LeavesEnds`). Its proof gives
each axis the fields it has to itself (`FieldsOf`, `FieldsApart`, `SetLeaves`), so that
only its own mapping sets it (`AxisApart`); what the first loop has cleared adds 0 to
that one (`ClearedReads`), and -1 and 1 pass through inversion, deadzones and
both conversions exactly (`InvertedEnd`, `DeadzoneEnd`, `FloatOfEnd`, `SetToEnd`), for
every width of the fields.

Program. `LedOffAtExit` is inductive with the fact that a controller whose device
shows a light remembers it (`LedInv`), since the write of 0 is left out for one that
remembers none. Nobody sets the LED after `init_controller()`, so once `asked` it
stays out (`Dark`). The two properties of the options share the invariant `Good`, of the
`Options` object after any number of options, pairs and files. For the presets
it says where codes can sit: `BtnHomes` and `AxisHomes` give each code of a preset
the inputs that any preset binds it to, every setter leaves codes at home
(`AtHome`), and where a code has two homes, whatever binds it at one has cleared
the other. For the directories it counts the files on disk below each
position of the stack (`OnDisk`), which opening and closing a file, on disk or
built in, shift together (`OpenStep`, `CloseStep`).

The type invariants of `USBController`, `UInputAxes`, `ButtonEvents` and
`Modifiers` (`Shaped`) are part of the inductive invariants of these proofs.

### Assumptions on constants

All are checked by TLC on the instances of the runs. Beside sizes and types:
a wired device has one port and a receiver's ports are its own controllers
(`PortsAssumption`: what `enumerate` creates); every button of a message is one of
those `reset_all_outputs` names (`MessagesAssumption`: the enumeration of
`uinput_config.cpp:78-106`); delays and rates of filters lie below `MaxTime`
(`FiltersAssumption`, so that the bound on counters hides nothing); a macro has
an event (`HandlersAssumption`; one without is a deviation below); an axis is bound
with 0 in its range and more than one step of it, one bound to a relative axis
with a negative half too, with a positive threshold and repeat interval, and with no
filter that divides by 0, as a smooth deadzone that covers the axis to its end or a
calibration whose centre is an end of it does (`DevicesAssumption`); buttons and axes of mappings and bindings are those of the
enumerations (`SetupsAssumption`, `IsEvdev`); a list of pairs on a command line is a
sequence of pairs (`PairsAreLists`: what `process_name_value_string` hands to its
callback); the chatpad's modifiers are finitely many (`KeysAssumption`; they are
four). The last part of `BitsAssumption`, that
2^n is twice 2^(n-1) and at least 2, is arithmetic for which the provers have no
theory; it is not a condition on the program.

### Induction

The library's induction theorems take an operator as a parameter, which the
installed provers cannot instantiate. `MinTheorems` has the least element of a
set of naturals instead (from `NatLessThanWellFounded`, which has no such
parameter), and from it `UpTo`: a set that contains 0, and i whenever it contains
i - 1, contains all of 0..n. Loops of the code are reasoned about with it, the
statement about the first i steps being the definition of the set.

### Only model-checked

- Liveness: `UnplugReleases`, `InactiveLeavesSlot`, `SignalStopsLoop`,
  `UnplugNoticed`, `DestructorEnds`, `KeepAliveContinues`, `PlaybackEnds`,
  `HeldFires`, `MacroEnds`, `RumbleEnds` and `StopsByItself` depend on fairness,
  which is `ENABLED`, out of the prover's reach.
- `ThrottleFollows` of `Modifiers`. It is a fact of the configurations of the
  run, not of every value of the constants: a relative filter whose speed is
  less than about two steps of the axis per message stands still (the state is
  kept as a fraction of the axis and is cut on its way into the message), and a
  second mapping that takes or sets the same axis moves it as it likes. A
  theorem would need both as hypotheses, and that two conversions that cut a
  fraction, one after the other, are strictly monotonic over such a step.
- `SticksFollowed` of `Modifiers`. It holds when no two codes of an evdev
  binding write the same field, which the code does not require (the last event
  to come wins), and its account of where the thumb is (`report`, `Places`) is
  built with `:>`, `@@` and a fold over the events, of which the provers know
  nothing.

## Plan

The daemon, the transfers, the processor with both halves of a configuration,
button and axis handlers with their filters, modifiers over the messages of all
pads, force feedback, virtual devices, the accessories, the options and the
single-controller program are modelled, and the daemon is shown, and proved, to
implement `Registry`. Every safety invariant of the runs is proved; the action
properties and the liveness that are still only checked are listed above.

## Not modelled

Log output, help texts, lists of supported devices and `--write-config` have no
effect on what the program does. Real-time limits (the 10 ms sleep of
`shutdown`, the timeout's period) are abstracted to "may happen at any point".
Async-signal-safety of `shutdown()` is below the models. Of the axis filters the
response curve's power, and of the modifiers rotation by angles, the squaring of
the stick and the statistics are left out: they need functions on reals. The
D-Bus methods other than SetConfig only call functions that are modelled. The
generic USB pad prints its reports; the PS3 pad's start-up sends fixed requests.
The tools under `src/tools/` are programs of their own for developers. Reading
memory after it was freed, where the code does it, is an outcome the models
either end with (`dead_thread`) or do not follow (below).

## Where the code deviates

What the models show, or met while they were written, beside the two violations.

Message processor, buttons and axes
- The neutral message of a wireless pad that switched off has the type of a
  zeroed message, whose `send()` (`uinput_config.cpp:139-202`) skips the guide
  button: a key held with it stays pressed (`xbox360_wireless_controller.cpp:78`).
  `NeutralReleasesAll` therefore has the condition `~mixed`.
- The toggle button is looked up in the raw new and the modified old message
  (`uinput_message_processor.cpp:57`, 86): one that the modifiers map away toggles
  on every message (`NEWS:240` says that it works). The run has no such modifier.
- `reset_all_outputs()` releases buttons, not events: a toggle filter that is on
  or a macro in progress keeps its key when the configuration changes
  (`uinput_message_processor.cpp:61`).
- With an ordinary button held before the shift button, `send_axis` does not find
  the last event of the axis, which stays deflected (the run
  `axes_ordinary_button`). Nor does it when the axis' shift button changes in a
  message of a type without that axis.
- `reset_all_outputs()` sends an `Xbox360Msg`, so the axes A, B, X, Y, BLACK and WHITE
  keep their deflection, though it is called "to not get stuck keys/axis"
  (`uinput_message_processor.cpp:61`). Right after the message that changed the event
  of an axis it also compares with buttons that are one message too old.
- A macro file without events makes `update()` read the first of none; macros
  send past the collectors, so a key they share is released under its button.
- Time is cut to whole milliseconds per message, so thresholds, delays, autofire
  and macros stand still under messages that come faster.
- A repeat interval of 0 never leaves the loop of `UInput::update`.

Daemon and program
- The LED write for a receiver that has just been pulled throws out of the main
  loop (`StatusWriteThrows`). Queued callbacks are not limited. A slot that gets
  free is not offered to a waiting controller before the next activation change.
- `--toggle A --controller-slot 1` aborts: `get_controller_slot() const` asserts at
  `options.cpp:121` that a missing slot "shouldn't happen", but the option creates
  none and `finish()` (`options.cpp:349`) short-circuits when a toggle button is
  set (`InitControllerAborts`). `finish()` looks at the last slot only.
- "Press Ctrl-C to quit" comes before the main loop runs; a signal in between turns
  the LED off and is then lost. One that comes before or during
  `init_controller()` is undone by its `set_led()`: with `--quit`, or a setup that
  fails, the LED stays on. `--led 0` never writes the LED.
- `void` does not clear a binding (`doc/xboxdrv.xml:1694-1696`, 1771-1774): an event
  that is none is not bound at all.
- `str2bool` never throws, so a mistyped `--dbus` mode turns D-Bus off, and
  `force-feedback = yes` in a file is false. A `rumble-l` of a file is not limited,
  `wireless-id` is not checked, `chatpad-no-init` does not turn the chatpad on, the
  sections for single controllers have an assertion "implement me", and
  `--device-by-path` needs numbers of three digits.
- `run_daemon` turns force feedback off in the current slot only; a daemon with
  force feedback passes no controller and aborts.

Messages and pads
- On a PS3 pad an axis that a modifier centres is deflected fully (above).
- A deadzone that does not contain 0 (`deadzone:10:20`) and an inverted pressure
  deflect an axis at rest; nothing rejects them (`RestStaysRest` leaves them out).
- A calibration whose centre is one of its ends divides by zero beyond that end.
- The P2500 does not invert its Y axes; the P3600's left and upper ends reach
  −32512 only, and its `parse` prints. A half axis of an evdev device has its
  centre at `(max - min + 1) / 2`, which is wrong unless its range starts at 0. Two
  keys mapped to one button release each other. `SYN_DROPPED` is not handled, and an
  evdev device that is unplugged is never noticed (`evdev_controller.cpp:302-317`).

Force feedback
- A gain above 100 % overflows the product of magnitude and gain. The envelope is
  reversed against the kernel's, but only rumble is announced, which has none.
- A BEGIN that fails is not noticed, and effects of zeros are uploaded as id 0.
  Another program's effects on the pad break the agreement of ids. A device named
  by `--ff-device` that has no events is asserted to exist.

Accessories
- One failed control request ends the keep-alive for good (`chatpad.cpp:299`). The
  chatpad's timer outlives it (the FIXME at `chatpad.cpp:206`), and throws out of
  the main loop when the pad is gone.
- The headset's read is submitted again whatever its status, so unplugging a
  headset that records ends the program (`usb_interface.cpp:187-190`). The table of
  transfers is erased by a key read from the one just freed
  (`usb_interface.cpp:195-196`, 213-214); destructors free transfers in flight; a
  failed resubmission frees the transfer and leaves its entry. The assertion of
  `submit_read` looks up another key than is stored and never fires. A write that
  fails loses its chunk, and the last part of a file, if shorter than a chunk, is
  not played.
