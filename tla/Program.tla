-------------------------------- MODULE Program --------------------------------
(***************************************************************************)
(* Xboxdrv::main and the single-controller program XboxdrvMain, from the   *)
(* command line to the end of the process: the options are parsed and      *)
(* applied, configuration files are read construct by construct, a         *)
(* controller is found, created and initialised, and a GLib main loop runs *)
(* until a signal, the end of the child process or a disconnect asks it to *)
(* stop.                                                                   *)
(*                                                                         *)
(* SIGINT and SIGTERM run shutdown() in the signal handler, between any    *)
(* two steps.  A signal that interrupts libusb or GLib inside a lock is    *)
(* left out.                                                               *)
(***************************************************************************)
EXTENDS Options, ArgParser

CONSTANTS
  CommandLines, \* the sequences of words the program may be called with
  Devices,      \* USB devices in libusb's order: [vendor, product, type, bus, dev]
  NoPad

VARIABLES
  opts,      \* the Options object and the reader
  todo,      \* ParsedOptions that are still to be applied
  phase,     \* how far main() has come
  pad,       \* the controller object of m_controller
  plugged,   \* its device is there
  looping,   \* is_running of m_gmain
  child,     \* the process spawned for the arguments behind the options
  lit,       \* the LED of the device: -1 as it was found, 0 off
  asked      \* history: shutdown() was called after init_controller()

parsing == <<opts, todo>>
world   == <<plugged, child>>
driven  == <<pad, lit>>
vars    == <<parsing, phase, driven, world, looping, asked>>

Over == {"exited", "daemon", "crashed"}

Init ==
  /\ \E argv \in CommandLines : todo = ParseArgs(argv)
  /\ opts = NewOptions
  /\ phase = "parsing"
  /\ pad = NoPad /\ plugged = TRUE /\ looping = FALSE
  /\ child = "none" /\ lit = -1 /\ asked = FALSE

-----------------------------------------------------------------------------
(* parse_args(): the words were parsed first, and an error among them        *)
(* throws before any option is applied.                                      *)

ApplyOption ==
  /\ phase = "parsing" /\ opts.failed = "no"
  /\ WellFormed(todo)
  /\ opts.stack = <<>> /\ todo # <<>>
  /\ opts' = ApplyOpt(opts, Head(todo).key, Head(todo).arg)
  /\ todo' = Tail(todo)
  /\ UNCHANGED <<phase, driven, world, looping, asked>>

ReadConstruct ==
  /\ phase = "parsing" /\ opts.failed = "no"
  /\ opts.stack # <<>> /\ ~AtEnd(Last(opts.stack))
  /\ opts' = ReadOne(opts)
  /\ UNCHANGED <<todo, phase, driven, world, looping, asked>>

EndOfFile ==
  /\ phase = "parsing" /\ opts.failed = "no"
  /\ opts.stack # <<>> /\ AtEnd(Last(opts.stack))
  /\ opts' = CloseFile(opts)
  /\ UNCHANGED <<todo, phase, driven, world, looping, asked>>

FinishOptions ==
  /\ phase = "parsing" /\ opts.failed = "no"
  /\ opts.stack = <<>> /\ todo = <<>>
  /\ opts' = Finished(opts)
  /\ phase' = "dispatch"
  /\ UNCHANGED <<todo, driven, world, looping, asked>>

\* main() prints the error and returns 0; a failed assertion ends the process.
ParsingFails ==
  /\ phase = "parsing"
  /\ opts.failed # "no" \/ ~WellFormed(todo)
  /\ phase' = IF opts.failed = "abort" THEN "crashed" ELSE "exited"
  /\ UNCHANGED <<parsing, driven, world, looping, asked>>

-----------------------------------------------------------------------------
(* set_scheduling() and the switch over the mode.                            *)

Throws == phase' = "exited" /\ pad' = NoPad /\ UNCHANGED lit

SchedulingRefused ==
  /\ phase = "dispatch" /\ opts.text["priority"] = "realtime"
  /\ Throws
  /\ UNCHANGED <<parsing, world, looping, asked>>

RunMode ==
  /\ phase = "dispatch"
  /\ phase' = CASE opts.mode = "RUN_DEFAULT" -> "creating"
                [] opts.mode = "RUN_DAEMON"  -> "daemon"
                [] OTHER                     -> "exited"
  \* run_daemon(): force feedback is switched off in the current slot only.
  /\ opts' = IF opts.mode = "RUN_DAEMON" THEN SetSlot(opts, "ff", FALSE) ELSE opts
  /\ UNCHANGED <<todo, driven, world, looping, asked>>

-----------------------------------------------------------------------------
(* USBSubsystem::find_controller, ControllerFactory::create and              *)
(* XboxdrvMain::create_controller.                                           *)

Nth(devices, n) == IF n \in 0..(Len(devices) - 1) THEN {devices[n + 1]} ELSE {}

AskedType == opts.text["type"]
Retyped(found) == {[d EXCEPT !.type = AskedType] : d \in found}

FindByPath ==
  IF AskedType = "unknown" THEN {}
  ELSE Retyped({d \in Range(Devices) : /\ d.bus = Atoi(opts.text["busid"])
                                       /\ d.dev = Atoi(opts.text["devid"])})
FindById ==
  IF AskedType = "unknown" THEN {}
  ELSE Retyped(Nth(SelectSeq(Devices, LAMBDA d : /\ d.vendor = opts.num["vendor-id"]
                                                 /\ d.product = opts.num["product-id"]),
                   opts.num["controller-id"]))
FindKnown ==
  Nth(SelectSeq(Devices, LAMBDA d : d.type # "unknown"), opts.num["controller-id"])

FindController ==
  CASE opts.text["busid"] # "" /\ opts.text["devid"] # "" -> FindByPath
    [] opts.num["vendor-id"] # -1 /\ opts.num["product-id"] # -1 -> FindById
    [] OTHER -> FindKnown

HasSpec(d) == \E k \in DOMAIN opts.specs : /\ opts.specs[k].vendor = d.vendor
                                           /\ opts.specs[k].product = d.product
CanDrive(d) == d.type = "generic-usb" => HasSpec(d)

NewPad(kind) == [kind |-> kind, disconnected |-> FALSE, m_led |-> 0]

CreateController ==
  /\ phase = "creating" /\ pad = NoPad
  /\ IF opts.text["evdev"] # "" THEN pad' = NewPad("evdev")
     ELSE \E d \in FindController : CanDrive(d) /\ pad' = NewPad("usb")
  /\ phase' = "initializing"
  /\ UNCHANGED <<parsing, lit, world, looping, asked>>

\* No device, or one that cannot be opened, claimed or read from.
CreateControllerThrows ==
  /\ phase = "creating"
  /\ Throws
  /\ UNCHANGED <<parsing, world, looping, asked>>

-----------------------------------------------------------------------------
(* set_led() writes what has changed; a write to a device that is gone       *)
(* throws, unless the controller knows that it is.  An evdev controller      *)
(* has no LED.                                                               *)

MustWrite(status) == pad.m_led # status /\ pad.kind = "usb" /\ ~pad.disconnected
LedWriteThrows(status) == MustWrite(status) /\ ~plugged
SetLed(status) ==
  /\ pad' = [pad EXCEPT !.m_led = status]
  /\ lit' = IF MustWrite(status) THEN status ELSE lit

Slot == SlotAt(opts, opts.controller_slot)
\* 2 stands for the four patterns of the js device number.
FirstLed == IF Slot.led = -1 THEN 2 ELSE Slot.led % 256

\* init_controller(); get_controller_slot() const asserts that there is a slot.
SlotMissing == opts.controller_slot \notin DOMAIN opts.slots

InitController ==
  /\ phase = "initializing" /\ ~SlotMissing
  /\ ~LedWriteThrows(FirstLed)
  /\ SetLed(FirstLed)
  /\ phase' = IF "instant-exit" \in opts.on THEN "leaving" ELSE "setup"
  /\ UNCHANGED <<parsing, world, looping, asked>>

\* The LED or the rumble request fails.
InitControllerThrows ==
  /\ phase = "initializing" /\ ~SlotMissing /\ ~plugged /\ pad.kind = "usb"
  /\ LedWriteThrows(FirstLed) \/ (opts.num["rumble-l"] # -1 /\ opts.num["rumble-r"] # -1)
  /\ Throws
  /\ UNCHANGED <<parsing, world, looping, asked>>

InitControllerAborts ==
  /\ phase = "initializing" /\ SlotMissing
  /\ phase' = "crashed"
  /\ UNCHANGED <<parsing, driven, world, looping, asked>>

\* The processor: a dummy, or UInput with its devices, which may be refused.
SetUpProcessor ==
  /\ phase = "setup"
  /\ phase' = "starting"
  /\ UNCHANGED <<parsing, driven, world, looping, asked>>

SetUpThrows ==
  /\ phase = "setup" /\ "no-uinput" \notin opts.on
  /\ Throws
  /\ UNCHANGED <<parsing, world, looping, asked>>

\* The ControllerThread, the child process, and g_main_loop_run().
EnterMainLoop ==
  /\ phase = "starting"
  /\ child' = IF opts.exec # <<>> THEN "running" ELSE "none"
  /\ phase' = "running" /\ looping' = TRUE
  /\ UNCHANGED <<parsing, driven, plugged, asked>>

-----------------------------------------------------------------------------
(* The world: the device is pulled, the child ends.                          *)
Unplug ==
  /\ pad # NoPad /\ phase \notin Over /\ plugged
  /\ plugged' = FALSE
  /\ UNCHANGED <<parsing, phase, driven, child, looping, asked>>

ChildEnds ==
  /\ child = "running" /\ phase \notin Over
  /\ child' = "ended"
  /\ UNCHANGED <<parsing, phase, driven, plugged, looping, asked>>

\* m_controller has been assigned and not reset.
HasController == pad # NoPad /\ phase # "closing"
Initialized == phase \in {"setup", "starting", "running", "leaving"}

(* Not the code: the LED is left as it is. *)
ShutdownQuits ==
  /\ HasController
  /\ looping' = FALSE
  /\ asked' = (asked \/ Initialized)
  /\ UNCHANGED <<phase, driven>>

\* shutdown() as far as it returns: g_main_loop_quit() before g_main_loop_run()
\* has no effect.
Shutdown ==
  /\ HasController
  /\ IF pad.disconnected THEN UNCHANGED driven
     ELSE ~LedWriteThrows(0) /\ SetLed(0)
  /\ looping' = FALSE
  /\ asked' = (asked \/ Initialized)
  /\ UNCHANGED phase

\* m_controller is null, or an exception leaves a C callback or signal handler.
ShutdownCrashes ==
  /\ HasController => LedWriteThrows(0)
  /\ phase' = "crashed"
  /\ UNCHANGED <<driven, looping, asked>>

Signal ==
  /\ phase \in {"creating", "initializing", "setup", "starting", "running",
               "leaving", "closing"}
  /\ Shutdown \/ ShutdownCrashes
  /\ UNCHANGED <<parsing, world>>

\* Before the handler is installed, a signal ends the process.
SignalKills ==
  /\ phase \in {"parsing", "dispatch"}
  /\ phase' = "exited"
  /\ UNCHANGED <<parsing, driven, world, looping, asked>>

\* Dispatched by the main loop: on_child_watch(), and the read callback that
\* finds the device gone and calls send_disconnect().
OnChildWatch ==
  /\ phase = "running" /\ looping /\ child = "ended"
  /\ Shutdown \/ ShutdownCrashes
  /\ child' = "none"
  /\ UNCHANGED <<parsing, plugged>>

(* Not the code: the main loop is not told. *)
DisconnectUntold ==
  /\ phase = "running" /\ looping /\ ~plugged /\ pad.kind = "usb" /\ ~pad.disconnected
  /\ pad' = [pad EXCEPT !.disconnected = TRUE]
  /\ UNCHANGED <<parsing, lit, world, phase, looping, asked>>

OnDisconnect ==
  /\ phase = "running" /\ looping /\ ~plugged /\ pad.kind = "usb" /\ ~pad.disconnected
  /\ pad' = [pad EXCEPT !.disconnected = TRUE]
  /\ looping' = FALSE /\ asked' = TRUE
  /\ UNCHANGED <<parsing, lit, world, phase>>

\* m_controller.reset(), after which a signal finds no controller; the
\* controller is destroyed with the ControllerThread.
LeaveMainLoop ==
  /\ phase = "running" /\ ~looping
  /\ phase' = "closing"
  /\ UNCHANGED <<parsing, driven, world, looping, asked>>

Return ==
  /\ phase \in {"leaving", "closing"}
  /\ phase' = "exited"
  /\ UNCHANGED <<parsing, driven, world, looping, asked>>

-----------------------------------------------------------------------------
Parse == ApplyOption \/ ReadConstruct \/ EndOfFile \/ FinishOptions \/ ParsingFails
Start == SchedulingRefused \/ RunMode \/ CreateController \/ CreateControllerThrows
         \/ InitController \/ InitControllerThrows \/ InitControllerAborts
         \/ SetUpProcessor \/ SetUpThrows \/ EnterMainLoop
Dispatch == OnChildWatch \/ OnDisconnect
Finish   == LeaveMainLoop \/ Return
Next == Parse \/ Start \/ Unplug \/ ChildEnds \/ Signal \/ SignalKills \/ Dispatch \/ Finish

\* The main loop dispatches what is ready, and main() returns.  Parsing and the
\* start may block on a file or on the device.
Spec == /\ Init /\ [][Next]_vars
        /\ WF_vars(Finish) /\ WF_vars(OnChildWatch) /\ WF_vars(OnDisconnect)

-----------------------------------------------------------------------------
(***************************************************************************)
(* Properties.                                                             *)
(***************************************************************************)

\* Whatever presets are combined in whatever order, no two inputs of a
\* configuration send the same event; only bindings of the user's own may
\* share one (uinput_options.cpp).
Shared(map) ==
  \E j, k \in DOMAIN map : /\ j # k /\ map[j].code = map[k].code
                          /\ map[j].code \notin EventCodes \cup Macros
PresetsShareNoCode ==
  \A s \in DOMAIN opts.slots : \A c \in DOMAIN opts.slots[s].configs :
    LET u == opts.slots[s].configs[c].uinput IN ~Shared(u.btn) /\ ~Shared(u.axis)

\* Files open in files, and come back: the directory that a macro is looked up
\* in is always that of the innermost configuration file on disk (m_directory_context).
OnDisk(stack, n) == {k \in 1..n : stack[k].disk}
ContextIsOpenFiles ==
  opts.failed = "no" =>
    LET open == OnDisk(opts.stack, Len(opts.stack))
    IN /\ Len(opts.dirs) = Cardinality(open)
       /\ \A k \in open : opts.dirs[Cardinality(OnDisk(opts.stack, k))] = Dir[opts.stack[k].file]

\* A program that was asked to stop once init_controller() had set the LED ends
\* with the LED out, if the device is still there: also when it was asked before
\* there was a loop to quit, and the setup failed, or another signal or the end of
\* the child came, after that. Asked earlier, shutdown() is undone by the set_led()
\* of init_controller(), and --quit leaves the LED on by design.
LedOffAtExit == phase = "exited" /\ asked /\ plugged => lit <= 0

\* The program ends with its child process, and with its USB device.
StopsByItself ==
  (phase = "running" /\ (child = "ended" \/ (pad.kind = "usb" /\ ~plugged)))
    ~> (phase \in Over)
=============================================================================
