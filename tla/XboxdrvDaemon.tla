--------------------------- MODULE XboxdrvDaemon ---------------------------
(***************************************************************************)
(* The hot-plugging daemon (xboxdrv_daemon.cpp): a fixed row of controller  *)
(* slots, a list of controllers waiting to become active, udev "add"        *)
(* events, USB read callbacks, and two GLib idle callbacks that repair the  *)
(* slots after a controller disconnected or changed its activity.           *)
(*                                                                         *)
(* Everything runs on one GLib main loop, but not everything is atomic:     *)
(*   - a callback of a controller only raises a flag and queues an idle     *)
(*     callback, so flags and slots disagree until that callback runs;      *)
(*   - an idle callback is modelled one loop iteration per step, because    *)
(*     SIGINT, which runs shutdown() in the signal handler, and the         *)
(*     unplugging of hardware happen between any two of them;               *)
(*   - destroying a controller runs the libusb event loop until its         *)
(*     transfers are back (~USBController), and the read callbacks of the   *)
(*     OTHER controllers run inside that wait.                              *)
(*                                                                         *)
(* Data the slots do not depend on (LED numbers, scripts, log lines, the    *)
(* contents of messages) is left out.                                       *)
(***************************************************************************)
EXTENDS Integers, Sequences, FiniteSets, FiniteSetsExt, SequencesExt

CONSTANTS
  NumSlots,      \* number of controller slots, fixed at startup
  Devices,       \* USB devices, one per bus:dev number
  Controllers,   \* controller objects the devices give rise to
  NoController,  \* the empty ControllerPtr
  DeviceOf,      \* the device a controller object drives
  Ports,         \* controllers created for a device, in creation order
  Wireless,      \* devices that are wireless receivers
  RuleSlots,     \* slots configured with at least one match rule
  Matches,       \* devices some rule of a slot matches
  MaxIdle        \* bound: no more idle callbacks than this are ever queued

Slots == 1..NumSlots

ASSUME SlotsAssumption == NumSlots \in Nat \ {0} /\ RuleSlots \subseteq Slots
                          /\ Matches \in [RuleSlots -> SUBSET Devices]
ASSUME ControllersAssumption ==
  /\ NoController \notin Controllers
  /\ DeviceOf \in [Controllers -> Devices]
  /\ Wireless \subseteq Devices
  /\ Ports \in [Devices -> Seq(Controllers)]
ASSUME PortsAssumption ==
  \A d \in Devices :
    /\ \A i \in 1..Len(Ports[d]) : DeviceOf[Ports[d][i]] = d
    /\ \A i, j \in 1..Len(Ports[d]) : Ports[d][i] = Ports[d][j] => i = j
    /\ \A c \in Controllers : DeviceOf[c] = d => \E i \in 1..Len(Ports[d]) : Ports[d][i] = c
    /\ d \notin Wireless => Len(Ports[d]) = 1
ASSUME BoundAssumption == MaxIdle \in Nat \ {0}

VARIABLES
  plugged,       \* devices physically present
  toEnumerate,   \* devices the startup enumeration has still to report
  monitor,       \* devices with an unread "add" message of the udev monitor
  phase,         \* life of the process
  looping,       \* is_running of the GMainLoop
  signalled,     \* a SIGINT or SIGTERM was delivered
  slots,         \* m_controller_slots: the controller of each slot's thread
  inactive,      \* m_inactive_controllers
  active,        \* controllers with m_is_active
  gone,          \* controllers with m_is_disconnected
  bound,         \* controllers whose m_msg_cb is set
  dying,         \* the controller whose destructor waits for its transfers
  idle,          \* queued g_idle_add callbacks, oldest first
  op,            \* the loop of the idle callback that is running
  at,            \* and its position
  fault          \* how the process left defined behaviour, if it did

env  == <<plugged, toEnumerate, monitor>>
proc == <<phase, looping, signalled, fault>>
flags == <<active, gone, bound>>
handler == <<op, at>>
vars == <<env, proc, slots, inactive, flags, dying, idle, handler>>

Phases == {"enumerating", "running", "exited", "failed"}
Loops == {"none", "disconnect_slots", "disconnect_list",
          "activate_slots", "activate_list"}
Callbacks == {"on_controller_disconnect", "on_controller_activate"}
Faults == {"none", "dead_thread", "status_write", "led_off_write"}

Listed == {inactive[i] : i \in 1..Len(inactive)}
InSlot(c) == \E s \in Slots : slots[s] = c

(* A controller object exists from its creation until its destructor ends. *)
Exists(c) == InSlot(c) \/ c \in Listed \/ c = dying

Alive == phase \in {"enumerating", "running"}

-----------------------------------------------------------------------------
(* find_free_slot: a free slot with a matching rule comes before a free slot *)
(* without rules; within each pass the lowest number wins.                   *)
Free(s) == slots[s] = NoController
RuleMatches(s, d) == s \in RuleSlots /\ d \in Matches[s]

(* Not the code: no regard to rules in the second pass. *)
CandidatesAnySlot(d) ==
  LET matching == {s \in Slots : Free(s) /\ RuleMatches(s, d)}
  IN  IF matching # {} THEN matching ELSE {s \in Slots : Free(s)}

Candidates(d) ==
  LET matching == {s \in Slots : Free(s) /\ RuleMatches(s, d)}
      open     == {s \in Slots : Free(s) /\ s \notin RuleSlots}
  IN  IF matching # {} THEN matching ELSE open

(* The process is gone, and with it every object. *)
Ends(how, why) ==
  /\ phase' = how
  /\ fault' = why
  /\ looping' = FALSE
  /\ slots' = [s \in Slots |-> NoController]
  /\ inactive' = <<>>
  /\ active' = {} /\ gone' = {} /\ bound' = {}
  /\ dying' = NoController
  /\ idle' = <<>>
  /\ op' = "none" /\ at' = 1
  /\ monitor' = {} /\ toEnumerate' = {}

Init ==
  /\ plugged \in SUBSET Devices
  /\ toEnumerate = plugged
  /\ monitor \in SUBSET plugged    \* plugged in after the monitor was enabled
  /\ phase = "enumerating" /\ looping = FALSE /\ signalled = FALSE
  /\ slots = [s \in Slots |-> NoController]
  /\ inactive = <<>>
  /\ active = {} /\ gone = {} /\ bound = {}
  /\ dying = NoController
  /\ idle = <<>>
  /\ op = "none" /\ at = 1
  /\ fault = "none"

-----------------------------------------------------------------------------
(* Hardware. A device that is plugged in again gets a bus:dev number that   *)
(* neither an object nor an unread message still carries.                   *)
Plug(d) ==
  /\ Alive
  /\ d \notin plugged
  /\ d \notin toEnumerate \cup monitor
  /\ \A c \in Controllers : DeviceOf[c] = d => ~Exists(c)
  /\ plugged' = plugged \cup {d}
  /\ monitor' = monitor \cup {d}
  /\ UNCHANGED <<toEnumerate, proc, slots, inactive, flags, dying, idle, handler>>

Unplug(d) ==
  /\ Alive
  /\ d \in plugged
  /\ plugged' = plugged \ {d}
  /\ UNCHANGED <<toEnumerate, monitor, proc, slots, inactive, flags, dying, idle, handler>>

-----------------------------------------------------------------------------
(* launch_controller_thread. Opening or claiming fails when the device left *)
(* (1), when another driver has it (2), and always when an object of this   *)
(* process still holds the interface.                                       *)
(* Not the code: a device that is already driven is opened once more. *)
CreatesAgain(d) == d \in plugged

Creates(d) ==
  /\ d \in plugged
  /\ \A c \in Controllers : DeviceOf[c] = d => ~Exists(c)

LaunchNothing == UNCHANGED <<proc, slots, inactive, flags, idle, handler, dying>>

(* A wireless receiver: its ports start inactive and wait in the list. *)
LaunchReceiver(d) ==
  /\ Creates(d) /\ d \in Wireless
  /\ inactive' = inactive \o Ports[d]
  /\ UNCHANGED <<proc, slots, flags, idle, handler, dying>>

(* A wired controller is active: it gets a slot, ... *)
LaunchWired(d) ==
  /\ Creates(d) /\ d \notin Wireless
  /\ Candidates(d) # {}
  /\ slots' = [slots EXCEPT ![Min(Candidates(d))] = Ports[d][1]]
  /\ active' = active \cup {Ports[d][1]}
  /\ bound' = bound \cup {Ports[d][1]}
  /\ UNCHANGED <<proc, inactive, gone, idle, handler, dying>>

(* ... or is ignored, and destroyed with the vector that held it.            *)
LaunchIgnored(d) ==
  /\ Creates(d) /\ d \notin Wireless
  /\ Candidates(d) = {}
  /\ dying' = Ports[d][1]
  /\ UNCHANGED <<proc, slots, inactive, flags, idle, handler>>

Launch(d) == LaunchNothing \/ LaunchReceiver(d) \/ LaunchWired(d) \/ LaunchIgnored(d)

(* set_device_callback: first the devices that are already there, ... *)
EnumerateDevice(d) ==
  /\ phase = "enumerating" /\ dying = NoController
  /\ d \in toEnumerate
  /\ toEnumerate' = toEnumerate \ {d}
  /\ Launch(d)
  /\ UNCHANGED <<plugged, monitor>>

EnterMainLoop ==
  /\ phase = "enumerating" /\ dying = NoController
  /\ toEnumerate = {}
  /\ phase' = "running" /\ looping' = TRUE
  /\ UNCHANGED <<env, signalled, fault, slots, inactive, flags, dying, idle, handler>>

(* ... then the monitor's messages, from the main loop (on_udev_data). *)
UdevAdd(d) ==
  /\ phase = "running" /\ op = "none" /\ dying = NoController
  /\ d \in monitor
  /\ monitor' = monitor \ {d}
  /\ Launch(d)
  /\ UNCHANGED <<plugged, toEnumerate>>

-----------------------------------------------------------------------------
(* USB read callbacks (USBController::on_read_data). They run from the main *)
(* loop, or inside the wait of another controller's destructor, for every   *)
(* controller whose read transfer is still in flight.                       *)
Reads(c) ==
  /\ \/ phase = "running" /\ op = "none"
     \/ Alive /\ dying # NoController
  /\ InSlot(c) \/ c \in Listed
  /\ c \notin gone

(* g_idle_add; the queue has no limit, MaxIdle bounds it here. *)
QueueIdle(callback) == Len(idle) < MaxIdle /\ idle' = Append(idle, callback)

(* set_active: only a change queues the callback. *)
SetActive(c) ==
  \/ c \in active /\ UNCHANGED <<active, idle>>
  \/ /\ c \notin active
     /\ active' = active \cup {c}
     /\ QueueIdle("on_controller_activate")

(* Not the code: no callback is queued when a pad switches off. *)
SetInactiveSilently(c) == active' = active \ {c} /\ UNCHANGED idle

SetInactive(c) ==
  \/ c \notin active /\ UNCHANGED <<active, idle>>
  \/ /\ c \in active
     /\ active' = active \ {c}
     /\ QueueIdle("on_controller_activate")

(* submit_msg calls ControllerThread::on_message of the thread that was the *)
(* last to bind the callback. Nothing unbinds it: once the slot discarded   *)
(* that thread the call goes to a deleted object, which may go unnoticed.   *)
ThreadIsDead(c) == c \in bound /\ ~InSlot(c)
Delivers(c) ==
  fault' = IF ThreadIsDead(c) THEN "dead_thread" ELSE fault

(* Connection status 0x00: the pad switched off; a neutral message follows. *)
ConnectionLost(c) ==
  /\ Reads(c) /\ DeviceOf[c] \in Wireless
  /\ SetInactive(c)
  /\ Delivers(c)
  /\ UNCHANGED <<env, phase, looping, signalled, slots, inactive, gone, bound,
                 dying, handler>>

(* Connection status 0x80: writes the LED, then marks the pad active. *)
ConnectionFound(c) ==
  /\ Reads(c) /\ DeviceOf[c] \in Wireless
  /\ DeviceOf[c] \in plugged
  /\ SetActive(c)
  /\ UNCHANGED <<env, proc, slots, inactive, gone, bound, dying, handler>>

(* The LED write of status 0x80 or 0xc0 throws when the status was read off  *)
(* a receiver that has been pulled since; nothing on the way back to run()  *)
(* catches it.                                                              *)
StatusWriteThrows(c) ==
  /\ Reads(c) /\ DeviceOf[c] \in Wireless
  /\ DeviceOf[c] \notin plugged
  /\ Ends("failed", "status_write")
  /\ UNCHANGED <<plugged, signalled>>

(* Announcement and battery reports: active, but nothing to deliver. *)
Report(c) ==
  /\ Reads(c) /\ DeviceOf[c] \in Wireless
  /\ SetActive(c)
  /\ UNCHANGED <<env, proc, slots, inactive, gone, bound, dying, handler>>

(* A message with the state of buttons and axes: wireless pads become active *)
(* before it is delivered, wired ones always are.                           *)
Event(c) ==
  /\ Reads(c)
  /\ SetActive(c)
  /\ Delivers(c)
  /\ UNCHANGED <<env, phase, looping, signalled, slots, inactive, gone, bound,
                 dying, handler>>

(* The process need not survive a call to a deleted thread. *)
DeadThreadCrash(c) ==
  /\ Reads(c) /\ ThreadIsDead(c)
  /\ Ends("failed", "dead_thread")
  /\ UNCHANGED <<plugged, signalled>>

(* Not the code: the callback is queued only into an empty queue, or never. *)
SendDisconnectOnce(c) ==
  /\ gone' = gone \cup {c}
  /\ idle' = IF idle = <<>> THEN <<"on_controller_disconnect">> ELSE idle
SendDisconnectSilently(c) == gone' = gone \cup {c} /\ UNCHANGED idle

SendDisconnect(c) ==
  /\ gone' = gone \cup {c}
  /\ QueueIdle("on_controller_disconnect")

(* The read transfer comes back with LIBUSB_TRANSFER_NO_DEVICE, ... *)
NoDevice(c) ==
  /\ Reads(c) /\ DeviceOf[c] \notin plugged
  /\ SendDisconnect(c)
  /\ UNCHANGED <<env, proc, slots, inactive, active, bound, dying, handler>>

(* ... or cannot be submitted again. *)
ResubmitFails(c) ==
  /\ Reads(c) /\ DeviceOf[c] \in plugged
  /\ SendDisconnect(c)
  /\ UNCHANGED <<env, proc, slots, inactive, active, bound, dying, handler>>

-----------------------------------------------------------------------------
(* The idle callbacks, one loop iteration per step. *)
Running(loop) == phase = "running" /\ op = loop /\ dying = NoController

DispatchIdle ==
  /\ Running("none") /\ idle # <<>>
  /\ idle' = Tail(idle)
  /\ op' = IF Head(idle) = "on_controller_disconnect"
           THEN "disconnect_slots" ELSE "activate_slots"
  /\ at' = 1
  /\ UNCHANGED <<env, proc, slots, inactive, flags, dying>>

(* Not the code: the next loop starts one too low; the loop never ends. *)
NextSlotFromZero(following) ==
  IF at < NumSlots THEN op' = op /\ at' = at + 1
                   ELSE op' = following /\ at' = 0
NextSlotForever(following) == op' = op /\ at' = IF at < NumSlots THEN at + 1 ELSE 1

NextSlot(following) ==
  IF at < NumSlots THEN op' = op /\ at' = at + 1
                   ELSE op' = following /\ at' = 1

Occupied(s) == slots[s] # NoController

(* on_controller_disconnect, the slots: the discarded ControllerPtr is the  *)
(* last one, so the controller dies here.                                   *)
DisconnectSlot ==
  /\ Running("disconnect_slots")
  /\ IF Occupied(at) /\ slots[at] \in gone
     THEN /\ dying' = slots[at]
          /\ slots' = [slots EXCEPT ![at] = NoController]
     ELSE UNCHANGED <<dying, slots>>
  /\ NextSlot("disconnect_list")
  /\ UNCHANGED <<env, proc, inactive, flags, idle>>

(* on_controller_disconnect, the list (erase of remove_if). *)
DisconnectListed ==
  /\ Running("disconnect_list") /\ at <= Len(inactive)
  /\ IF inactive[at] \in gone
     THEN /\ dying' = inactive[at]
          /\ inactive' = RemoveAt(inactive, at)
          /\ at' = at
     ELSE UNCHANGED <<dying, inactive>> /\ at' = at + 1
  /\ UNCHANGED <<env, proc, slots, flags, idle, op>>

(* ~USBController has its transfers back; the object is no more. *)
Destroyed ==
  /\ Alive /\ dying # NoController
  /\ dying' = NoController
  /\ active' = active \ {dying}
  /\ gone' = gone \ {dying}
  /\ bound' = bound \ {dying}
  /\ UNCHANGED <<env, proc, slots, inactive, idle, handler>>

(* on_controller_activate, the slots: an inactive controller is saved in    *)
(* the list. Its thread is deleted, its m_msg_cb stays.                     *)
ParkSlot ==
  /\ Running("activate_slots")
  /\ IF Occupied(at) /\ slots[at] \notin active
     THEN /\ inactive' = Append(inactive, slots[at])
          /\ slots' = [slots EXCEPT ![at] = NoController]
     ELSE UNCHANGED <<inactive, slots>>
  /\ NextSlot("activate_list")
  /\ UNCHANGED <<env, proc, flags, dying, idle>>

(* Not the code: a controller that waits is connected although it is off. *)
ConnectListedAsleep ==
  /\ Running("activate_list") /\ at <= Len(inactive)
  /\ LET S == Candidates(DeviceOf[inactive[at]])
     IN  IF S # {}
         THEN /\ slots' = [slots EXCEPT ![Min(S)] = inactive[at]]
              /\ bound' = bound \cup {inactive[at]}
              /\ inactive' = RemoveAt(inactive, at) /\ at' = at
         ELSE UNCHANGED <<slots, bound, inactive>> /\ at' = at + 1
  /\ UNCHANGED <<env, proc, active, gone, dying, idle, op>>

(* on_controller_activate, the list: an active controller gets a slot if    *)
(* one is free; is_disconnected() is not asked. The entry is nulled and     *)
(* erased by the same callback, here at once.                               *)
ConnectListed ==
  /\ Running("activate_list") /\ at <= Len(inactive)
  /\ LET c == inactive[at]
         S == Candidates(DeviceOf[c])
     IN  IF c \in active /\ S # {}
         THEN /\ slots' = [slots EXCEPT ![Min(S)] = c]
              /\ bound' = bound \cup {c}
              /\ inactive' = RemoveAt(inactive, at)
              /\ at' = at
         ELSE UNCHANGED <<slots, bound, inactive>> /\ at' = at + 1
  /\ UNCHANGED <<env, proc, active, gone, dying, idle, op>>

EndOfList ==
  /\ Running("disconnect_list") \/ Running("activate_list")
  /\ at > Len(inactive)
  /\ op' = "none" /\ at' = 1
  /\ UNCHANGED <<env, proc, slots, inactive, flags, dying, idle>>

IdleStep ==
  \/ DispatchIdle \/ DisconnectSlot \/ DisconnectListed
  \/ ParkSlot \/ ConnectListed \/ EndOfList

-----------------------------------------------------------------------------
(* shutdown(), called from the signal handler at any point. It writes the   *)
(* LED of every connected controller, which throws if one is unplugged and  *)
(* not yet known to be, and stops the loop if there is one already.         *)
Signal ==
  /\ Alive
  /\ signalled' = TRUE
  /\ \/ /\ looping' = FALSE
        /\ UNCHANGED <<env, phase, fault, slots, inactive, flags, dying, idle, handler>>
     \/ /\ \E c \in Controllers : /\ InSlot(c) /\ c \notin gone
                                  /\ DeviceOf[c] \notin plugged
        /\ Ends("failed", "led_off_write")
        /\ UNCHANGED plugged

(* run() after the loop: list and slots are cleared. *)
Teardown ==
  /\ Running("none") /\ ~looping
  /\ Ends("exited", fault)
  /\ UNCHANGED <<plugged, signalled>>

UsbCallback(c) ==
  \/ ConnectionLost(c) \/ ConnectionFound(c) \/ StatusWriteThrows(c)
  \/ Report(c) \/ Event(c) \/ DeadThreadCrash(c)
  \/ NoDevice(c) \/ ResubmitFails(c)

Next ==
  \/ \E d \in Devices : \/ Plug(d) \/ Unplug(d)
                       \/ EnumerateDevice(d) \/ UdevAdd(d)
  \/ EnterMainLoop
  \/ \E c \in Controllers : UsbCallback(c)
  \/ IdleStep
  \/ Destroyed
  \/ Signal
  \/ Teardown

Spec == Init /\ [][Next]_vars

(* The main loop runs. Idle callbacks have a lower priority than USB and    *)
(* udev events, but get their turn: a pad sends a report every few          *)
(* milliseconds, plugging takes longer, and handling either takes           *)
(* microseconds. Cancelled transfers come back, libusb reports a vanished   *)
(* device, and g_main_loop_run returns after the iteration that stopped it. *)
Fairness ==
  /\ \A d \in Devices : WF_vars(EnumerateDevice(d))
  /\ WF_vars(EnterMainLoop)
  /\ SF_vars(IdleStep) /\ WF_vars(Destroyed)
  /\ \A c \in Controllers : SF_vars(NoDevice(c))
  /\ SF_vars(Teardown)

FairSpec == Spec /\ Fairness

-----------------------------------------------------------------------------
(* Every variable stays in its type. *)
TypeOK ==
  /\ plugged \subseteq Devices
  /\ toEnumerate \subseteq Devices /\ monitor \subseteq Devices
  /\ phase \in Phases /\ looping \in BOOLEAN /\ signalled \in BOOLEAN
  /\ slots \in [Slots -> Controllers \cup {NoController}]
  /\ inactive \in Seq(Controllers)
  /\ active \subseteq Controllers /\ gone \subseteq Controllers
  /\ bound \subseteq Controllers
  /\ dying \in Controllers \cup {NoController}
  /\ idle \in Seq(Callbacks)
  /\ op \in Loops /\ at \in Nat \ {0}
  /\ fault \in Faults

(* A controller object is owned once: by one slot's thread, or by one entry *)
(* of m_inactive_controllers, or by the expression that destroys it. Two    *)
(* owners would process its messages twice and destroy it under each other; *)
(* it takes a device reported twice, or a controller parked or connected    *)
(* without leaving its old place, to break it.                              *)
OwnedOnce ==
  /\ \A s, t \in Slots : Occupied(s) /\ slots[s] = slots[t] => s = t
  /\ \A i, j \in 1..Len(inactive) : inactive[i] = inactive[j] => i = j
  /\ \A s \in Slots : slots[s] \notin Listed
  /\ dying # NoController => dying \notin Listed /\ ~InSlot(dying)

(* --match limits a slot to the devices its rules match, also after the     *)
(* controllers were parked and reconnected in any order.                    *)
SlotsRespectRules ==
  \A s \in RuleSlots : Occupied(s) => DeviceOf[slots[s]] \in Matches[s]

(* on_controller_disconnect has still to look at the place of c. *)
WillSweep(c) ==
  \/ \E i \in 1..Len(idle) : idle[i] = "on_controller_disconnect"
  \/ op = "disconnect_slots" /\ (c \in Listed \/ \E s \in Slots : s >= at /\ slots[s] = c)
  \/ op = "disconnect_list" /\ \E i \in 1..Len(inactive) : i >= at /\ inactive[i] = c

(* No disconnected controller is forgotten: as long as a slot or the list   *)
(* holds one, a callback that will find it is queued or on its way there.   *)
NoDisconnectForgotten ==
  \A c \in gone : InSlot(c) \/ c \in Listed => WillSweep(c)

(* on_controller_activate has still to look at the slot of c. *)
WillPark(c) ==
  \/ \E i \in 1..Len(idle) : idle[i] = "on_controller_activate"
  \/ op = "activate_slots" /\ \E s \in Slots : s >= at /\ slots[s] = c

(* No switch of a pad is forgotten. As long as a slot holds a pad that is   *)
(* off, a callback that will park it is queued or on its way there: also    *)
(* when the pad was switched in the event loop of another's destructor, or  *)
(* off and on and off again before anything ran. And what that callback has *)
(* passed in the list and is on had no slot to go to.                       *)
NoSwitchForgotten ==
  /\ \A c \in Controllers \ active : InSlot(c) => WillPark(c)
  /\ op = "activate_list" => \A i \in 1..Len(inactive) :
       i < at /\ inactive[i] \in active => Candidates(DeviceOf[inactive[i]]) = {}

(* ControllerSlot::connect asserts that the slot has no thread: no step     *)
(* replaces one controller by another.                                      *)
NoSlotTakenOver ==
  [][\A s \in Slots : Occupied(s) /\ slots'[s] # NoController => slots'[s] = slots[s]]_vars

(* All of it implements the Registry: whatever is queued, half done or read  *)
(* inside a destructor, a controller gets the best slot and only when it is *)
(* active, is put aside only when it is not, and is destroyed only when it  *)
(* was pulled or there is no slot for it.                                   *)
Stage(c) ==
  IF InSlot(c) THEN "served" ELSE IF c \in Listed THEN "waiting"
  ELSE IF c = dying THEN "leaving" ELSE "absent"

R == INSTANCE Registry WITH
       Nobody <- NoController, slot <- slots, stage <- [c \in Controllers |-> Stage(c)]

ImplementsRegistry == R!Spec

(* Pulling a device eventually releases every controller it had, wherever   *)
(* it was and whatever the other controllers do meanwhile.                  *)
UnplugReleases ==
  \A c \in Controllers :
    (Exists(c) /\ DeviceOf[c] \notin plugged) ~> ~Exists(c)

(* A pad that switched off and stays off leaves its slot to others. *)
InactiveLeavesSlot ==
  \A c \in Controllers :
    (InSlot(c) /\ c \notin active) ~> (~InSlot(c) \/ c \in active)

(* A signal during the main loop ends the program. *)
SignalStopsLoop ==
  (phase = "running" /\ ~looping) ~> ~Alive

-----------------------------------------------------------------------------
(* "save the controller for later when it might be active again"            *)
(* (xboxdrv_daemon.cpp:464): a saved controller that wakes up must not send *)
(* its messages to the thread it had before.                                *)
NoCallToDeadThread == fault # "dead_thread"

=============================================================================
