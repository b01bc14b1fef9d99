------------------------------- MODULE UInput -------------------------------
(***************************************************************************)
(* The virtual devices (uinput.cpp, linux_uinput.cpp, ui_event.cpp): which   *)
(* device an event belongs to, what the devices are called and announce,    *)
(* and the relative motions that are repeated at an interval.               *)
(*                                                                         *)
(* A device id is a slot and a type. A type is one of the three below or a  *)
(* number, and either part may be AutoId where the user left it open. A     *)
(* name is what the user gave and the parts the program adds to it.         *)
(***************************************************************************)
EXTENDS AxisFilters

CONSTANTS
  AutoId,         \* SLOTID_AUTO and DEVICEID_AUTO
  MouseButtons,   \* codes from BTN_MOUSE to BTN_TASK
  KeyboardKeys    \* codes below 256

(* UIEvent::resolve_device_id; ev is [slot, device, type, code].            *)
Guessed(ev, extra) ==
  IF ~extra \/ ev.type = "abs" THEN "joystick"
  ELSE IF ev.type = "rel" \/ ev.code \in MouseButtons THEN "mouse"
  ELSE IF ev.code \in KeyboardKeys THEN "keyboard" ELSE "joystick"

Resolved(ev, slot, extra) ==
  [ev EXCEPT !.slot = IF @ = AutoId THEN slot ELSE @,
             !.device = IF @ = AutoId THEN Guessed(ev, extra) ELSE @]

DeviceId(ev) == <<ev.slot, ev.device>>

(* The first of the ids that the user gave a value. *)
Given(values, ids) ==
  LET found == {i \in DOMAIN ids : ids[i] \in DOMAIN values}
  IN  IF found = {} THEN <<>> ELSE ids[Min(found)]

DeviceUsbId(usbids, id) ==
  LET from == Given(usbids, <<id, <<id[1], AutoId>>, <<AutoId, id[2]>>>>)
  IN  IF from = <<>> THEN <<0, 0, 0, 0>> ELSE usbids[from]

(* Numbers are written out: "0" is the device "rel:REL_X@0" asks for. *)
RoleOf(id, plain) == IF id[2] \in plain THEN "" ELSE id[2]
NumberOf(id) == IF id[1] > 0 THEN id[1] + 1 ELSE 0

DeviceName(names, id) ==
  LET from == Given(names, <<id, <<id[1], AutoId>>, <<AutoId, id[2]>>, <<AutoId, AutoId>>>>)
      base == IF from = <<>> THEN "Xbox Gamepad (userspace driver)" ELSE names[from]
  IN  CASE from = id              -> <<base>>
        [] from = <<id[1], AutoId>> -> <<base, RoleOf(id, {"joystick", "0"})>>
        [] from = <<AutoId, id[2]>> -> <<base, NumberOf(id)>>
        [] OTHER                  -> <<base, RoleOf(id, {"joystick"}), NumberOf(id)>>

(* Only the devices of slot 0 have a type: the switch is over the whole id. *)
DeviceType(id, extra_events) ==
  IF extra_events /\ id \in {<<0, t>> : t \in {"joystick", "mouse", "keyboard"}}
  THEN id[2] ELSE "generic"

(* LinuxUinput::finish adds what makes the kernel see a device as its type. *)
Mandatory(type) ==
  CASE type = "mouse"    -> {<<"rel", "REL_X">>, <<"rel", "REL_Y">>, <<"key", "BTN_LEFT">>}
    [] type = "joystick" -> {<<"key", "BTN_A">>, <<"abs", "ABS_X">>, <<"abs", "ABS_Y">>}
    [] OTHER -> {}

(* The features a device with force feedback announces: those of its pad or *)
(* what the handler emulates, which is no effect but a rumble.              *)
Announced(features) == IF features = {} THEN {"rumble", "gain"} ELSE features

(* The devices once every event (a resolved UIEvent) has been added and     *)
(* finish() was called on each.                                             *)
Created(events, names, usbids, extra_events) ==
  [id \in {DeviceId(ev) : ev \in events} |->
     [type |-> DeviceType(id, extra_events),
      name |-> DeviceName(names, id), usbid |-> DeviceUsbId(usbids, id),
      events |-> {<<ev.type, ev.code>> : ev \in {e \in events : DeviceId(e) = id}}
                   \cup Mandatory(DeviceType(id, extra_events))]]

-----------------------------------------------------------------------------
(* m_rel_repeat_lst. UIEvent::operator< compares type and code of the event *)
(* and type of its device but not its slot, so two slots share an entry.    *)
RepeatKey(ev) == <<ev.device, ev.code>>

Minus(f, g) == Plus(f, <<-g[1], g[2]>>)
Whole(f) == <<Truncated(f), 1>>
Turns(f, g) == (f[1] > 0 /\ g[1] < 0) \/ (f[1] < 0 /\ g[1] > 0)

Removed(repeats, key) == [k \in DOMAIN repeats \ {key} |-> repeats[k]]

(* UInput::send_rel_repetitive. lost and turns are history: the motion that *)
(* was neither sent nor kept, and how often the direction changed.          *)
SendRelRepetitive(repeats, ev, value, interval) ==
  LET key == RepeatKey(ev)
      new == [device |-> DeviceId(ev), value |-> value, rest |-> Zero, time |-> 0,
              interval |-> interval, lost |-> Zero, turns |-> 0]
      old == repeats[key]
  IN  IF interval < 0 THEN Removed(repeats, key)
      ELSE IF key \notin DOMAIN repeats
      THEN [k \in DOMAIN repeats \cup {key} |-> IF k = key THEN new ELSE repeats[k]]
      ELSE [repeats EXCEPT ![key] =
              [old EXCEPT !.device = DeviceId(ev), !.value = value, !.interval = interval,
                          !.turns = IF Turns(old.value, value) THEN @ + 1 ELSE @]]

(* Not the code: what is not sent is not kept. *)
RestDropped(r) == Zero

RestAfter(r) == Plus(Minus(r.rest, Whole(r.rest)), Minus(r.value, Whole(r.value)))

(* One turn of the loop in UInput::update. *)
RepeatOnce(r) ==
  LET sent == Whole(Plus(r.value, Whole(r.rest)))
      owed == Minus(Plus(r.rest, r.value), sent)
  IN  [r EXCEPT !.rest = RestAfter(r), !.time = @ - r.interval,
                !.lost = Plus(@, Minus(owed, RestAfter(r)))]

(* An interval of 0 never leaves the loop. *)
Repeated(r, d) ==
  LET due == (r.time + d) \div r.interval
      after[n \in 0..due] ==
        IF n = 0 THEN [r EXCEPT !.time = @ + d] ELSE RepeatOnce(after[n - 1])
  IN  after[due]
=============================================================================
