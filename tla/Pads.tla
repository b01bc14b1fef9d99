-------------------------------- MODULE Pads --------------------------------
(***************************************************************************)
(* How the other pads' reports become messages of an Xbox 360 pad: the       *)
(* Firestorm, the Saitek P2500 and P3600 and the T-Wireless send a report    *)
(* of a fixed length, an evdev device sends events that change the message   *)
(* it keeps. (The Xbox, Xbox 360 and PS3 pads send their message as it is.)  *)
(*                                                                         *)
(* A report is [held, hat, sticks, analog, pressure]: the bits that are     *)
(* set, the direction of the d-pad, a byte per stick axis, the six bits that *)
(* a P3600 has for both triggers, and a T-Wireless' byte for each of them.   *)
(* Widths follow Bits8: six bits are two fewer than a byte.                 *)
(***************************************************************************)
EXTENDS XboxMsg, SequencesExt

Plain == {"A", "B", "X", "Y", "LB", "RB", "START", "BACK", "THUMB_L", "THUMB_R"}

(* The bit of the report for each button of the message. *)
BitOf ==
  [FIRESTORM |-> [b \in Plain |-> b],
   P2500     |-> [b \in Plain |-> b],
   P3600     |-> [b \in Plain \cup {"GUIDE"} |-> IF b = "GUIDE" THEN "fps" ELSE b],
   TWIRELESS |-> [A |-> "b2", B |-> "b3", X |-> "b1", Y |-> "b4", LB |-> "b5", RB |-> "b6",
                  START |-> "start", BACK |-> "select", GUIDE |-> "home",
                  THUMB_L |-> "thumb_l", THUMB_R |-> "thumb_r"]]

(* The directions in which each side is pressed, clockwise from 0, which is *)
(* up. The older Firestorm has them in the upper half of a byte.             *)
HatSides == [UP |-> {7, 0, 1}, RIGHT |-> {1, 2, 3}, DOWN |-> {3, 4, 5}, LEFT |-> {5, 6, 7}]

-----------------------------------------------------------------------------
(* Bytes. *)
SignedByte(v) == IF v >= Half8 THEN v - 2 * Half8 ELSE v

(* scale_8to16 and s16_invert. *)
Scaled(v) ==
  IF v > 0 THEN Quotient(v * (Half16 - 1), Half8 - 1) ELSE Quotient(v * Half16, Half8)
Inverse16(v) == IF v = 0 THEN 0 ELSE -v - 1

(* Not the code: the fourth axis of a Firestorm is signed as the others. *)
FromTopAsRead(v) == SignedByte(v)

(* The fourth axis of a Firestorm counts from one end. *)
FromTop(v) == v - Half8

(* fix_int and fix_int_6 of the P3600, whose centre is between two values.  *)
Fixed(v, half) == IF v < 0 THEN half + v ELSE v - (half - 1)

(* scale_x8to16 and scale_y8to16 of the T-Wireless. *)
Wireless(a, v) ==
  IF a \in {"X1", "X2"}
  THEN Quotient(IF v >= Half8 THEN (v - Half8) * (Half16 - 1) ELSE (v - (Half8 - 1)) * Half16,
                Half8 - 1)
  ELSE Quotient(IF v >= Half8 THEN (Half8 - v) * Half16 ELSE (Half8 - 1 - v) * (Half16 - 1),
                Half8 - 1)

StickOf(pad, a, v) ==
  CASE pad = "FIRESTORM" -> (CASE a \in {"X1", "X2"} -> Scaled(SignedByte(v))
                               [] a = "Y1" -> Inverse16(Scaled(SignedByte(v)))
                               [] a = "Y2" -> Inverse16(Scaled(FromTop(v))))
    [] pad = "P2500" -> Scaled(SignedByte(v))
    [] pad = "P3600" -> LET centred == Fixed(SignedByte(v), Half8)
                        IN  Scaled(IF a \in {"X1", "X2"} THEN centred ELSE -centred)
    [] pad = "TWIRELESS" -> Wireless(a, v)

(* get_trigger_val: a trigger that is pulled counts at least 4. *)
TriggerVal(pulled, analog) == IF ~pulled THEN 0 ELSE IF analog > 4 THEN analog ELSE 4

TriggerOf(pad, side, report) ==
  CASE pad \in {"FIRESTORM", "P2500"} -> IF side \in report.held THEN Top8 ELSE 0
    [] pad = "P3600" ->
         LET analog == Fixed(report.analog, Half8 \div 4)
         IN  8 * TriggerVal(side \in report.held, IF side = "LT" THEN analog ELSE -analog)
    [] pad = "TWIRELESS" -> report.pressure[side]

(* parse. A report of another length is not parsed and sends no message.    *)
Parsed(pad, report) ==
  LET value(f) ==
        CASE f \in Dpad -> IF report.hat \in HatSides[f] THEN 1 ELSE 0
          [] f \in Sticks -> StickOf(pad, f, report.sticks[f])
          [] f \in {"LT", "RT"} -> TriggerOf(pad, f, report)
          [] OTHER -> IF f \in DOMAIN BitOf[pad] /\ BitOf[pad][f] \in report.held THEN 1 ELSE 0
  IN  [type |-> "XBOX360",
       value |-> [f \in Fields("XBOX360") |-> Kept("XBOX360", f, value(f))]]

-----------------------------------------------------------------------------
(* An evdev device is [keys, plus, minus, both, range]: the button of each   *)
(* key, the axes to which an absolute axis is bound in three ways, and the   *)
(* smallest and largest value the kernel says it has.                       *)
IsEvdev(evdev) ==
  /\ Range(evdev.keys) \subseteq Buttons
  /\ Range(evdev.plus) \cup Range(evdev.minus) \cup Range(evdev.both) \subseteq Axes

Initial360 == [type |-> "XBOX360", value |-> [f \in Fields("XBOX360") |-> 0]]

Bound(map, code, m, f) == IF code \in DOMAIN map THEN SetAxisFloat(m, map[code], f) ELSE m

(* EvdevAbsMap::process. *)
AbsProcessed(evdev, m, code, v) ==
  LET min    == evdev.range[code][1]
      max    == evdev.range[code][2]
      center == Quotient(max - min + 1, 2)
      plus   == Bound(evdev.plus, code, m, ToFloat(v, center, min))
      minus  == Bound(evdev.minus, code, plus, ToFloat(v, center, max))
  IN  Bound(evdev.both, code, minus, ToFloat(v, min, max))

(* EvdevController::parse; a device may report values out of its range. *)
EventParsed(evdev, m, event) ==
  CASE event.kind = "key" ->
         IF event.code \in DOMAIN evdev.keys
         THEN SetButton(m, evdev.keys[event.code], event.value # 0) ELSE m
    [] event.kind = "abs" ->
         AbsProcessed(evdev, m, event.code,
                      Clamp(event.value, evdev.range[event.code][1], evdev.range[event.code][2]))

(* on_read_data: the events before a synchronisation, over the message kept. *)
EventsParsed(evdev, m, events) ==
  LET parsed[i \in 0..Len(events)] ==
        IF i = 0 THEN m ELSE EventParsed(evdev, parsed[i - 1], events[i])
  IN  parsed[Len(events)]
=============================================================================
