----------------------------- MODULE AxisEvents -----------------------------
(***************************************************************************)
(* What a bound axis does (axis_event.cpp, axisevent/): the filters of its  *)
(* event, and the handlers that turn its value into a virtual axis, a key   *)
(* for each direction, or a relative motion.                                *)
(*                                                                         *)
(* An event is [slot, ui, kind, value, repeat, threshold, filters, min,     *)
(* max]; ui is its UIEvent, or for a key the events of each direction. The  *)
(* operators take and return what the handlers reach of UInput: the record  *)
(* out of the repeated motions, the key emitters that are on and the values *)
(* the absolute emitters sent last.                                         *)
(***************************************************************************)
EXTENDS UInput

Up == -1
Down == 1

NewOutput == [repeats |-> <<>>, on |-> {}, abs |-> <<>>]

NewAxis(a) ==
  [raw |-> 0, sent |-> 0, filters |-> [i \in DOMAIN a.filters |-> NewAxisFilter],
   old |-> 0, stick |-> Zero, rest |-> Zero, timer |-> Zero]

(* The events a handler adds to the virtual devices in init(). *)
UIEvents(a, extra_devices) ==
  {Resolved(ev, a.slot, extra_devices) :
     ev \in IF a.kind = "key" THEN a.ui[Up] \cup a.ui[Down] ELSE {a.ui}}

(* Relative events of an event that is resolved. *)
Target(a, extra_devices) == Resolved(a.ui, a.slot, extra_devices)

-----------------------------------------------------------------------------
(* KeyAxisEventHandler. *)
Zone(a, v) == IF v >= a.threshold THEN Down ELSE IF v <= -a.threshold THEN Up ELSE 0

(* Not the code: keys are released only in the middle. *)
KeysReleasedInMiddle(i, was, is, on) ==
  IF is = 0 THEN on \ {<<i, was>>} ELSE on \cup {<<i, is>>}

(* The keys of the zone it leaves are released before those of the zone it  *)
(* enters are pressed; the emitters of one direction are sent together.     *)
KeysMoved(i, was, is, on) ==
  LET left == IF was = is THEN on ELSE on \ {<<i, was>>}
  IN  IF is \in {was, 0} THEN left ELSE left \cup {<<i, is>>}

(* RelAxisEventHandler::send and RelRepeatAxisEventHandler::send. *)
Stick(a, v) == IF v < 0 THEN Float(v, -a.min) ELSE Float(v, a.max)

(* A repeat of -1 is sent by update() instead. *)
RelSent(a, v, out, extra) ==
  LET speed == Times(a.value, Stick(a, v))
  IN  IF a.repeat = -1 THEN out
      ELSE [out EXCEPT !.repeats =
              SendRelRepetitive(@, Target(a, extra), speed, IF speed = Zero THEN -1 ELSE a.repeat)]

(* AxisEventHandler::send of event i with definition a and state s.         *)
Handled(i, a, s, v, out, extra) ==
  CASE a.kind = "abs" ->
         [axis |-> s, out |-> [out EXCEPT !.abs = [k \in DOMAIN @ \cup {i} |->
                                                   IF k = i THEN v ELSE @[k]]]]
    [] a.kind = "key" ->
         [axis |-> [s EXCEPT !.old = v],
          out |-> [out EXCEPT !.on = KeysMoved(i, Zone(a, s.old), Zone(a, v), @)]]
    [] a.kind = "rel" ->
         [axis |-> [s EXCEPT !.stick = Stick(a, v)], out |-> RelSent(a, v, out, extra)]
    [] a.kind = "rel-repeat" ->
         [axis |-> [s EXCEPT !.stick = Stick(a, v), !.timer = IF v = 0 THEN Zero ELSE @],
          out |-> out]

(* AxisEvent::send. *)
AxisSent(i, a, s, v, out, extra) ==
  LET value == AxisValues(a.filters, s.filters, v, a.min, a.max)[Len(a.filters)]
      next  == [s EXCEPT !.raw = v, !.sent = value,
                         !.filters = AxisFiltersAfter(a.filters, @, v, a.min, a.max)]
  IN  IF value = s.sent THEN [axis |-> next, out |-> out]
      ELSE Handled(i, a, next, value, out, extra)

(* RelAxisEventHandler::update: the motion of the milliseconds that passed. *)
RelMoved(a, s, d) ==
  LET moved == Plus(s.rest, Times(Times(s.stick, a.value), Float(d, Second)))
  IN  IF a.repeat = -1 /\ s.stick # Zero
      THEN [s EXCEPT !.rest = Minus(moved, Whole(moved))] ELSE s

(* RelRepeatAxisEventHandler::update: time passes slower for a stick that   *)
(* is not pushed to its end. It sends a step for each interval.             *)
Ticked(a, s, d) ==
  LET speed == <<Magnitude(s.stick[1]), s.stick[2]>>
      time  == Plus(s.timer, Times(speed, <<d, 1>>))
      steps == IF time[1] <= 0 THEN 0
               ELSE (time[1] - 1) \div (a.repeat * time[2])
  IN  [s EXCEPT !.timer = Minus(time, <<steps * a.repeat, 1>>)]

(* AxisEventHandler::update. *)
AxisTicked(a, s, d) ==
  CASE a.kind = "rel" -> RelMoved(a, s, d)
    [] a.kind = "rel-repeat" -> Ticked(a, s, d)
    [] OTHER -> s

(* AxisEvent::update ends in a send of the value it was sent last: a filter *)
(* may make something else of it by now.                                    *)
AxisUpdated(i, a, s, d, out, extra) ==
  LET passed == [s EXCEPT !.filters = UpdatedAxisFilters(a.filters, @, d)]
  IN  AxisSent(i, a, AxisTicked(a, passed, d), s.raw, out, extra)
=============================================================================
