----------------------------- MODULE MCModifiers -----------------------------
(* Configurations with each modifier, alone and in chains, for each pad.     *)
EXTENDS Modifiers, TLC

Neutral(t) ==
  [type |-> t, value |-> [f \in Fields(t) |->
     IF t = "PS3USB" /\ f \in Sticks THEN Half8 ELSE 0]]
With(t, fields) == [Neutral(t) EXCEPT !.value = fields @@ @]
Held(t, B) == With(t, [b \in B |-> IF Width(t, b) = 1 THEN 1 ELSE Top8 \div 2])

ButtonInputs(t) ==
  {Held(t, B) : B \in SUBSET ({"A", "B", "X", "LT", "UP", "GUIDE"} \cap ButtonsIn(t))}
DpadInputs(t) == {Held(t, B) : B \in SUBSET Dpad}
StickValues(t) ==
  IF t = "PS3USB" THEN {0, Half8 - 1, Half8, Top8}
  ELSE {-Half16, -Half16 + 1, -2, -1, 0, 1, 2, Half16 - 2, Half16 - 1}
StickInputs(t) ==
  {With(t, [X1 |-> x, Y1 |-> y]) : x \in StickValues(t), y \in StickValues(t)}
ThrottleInputs(t) ==
  {With(t, [X1 |-> x]) :
     x \in IF t = "PS3USB" THEN {0, Half8, Top8} ELSE {-Half16, 0, Half16 - 1}}
Few == {0, 1, 2, 3, Top8 \div 2, Top8 - 1, Top8}
TriggerInputs(t) ==
  LET lt == PressureField[t]["LT"]
      rt == PressureField[t]["RT"]
  IN  {With(t, (lt :> l) @@ (rt :> r)) : l \in Few, r \in {0, Top8 \div 2, Top8}}

ButtonTo(lhs, rhs) == [lhs |-> lhs, rhs |-> rhs, filters |-> <<>>]
FilteredTo(lhs, rhs, kind) ==
  [lhs |-> lhs, rhs |-> rhs, filters |-> <<[kind |-> kind, rate |-> 2, delay |-> 1]>>]
AxisTo(lhs, rhs, invert) == [lhs |-> lhs, rhs |-> rhs, invert |-> invert, filters |-> <<>>]
AxisThrough(axis, filter) ==
  [lhs |-> axis, rhs |-> axis, invert |-> FALSE, filters |-> <<filter>>]
ButtonMap(maps) == [kind |-> "buttonmap", maps |-> maps]
AxisMap(maps) == [kind |-> "axismap", maps |-> maps]
DeadzoneOf(n, smooth) == [kind |-> "deadzone", from |-> -n, to |-> n, smooth |-> smooth]

ButtonChains ==
  {<<>>,
   <<ButtonMap(<<ButtonTo("A", "B"), ButtonTo("B", "A")>>)>>,
   <<ButtonMap(<<ButtonTo("B", "A"), ButtonTo("X", "A"), ButtonTo("GUIDE", "X")>>)>>,
   <<ButtonMap(<<ButtonTo("A", "B"), ButtonTo("B", "LT"), ButtonTo("LT", "UP")>>)>>,
   <<ButtonMap(<<FilteredTo("B", "B", "autofire"), FilteredTo("X", "X", "delay")>>),
     ButtonMap(<<ButtonTo("B", "A")>>)>>}
DpadChains ==
  {<<[kind |-> "dpad-restrictor", mode |-> mode]>> : mode \in Modes}
    \cup {<<[kind |-> "dpad-rotation", turn |-> 3]>>,
          <<[kind |-> "dpad-rotation", turn |-> 7], [kind |-> "dpad-rotation", turn |-> 2]>>,
          <<[kind |-> "dpad-rotation", turn |-> 1],
            [kind |-> "dpad-restrictor", mode |-> "four-way"],
            AxisMap(<<AxisTo("DPAD_X", "X1", FALSE), AxisTo("DPAD_Y", "Y1", TRUE)>>)>>}
StickChains ==
  {<<AxisMap(<<AxisTo("X1", "X2", FALSE), AxisTo("Y1", "Y2", TRUE),
               AxisTo("X2", "X1", FALSE), AxisTo("Y2", "Y1", FALSE)>>)>>,
   <<AxisMap(<<AxisThrough("X1", DeadzoneOf(3, TRUE)), AxisThrough("Y1", DeadzoneOf(3, FALSE))>>)>>,
   <<AxisMap(<<AxisTo("X1", "X1", TRUE), AxisTo("Y1", "X1", FALSE), AxisTo("Y1", "DPAD_Y", FALSE)>>)>>,
   <<AxisMap(<<AxisThrough("X1", [kind |-> "calibration", from |-> -6, center |-> -1, to |-> 5]),
               AxisThrough("Y1", [kind |-> "curve", samples |-> <<0, -4, 7>>])>>)>>,
   <<[kind |-> "four-way", x |-> "X1", y |-> "Y1"]>>,
   <<AxisMap(<<AxisTo("X1", "Y1", FALSE), AxisTo("Y1", "X1", FALSE)>>),
     [kind |-> "four-way", x |-> "X1", y |-> "Y1"]>>}
ThrottleChains ==
  {<<AxisMap(<<AxisThrough("X1", [kind |-> "relative", speed |-> Half16 - 1])>>)>>}
TriggerChains ==
  {<<AxisMap(<<AxisTo("TRIGGER", "TRIGGER", TRUE)>>)>>,
   <<AxisMap(<<AxisTo("LT", "LT", TRUE), AxisThrough("RT", DeadzoneOf(2, TRUE))>>)>>,
   <<AxisMap(<<AxisTo("TRIGGER", "X1", FALSE), AxisTo("X1", "TRIGGER", FALSE)>>)>>,
   <<AxisMap(<<AxisTo("LT", "LT", FALSE), AxisTo("X1", "TRIGGER", FALSE),
               AxisThrough("RT", DeadzoneOf(2, TRUE)), AxisTo("Y1", "TRIGGER", TRUE)>>)>>}

(* Reports with every byte of a stick, every direction and pulled triggers.   *)
ReportOf(held, hat, v, w, analog) ==
  [held |-> held, hat |-> hat, sticks |-> [X1 |-> v, Y1 |-> v, X2 |-> w, Y2 |-> w],
   analog |-> analog, pressure |-> [LT |-> v, RT |-> w]]
MCReportsOf ==
  {ReportOf({}, 15, v, Top8 - v, 0) : v \in 0..Top8}
    \cup {ReportOf({"LT", "b2", "fps"}, hat, Half8, Half8, 0) : hat \in 0..15}
    \cup {ReportOf({"LT", "RT"}, 8, 0, Half8, n) : n \in {-Half8 \div 4, -1, 0, Half8 \div 4 - 1}}

Evdev ==
  [keys  |-> [BTN_A |-> "A", BTN_TL |-> "LT"],
   both  |-> [ABS_X |-> "X1", ABS_Y |-> "Y1"],
   plus  |-> [ABS_Z |-> "LT"], minus |-> [ABS_Z |-> "RT"],
   range |-> [ABS_X |-> <<-10, 10>>, ABS_Y |-> <<-8, 7>>, ABS_Z |-> <<0, 15>>]]
Key(code, v) == [kind |-> "key", code |-> code, value |-> v]
Abs(code, v) == [kind |-> "abs", code |-> code, value |-> v]
MCEventsOf ==
  {<<Key("BTN_A", v), Key("BTN_NONE", 1)>> : v \in 0..2}
    \cup {<<Abs("ABS_X", v), Abs("ABS_Y", v)>> : v \in {-12, -10, -8, -3, -1, 0, 1, 6, 10, 12}}
    \cup {<<Abs("ABS_Z", 0), Abs("ABS_Z", v)>> : v \in {0, 3, 7, 8, 9, 12, 15, 16}}

MCSetups ==
  [chain : ButtonChains, inputs : {"buttons"}, pad : Types]
    \cup [chain : DpadChains, inputs : {"dpad"}, pad : Types]
    \cup [chain : StickChains, inputs : {"stick"}, pad : Types]
    \cup [chain : ThrottleChains, inputs : {"throttle"}, pad : Types]
    \cup [chain : TriggerChains, inputs : {"triggers"}, pad : Types]
    \cup [chain : {<<>>}, inputs : {"reports"}, pad : DOMAIN BitOf]
    \cup {[chain |-> <<>>, inputs |-> "events", pad |-> "EVDEV", evdev |-> Evdev]}
MCSends ==
  [s \in MCSetups |->
     CASE s.inputs = "buttons"  -> ButtonInputs(s.pad)
       [] s.inputs = "dpad"     -> DpadInputs(s.pad)
       [] s.inputs = "stick"    -> StickInputs(s.pad)
       [] s.inputs = "throttle" -> ThrottleInputs(s.pad)
       [] s.inputs = "triggers" -> TriggerInputs(s.pad)
       [] s.inputs \in {"reports", "events"} -> {}]
MCReports == [s \in MCSetups |-> IF s.inputs = "reports" THEN MCReportsOf ELSE {}]
MCEvents == [s \in MCSetups |-> IF s.inputs = "events" THEN MCEventsOf ELSE {}]
=============================================================================
