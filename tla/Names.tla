--------------------------------- MODULE Names ---------------------------------
(***************************************************************************)
(* The names of buttons, axes and events in options and configuration      *)
(* files.  Names are compared in lower case; an unknown one throws and is  *)
(* NoName here.                                                            *)
(***************************************************************************)
EXTENDS Naturals, Sequences, TLC

NoName == "no such name"

ButtonNames ==
  [START |-> {"start"}, GUIDE |-> {"guide", "ps"}, BACK |-> {"back", "select"},
   A |-> {"a", "1", "green", "cross"}, B |-> {"b", "2", "red", "circle"},
   X |-> {"x", "3", "blue", "square"}, Y |-> {"y", "4", "yellow", "triangle"},
   LB |-> {"lb", "5", "orange", "white", "l1"}, RB |-> {"rb", "6", "black", "r1"},
   LT |-> {"lt", "7", "l2"}, RT |-> {"rt", "8", "r2"},
   TL |-> {"tl", "l3"}, TR |-> {"tr", "r3"},
   DU |-> {"du", "up", "dpad_up"}, DD |-> {"dd", "down", "dpad_down"},
   DL |-> {"dl", "left", "dpad_left"}, DR |-> {"dr", "right", "dpad_right"}]

AxisNames ==
  [X1 |-> {"x1"}, Y1 |-> {"y1"}, X2 |-> {"x2", "whammy"}, Y2 |-> {"y2", "tilt"},
   LT |-> {"lt", "l2"}, RT |-> {"rt", "r2"}, DPAD_X |-> {"dpad_x"}, DPAD_Y |-> {"dpad_y"},
   TRIGGER |-> {"trigger", "z", "rudder"}, A |-> {"btn_a", "cross"}, B |-> {"btn_b", "circle"},
   X |-> {"btn_x", "square"}, Y |-> {"btn_y", "triangle"},
   WHITE |-> {"white", "lb", "l1"}, BLACK |-> {"black", "rb", "r1"}]

Named(table, text) ==
  LET found == {x \in DOMAIN table : text \in table[x]}
  IN IF found = {} THEN NoName ELSE CHOOSE x \in found : TRUE

String2Btn(text)  == Named(ButtonNames, text)
String2Axis(text) == Named(AxisNames, text)

\* The names that --help-button and --help-axis list, in lower case.
Btn2String ==
  [START |-> "start", GUIDE |-> "guide", BACK |-> "back", A |-> "a", B |-> "b", X |-> "x",
   Y |-> "y", LB |-> "lb", RB |-> "rb", LT |-> "lt", RT |-> "rt", TL |-> "tl", TR |-> "tr",
   DU |-> "dpad_up", DD |-> "dpad_down", DL |-> "dpad_left", DR |-> "dpad_right"]
Axis2String ==
  [TRIGGER |-> "trigger", DPAD_X |-> "dpad_x", DPAD_Y |-> "dpad_y", X1 |-> "x1", Y1 |-> "y1",
   X2 |-> "x2", Y2 |-> "y2", LT |-> "lt", RT |-> "rt", A |-> "btn_a", B |-> "btn_b",
   X |-> "btn_x", Y |-> "btn_y", BLACK |-> "black", WHITE |-> "white"]

\* What is listed can be written: each listed name stands for what it is the name of.
ASSUME ListedNamesAreRead ==
  /\ \A b \in DOMAIN Btn2String : String2Btn(Btn2String[b]) = b
  /\ \A a \in DOMAIN Axis2String : String2Axis(Axis2String[a]) = a
=============================================================================
