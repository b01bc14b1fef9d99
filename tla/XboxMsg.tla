------------------------------- MODULE XboxMsg -------------------------------
(***************************************************************************)
(* The messages of the three kinds of pads and the accessors every other    *)
(* part uses on them (xboxmsg.cpp). A message is its type and the integers  *)
(* in its bit fields; a field keeps as many bits of what is stored in it as *)
(* it has. Fields nothing reads are left out.                               *)
(*                                                                         *)
(* A button has a field of its own name: one bit, or a byte that says how   *)
(* hard it is pressed. A PS3 pad has both, so its bytes have other names.   *)
(***************************************************************************)
EXTENDS AxisFilters, Functions

CONSTANTS Bits8, Bits16    \* the widths of a byte (8) and of a stick (16)

ASSUME BitsAssumption ==
  /\ Bits8 \in Nat \ {0, 1} /\ Bits16 \in Nat /\ Bits16 >= Bits8
  /\ \A n \in {Bits8, Bits16} : 2^(n - 1) \in Nat \ {0, 1} /\ 2^n = 2 * 2^(n - 1)

Types == {"XBOX360", "XBOX", "PS3USB"}
Dpad == {"UP", "DOWN", "LEFT", "RIGHT"}
Buttons ==
  {"START", "GUIDE", "BACK", "A", "B", "X", "Y", "LB", "RB", "LT", "RT",
   "THUMB_L", "THUMB_R"} \cup Dpad
Sticks == {"X1", "Y1", "X2", "Y2"}
DpadAxes == {"DPAD_X", "DPAD_Y"}
Pressures == {"LT", "RT", "BTN_A", "BTN_B", "BTN_X", "BTN_Y", "BLACK", "WHITE"}
Axes == Sticks \cup DpadAxes \cup {"TRIGGER"} \cup Pressures

Top8 == 2^Bits8 - 1
Half8 == 2^(Bits8 - 1)
Half16 == 2^(Bits16 - 1)

ButtonsIn(t) == IF t = "XBOX" THEN Buttons \ {"GUIDE"} ELSE Buttons

(* The field of each axis that says how hard a button is pressed. *)
PressureField ==
  [t \in Types |->
     CASE t = "XBOX360" -> [a \in {"LT", "RT"} |-> a]
       [] t = "XBOX" -> [LT |-> "LT", RT |-> "RT", BTN_A |-> "A", BTN_B |-> "B",
                         BTN_X |-> "X", BTN_Y |-> "Y", BLACK |-> "RB", WHITE |-> "LB"]
       [] t = "PS3USB" -> [LT |-> "a_l2", RT |-> "a_r2", BTN_A |-> "a_cross",
                           BTN_B |-> "a_circle", BTN_X |-> "a_square",
                           BTN_Y |-> "a_triangle", BLACK |-> "a_l1", WHITE |-> "a_r1"]]

Bytes(t) == Range(PressureField[t]) \cup (IF t = "PS3USB" THEN Sticks ELSE {})
Fields(t) == ButtonsIn(t) \cup Bytes(t) \cup Sticks

Width(t, f) == IF f \in Bytes(t) THEN Bits8 ELSE IF f \in Sticks THEN Bits16 ELSE 1
Signed(t, f) == f \in Sticks /\ t # "PS3USB"
Storable(t, f) == IF Signed(t, f) THEN -Half16..(Half16 - 1) ELSE 0..(2^Width(t, f) - 1)

IsMessage(m) ==
  /\ m.type \in Types
  /\ m = [type |-> m.type, value |-> [f \in Fields(m.type) |-> m.value[f]]]
  /\ \A f \in Fields(m.type) : m.value[f] \in Storable(m.type, f)

(* A value put in a field of its width. *)
Kept(t, f, v) ==
  IF Signed(t, f) THEN ((v + Half16) % 2^Bits16) - Half16 ELSE v % 2^Width(t, f)

Store(m, f, v) == [m EXCEPT !.value[f] = Kept(m.type, f, v)]

-----------------------------------------------------------------------------
(* Buttons. *)
GetButton(m, b) == IF b \in ButtonsIn(m.type) THEN m.value[b] ELSE 0
Pressed(m, b) == GetButton(m, b) # 0

(* Only the triggers of an Xbox 360 pad are pressed fully. *)
SetButton(m, b, v) ==
  LET full == m.type = "XBOX360" /\ b \in {"LT", "RT"}
  IN  IF b \notin ButtonsIn(m.type) THEN m
      ELSE Store(m, b, IF ~v THEN 0 ELSE IF full THEN Top8 ELSE 1)

-----------------------------------------------------------------------------
(* Axes as integers. *)
Negative(a) == IF a = "DPAD_X" THEN "LEFT" ELSE "UP"
Positive(a) == IF a = "DPAD_X" THEN "RIGHT" ELSE "DOWN"

ByteToStick(v) ==
  IF v < Half8 THEN -Half16 + Quotient(v * Half16, Half8)
  ELSE Quotient((v - Half8) * (Half16 - 1), Half8 - 1)

PressureOf(m, a) ==
  IF a \in DOMAIN PressureField[m.type] THEN m.value[PressureField[m.type][a]] ELSE 0

GetAxis(m, a) ==
  CASE a \in DpadAxes -> IF Pressed(m, Negative(a)) THEN -1
                         ELSE IF Pressed(m, Positive(a)) THEN 1 ELSE 0
    [] a = "TRIGGER" -> PressureOf(m, "RT") - PressureOf(m, "LT")
    [] a \in Sticks -> IF m.type = "PS3USB" THEN ByteToStick(m.value[a]) ELSE m.value[a]
    [] a \in Pressures -> PressureOf(m, a)

SetPressure(m, a, v) ==
  IF a \in DOMAIN PressureField[m.type] THEN Store(m, PressureField[m.type][a], v) ELSE m

SetDpad(m, a, left, right) ==
  SetButton(SetButton(m, Negative(a), left), Positive(a), right)

SetTrigger(m, lt, rt) == SetPressure(SetPressure(m, "LT", lt), "RT", rt)

(* A stick takes the value as it is, even where the field has one byte, and *)
(* the left trigger takes a negative one.                                   *)
SetAxis(m, a, v) ==
  CASE a \in DpadAxes -> SetDpad(m, a, v < 0, v > 0)
    [] a = "TRIGGER" -> SetTrigger(m, IF v < 0 THEN v ELSE 0, IF v > 0 THEN v ELSE 0)
    [] a \in Sticks -> Store(m, a, v)
    [] a \in Pressures -> SetPressure(m, a, v)

AxisMin(a) ==
  CASE a \in Sticks -> -Half16
    [] a \in DpadAxes -> -1
    [] a = "TRIGGER" -> -Top8
    [] a \in Pressures -> 0

AxisMax(a) ==
  CASE a \in Sticks -> Half16 - 1
    [] a \in DpadAxes -> 1
    [] a \in Pressures \cup {"TRIGGER"} -> Top8

-----------------------------------------------------------------------------
(* Axes as floats in -1..1. *)
StickToFloat(v) == Float(v, IF v >= 0 THEN Half16 - 1 ELSE Half16)
ByteToFloat(v) == Float(2 * v - Top8, Top8)
FloatToStick(f) ==
  LET u == Unit(f) IN Truncated(Times(u, <<IF f[1] >= 0 THEN Half16 - 1 ELSE Half16, 1>>))
FloatToByte(f) == LET u == Unit(f) IN Quotient((u[1] + u[2]) * Top8, 2 * u[2])

(* The trigger of a PS3 pad is taken from its two bits. *)
GetAxisFloat(m, a) ==
  CASE a \in DpadAxes -> <<GetAxis(m, a), 1>>
    [] a = "TRIGGER" -> IF m.type = "PS3USB"
                        THEN Float(m.value["RT"] - m.value["LT"], 2 * (Top8 + 1))
                        ELSE Float(GetAxis(m, a), Top8)
    [] a \in Sticks -> IF m.type = "PS3USB" THEN ByteToFloat(m.value[a])
                       ELSE StickToFloat(m.value[a])
    [] a \in Pressures -> IF a \in DOMAIN PressureField[m.type]
                          THEN ByteToFloat(PressureOf(m, a)) ELSE Zero

SetAxisFloat(m, a, f) ==
  LET magnitude == Truncated(Times(<<Magnitude(f[1]), f[2]>>, <<Top8, 1>>))
  IN  CASE a \in DpadAxes -> SetDpad(m, a, 2 * f[1] < -f[2], 2 * f[1] > f[2])
        [] a = "TRIGGER" -> SetTrigger(m, IF f[1] < 0 THEN magnitude ELSE 0,
                                          IF f[1] > 0 THEN magnitude ELSE 0)
        [] a \in Sticks -> Store(m, a, FloatToStick(f))
        [] a \in Pressures -> SetPressure(m, a, FloatToByte(f))
=============================================================================
