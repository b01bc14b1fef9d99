--------------------------- MODULE ModifiersProofs ---------------------------
(***************************************************************************)
(* Proofs about the modifiers: lemmas on the fields of a message and on the *)
(* loops over mappings, events and modifiers, and the invariants: those of   *)
(* button maps, of the restricted d-pad, of a pad at rest, which needs the   *)
(* arithmetic of 0, and of an axis at its ends, which needs that of -1 and 1. *)
(***************************************************************************)
EXTENDS Modifiers, TLAPS, MinTheorems

(* The shape of a message, whatever its fields hold.                         *)
Shaped(m) ==
  /\ m.type \in Types
  /\ DOMAIN m = {"type", "value"}
  /\ DOMAIN m.value = Fields(m.type)

LEMMA MessageShaped == ASSUME NEW m, IsMessage(m) PROVE Shaped(m)
<1> DEFINE v == [f \in Fields(m.type) |-> m.value[f]]
<1>1. m.type \in Types /\ m = [type |-> m.type, value |-> v]
  BY DEF IsMessage
<1>2. DOMAIN v = Fields(m.type)
  OBVIOUS
<1> HIDE DEF v
<1>3. m.value = v /\ DOMAIN m = {"type", "value"}
  <2> DEFINE t == m.type
  <2>1. m = [type |-> t, value |-> v]
    BY <1>1
  <2> HIDE DEF t
  <2> QED BY <2>1
<1> QED BY <1>1, <1>2, <1>3 DEF Shaped

(* The width of every field is at least a bit.                               *)
LEMMA WidthFacts ==
  ASSUME NEW t \in Types, NEW b \in ButtonsIn(t)
  PROVE  /\ 2^Width(t, b) \in Nat /\ 2^Width(t, b) >= 2
         /\ ~ Signed(t, b)
         /\ b \in Fields(t)
         /\ t = "XBOX360" /\ b \in {"LT", "RT"} => 2^Width(t, b) = Top8 + 1
<1>1. 2^Bits8 \in Nat /\ 2^Bits8 >= 2 /\ 2^1 = 2
  BY BitsAssumption
<1>2. b \notin Sticks /\ b \in Fields(t)
  BY DEF ButtonsIn, Buttons, Sticks, Dpad, Fields
<1>3. Width(t, b) \in {Bits8, 1}
  BY <1>2 DEF Width
<1>4. t = "XBOX360" /\ b \in {"LT", "RT"} => Width(t, b) = Bits8
  BY DEF Width, Bytes, PressureField, Types, Range
<1>5. 2^Width(t, b) \in Nat /\ 2^Width(t, b) >= 2
  <2>1. CASE Width(t, b) = Bits8
    BY <1>1, <2>1
  <2>2. CASE Width(t, b) = 1
    BY <1>1, <2>2
  <2> QED BY <1>3, <2>1, <2>2
<1>6. ASSUME Width(t, b) = Bits8 PROVE 2^Width(t, b) = Top8 + 1
  BY <1>1, <1>6 DEF Top8
<1> QED BY <1>2, <1>4, <1>5, <1>6 DEF Signed

(* What is stored in one field leaves the others alone.                      *)
LEMMA StoreFacts ==
  ASSUME NEW m, Shaped(m), NEW f \in Fields(m.type), NEW v
  PROVE  /\ Shaped(Store(m, f, v)) /\ Store(m, f, v).type = m.type
         /\ Store(m, f, v).value[f] = Kept(m.type, f, v)
         /\ \A g \in Fields(m.type) \ {f} : Store(m, f, v).value[g] = m.value[g]
<1> DEFINE k == Kept(m.type, f, v)
           w == [m.value EXCEPT ![f] = k]
           n == [m EXCEPT !.value = w]
<1>1. Store(m, f, v) = n
  BY DEF Store
<1>2. DOMAIN w = DOMAIN m.value /\ w[f] = k
      /\ \A g \in Fields(m.type) \ {f} : w[g] = m.value[g]
  <2> HIDE DEF k
  <2> QED BY DEF Shaped
<1>3. n.value = w /\ n.type = m.type /\ DOMAIN n = DOMAIN m
  <2> HIDE DEF w
  <2> QED BY DEF Shaped
<1> HIDE DEF w, n, k
<1>4. Shaped(n)
  BY <1>2, <1>3 DEF Shaped
<1> QED BY <1>1, <1>2, <1>3, <1>4 DEF k

LEMMA KeptBit ==
  ASSUME NEW t \in Types, NEW b \in ButtonsIn(t)
  PROVE  /\ Kept(t, b, 0) = 0 /\ Kept(t, b, 1) = 1
         /\ t = "XBOX360" /\ b \in {"LT", "RT"} => Kept(t, b, Top8) = Top8 /\ Top8 # 0
<1> DEFINE w == 2^Width(t, b)
<1>1. w \in Nat /\ w >= 2 /\ (t = "XBOX360" /\ b \in {"LT", "RT"} => w = Top8 + 1)
  BY WidthFacts
<1>2. \A v : Kept(t, b, v) = v % w
  BY WidthFacts DEF Kept
<1>3. Top8 \in Int
  BY BitsAssumption DEF Top8
<1> HIDE DEF w
<1>4. 0 % w = 0 /\ 1 % w = 1 /\ (w - 1) % w = w - 1
  BY <1>1
<1> QED BY <1>1, <1>2, <1>3, <1>4

(* set_button presses or releases one button.                                *)
LEMMA SetButtonFacts ==
  ASSUME NEW m, Shaped(m), NEW b, NEW v \in BOOLEAN
  PROVE  /\ Shaped(SetButton(m, b, v)) /\ SetButton(m, b, v).type = m.type
         /\ b \in ButtonsIn(m.type) => (Pressed(SetButton(m, b, v), b) <=> v)
         /\ \A f \in Fields(m.type) \ {b} : SetButton(m, b, v).value[f] = m.value[f]
<1>1. CASE b \notin ButtonsIn(m.type)
  <2>1. SetButton(m, b, v) = m
    BY <1>1 DEF SetButton
  <2> QED BY <1>1, <2>1
<1>2. CASE b \in ButtonsIn(m.type)
  <2> DEFINE full == m.type = "XBOX360" /\ b \in {"LT", "RT"}
             s == IF ~v THEN 0 ELSE IF full THEN Top8 ELSE 1
             n == Store(m, b, s)
  <2>1. SetButton(m, b, v) = n
    BY <1>2 DEF SetButton
  <2>2. m.type \in Types /\ b \in Fields(m.type)
    BY <1>2, WidthFacts DEF Shaped
  <2>3. Kept(m.type, b, s) # 0 <=> v
    BY <1>2, <2>2, KeptBit
  <2> HIDE DEF s
  <2>4. /\ Shaped(n) /\ n.type = m.type /\ n.value[b] = Kept(m.type, b, s)
        /\ \A f \in Fields(m.type) \ {b} : n.value[f] = m.value[f]
    BY <2>2, StoreFacts
  <2> HIDE DEF n
  <2>5. Pressed(n, b) <=> v
    BY <1>2, <2>3, <2>4 DEF Pressed, GetButton
  <2> QED BY <2>1, <2>4, <2>5
<1> QED BY <1>1, <1>2

LEMMA OthersPressed ==
  ASSUME NEW m, Shaped(m), NEW b, NEW v \in BOOLEAN, NEW c, c # b
  PROVE  Pressed(SetButton(m, b, v), c) <=> Pressed(m, c)
<1>1. c \in ButtonsIn(m.type) => c \in Fields(m.type)
  BY DEF Fields
<1> QED BY <1>1, SetButtonFacts DEF Pressed, GetButton

(* What an axis is set to is in its own fields.                              *)
LEMMA SetPressureFacts ==
  ASSUME NEW m, Shaped(m), NEW a, NEW v
  PROVE  LET n == SetPressure(m, a, v)
         IN  /\ Shaped(n) /\ n.type = m.type
             /\ \A f \in Fields(m.type) :
                  \/ n.value[f] = m.value[f]
                  \/ /\ a \in DOMAIN PressureField[m.type]
                     /\ f = PressureField[m.type][a]
             /\ a \in DOMAIN PressureField[m.type] =>
                  /\ PressureField[m.type][a] \in Bytes(m.type) \cap Fields(m.type)
                  /\ n.value[PressureField[m.type][a]] = Kept(m.type, PressureField[m.type][a], v)
<1>1. CASE a \notin DOMAIN PressureField[m.type]
  <2>1. SetPressure(m, a, v) = m
    BY <1>1 DEF SetPressure
  <2> QED BY <1>1, <2>1
<1>2. CASE a \in DOMAIN PressureField[m.type]
  <2> DEFINE f == PressureField[m.type][a]
             n == Store(m, f, v)
  <2>1. f \in Bytes(m.type) \cap Fields(m.type)
    BY <1>2 DEF Bytes, Fields, Range
  <2>2. SetPressure(m, a, v) = n
    BY <1>2 DEF SetPressure
  <2> HIDE DEF f
  <2>3. /\ Shaped(n) /\ n.type = m.type /\ n.value[f] = Kept(m.type, f, v)
        /\ \A g \in Fields(m.type) \ {f} : n.value[g] = m.value[g]
    BY <2>1, StoreFacts
  <2> HIDE DEF n
  <2> QED BY <1>2, <2>1, <2>2, <2>3 DEF f
<1> QED BY <1>1, <1>2

LEMMA DpadButtons ==
  ASSUME NEW t \in Types, NEW a \in DpadAxes
  PROVE  /\ {Negative(a), Positive(a)} \subseteq Dpad
         /\ Dpad \subseteq ButtonsIn(t) /\ Dpad \subseteq Fields(t)
         /\ Negative(a) # Positive(a)
         /\ \A b \in DpadAxes \ {a} :
              {Negative(b), Positive(b)} \cap {Negative(a), Positive(a)} = {}
BY DEF DpadAxes, Negative, Positive, Dpad, ButtonsIn, Buttons, Fields

LEMMA SetDpadFacts ==
  ASSUME NEW m, Shaped(m), NEW a \in DpadAxes, NEW left \in BOOLEAN, NEW right \in BOOLEAN
  PROVE  LET n == SetDpad(m, a, left, right)
         IN  /\ Shaped(n) /\ n.type = m.type
             /\ \A f \in Fields(m.type) \ {Negative(a), Positive(a)} : n.value[f] = m.value[f]
             /\ Pressed(n, Negative(a)) <=> left
             /\ Pressed(n, Positive(a)) <=> right
<1> DEFINE l == SetButton(m, Negative(a), left)
           n == SetButton(l, Positive(a), right)
<1>1. m.type \in Types
  BY DEF Shaped
<1>2. /\ Shaped(l) /\ l.type = m.type /\ (Pressed(l, Negative(a)) <=> left)
      /\ \A f \in Fields(m.type) \ {Negative(a)} : l.value[f] = m.value[f]
  BY <1>1, DpadButtons, SetButtonFacts
<1> HIDE DEF l
<1>3. /\ Shaped(n) /\ n.type = l.type /\ (Pressed(n, Positive(a)) <=> right)
      /\ \A f \in Fields(l.type) \ {Positive(a)} : n.value[f] = l.value[f]
      /\ Pressed(n, Negative(a)) <=> Pressed(l, Negative(a))
  BY <1>1, <1>2, DpadButtons, SetButtonFacts, OthersPressed
<1>4. SetDpad(m, a, left, right) = n
  BY DEF SetDpad, l
<1> HIDE DEF n
<1> QED BY <1>2, <1>3, <1>4

(* Each axis is of one kind.                                                 *)
LEMMA AxisKinds ==
  /\ DpadAxes \cap Sticks = {} /\ DpadAxes \cap Pressures = {} /\ Sticks \cap Pressures = {}
  /\ "TRIGGER" \notin DpadAxes \cup Sticks \cup Pressures
BY DEF DpadAxes, Sticks, Pressures

LEMMA DpadAccess ==
  ASSUME NEW m, NEW a \in DpadAxes, NEW f
  PROVE  /\ GetAxis(m, a) = IF Pressed(m, Negative(a)) THEN -1
                            ELSE IF Pressed(m, Positive(a)) THEN 1 ELSE 0
         /\ SetAxis(m, a, 0) = SetDpad(m, a, FALSE, FALSE)
         /\ SetAxisFloat(m, a, f) = SetDpad(m, a, 2 * f[1] < -f[2], 2 * f[1] > f[2])
         /\ GetAxisFloat(m, a) = <<GetAxis(m, a), 1>>
         /\ AxisMin(a) = -1 /\ AxisMax(a) = 1
<1>1. GetAxis(m, a) = IF Pressed(m, Negative(a)) THEN -1
                      ELSE IF Pressed(m, Positive(a)) THEN 1 ELSE 0
  BY AxisKinds DEF GetAxis
<1>2. SetAxis(m, a, 0) = SetDpad(m, a, 0 < 0, 0 > 0)
  BY AxisKinds DEF SetAxis
<1>3. (0 < 0) = FALSE /\ (0 > 0) = FALSE
  OBVIOUS
<1>4. SetAxisFloat(m, a, f) = SetDpad(m, a, 2 * f[1] < -f[2], 2 * f[1] > f[2])
  BY AxisKinds DEF SetAxisFloat
<1>5. GetAxisFloat(m, a) = <<GetAxis(m, a), 1>>
  BY AxisKinds DEF GetAxisFloat
<1>6. AxisMin(a) = -1 /\ AxisMax(a) = 1
  BY AxisKinds DEF AxisMin, AxisMax
<1> QED BY <1>1, <1>2, <1>3, <1>4, <1>5, <1>6

LEMMA CentredDpad ==
  ASSUME NEW m, Shaped(m), NEW a \in DpadAxes
  PROVE  LET n == SetAxis(m, a, 0)
         IN  /\ Shaped(n) /\ n.type = m.type
             /\ GetAxis(n, a) = 0
             /\ \A b \in DpadAxes \ {a} : GetAxis(n, b) = GetAxis(m, b)
<1> DEFINE n == SetDpad(m, a, FALSE, FALSE)
<1>1. SetAxis(m, a, 0) = n
  BY DpadAccess
<1>2. /\ Shaped(n) /\ n.type = m.type
      /\ \A f \in Fields(m.type) \ {Negative(a), Positive(a)} : n.value[f] = m.value[f]
      /\ ~ Pressed(n, Negative(a)) /\ ~ Pressed(n, Positive(a))
  BY SetDpadFacts
<1>3. m.type \in Types
  BY DEF Shaped
<1> HIDE DEF n
<1>4. GetAxis(n, a) = 0
  BY <1>2, DpadAccess
<1>5. ASSUME NEW b \in DpadAxes \ {a} PROVE GetAxis(n, b) = GetAxis(m, b)
  <2>1. /\ {Negative(b), Positive(b)} \subseteq Dpad
        /\ {Negative(b), Positive(b)} \cap {Negative(a), Positive(a)} = {}
        /\ Dpad \subseteq Fields(m.type)
    BY <1>3, DpadButtons
  <2>2. \A c \in {Negative(b), Positive(b)} : n.value[c] = m.value[c]
    BY <1>2, <2>1
  <2>3. \A c \in {Negative(b), Positive(b)} : Pressed(n, c) <=> Pressed(m, c)
    BY <1>2, <2>2 DEF Pressed, GetButton
  <2> QED BY <2>3, DpadAccess
<1> QED BY <1>1, <1>2, <1>4, <1>5

LEMMA StickAccess ==
  ASSUME NEW m, NEW a \in Sticks, NEW f
  PROVE  /\ GetAxis(m, a) = IF m.type = "PS3USB" THEN ByteToStick(m.value[a]) ELSE m.value[a]
         /\ SetAxis(m, a, 0) = Store(m, a, 0)
         /\ SetAxisFloat(m, a, f) = Store(m, a, FloatToStick(f))
         /\ GetAxisFloat(m, a) = IF m.type = "PS3USB" THEN ByteToFloat(m.value[a])
                                 ELSE StickToFloat(m.value[a])
         /\ AxisMin(a) = -Half16 /\ AxisMax(a) = Half16 - 1
<1>1. GetAxis(m, a) = IF m.type = "PS3USB" THEN ByteToStick(m.value[a]) ELSE m.value[a]
  BY AxisKinds DEF GetAxis
<1>2. SetAxis(m, a, 0) = Store(m, a, 0)
  BY AxisKinds DEF SetAxis
<1>3. SetAxisFloat(m, a, f) = Store(m, a, FloatToStick(f))
  BY AxisKinds DEF SetAxisFloat
<1>4. GetAxisFloat(m, a) = IF m.type = "PS3USB" THEN ByteToFloat(m.value[a])
                           ELSE StickToFloat(m.value[a])
  BY AxisKinds DEF GetAxisFloat
<1>5. AxisMin(a) = -Half16 /\ AxisMax(a) = Half16 - 1
  BY AxisKinds DEF AxisMin, AxisMax
<1> QED BY <1>1, <1>2, <1>3, <1>4, <1>5

LEMMA TriggerAccess ==
  ASSUME NEW m, NEW f
  PROVE  LET magnitude == Truncated(Times(<<Magnitude(f[1]), f[2]>>, <<Top8, 1>>))
         IN  /\ GetAxis(m, "TRIGGER") = PressureOf(m, "RT") - PressureOf(m, "LT")
             /\ SetAxis(m, "TRIGGER", 0) = SetTrigger(m, 0, 0)
             /\ SetAxisFloat(m, "TRIGGER", f) =
                  SetTrigger(m, IF f[1] < 0 THEN magnitude ELSE 0,
                                IF f[1] > 0 THEN magnitude ELSE 0)
             /\ m.type # "PS3USB" =>
                  GetAxisFloat(m, "TRIGGER") = Float(GetAxis(m, "TRIGGER"), Top8)
             /\ AxisMin("TRIGGER") = -Top8 /\ AxisMax("TRIGGER") = Top8
<1>1. GetAxis(m, "TRIGGER") = PressureOf(m, "RT") - PressureOf(m, "LT")
  BY AxisKinds DEF GetAxis
<1>2. SetAxis(m, "TRIGGER", 0) = SetTrigger(m, 0, 0)
  BY AxisKinds DEF SetAxis
<1>3. SetAxisFloat(m, "TRIGGER", f) =
        LET magnitude == Truncated(Times(<<Magnitude(f[1]), f[2]>>, <<Top8, 1>>))
        IN  SetTrigger(m, IF f[1] < 0 THEN magnitude ELSE 0,
                          IF f[1] > 0 THEN magnitude ELSE 0)
  BY AxisKinds DEF SetAxisFloat
<1>4. m.type # "PS3USB" => GetAxisFloat(m, "TRIGGER") = Float(GetAxis(m, "TRIGGER"), Top8)
  BY AxisKinds DEF GetAxisFloat
<1>5. AxisMin("TRIGGER") = -Top8 /\ AxisMax("TRIGGER") = Top8
  BY AxisKinds DEF AxisMin, AxisMax
<1> QED BY <1>1, <1>2, <1>3, <1>4, <1>5

LEMMA PressureAccess ==
  ASSUME NEW m, NEW a \in Pressures, NEW f
  PROVE  /\ GetAxis(m, a) = PressureOf(m, a)
         /\ SetAxis(m, a, 0) = SetPressure(m, a, 0)
         /\ SetAxisFloat(m, a, f) = SetPressure(m, a, FloatToByte(f))
         /\ AxisMin(a) = 0 /\ AxisMax(a) = Top8
<1>1. GetAxis(m, a) = PressureOf(m, a)
  BY AxisKinds DEF GetAxis
<1>2. SetAxis(m, a, 0) = SetPressure(m, a, 0)
  BY AxisKinds DEF SetAxis
<1>3. SetAxisFloat(m, a, f) = SetPressure(m, a, FloatToByte(f))
  BY AxisKinds DEF SetAxisFloat
<1>4. AxisMin(a) = 0 /\ AxisMax(a) = Top8
  BY AxisKinds DEF AxisMin, AxisMax
<1> QED BY <1>1, <1>2, <1>3, <1>4

(* An axis that is set changes the shape of no message.                      *)
LEMMA SetAxisFloatShaped ==
  ASSUME NEW m, Shaped(m), NEW a \in Axes, NEW f
  PROVE  Shaped(SetAxisFloat(m, a, f)) /\ SetAxisFloat(m, a, f).type = m.type
<1>1. CASE a \in DpadAxes
  <2> DEFINE l == 2 * f[1] < -f[2]
             r == 2 * f[1] > f[2]
  <2>1. l \in BOOLEAN /\ r \in BOOLEAN
    OBVIOUS
  <2>2. SetAxisFloat(m, a, f) = SetDpad(m, a, l, r)
    BY <1>1, DpadAccess
  <2> HIDE DEF l, r
  <2> QED BY <1>1, <2>1, <2>2, SetDpadFacts
<1>2. CASE a = "TRIGGER"
  <2>1. PICK l, r : SetAxisFloat(m, a, f) = SetTrigger(m, l, r)
    BY <1>2, TriggerAccess
  <2>2. Shaped(SetPressure(m, "LT", l)) /\ SetPressure(m, "LT", l).type = m.type
    BY SetPressureFacts
  <2> QED BY <2>1, <2>2, SetPressureFacts DEF SetTrigger
<1>3. CASE a \in Sticks
  <2>1. PICK v : SetAxisFloat(m, a, f) = Store(m, a, v)
    BY <1>3, StickAccess
  <2>2. a \in Fields(m.type)
    BY <1>3 DEF Fields
  <2> QED BY <2>1, <2>2, StoreFacts
<1>4. CASE a \in Pressures
  <2>1. PICK v : SetAxisFloat(m, a, f) = SetPressure(m, a, v)
    BY <1>4, PressureAccess
  <2> QED BY <2>1, SetPressureFacts
<1> QED BY <1>1, <1>2, <1>3, <1>4 DEF Axes

-----------------------------------------------------------------------------
(* The loops over the modifiers, their mappings, the filters of a mapping    *)
(* and the events of a device. Each is a recursive function, and there is    *)
(* one: x holds what a step of the loop reads, y what the step before left. *)

ButtonStep(maps, S, m, i, y) ==
  LET out == Filtered(maps[i].filters, S[i], Pressed(m, maps[i].lhs))[Len(maps[i].filters)]
  IN  SetButton(y, maps[i].rhs, out \/ Pressed(y, maps[i].rhs))

AxisOutput(map, S, m) ==
  AxisValues(map.filters, S, SignedAxis(map, m),
             AxisMin(map.lhs), AxisMax(map.lhs))[Len(map.filters)]

AxisStep(maps, S, m, i, y) ==
  SetAxisFloat(y, maps[i].rhs,
    Merged(maps[i], y, ToFloat(AxisOutput(maps[i], S[i], m),
                               AxisMin(maps[i].lhs), AxisMax(maps[i].lhs))))

StepOf(loop, x, i, y) ==
  CASE loop = "modifiers"     -> Modify(x.chain[i], x.states[i], x.d, y.msg)
    [] loop = "events"        -> EventParsed(x.evdev, y, x.events[i])
    [] loop = "clear buttons" -> SetButton(y, x[i].lhs, FALSE)
    [] loop = "buttons"       -> ButtonStep(x.maps, x.states, x.msg, i, y)
    [] loop = "button filter" -> Filter(x.filters[i], x.states[i], y).value
    [] loop = "clear axes"    -> SetAxisFloat(y, x[i].lhs, Zero)
    [] loop = "axes"          -> AxisStep(x.maps, x.states, x.msg, i, y)
    [] loop = "axis filter"   -> AxisFiltered(x.filters[i], x.states[i], y, x.min, x.max)

Runs(f, loop, x, n, start) ==
  f = [i \in 0..n |-> IF i = 0 THEN start ELSE StepOf(loop, x, i, f[i - 1])]

Loop(loop, x, n, start) == CHOOSE f : Runs(f, loop, x, n, start)

LEMMA LoopExists ==
  ASSUME NEW loop, NEW x, NEW n \in Nat, NEW start
  PROVE  \E f : Runs(f, loop, x, n, start)
<1> DEFINE Solved(f, k) == Runs(f, loop, x, k, start)
           G == {k \in 0..n : \E f : Solved(f, k)}
<1>1. 0 \in G
  <2> DEFINE f == [i \in 0..0 |-> start]
  <2>1. Solved(f, 0)
    BY DEF Runs
  <2> HIDE DEF f, Solved
  <2> QED BY <2>1
<1>2. ASSUME NEW k \in 1..n, k - 1 \in G PROVE k \in G
  <2>1. PICK f : Solved(f, k - 1)
    BY <1>2
  <2> DEFINE last == StepOf(loop, x, k, f[k - 1])
             h == [i \in 0..k |-> IF i = k THEN last ELSE f[i]]
  <2>2. ASSUME NEW i \in 0..k
        PROVE  h[i] = IF i = 0 THEN start ELSE StepOf(loop, x, i, h[i - 1])
    <3> HIDE DEF last
    <3>1. CASE i = k
      <4>1. k - 1 \in 0..k /\ k - 1 # k /\ i # 0
        BY <3>1
      <4>2. h[k - 1] = f[k - 1] /\ h[k] = last
        BY <4>1
      <4> HIDE DEF h
      <4> QED BY <3>1, <4>1, <4>2 DEF last
    <3>2. CASE i # k
      <4>1. i \in 0..(k - 1) /\ h[i] = f[i]
        BY <3>2
      <4>2. i # 0 => i - 1 \in 0..k /\ i - 1 # k
        BY <3>2
      <4>3. i # 0 => h[i - 1] = f[i - 1]
        BY <4>2
      <4> HIDE DEF h
      <4>4. f[i] = IF i = 0 THEN start ELSE StepOf(loop, x, i, f[i - 1])
        BY <2>1, <4>1 DEF Runs
      <4> QED BY <4>1, <4>3, <4>4
    <3> QED BY <3>1, <3>2
  <2>3. Solved(h, k)
    <3>1. h = [i \in 0..k |-> h[i]]
      OBVIOUS
    <3> HIDE DEF h
    <3> QED BY <2>2, <3>1 DEF Runs
  <2> HIDE DEF h, Solved
  <2> QED BY <2>3
<1>3. 0..n \subseteq G
  <2> HIDE DEF G
  <2> QED BY <1>1, <1>2, UpTo
<1> QED BY <1>3

(* The value such a function has at 0, and how it goes on from there.        *)
LEMMA LoopSteps ==
  ASSUME NEW loop, NEW x, NEW n \in Nat, NEW start
  PROVE  /\ Loop(loop, x, n, start)[0] = start
         /\ \A i \in 1..n : Loop(loop, x, n, start)[i] =
                              StepOf(loop, x, i, Loop(loop, x, n, start)[i - 1])
<1>1. PICK f : Runs(f, loop, x, n, start) /\ f = Loop(loop, x, n, start)
  BY LoopExists DEF Loop
<1>2. \A i \in 0..n : f[i] = IF i = 0 THEN start ELSE StepOf(loop, x, i, f[i - 1])
  BY <1>1, Zenon DEF Runs
<1>3. 0 \in 0..n /\ \A i \in 1..n : i \in 0..n /\ i # 0
  OBVIOUS
<1> QED BY <1>1, <1>2, <1>3

LEMMA SeqFacts ==
  ASSUME NEW s, IsSeq(s)
  PROVE  /\ Len(s) \in Nat /\ DOMAIN s = 1..Len(s)
         /\ \A i \in 1..Len(s) : s[i] \in Range(s)
<1> DEFINE R == Range(s)
<1>1. s \in Seq(R)
  BY DEF IsSeq
<1>2. Len(s) \in Nat /\ DOMAIN s = 1..Len(s)
  <2> HIDE DEF R
  <2> QED BY <1>1
<1> QED BY <1>2 DEF Range

LEMMA ChainFacts ==
  ASSUME setup \in Setups
  PROVE  /\ Len(Chain) \in Nat /\ DOMAIN Chain = 1..Len(Chain)
         /\ \A i \in 1..Len(Chain) : IsModifier(Chain[i])
BY SetupsAssumption, SeqFacts DEF Chain

(* The modifiers, one after the other.                                       *)
LEMMA ThroughSteps ==
  ASSUME NEW m, NEW d, setup \in Setups
  PROVE  /\ Through(m, d)[0] = [msg |-> m, state |-> <<>>]
         /\ \A i \in 1..Len(Chain) :
              Through(m, d)[i] = Modify(Chain[i], states[i], d, Through(m, d)[i - 1].msg)
<1> DEFINE n == Len(Chain)
           start == [msg |-> m, state |-> <<>>]
           x == [chain |-> Chain, states |-> states, d |-> d]
           f == Loop("modifiers", x, n, start)
<1>1. x.chain = Chain /\ x.states = states /\ x.d = d
  OBVIOUS
<1>2. Through(m, d) = f
  <2> HIDE DEF x
  <2>1. \A i, y : StepOf("modifiers", x, i, y) = Modify(Chain[i], states[i], d, y.msg)
    BY <1>1 DEF StepOf
  <2> QED BY <2>1 DEF Through, Loop, Runs, Chain
<1>3. n \in Nat
  BY ChainFacts
<1>4. f[0] = start /\ \A i \in 1..n : f[i] = StepOf("modifiers", x, i, f[i - 1])
  <2> HIDE DEF n, start, x
  <2> QED BY <1>3, LoopSteps
<1>5. \A i, y : StepOf("modifiers", x, i, y) = Modify(Chain[i], states[i], d, y.msg)
  <2> HIDE DEF x
  <2> QED BY <1>1 DEF StepOf
<1> HIDE DEF f, x
<1> QED BY <1>2, <1>4, <1>5

(* What a pad sends, whether it is sent or parsed, has the shape of a message. *)
LEMMA ParsedShaped == ASSUME NEW pad, NEW r PROVE Shaped(Parsed(pad, r))
<1>1. PICK v : Parsed(pad, r) =
                 [type |-> "XBOX360", value |-> [f \in Fields("XBOX360") |-> v[f]]]
  <2> DEFINE v == Parsed(pad, r).value
  <2>1. Parsed(pad, r) = [type |-> "XBOX360", value |-> [f \in Fields("XBOX360") |-> v[f]]]
    BY DEF Parsed
  <2> QED BY <2>1
<1> DEFINE w == [f \in Fields("XBOX360") |-> v[f]]
<1>2. DOMAIN w = Fields("XBOX360")
  OBVIOUS
<1> HIDE DEF w
<1> QED BY <1>1, <1>2 DEF Shaped, Types, w

LEMMA InitialShaped == Shaped(Initial360)
<1> DEFINE w == [f \in Fields("XBOX360") |-> 0]
<1>1. DOMAIN w = Fields("XBOX360")
  OBVIOUS
<1>2. Initial360 = [type |-> "XBOX360", value |-> w]
  BY DEF Initial360
<1> HIDE DEF w
<1> QED BY <1>1, <1>2 DEF Shaped, Types

LEMMA BlankShaped == Shaped(Blank) /\ \A f \in Fields("XBOX") : Blank.value[f] = 0
<1> DEFINE w == [f \in Fields("XBOX") |-> 0]
<1>1. DOMAIN w = Fields("XBOX") /\ \A f \in Fields("XBOX") : w[f] = 0
  OBVIOUS
<1>2. Blank = [type |-> "XBOX", value |-> w]
  BY DEF Blank
<1> HIDE DEF w
<1> QED BY <1>1, <1>2 DEF Shaped, Types

LEMMA BoundShaped ==
  ASSUME NEW map, Range(map) \subseteq Axes, NEW code, NEW m, Shaped(m), NEW f
  PROVE  Shaped(Bound(map, code, m, f))
<1>1. code \in DOMAIN map => map[code] \in Axes
  BY DEF Range
<1> QED BY <1>1, SetAxisFloatShaped DEF Bound

LEMMA EventShaped ==
  ASSUME NEW evdev, IsEvdev(evdev), NEW m, Shaped(m),
         NEW event, event.kind \in {"key", "abs"}
  PROVE  Shaped(EventParsed(evdev, m, event))
<1>1. CASE event.kind = "key"
  <2>1. \/ EventParsed(evdev, m, event) = m
        \/ EventParsed(evdev, m, event)
             = SetButton(m, evdev.keys[event.code], event.value # 0)
    BY <1>1 DEF EventParsed
  <2>2. (event.value # 0) \in BOOLEAN
    OBVIOUS
  <2> QED BY <2>1, <2>2, SetButtonFacts
<1>2. CASE event.kind = "abs"
  <2>1. PICK v : EventParsed(evdev, m, event) = AbsProcessed(evdev, m, event.code, v)
    BY <1>2 DEF EventParsed
  <2>2. \A n, f : Shaped(n) => /\ Shaped(Bound(evdev.plus, event.code, n, f))
                               /\ Shaped(Bound(evdev.minus, event.code, n, f))
                               /\ Shaped(Bound(evdev.both, event.code, n, f))
    BY BoundShaped DEF IsEvdev
  <2> QED BY <2>1, <2>2 DEF AbsProcessed
<1> QED BY <1>1, <1>2

LEMMA EventsShaped ==
  ASSUME NEW evdev, IsEvdev(evdev), NEW m, Shaped(m),
         NEW events, IsSeq(events), \A i \in DOMAIN events : events[i].kind \in {"key", "abs"}
  PROVE  Shaped(EventsParsed(evdev, m, events))
<1> DEFINE n == Len(events)
           x == [evdev |-> evdev, events |-> events]
           f == Loop("events", x, n, m)
<1>1. \A i, y : StepOf("events", x, i, y) = EventParsed(evdev, y, events[i])
  BY DEF StepOf
<1>2. EventsParsed(evdev, m, events) = f[n]
  <2> HIDE DEF x
  <2>1. Loop("events", x, n, m) =
          CHOOSE g : g = [i \in 0..n |-> IF i = 0 THEN m ELSE EventParsed(evdev, g[i - 1], events[i])]
    BY <1>1 DEF Loop, Runs
  <2> QED BY <2>1, Zenon DEF EventsParsed
<1>3. n \in Nat /\ DOMAIN events = 1..n
  BY SeqFacts
<1>4. f[0] = m /\ \A i \in 1..n : f[i] = EventParsed(evdev, f[i - 1], events[i])
  <2> HIDE DEF n, x
  <2>1. f[0] = m /\ \A i \in 1..n : f[i] = StepOf("events", x, i, f[i - 1])
    BY <1>3, LoopSteps
  <2> HIDE DEF f
  <2> QED BY <1>1, <2>1
<1> DEFINE G == {i \in 0..n : Shaped(f[i])}
<1> HIDE DEF f
<1>5. 0 \in G
  BY <1>3, <1>4
<1>6. ASSUME NEW i \in 1..n, i - 1 \in G PROVE i \in G
  BY <1>3, <1>4, <1>6, EventShaped
<1>7. 0..n \subseteq G
  <2> HIDE DEF G, n
  <2> QED BY <1>3, <1>5, <1>6, UpTo
<1>8. n \in 0..n
  BY <1>3
<1> QED BY <1>2, <1>7, <1>8

(* Every step puts a message of the right shape through the modifiers.       *)
LEMMA StepSends ==
  ASSUME setup \in Setups, Shaped(raw), Next
  PROVE  \E m, d : Shaped(m) /\ Message(m, d)
<1>1. PICK d \in Deltas :
        \/ Timeout(d) \/ Sent(d)
        \/ \E r \in Reports[setup] : Report(r, d)
        \/ \E events \in Events[setup] : Synchronised(events, d)
  BY DEF Next
<1>2. CASE Timeout(d)
  BY <1>2 DEF Timeout
<1>3. CASE Sent(d)
  BY <1>3, SetupsAssumption, MessageShaped DEF Sent
<1>4. CASE \E r \in Reports[setup] : Report(r, d)
  BY <1>4, ParsedShaped DEF Report
<1>5. CASE \E events \in Events[setup] : Synchronised(events, d)
  <2>1. PICK events \in Events[setup] : Synchronised(events, d)
    BY <1>5
  <2> DEFINE before == IF started THEN raw ELSE Initial360
  <2>2. IsEvdev(setup.evdev) /\ IsSeq(events)
        /\ \A i \in DOMAIN events : events[i].kind \in {"key", "abs"}
    BY SetupsAssumption
  <2>3. Shaped(before)
    BY InitialShaped
  <2> HIDE DEF before
  <2>4. Shaped(EventsParsed(setup.evdev, before, events))
    BY <2>2, <2>3, EventsShaped
  <2> QED BY <2>1, <2>4 DEF Synchronised, before
<1> QED BY <1>1, <1>2, <1>3, <1>4, <1>5

-----------------------------------------------------------------------------
(* A d-pad restricted to four ways. It keeps its direction because what the *)
(* restrictor remembers, the axis it takes from a diagonal, is never the one *)
(* it shows.                                                                 *)
Alone == Restricted /\ Len(Chain) = 1

DirectionInv ==
  /\ setup \in Setups
  /\ Shaped(raw)
  /\ Alone => /\ states[1] \in DpadAxes
              /\ \A a \in DpadAxes : GetAxis(msg, a) # 0 => a # states[1]

LEMMA AloneSteps ==
  ASSUME setup \in Setups, Alone, NEW m, NEW d, Message(m, d)
  PROVE  LET r == DpadRestricted(Chain[1], states[1], m)
         IN  /\ msg' = r.msg /\ states'[1] = r.state
             /\ Chain[1].mode = "four-way"
<1> DEFINE r == DpadRestricted(Chain[1], states[1], m)
           result == Through(m, d)
           first == [msg |-> m, state |-> <<>>]
<1>1. Chain[1].kind = "dpad-restrictor" /\ Chain[1].mode = "four-way"
  BY DEF Alone, Restricted
<1>2. DOMAIN Chain = 1..1 /\ 1 \in 1..1
  BY ChainFacts DEF Alone
<1>3. result[1] = Modify(Chain[1], states[1], d, result[0].msg) /\ result[0] = first
  BY <1>2, ThroughSteps DEF Alone
<1>4. result[1] = r
  BY <1>1, <1>3 DEF Modify
<1>5. msg' = result[1].msg /\ states' = [i \in DOMAIN Chain |-> result[i].state]
  BY DEF Message, Chain, Alone
<1> HIDE DEF r, result
<1> QED BY <1>1, <1>2, <1>4, <1>5 DEF r

LEMMA DirectionStep ==
  ASSUME DirectionInv, NEW m, NEW d, Shaped(m), Message(m, d)
  PROVE  /\ DirectionInv'
         /\ Alone => /\ \E a \in DpadAxes : GetAxis(msg', a) = 0
                     /\ \A a \in DpadAxes :
                          GetAxis(msg, a) # 0 /\ GetAxis(raw', a) = GetAxis(msg, a)
                            => GetAxis(msg', a) = GetAxis(msg, a)
<1>1. setup' = setup /\ raw' = m /\ Shaped(raw') /\ setup \in Setups /\ Alone' = Alone
  BY DEF Message, DirectionInv, Alone, Restricted, Chain
<1>2. ASSUME Alone
      PROVE  /\ states'[1] \in DpadAxes
             /\ \A a \in DpadAxes : GetAxis(msg', a) # 0 => a # states'[1]
             /\ \E a \in DpadAxes : GetAxis(msg', a) = 0
             /\ \A a \in DpadAxes :
                  GetAxis(msg, a) # 0 /\ GetAxis(m, a) = GetAxis(msg, a)
                    => GetAxis(msg', a) = GetAxis(msg, a)
  <2> DEFINE last == states[1]
             x == GetAxis(m, "DPAD_X")
             y == GetAxis(m, "DPAD_Y")
             diagonal == x # 0 /\ y # 0
             n == SetAxis(m, last, 0)
  <2>1. /\ msg' = IF diagonal THEN n ELSE m
        /\ states'[1] = IF diagonal THEN last ELSE LastUnpressed(x, y, last)
    BY <1>1, <1>2, AloneSteps DEF DpadRestricted
  <2>2. last \in DpadAxes /\ \A a \in DpadAxes : GetAxis(msg, a) # 0 => a # last
    BY <1>2 DEF DirectionInv
  <2>3. GetAxis(n, last) = 0 /\ \A a \in DpadAxes \ {last} : GetAxis(n, a) = GetAxis(m, a)
    BY <2>2, CentredDpad
  <2>4. DpadAxes = {"DPAD_X", "DPAD_Y"}
    BY DEF DpadAxes
  <2> HIDE DEF last, n
  <2>5. CASE diagonal
    <3>1. msg' = n /\ states'[1] = last
      BY <2>1, <2>5
    <3> QED BY <2>2, <2>3, <3>1
  <2>6. CASE ~ diagonal
    <3>1. msg' = m /\ states'[1] = LastUnpressed(x, y, last)
      BY <2>1, <2>6
    <3> QED BY <2>2, <2>4, <2>6, <3>1 DEF LastUnpressed
  <2> QED BY <2>5, <2>6
<1> QED BY <1>1, <1>2 DEF DirectionInv

LEMMA InitDirection == Init => DirectionInv
<1> SUFFICES ASSUME Init PROVE DirectionInv
  OBVIOUS
<1>1. setup \in Setups /\ Shaped(raw) /\ msg = Blank
  BY BlankShaped DEF Init
<1>2. ASSUME Alone PROVE states[1] \in DpadAxes
  <2>1. DOMAIN Chain = 1..1 /\ 1 \in 1..1
    BY <1>1, <1>2, ChainFacts DEF Alone
  <2>2. states[1] = NewState(Chain[1])
    BY <2>1 DEF Init, Chain
  <2>3. Chain[1].kind = "dpad-restrictor"
    BY <1>2 DEF Alone, Restricted
  <2> QED BY <2>2, <2>3 DEF NewState, DpadAxes
<1>3. ASSUME NEW a \in DpadAxes PROVE GetAxis(msg, a) = 0
  <2>1. "XBOX" \in Types /\ Blank.type = "XBOX"
    BY DEF Types, Blank
  <2>2. \A b \in {Negative(a), Positive(a)} : ~ Pressed(Blank, b)
    BY <2>1, BlankShaped, DpadButtons DEF Pressed, GetButton
  <2> QED BY <1>1, <2>2, DpadAccess
<1> QED BY <1>1, <1>2, <1>3 DEF DirectionInv

(* A d-pad that is restricted to four ways never points along both axes and  *)
(* keeps its direction while the thumb slides into a diagonal and along it,  *)
(* whatever the pad and its messages (DpadRestrictorModifier::update).       *)
THEOREM DirectionStays == Spec => DirectionKept
<1>1. ASSUME DirectionInv, [Next]_vars PROVE DirectionInv'
  <2>1. CASE Next
    <3>1. PICK m, d : Shaped(m) /\ Message(m, d)
      BY <1>1, <2>1, StepSends DEF DirectionInv
    <3> QED BY <1>1, <3>1, DirectionStep
  <2>2. CASE UNCHANGED vars
    BY <1>1, <2>2 DEF DirectionInv, vars, Alone, Restricted, Chain
  <2> QED BY <1>1, <2>1, <2>2
<1>2. ASSUME DirectionInv, [Next]_vars
      PROVE  [(Restricted /\ Len(Chain) = 1) =>
                /\ \E a \in DpadAxes : GetAxis(msg', a) = 0
                /\ \A a \in DpadAxes :
                     GetAxis(msg, a) # 0 /\ GetAxis(raw', a) = GetAxis(msg, a)
                       => GetAxis(msg', a) = GetAxis(msg, a)]_vars
  <2>1. CASE Next
    <3>1. PICK m, d : Shaped(m) /\ Message(m, d)
      BY <1>2, <2>1, StepSends DEF DirectionInv
    <3> QED BY <1>2, <3>1, DirectionStep DEF Alone
  <2> QED BY <1>2, <2>1
<1> QED BY <1>1, <1>2, InitDirection, PTL DEF Spec, DirectionKept

-----------------------------------------------------------------------------
(* Button maps. *)

LEMMA FilteredSteps ==
  ASSUME NEW F, NEW S, NEW v, Len(F) \in Nat
  PROVE  /\ Filtered(F, S, v)[0] = v
         /\ \A i \in 1..Len(F) :
              Filtered(F, S, v)[i] = Filter(F[i], S[i], Filtered(F, S, v)[i - 1]).value
<1> DEFINE n == Len(F)
           x == [filters |-> F, states |-> S]
           Solved(g) == g = [i \in 0..n |-> IF i = 0 THEN v ELSE Filter(F[i], S[i], g[i - 1]).value]
<1>1. \A i, y : StepOf("button filter", x, i, y) = Filter(F[i], S[i], y).value
  BY DEF StepOf
<1>2. ASSUME NEW g, Runs(g, "button filter", x, n, v) PROVE Solved(g)
  <2> HIDE DEF x
  <2> QED BY <1>1, <1>2 DEF Runs
<1>3. \E g : Runs(g, "button filter", x, n, v)
  <2> HIDE DEF x
  <2> QED BY LoopExists
<1>4. Filtered(F, S, v) = CHOOSE g : Solved(g)
  BY DEF Filtered
<1>5. Solved(Filtered(F, S, v))
  <2> HIDE DEF Solved, x
  <2> QED BY <1>2, <1>3, <1>4
<1> DEFINE f == Filtered(F, S, v)
<1> HIDE DEF f
<1>6. \A i \in 0..n : f[i] = IF i = 0 THEN v ELSE Filter(F[i], S[i], f[i - 1]).value
  BY <1>5, Zenon DEF f
<1>7. 0 \in 0..n /\ \A i \in 1..n : i \in 0..n /\ i # 0
  OBVIOUS
<1> QED BY <1>6, <1>7 DEF f

ClearsButtons(f, maps, m) ==
  /\ f[0] = m
  /\ \A i \in 1..Len(maps) : f[i] = SetButton(f[i - 1], maps[i].lhs, FALSE)

LEMMA ClearedButtonsSteps ==
  ASSUME NEW mod, NEW m, Len(mod.maps) \in Nat
  PROVE  \E f : ClearedButtons(mod, m) = f[Len(mod.maps)] /\ ClearsButtons(f, mod.maps, m)
<1> DEFINE n == Len(mod.maps)
           x == mod.maps
           Solved(g) == g = [i \in 0..n |-> IF i = 0 THEN m ELSE SetButton(g[i - 1], x[i].lhs, FALSE)]
<1>1. ASSUME NEW g, Runs(g, "clear buttons", x, n, m) PROVE Solved(g)
  <2>1. \A i, y : StepOf("clear buttons", x, i, y) = SetButton(y, x[i].lhs, FALSE)
    BY DEF StepOf
  <2> QED BY <1>1, <2>1 DEF Runs
<1>2. \E g : Runs(g, "clear buttons", x, n, m)
  <2> HIDE DEF x
  <2> QED BY LoopExists
<1>3. ClearedButtons(mod, m) = (CHOOSE g : Solved(g))[n]
  BY DEF ClearedButtons
<1>4. PICK f : Solved(f) /\ ClearedButtons(mod, m) = f[n]
  <2> HIDE DEF Solved, x, n
  <2> QED BY <1>1, <1>2, <1>3
<1>5. \A i \in 0..n : f[i] = IF i = 0 THEN m ELSE SetButton(f[i - 1], x[i].lhs, FALSE)
  BY <1>4, Zenon
<1>6. 0 \in 0..n /\ \A i \in 1..n : i \in 0..n /\ i # 0
  OBVIOUS
<1>7. ClearsButtons(f, mod.maps, m)
  BY <1>5, <1>6 DEF ClearsButtons
<1> HIDE DEF Solved
<1> QED BY <1>4, <1>7

(* A button is still pressed unless a mapping takes it away.                 *)
LEMMA ClearedButtonsFacts ==
  ASSUME NEW mod, IsSeq(mod.maps), NEW m, Shaped(m)
  PROVE  LET new == ClearedButtons(mod, m)
         IN  /\ Shaped(new) /\ new.type = m.type
             /\ \A c : Pressed(new, c) <=>
                         Pressed(m, c) /\ \A map \in Range(mod.maps) : map.lhs # c
             /\ \A f \in Fields(m.type) \ ButtonsIn(m.type) : new.value[f] = m.value[f]
<1> DEFINE n == Len(mod.maps)
           maps == mod.maps
<1>1. n \in Nat /\ DOMAIN maps = 1..n
  BY SeqFacts
<1>2. PICK f : ClearedButtons(mod, m) = f[n] /\ ClearsButtons(f, maps, m)
  BY <1>1, ClearedButtonsSteps
<1> DEFINE After(i, new) ==
             /\ Shaped(new) /\ new.type = m.type
             /\ \A c : Pressed(new, c) <=> Pressed(m, c) /\ \A j \in 1..i : maps[j].lhs # c
             /\ \A g \in Fields(m.type) \ ButtonsIn(m.type) : new.value[g] = m.value[g]
           G == {i \in 0..n : After(i, f[i])}
<1>3. 0 \in G
  BY <1>1, <1>2 DEF ClearsButtons
<1>4. ASSUME NEW i \in 1..n, i - 1 \in G PROVE i \in G
  <2> DEFINE old == f[i - 1]
             b == maps[i].lhs
             new == SetButton(old, b, FALSE)
  <2>1. f[i] = new /\ After(i - 1, old)
    BY <1>2, <1>4 DEF ClearsButtons
  <2> HIDE DEF old, b
  <2>2. /\ Shaped(new) /\ new.type = old.type
        /\ b \in ButtonsIn(old.type) => ~ Pressed(new, b)
        /\ \A g \in Fields(old.type) \ {b} : new.value[g] = old.value[g]
    BY <2>1, SetButtonFacts
  <2>3. ~ Pressed(new, b)
    BY <2>2 DEF Pressed, GetButton
  <2>4. \A c : c # b => (Pressed(new, c) <=> Pressed(old, c))
    BY <2>1, OthersPressed
  <2>5. \A g \in Fields(m.type) \ ButtonsIn(m.type) : new.value[g] = old.value[g]
    <3>1. CASE b \in ButtonsIn(m.type)
      BY <2>1, <2>2, <3>1
    <3>2. CASE b \notin ButtonsIn(m.type)
      BY <2>1, <3>2 DEF SetButton
    <3> QED BY <3>1, <3>2
  <2> HIDE DEF new
  <2>6. \A c : (\A j \in 1..i : maps[j].lhs # c) <=> (\A j \in 1..(i - 1) : maps[j].lhs # c) /\ c # b
    BY DEF b
  <2>7. After(i, new)
    BY <2>1, <2>2, <2>3, <2>4, <2>5, <2>6
  <2> HIDE DEF After
  <2> QED BY <2>1, <2>7
<1>5. n \in G
  <2> HIDE DEF G, n
  <2>1. 0..n \subseteq G
    BY <1>1, <1>3, <1>4, UpTo
  <2> QED BY <1>1, <2>1
<1>6. After(n, ClearedButtons(mod, m))
  <2> HIDE DEF After
  <2> QED BY <1>2, <1>5
<1>7. \A c : (\A j \in 1..n : maps[j].lhs # c) <=> (\A map \in Range(maps) : map.lhs # c)
  BY <1>1 DEF Range
<1> HIDE DEF maps, n
<1> QED BY <1>6, <1>7 DEF maps

MapsButtons(f, maps, S, m, start) ==
  f[0] = start /\ \A i \in 1..Len(maps) : f[i] = ButtonStep(maps, S, m, i, f[i - 1])

LEMMA ButtonMappedSteps ==
  ASSUME NEW mod, NEW state, NEW d, NEW m, Len(mod.maps) \in Nat
  PROVE  \E f, S : /\ ButtonMapped(mod, state, d, m).msg = f[Len(mod.maps)]
                   /\ MapsButtons(f, mod.maps, S, m, ClearedButtons(mod, m))
<1> DEFINE maps == mod.maps
           n == Len(maps)
           S == [i \in DOMAIN maps |-> UpdatedFilters(maps[i].filters, state[i], d)]
           x == [maps |-> maps, states |-> S, msg |-> m]
           start == ClearedButtons(mod, m)
           Step(i, y) == SetButton(y, maps[i].rhs,
                           Filtered(maps[i].filters, S[i], Pressed(m, maps[i].lhs))
                             [Len(maps[i].filters)] \/ Pressed(y, maps[i].rhs))
           Solved(g) == g = [i \in 0..n |-> IF i = 0 THEN start ELSE Step(i, g[i - 1])]
<1>1. \A i, y : ButtonStep(maps, S, m, i, y) = Step(i, y)
  <2> HIDE DEF S, maps
  <2> QED BY DEF ButtonStep
<1>2. \A i, y : StepOf("buttons", x, i, y) = ButtonStep(maps, S, m, i, y)
  <2>1. x.maps = maps /\ x.states = S /\ x.msg = m
    OBVIOUS
  <2> HIDE DEF x, S, maps
  <2> QED BY <2>1 DEF StepOf
<1>3. ButtonMapped(mod, state, d, m).msg = (CHOOSE g : Solved(g))[n]
  BY DEF ButtonMapped, Source
<1> HIDE DEF S, start, Step
<1>4. ASSUME NEW g, Runs(g, "buttons", x, n, start) PROVE Solved(g)
  <2> HIDE DEF x
  <2> QED BY <1>1, <1>2, <1>4 DEF Runs
<1>5. \E g : Runs(g, "buttons", x, n, start)
  <2> HIDE DEF x
  <2> QED BY LoopExists
<1>6. PICK f : Solved(f) /\ ButtonMapped(mod, state, d, m).msg = f[n]
  <2> HIDE DEF Solved, x, n
  <2> QED BY <1>3, <1>4, <1>5
<1>7. \A i \in 0..n : f[i] = IF i = 0 THEN start ELSE Step(i, f[i - 1])
  BY <1>6, Zenon
<1>8. 0 \in 0..n /\ \A i \in 1..n : i \in 0..n /\ i # 0
  OBVIOUS
<1>9. MapsButtons(f, maps, S, m, start)
  BY <1>1, <1>7, <1>8 DEF MapsButtons
<1> HIDE DEF Solved
<1> QED BY <1>6, <1>9 DEF start

(* A button is pressed if it still is, or if a mapping says so.              *)
OutputOf(map, S, m) == Filtered(map.filters, S, Pressed(m, map.lhs))[Len(map.filters)]

PressedBy(new, S, mod, m) ==
  \A c \in ButtonsIn(m.type) :
    Pressed(new, c) <=>
      \/ Pressed(ClearedButtons(mod, m), c)
      \/ \E i \in DOMAIN mod.maps : mod.maps[i].rhs = c /\ OutputOf(mod.maps[i], S[i], m)

LEMMA ButtonMappedFacts ==
  ASSUME NEW mod, IsSeq(mod.maps), NEW state, NEW d, NEW m, Shaped(m)
  PROVE  LET new == ButtonMapped(mod, state, d, m).msg
         IN  /\ Shaped(new) /\ new.type = m.type
             /\ \E S : PressedBy(new, S, mod, m)
             /\ \A f \in Fields(m.type) \ ButtonsIn(m.type) : new.value[f] = m.value[f]
<1> DEFINE n == Len(mod.maps)
           maps == mod.maps
           start == ClearedButtons(mod, m)
<1>1. n \in Nat /\ DOMAIN maps = 1..n
  BY SeqFacts
<1>2. PICK f, S : /\ ButtonMapped(mod, state, d, m).msg = f[n]
                  /\ MapsButtons(f, maps, S, m, start)
  BY <1>1, ButtonMappedSteps
<1>3. /\ Shaped(start) /\ start.type = m.type
      /\ \A g \in Fields(m.type) \ ButtonsIn(m.type) : start.value[g] = m.value[g]
  BY ClearedButtonsFacts
<1> DEFINE Out(i) == OutputOf(maps[i], S[i], m)
           After(i, new) ==
             /\ Shaped(new) /\ new.type = m.type
             /\ \A c \in ButtonsIn(m.type) :
                  Pressed(new, c) <=>
                    Pressed(start, c) \/ \E j \in 1..i : maps[j].rhs = c /\ Out(j)
             /\ \A g \in Fields(m.type) \ ButtonsIn(m.type) : new.value[g] = m.value[g]
           G == {i \in 0..n : After(i, f[i])}
<1> HIDE DEF start
<1>4. 0 \in G
  BY <1>1, <1>2, <1>3 DEF MapsButtons
<1>5. ASSUME NEW i \in 1..n, i - 1 \in G PROVE i \in G
  <2> DEFINE old == f[i - 1]
             b == maps[i].rhs
             v == Out(i) \/ Pressed(old, b)
             new == SetButton(old, b, v)
  <2>1. After(i - 1, old)
    BY <1>5
  <2>2. f[i] = new
    BY <1>2 DEF MapsButtons, ButtonStep, OutputOf
  <2>3. v \in BOOLEAN
    OBVIOUS
  <2> HIDE DEF old, b, v
  <2>4. /\ Shaped(new) /\ new.type = old.type
        /\ b \in ButtonsIn(old.type) => (Pressed(new, b) <=> v)
        /\ \A g \in Fields(old.type) \ {b} : new.value[g] = old.value[g]
    BY <2>1, <2>3, SetButtonFacts
  <2>5. \A c : c # b => (Pressed(new, c) <=> Pressed(old, c))
    BY <2>1, <2>3, OthersPressed
  <2>6. \A g \in Fields(m.type) \ ButtonsIn(m.type) : new.value[g] = old.value[g]
    <3>1. CASE b \in ButtonsIn(m.type)
      BY <2>1, <2>4, <3>1
    <3>2. CASE b \notin ButtonsIn(m.type)
      BY <2>1, <3>2 DEF SetButton
    <3> QED BY <3>1, <3>2
  <2> HIDE DEF new, Out
  <2>7. \A c : (\E j \in 1..i : maps[j].rhs = c /\ Out(j))
               <=> (\E j \in 1..(i - 1) : maps[j].rhs = c /\ Out(j)) \/ (c = b /\ Out(i))
    <3>1. 1..i = (1..(i - 1)) \cup {i}
      BY <1>1
    <3> QED BY <3>1 DEF b
  <2>8. \A c \in ButtonsIn(m.type) :
          Pressed(new, c) <=> Pressed(old, c) \/ (c = b /\ Out(i))
    BY <2>1, <2>4, <2>5 DEF v
  <2>9. After(i, new)
    BY <2>1, <2>4, <2>6, <2>7, <2>8
  <2> HIDE DEF After
  <2> QED BY <2>2, <2>9
<1>6. n \in G
  <2> HIDE DEF G, n
  <2>1. 0..n \subseteq G
    BY <1>1, <1>4, <1>5, UpTo
  <2> QED BY <1>1, <2>1
<1>7. After(n, ButtonMapped(mod, state, d, m).msg)
  <2> HIDE DEF After
  <2> QED BY <1>2, <1>6
<1> HIDE DEF n, Out
<1>8. PressedBy(ButtonMapped(mod, state, d, m).msg, S, mod, m)
  BY <1>1, <1>7 DEF Out, PressedBy, start
<1> QED BY <1>7, <1>8

(* A single modifier makes of a message what goes out. *)
LEMMA SingleModifier ==
  ASSUME setup \in Setups, Len(Chain) = 1, NEW m, NEW d, Message(m, d)
  PROVE  /\ DOMAIN Chain = {1} /\ IsModifier(Chain[1])
         /\ raw' = m /\ setup' = setup
         /\ msg' = Modify(Chain[1], states[1], d, m).msg
<1> DEFINE result == Through(m, d)
           first == [msg |-> m, state |-> <<>>]
<1>1. DOMAIN Chain = {1} /\ IsModifier(Chain[1])
  BY ChainFacts
<1>2. result[1] = Modify(Chain[1], states[1], d, result[0].msg) /\ result[0] = first
  BY ThroughSteps
<1>3. msg' = result[1].msg /\ raw' = m /\ setup' = setup
  BY DEF Message, Chain
<1> HIDE DEF result
<1> QED BY <1>1, <1>2, <1>3

RemapInv == setup \in Setups /\ Shaped(raw) /\ ButtonsRemapped

LEMMA InitRemap == Init => RemapInv
<1> SUFFICES ASSUME Init PROVE RemapInv
  OBVIOUS
<1>1. setup \in Setups /\ Shaped(raw) /\ msg = Blank /\ raw = Blank
  BY BlankShaped DEF Init
<1>2. Blank.type = "XBOX"
  BY DEF Blank
<1>3. \A b : ~ Pressed(Blank, b)
  BY <1>2, BlankShaped DEF Pressed, GetButton, Fields
<1> QED BY <1>1, <1>3 DEF RemapInv, ButtonsRemapped

LEMMA RemapStep ==
  ASSUME RemapInv, NEW m, NEW d, Shaped(m), Message(m, d)
  PROVE  RemapInv'
<1>1. setup' = setup /\ raw' = m /\ setup \in Setups
  BY DEF Message, RemapInv
<1>2. ASSUME Len(Chain) = 1, Kinds = {"buttonmap"}, FilterKindsOf("buttonmap") = {},
             NEW b \in ButtonsIn(m.type)
      PROVE  Pressed(msg', b) <=>
               \/ \E map \in Maps("buttonmap") : map.rhs = b /\ Pressed(m, map.lhs)
               \/ Pressed(m, b) /\ \A map \in Maps("buttonmap") : map.lhs # b
  <2> DEFINE mod == Chain[1]
             maps == mod.maps
             state == states[1]
  <2>1. DOMAIN Chain = {1} /\ IsModifier(mod) /\ msg' = Modify(mod, state, d, m).msg
    BY <1>1, <1>2, SingleModifier
  <2>2. mod.kind = "buttonmap"
    BY <1>2, <2>1 DEF Kinds
  <2>3. IsSeq(maps) /\ \A i \in DOMAIN maps : IsSeq(maps[i].filters)
    BY <2>1, <2>2 DEF IsModifier
  <2>4. Maps("buttonmap") = Range(maps)
    BY <2>1, <2>2 DEF Maps
  <2>5. \A map \in Range(maps) : map \in Maps("buttonmap") /\ Range(map.filters) = {}
    <3> SUFFICES ASSUME NEW map \in Range(maps), NEW f \in Range(map.filters) PROVE FALSE
      BY <2>4
    <3>1. map \in Maps("buttonmap")
      BY <2>4
    <3> DEFINE K(x) == {y.kind : y \in Range(x.filters)}
    <3>2. f.kind \in K(map)
      OBVIOUS
    <3>3. UNION {K(x) : x \in Maps("buttonmap")} = {}
      BY <1>2 DEF FilterKindsOf
    <3> HIDE DEF K
    <3> QED BY <3>1, <3>2, <3>3
  <2>6. msg' = ButtonMapped(mod, state, d, m).msg
    BY <2>1, <2>2 DEF Modify
  <2>7. PICK S : PressedBy(msg', S, mod, m)
    <3> HIDE DEF mod, state
    <3> QED BY <2>3, <2>6, ButtonMappedFacts
  <2>8. ASSUME NEW i \in DOMAIN maps PROVE OutputOf(maps[i], S[i], m) = Pressed(m, maps[i].lhs)
    <3> DEFINE F == maps[i].filters
    <3>1. Range(F) = {} /\ IsSeq(F)
      BY <2>3, <2>5 DEF Range
    <3>2. Len(F) = 0
      <4> HIDE DEF F
      <4> QED BY <3>1, SeqFacts DEF Range
    <3> HIDE DEF F
    <3>3. Filtered(F, S[i], Pressed(m, maps[i].lhs))[0] = Pressed(m, maps[i].lhs)
      BY <3>2, FilteredSteps
    <3> QED BY <3>2, <3>3 DEF OutputOf, F
  <2>9. Pressed(ClearedButtons(mod, m), b) <=>
          Pressed(m, b) /\ \A map \in Range(maps) : map.lhs # b
    <3> HIDE DEF mod
    <3> QED BY <2>3, ClearedButtonsFacts
  <2>10. (\E i \in DOMAIN maps : maps[i].rhs = b /\ Pressed(m, maps[i].lhs))
           <=> \E map \in Range(maps) : map.rhs = b /\ Pressed(m, map.lhs)
    BY DEF Range
  <2>11. Pressed(msg', b) <=>
           \/ Pressed(ClearedButtons(mod, m), b)
           \/ \E i \in DOMAIN maps : maps[i].rhs = b /\ OutputOf(maps[i], S[i], m)
    <3> HIDE DEF mod
    <3> QED BY <1>2, <2>7 DEF PressedBy
  <2> HIDE DEF mod, maps, state
  <2> QED BY <1>2, <2>4, <2>8, <2>9, <2>10, <2>11
<1>3. ButtonsRemapped'
  <2>1. Chain' = Chain /\ Kinds' = Kinds
        /\ FilterKindsOf("buttonmap")' = FilterKindsOf("buttonmap")
        /\ Maps("buttonmap")' = Maps("buttonmap")
    BY <1>1 DEF Chain, Kinds, FilterKindsOf, Maps
  <2> QED BY <1>1, <1>2, <2>1 DEF ButtonsRemapped
<1> QED BY <1>1, <1>3 DEF RemapInv

(* A button map without filters presses exactly the buttons to which one of  *)
(* the held ones is mapped and those it does not know, however many mappings *)
(* it has and whatever they swap or share (ButtonmapModifier::update).       *)
THEOREM ButtonMapsExact == Spec => []ButtonsRemapped
<1>1. ASSUME RemapInv, [Next]_vars PROVE RemapInv'
  <2>1. CASE Next
    <3>1. PICK m, d : Shaped(m) /\ Message(m, d)
      BY <1>1, <2>1, StepSends DEF RemapInv
    <3> QED BY <1>1, <3>1, RemapStep
  <2>2. CASE UNCHANGED vars
    BY <1>1, <2>2 DEF RemapInv, vars, ButtonsRemapped, Chain, Kinds, FilterKindsOf, Maps
  <2> QED BY <1>1, <2>1, <2>2
<1>2. RemapInv => ButtonsRemapped
  BY DEF RemapInv
<1> QED BY <1>1, <1>2, InitRemap, PTL DEF Spec

-----------------------------------------------------------------------------
(* A pad at rest: the numbers that 0 becomes.                                *)

LEMMA BitFacts ==
  /\ Half8 \in Nat /\ Half8 >= 2 /\ Top8 = 2 * Half8 - 1 /\ 2^Bits8 = 2 * Half8
  /\ Half16 \in Nat /\ Half16 >= 2 /\ 2^Bits16 = 2 * Half16
BY BitsAssumption DEF Half8, Half16, Top8

LEMMA QuotientFacts ==
  ASSUME NEW n \in Int, NEW d \in Nat, d > 0
  PROVE  /\ Quotient(n, d) \in Int
         /\ n >= 0 => Quotient(n, d) >= 0
         /\ n <= 0 => Quotient(n, d) <= 0
         /\ Quotient(0, d) = 0 /\ Quotient(d, d) = 1 /\ Quotient(-d, d) = -1
         /\ n >= d => Quotient(n, d) >= 1
<1>1. \A k \in Nat : k \div d \in Int /\ k \div d >= 0
  OBVIOUS
<1>2. 0 \div d = 0 /\ d \div d = 1
  OBVIOUS
<1>3. n >= d => n \div d >= 1
  OBVIOUS
<1>4. Magnitude(d) = d /\ Magnitude(-d) = d /\ Magnitude(0) = 0 /\ Magnitude(n) \in Nat
      /\ (n >= 0 => Magnitude(n) = n)
  BY DEF Magnitude
<1>5. ~ (d < 0) /\ -d < 0
  OBVIOUS
<1> DEFINE q == Magnitude(n) \div d
<1>6. q \in Int /\ q >= 0
  BY <1>1, <1>4
<1>7. Quotient(n, d) = IF n < 0 THEN -q ELSE q
  BY <1>4, <1>5 DEF Quotient
<1>8. n = 0 => q = 0
  BY <1>2, <1>4
<1>9. n >= d => q >= 1
  BY <1>3, <1>4
<1>10. Quotient(0, d) = 0 /\ Quotient(d, d) = 1 /\ Quotient(-d, d) = -1
  BY <1>2, <1>4, <1>5 DEF Quotient
<1> HIDE DEF q
<1> QED BY <1>6, <1>7, <1>8, <1>9, <1>10

(* A float has the sign of its numerator.                                    *)
LEMMA FloatFacts ==
  ASSUME NEW n \in Int, NEW d \in Nat, d > 0
  PROVE  LET f == Float(n, d)
         IN  /\ f[1] \in Int /\ f[2] \in Nat /\ f[2] > 0
             /\ f[1] < 0 => n < 0
             /\ f[1] > 0 => n > 0
             /\ f = <<f[1], f[2]>>
             /\ n = 0 => f = Zero
             /\ n = -d => f = <<-1, 1>>
             /\ n = d => f = <<1, 1>>
<1> DEFINE m == Magnitude(n)
           T == {k \in 1..Magnitude(d) : m % k = 0 /\ d % k = 0}
           g == IF n = 0 THEN Magnitude(d) ELSE Max(T)
<1>1. Magnitude(d) = d /\ ~ (d < 0) /\ m \in Nat
  BY DEF Magnitude
<1>2. Float(n, d) = <<1 * Quotient(n, g), 1 * Quotient(d, g)>>
  <2> HIDE DEF g
  <2>1. Float(n, d) = <<(IF d < 0 THEN -1 ELSE 1) * Quotient(n, g),
                        (IF d < 0 THEN -1 ELSE 1) * Quotient(d, g)>>
    BY DEF Float, g
  <2> QED BY <1>1, <2>1
<1>3. n # 0 => Max(T) \in T /\ \A y \in T : y <= Max(T)
  <2>1. m % 1 = 0 /\ d % 1 = 0 /\ 1 \in 1..Magnitude(d)
    BY <1>1
  <2>2. 1 \in T /\ T \in SUBSET Int /\ \A y \in T : y <= d
    BY <1>1, <2>1
  <2> HIDE DEF T
  <2> QED BY <2>2, MaxFacts
<1>4. g \in 1..d
  BY <1>1, <1>3
<1>5. n = -d \/ n = d => g = d
  <2>1. n = -d \/ n = d => m = d /\ n # 0
    BY DEF Magnitude
  <2>2. d % d = 0
    OBVIOUS
  <2>3. n = -d \/ n = d => d \in T
    BY <1>1, <2>1, <2>2
  <2> QED BY <1>3, <1>4, <2>1, <2>3
<1>6. n = 0 => g = d
  BY <1>1
<1> HIDE DEF g, m, T
<1>7. /\ Quotient(n, g) \in Int /\ Quotient(d, g) \in Int /\ Quotient(d, g) >= 1
      /\ n >= 0 => Quotient(n, g) >= 0
      /\ n <= 0 => Quotient(n, g) <= 0
  <2>1. g \in Nat /\ g > 0 /\ d >= g
    BY <1>4
  <2>2. Quotient(n, g) \in Int /\ (n >= 0 => Quotient(n, g) >= 0)
        /\ (n <= 0 => Quotient(n, g) <= 0)
    BY <2>1, QuotientFacts
  <2>3. Quotient(d, g) \in Int /\ Quotient(d, g) >= 1
    BY <2>1, QuotientFacts
  <2> QED BY <2>2, <2>3
<1>8. /\ n = 0 => Quotient(n, g) = 0 /\ Quotient(d, g) = 1
      /\ n = -d => Quotient(n, g) = -1 /\ Quotient(d, g) = 1
      /\ n = d => Quotient(n, g) = 1 /\ Quotient(d, g) = 1
  BY <1>5, <1>6, QuotientFacts
<1> DEFINE a == Quotient(n, g)
           b == Quotient(d, g)
<1>9. Float(n, d) = <<a, b>>
  BY <1>2, <1>7
<1> HIDE DEF a, b
<1>10. /\ a \in Int /\ b \in Nat /\ b > 0 /\ (n >= 0 => a >= 0) /\ (n <= 0 => a <= 0)
       /\ n = 0 => a = 0 /\ b = 1
       /\ n = -d => a = -1 /\ b = 1
       /\ n = d => a = 1 /\ b = 1
  BY <1>7, <1>8 DEF a, b
<1> QED BY <1>9, <1>10 DEF Zero

LEMMA KeptZero ==
  ASSUME NEW t \in Types, NEW f \in Fields(t)
  PROVE  Kept(t, f, 0) = 0
<1>1. CASE Signed(t, f)
  <2>1. (0 + Half16) % (2 * Half16) = Half16
    BY BitFacts
  <2> QED BY <1>1, <2>1, BitFacts DEF Kept
<1>2. CASE ~ Signed(t, f)
  <2>1. Width(t, f) \in {Bits8, Bits16, 1}
    BY DEF Width
  <2>2. 2^1 = 2
    OBVIOUS
  <2>3. 2^Width(t, f) \in Nat /\ 2^Width(t, f) > 0
    <3>1. CASE Width(t, f) = Bits8
      BY <3>1, BitFacts
    <3>2. CASE Width(t, f) = Bits16
      BY <3>2, BitFacts
    <3>3. CASE Width(t, f) = 1
      BY <3>3, <2>2
    <3> QED BY <2>1, <3>1, <3>2, <3>3
  <2>4. \A w \in Nat : w > 0 => 0 % w = 0
    OBVIOUS
  <2> QED BY <1>2, <2>3, <2>4 DEF Kept
<1> QED BY <1>1, <1>2

(* A pad with signed sticks: what says how hard a button is pressed has a    *)
(* field of its own, for the triggers that of the button.                    *)
LEMMA PressureFields ==
  ASSUME NEW t \in Types, t # "PS3USB"
  PROVE  /\ \A a \in DOMAIN PressureField[t] :
              PressureField[t][a] \in Buttons \ Dpad /\ a \in Pressures
         /\ {"LT", "RT"} \subseteq DOMAIN PressureField[t]
         /\ PressureField[t]["LT"] = "LT" /\ PressureField[t]["RT"] = "RT"
         /\ \A a, b \in DOMAIN PressureField[t] :
              PressureField[t][a] = PressureField[t][b] => a = b
         /\ Buttons \cap Sticks = {}
<1>1. Buttons \cap Sticks = {}
  BY DEF Buttons, Dpad, Sticks
<1>2. CASE t = "XBOX360"
  <2>1. PressureField[t] = [a \in {"LT", "RT"} |-> a]
    BY <1>2 DEF PressureField, Types
  <2> QED BY <1>1, <2>1 DEF Buttons, Dpad, Pressures
<1>3. CASE t = "XBOX"
  <2>1. PressureField[t] = [LT |-> "LT", RT |-> "RT", BTN_A |-> "A", BTN_B |-> "B",
                            BTN_X |-> "X", BTN_Y |-> "Y", BLACK |-> "RB", WHITE |-> "LB"]
    BY <1>3 DEF PressureField, Types
  <2> DEFINE p == PressureField[t]
  <2>2. /\ DOMAIN p = {"LT", "RT", "BTN_A", "BTN_B", "BTN_X", "BTN_Y", "BLACK", "WHITE"}
        /\ p["LT"] = "LT" /\ p["RT"] = "RT" /\ p["BTN_A"] = "A" /\ p["BTN_B"] = "B"
        /\ p["BTN_X"] = "X" /\ p["BTN_Y"] = "Y" /\ p["BLACK"] = "RB" /\ p["WHITE"] = "LB"
    BY <2>1
  <2> HIDE DEF p
  <2> QED BY <1>1, <2>2 DEF p, Buttons, Dpad, Pressures
<1> QED BY <1>2, <1>3 DEF Types

LEMMA KeptByte ==
  ASSUME NEW t \in Types, t # "PS3USB", NEW f \in Bytes(t), NEW v \in Int
  PROVE  Kept(t, f, v) \in Nat
<1>1. f \notin Sticks
  BY PressureFields DEF Bytes, Range
<1>2. Kept(t, f, v) = v % 2^Bits8
  BY <1>1 DEF Kept, Signed, Width
<1> QED BY <1>2, BitFacts

LEMMA UnitZero == Unit(Zero) = Zero /\ Unit(<<-1, 1>>) = <<-1, 1>>
<1>1. ~ (0 > 1) /\ ~ (0 < -1) /\ ~ (-1 > 1) /\ ~ (-1 < -1)
  OBVIOUS
<1> QED BY <1>1 DEF Unit, Zero

LEMMA FloatsOfRest ==
  /\ FloatToStick(Zero) = 0
  /\ FloatToByte(Zero) \in Int
  /\ FloatToByte(<<-1, 1>>) = 0
  /\ StickToFloat(0) = Zero
<1>1. Zero[1] = 0 /\ Zero[2] = 1
  BY DEF Zero
<1>2. FloatToStick(Zero) = 0
  <2>1. Times(Zero, <<Half16 - 1, 1>>) = Float(0, 1)
    <3>1. 0 * (Half16 - 1) = 0 /\ 1 * 1 = 1
      BY BitFacts
    <3> QED BY <1>1, <3>1 DEF Times
  <2>2. Float(0, 1) = Zero
    BY FloatFacts
  <2>3. Quotient(0, 1) = 0
    BY QuotientFacts
  <2>4. 0 >= 0
    OBVIOUS
  <2> QED BY <1>1, <2>1, <2>2, <2>3, <2>4, UnitZero DEF FloatToStick, Truncated
<1>3. FloatToByte(Zero) \in Int
  <2>1. FloatToByte(Zero) = Quotient((0 + 1) * Top8, 2 * 1)
    BY <1>1, UnitZero DEF FloatToByte
  <2>2. (0 + 1) * Top8 \in Int /\ 2 * 1 \in Nat /\ 2 * 1 > 0
    BY BitFacts
  <2> QED BY <2>1, <2>2, QuotientFacts
<1>4. FloatToByte(<<-1, 1>>) = 0
  <2>1. FloatToByte(<<-1, 1>>) = Quotient((-1 + 1) * Top8, 2 * 1)
    BY UnitZero DEF FloatToByte
  <2>2. (-1 + 1) * Top8 = 0 /\ 2 * 1 = 2
    BY BitFacts
  <2>3. Quotient(0, 2) = 0
    BY QuotientFacts
  <2> QED BY <2>1, <2>2, <2>3
<1>5. StickToFloat(0) = Zero
  <2>1. StickToFloat(0) = Float(0, Half16 - 1)
    BY DEF StickToFloat
  <2>2. Half16 - 1 \in Nat /\ Half16 - 1 > 0
    BY BitFacts
  <2> DEFINE d == Half16 - 1
  <2> HIDE DEF d
  <2>3. Float(0, d) = Zero
    BY <2>2, FloatFacts DEF d
  <2> QED BY <2>1, <2>3 DEF d
<1> QED BY <1>2, <1>3, <1>4, <1>5

(* The value an axis rests at passes its mapping.                            *)
LEMMA AxisValuesSteps ==
  ASSUME NEW F, NEW S, NEW v, NEW min, NEW max, Len(F) \in Nat
  PROVE  /\ AxisValues(F, S, v, min, max)[0] = v
         /\ \A i \in 1..Len(F) :
              AxisValues(F, S, v, min, max)[i]
                = AxisFiltered(F[i], S[i], AxisValues(F, S, v, min, max)[i - 1], min, max)
<1> DEFINE n == Len(F)
           x == [filters |-> F, states |-> S, min |-> min, max |-> max]
           Solved(g) ==
             g = [i \in 0..n |-> IF i = 0 THEN v
                                 ELSE AxisFiltered(F[i], S[i], g[i - 1], min, max)]
<1>1. \A i, y : StepOf("axis filter", x, i, y) = AxisFiltered(F[i], S[i], y, min, max)
  <2>1. x.filters = F /\ x.states = S /\ x.min = min /\ x.max = max
    OBVIOUS
  <2> HIDE DEF x
  <2> QED BY <2>1 DEF StepOf
<1>2. ASSUME NEW g, Runs(g, "axis filter", x, n, v) PROVE Solved(g)
  <2> HIDE DEF x
  <2> QED BY <1>1, <1>2 DEF Runs
<1>3. \E g : Runs(g, "axis filter", x, n, v)
  <2> HIDE DEF x
  <2> QED BY LoopExists
<1>4. AxisValues(F, S, v, min, max) = CHOOSE g : Solved(g)
  BY DEF AxisValues
<1>5. Solved(AxisValues(F, S, v, min, max))
  <2> HIDE DEF Solved, x
  <2> QED BY <1>2, <1>3, <1>4
<1> DEFINE f == AxisValues(F, S, v, min, max)
<1> HIDE DEF f
<1>6. \A i \in 0..n : f[i] = IF i = 0 THEN v ELSE AxisFiltered(F[i], S[i], f[i - 1], min, max)
  BY <1>5, Zenon DEF f
<1>7. 0 \in 0..n /\ \A i \in 1..n : i \in 0..n /\ i # 0
  OBVIOUS
<1> QED BY <1>6, <1>7 DEF f

LEMMA CentreOf ==
  ASSUME NEW a \in Axes
  PROVE  /\ AxisMin(a) \in Int /\ AxisMax(a) \in Nat /\ AxisMax(a) > 0
         /\ a \notin Pressures => Center(AxisMin(a), AxisMax(a)) = 0
         /\ a \in Pressures => AxisMin(a) = 0 /\ AxisMax(a) = Top8 /\ Center(0, Top8) = Half8
<1>1. Quotient(0, 2) = 0 /\ Quotient(1, 2) = 0 /\ Quotient(2 * Half8, 2) = Half8
  <2>1. Magnitude(0) = 0 /\ Magnitude(1) = 1 /\ Magnitude(2) = 2 /\ Magnitude(2 * Half8) = 2 * Half8
    BY BitFacts DEF Magnitude
  <2>2. 0 \div 2 = 0 /\ 1 \div 2 = 0 /\ (2 * Half8) \div 2 = Half8
    BY BitFacts
  <2>3. ~ (0 < 0) /\ ~ (1 < 0) /\ ~ (2 < 0) /\ ~ (2 * Half8 < 0)
    BY BitFacts
  <2> QED BY <2>1, <2>2, <2>3 DEF Quotient
<1>2. CASE a \in DpadAxes
  <2>1. AxisMin(a) = -1 /\ AxisMax(a) = 1
    BY <1>2, DpadAccess
  <2>2. Center(-1, 1) = Quotient(1 + (-1) + 1, 2) /\ 1 + (-1) + 1 = 1
    BY DEF Center
  <2> QED BY <1>1, <1>2, <2>1, <2>2, AxisKinds
<1>3. CASE a = "TRIGGER"
  <2>1. AxisMin(a) = -Top8 /\ AxisMax(a) = Top8
    BY <1>3, TriggerAccess
  <2>2. Center(-Top8, Top8) = Quotient(Top8 + (-Top8) + 1, 2) /\ Top8 + (-Top8) + 1 = 1
    BY BitFacts DEF Center
  <2> QED BY <1>1, <1>3, <2>1, <2>2, AxisKinds, BitFacts
<1>4. CASE a \in Sticks
  <2>1. AxisMin(a) = -Half16 /\ AxisMax(a) = Half16 - 1
    BY <1>4, StickAccess
  <2>2. /\ Center(-Half16, Half16 - 1) = Quotient((Half16 - 1) + (-Half16) + 1, 2)
        /\ (Half16 - 1) + (-Half16) + 1 = 0
    BY BitFacts DEF Center
  <2> QED BY <1>1, <1>4, <2>1, <2>2, AxisKinds, BitFacts
<1>5. CASE a \in Pressures
  <2>1. AxisMin(a) = 0 /\ AxisMax(a) = Top8
    BY <1>5, PressureAccess
  <2>2. Center(0, Top8) = Quotient(Top8 + 0 + 1, 2) /\ Top8 + 0 + 1 = 2 * Half8
    BY BitFacts DEF Center
  <2> QED BY <1>1, <1>5, <2>1, <2>2, BitFacts
<1> QED BY <1>2, <1>3, <1>4, <1>5 DEF Axes

LEMMA FloatOfRest ==
  ASSUME NEW a \in Axes
  PROVE  ToFloat(0, AxisMin(a), AxisMax(a)) = IF a \in Pressures THEN <<-1, 1>> ELSE Zero
<1>1. CASE a \notin Pressures
  <2> DEFINE d == AxisMax(a)
  <2>1. d \in Nat /\ d > 0 /\ Center(AxisMin(a), d) = 0
    BY <1>1, CentreOf
  <2>2. ToFloatUnchecked(0, AxisMin(a), d) = Float(0 - 0, d - 0) /\ 0 - 0 = 0 /\ d - 0 = d
    BY <2>1 DEF ToFloatUnchecked
  <2> HIDE DEF d
  <2>3. Float(0, d) = Zero
    <3>1. \A n \in Int : n = 0 => Float(n, d) = Zero
      BY <2>1, FloatFacts
    <3> QED BY <3>1
  <2> QED BY <1>1, <2>2, <2>3, UnitZero DEF ToFloat, d
<1>2. CASE a \in Pressures
  <2>1. /\ AxisMin(a) = 0 /\ AxisMax(a) = Top8 /\ Center(0, Top8) = Half8
        /\ 0 < Half8 /\ 0 - Half8 = -Half8 /\ Half8 - 0 = Half8
    BY <1>2, CentreOf, BitFacts
  <2>2. ToFloatUnchecked(0, 0, Top8) = Float(-Half8, Half8)
    BY <2>1 DEF ToFloatUnchecked
  <2>3. Float(-Half8, Half8) = <<-1, 1>>
    <3>1. Half8 \in Nat /\ Half8 > 0 /\ -Half8 \in Int
      BY BitFacts
    <3> QED BY <3>1, FloatFacts
  <2> QED BY <1>2, <2>1, <2>2, <2>3, UnitZero DEF ToFloat
<1> QED BY <1>1, <1>2

LEMMA InvertedRest ==
  ASSUME NEW a \in Axes \ Pressures
  PROVE  Inverted(0, AxisMin(a), AxisMax(a)) = 0
<1>1. Center(AxisMin(a), AxisMax(a)) = 0
  BY CentreOf
<1>2. ~ (0 < 0) /\ ~ (0 > 0)
  OBVIOUS
<1> QED BY <1>1, <1>2 DEF Inverted

LEMMA FilteredRest ==
  ASSUME NEW map, map.lhs \in Axes, KeepsRest(map), IsSeq(map.filters), NEW S,
         \A f \in Range(map.filters) : IsAxisFilter(f)
  PROVE  AxisValues(map.filters, S, 0, AxisMin(map.lhs), AxisMax(map.lhs))[Len(map.filters)] = 0
<1> DEFINE F == map.filters
           n == Len(F)
           min == AxisMin(map.lhs)
           max == AxisMax(map.lhs)
           f == AxisValues(F, S, 0, min, max)
           G == {i \in 0..n : f[i] = 0}
<1>1. n \in Nat /\ \A i \in 1..n : F[i] \in Range(F)
  BY SeqFacts
<1>2. f[0] = 0 /\ \A i \in 1..n : f[i] = AxisFiltered(F[i], S[i], f[i - 1], min, max)
  <2> HIDE DEF F, min, max
  <2> QED BY <1>1, AxisValuesSteps
<1>3. ASSUME NEW i \in 1..n PROVE AxisFiltered(F[i], S[i], 0, min, max) = 0
  <2>1. AboutZero(F[i]) \/ (F[i].kind = "invert" /\ map.lhs \notin Pressures)
    BY <1>1 DEF KeepsRest
  <2>2. CASE AboutZero(F[i])
    <3> DEFINE g == F[i]
    <3>1. g.kind = "deadzone" /\ g.from \in Int /\ g.to \in Int /\ g.from <= 0 /\ g.to >= 0
      BY <1>1, <2>2 DEF AboutZero, IsAxisFilter
    <3>2. Deadzone(F[i], 0, min, max) = 0
      <4> HIDE DEF g
      <4>1. Deadzone(g, 0, min, max) = 0
        BY <3>1 DEF Deadzone
      <4> QED BY <4>1 DEF g
    <3> QED BY <3>1, <3>2 DEF AxisFiltered
  <2>3. CASE F[i].kind = "invert" /\ map.lhs \notin Pressures
    BY <2>3, InvertedRest DEF AxisFiltered
  <2> QED BY <2>1, <2>2, <2>3
<1> HIDE DEF f
<1>4. 0 \in G
  BY <1>1, <1>2
<1>5. ASSUME NEW i \in 1..n, i - 1 \in G PROVE i \in G
  BY <1>1, <1>2, <1>3, <1>5
<1>6. 0..n \subseteq G
  <2> HIDE DEF G, n
  <2> QED BY <1>1, <1>4, <1>5, UpTo
<1>7. n \in 0..n
  BY <1>1
<1> QED BY <1>6, <1>7 DEF f

-----------------------------------------------------------------------------
(* An axis map clears the axes it reads before it sets those it writes, and  *)
(* a pressure that is cleared is half one. In between, the fields in Q still *)
(* wait for their mapping, and all others are at rest.                       *)
Waiting(m, t, Q) ==
  /\ Shaped(m) /\ m.type = t
  /\ \A f \in Fields(t) : IF f \in Q THEN m.value[f] \in Nat ELSE m.value[f] = 0

LEMMA WaitingPressure ==
  ASSUME NEW t \in Types, t # "PS3USB", NEW Q, NEW m, Waiting(m, t, Q), NEW a, NEW v \in Int,
         v = 0 \/ (a \in DOMAIN PressureField[t] => PressureField[t][a] \in Q)
  PROVE  /\ Waiting(SetPressure(m, a, v), t, Q)
         /\ v = 0 /\ a \in DOMAIN PressureField[t] =>
              Waiting(SetPressure(m, a, v), t, Q \ {PressureField[t][a]})
<1> DEFINE n == SetPressure(m, a, v)
           p == PressureField[t][a]
<1>1. /\ Shaped(n) /\ n.type = t
      /\ \A f \in Fields(t) :
           n.value[f] = m.value[f] \/ (a \in DOMAIN PressureField[t] /\ f = p)
      /\ a \in DOMAIN PressureField[t] =>
           p \in Bytes(t) \cap Fields(t) /\ n.value[p] = Kept(t, p, v)
  BY SetPressureFacts DEF Waiting
<1> HIDE DEF n, p
<1>2. a \in DOMAIN PressureField[t] => n.value[p] \in Nat /\ (v = 0 => n.value[p] = 0)
  BY <1>1, KeptByte, KeptZero
<1>3. v = 0 \/ (a \in DOMAIN PressureField[t] => p \in Q)
  BY DEF p
<1>4. \A f \in Fields(t) : IF f \in Q THEN m.value[f] \in Nat ELSE m.value[f] = 0
  BY DEF Waiting
<1>5. Waiting(n, t, Q)
  BY <1>1, <1>2, <1>3, <1>4 DEF Waiting
<1>6. v = 0 /\ a \in DOMAIN PressureField[t] => Waiting(n, t, Q \ {p})
  BY <1>1, <1>2, <1>4 DEF Waiting
<1> QED BY <1>5, <1>6 DEF n, p

LEMMA WaitingTrigger ==
  ASSUME NEW t \in Types, t # "PS3USB", NEW Q, NEW m, Waiting(m, t, Q),
         NEW l \in Int, NEW r \in Int, l = 0 \/ "LT" \in Q, r = 0 \/ "RT" \in Q
  PROVE  Waiting(SetTrigger(m, l, r), t, Q)
<1>1. PressureField[t]["LT"] = "LT" /\ PressureField[t]["RT"] = "RT"
  BY PressureFields
<1> DEFINE n == SetPressure(m, "LT", l)
<1>2. Waiting(n, t, Q)
  BY <1>1, WaitingPressure
<1> HIDE DEF n
<1>3. Waiting(SetPressure(n, "RT", r), t, Q)
  BY <1>1, <1>2, WaitingPressure
<1> QED BY <1>3 DEF SetTrigger, n

LEMMA WaitingDpad ==
  ASSUME NEW t \in Types, NEW Q, Q \cap Dpad = {}, NEW m, Waiting(m, t, Q), NEW a \in DpadAxes
  PROVE  Waiting(SetDpad(m, a, FALSE, FALSE), t, Q)
<1> DEFINE n == SetDpad(m, a, FALSE, FALSE)
<1>1. /\ Shaped(n) /\ n.type = t
      /\ \A f \in Fields(t) \ {Negative(a), Positive(a)} : n.value[f] = m.value[f]
      /\ ~ Pressed(n, Negative(a)) /\ ~ Pressed(n, Positive(a))
  BY SetDpadFacts DEF Waiting
<1> HIDE DEF n
<1>2. {Negative(a), Positive(a)} \subseteq Dpad /\ Dpad \subseteq ButtonsIn(t)
  BY DpadButtons
<1>3. n.value[Negative(a)] = 0 /\ n.value[Positive(a)] = 0
  BY <1>1, <1>2 DEF Pressed, GetButton
<1> QED BY <1>1, <1>2, <1>3 DEF Waiting, n

LEMMA WaitingStick ==
  ASSUME NEW t \in Types, NEW Q, Q \cap Sticks = {}, NEW m, Waiting(m, t, Q), NEW a \in Sticks
  PROVE  Waiting(Store(m, a, 0), t, Q)
<1> DEFINE n == Store(m, a, 0)
<1>1. a \in Fields(t)
  BY DEF Fields
<1>2. /\ Shaped(n) /\ n.type = t /\ n.value[a] = Kept(t, a, 0)
      /\ \A f \in Fields(t) \ {a} : n.value[f] = m.value[f]
  BY <1>1, StoreFacts DEF Waiting
<1>3. Kept(t, a, 0) = 0
  BY <1>1, KeptZero
<1> HIDE DEF n
<1> QED BY <1>2, <1>3 DEF Waiting, n

(* Fields that wait say how hard a button is pressed.                        *)
LEMMA WaitingApart ==
  ASSUME NEW t \in Types, t # "PS3USB", NEW Q, Q \subseteq Bytes(t)
  PROVE  Q \cap Dpad = {} /\ Q \cap Sticks = {}
<1>1. \A f \in Bytes(t) : f \in Buttons \ Dpad
  BY PressureFields DEF Bytes, Range
<1> QED BY <1>1, PressureFields

(* Centring an axis changes nothing of it. *)
LEMMA WaitingCentred ==
  ASSUME NEW t \in Types, t # "PS3USB", NEW Q, Q \subseteq Bytes(t),
         NEW m, Waiting(m, t, Q), NEW a \in Axes
  PROVE  Waiting(SetAxis(m, a, 0), t, Q)
<1>1. CASE a \in DpadAxes
  BY <1>1, DpadAccess, WaitingApart, WaitingDpad
<1>2. CASE a = "TRIGGER"
  <2>1. Waiting(SetTrigger(m, 0, 0), t, Q)
    BY WaitingTrigger
  <2> QED BY <1>2, <2>1, TriggerAccess
<1>3. CASE a \in Sticks
  BY <1>3, StickAccess, WaitingApart, WaitingStick
<1>4. CASE a \in Pressures
  <2>1. \A v \in Int : v = 0 => Waiting(SetPressure(m, a, v), t, Q)
    BY WaitingPressure
  <2> QED BY <1>4, <2>1, PressureAccess
<1> QED BY <1>1, <1>2, <1>3, <1>4 DEF Axes

LEMMA WaitingZero ==
  ASSUME NEW t \in Types, t # "PS3USB", NEW Q, Q \subseteq Bytes(t),
         NEW m, Waiting(m, t, Q), NEW a \in Axes \ Pressures
  PROVE  Waiting(SetAxisFloat(m, a, Zero), t, Q)
<1>1. Zero[1] = 0 /\ Zero[2] = 1
  BY DEF Zero
<1>2. CASE a \in DpadAxes
  <2>1. SetAxisFloat(m, a, Zero) = SetDpad(m, a, 2 * 0 < -1, 2 * 0 > 1)
    BY <1>1, <1>2, DpadAccess
  <2>2. (2 * 0 < -1) = FALSE /\ (2 * 0 > 1) = FALSE
    OBVIOUS
  <2> QED BY <1>2, <2>1, <2>2, WaitingApart, WaitingDpad
<1>3. CASE a = "TRIGGER"
  <2>1. ~ (Zero[1] < 0) /\ ~ (Zero[1] > 0)
    BY <1>1
  <2>2. SetAxisFloat(m, a, Zero) = SetTrigger(m, 0, 0)
    BY <1>3, <2>1, TriggerAccess
  <2>3. Waiting(SetTrigger(m, 0, 0), t, Q)
    BY WaitingTrigger
  <2> QED BY <2>2, <2>3
<1>4. CASE a \in Sticks
  BY <1>4, StickAccess, FloatsOfRest, WaitingApart, WaitingStick
<1> QED BY <1>2, <1>3, <1>4 DEF Axes

(* What is added to an axis that waits for nothing is 0, and a half-cleared  *)
(* trigger is set to what it was or to 0.                                    *)
LEMMA WaitingMerged ==
  ASSUME NEW t \in Types, t # "PS3USB", NEW Q, Q \subseteq Bytes(t),
         NEW m, Waiting(m, t, Q), NEW a \in Axes \ Pressures
  PROVE  Waiting(SetAxisFloat(m, a, Unit(Plus(Zero, GetAxisFloat(m, a)))), t, Q)
<1>1. Q \cap Dpad = {} /\ Q \cap Sticks = {}
  BY WaitingApart
<1>2. ASSUME GetAxisFloat(m, a) = Zero
      PROVE  Unit(Plus(Zero, GetAxisFloat(m, a))) = Zero
  <2>1. Plus(Zero, Zero) = Float(0 * 1 + 0 * 1, 1 * 1)
    BY DEF Plus, Zero
  <2>2. Float(0, 1) = Zero
    BY FloatFacts
  <2> QED BY <1>2, <2>1, <2>2, UnitZero
<1>3. CASE a \in DpadAxes
  <2>1. {Negative(a), Positive(a)} \subseteq Dpad /\ Dpad \subseteq Fields(t)
    BY <1>3, DpadButtons
  <2>2. ~ Pressed(m, Negative(a)) /\ ~ Pressed(m, Positive(a))
    BY <1>1, <2>1 DEF Waiting, Pressed, GetButton
  <2>3. GetAxisFloat(m, a) = Zero
    BY <1>3, <2>2, DpadAccess DEF Zero
  <2> QED BY <1>2, <2>3, WaitingZero
<1>4. CASE a \in Sticks
  <2>1. m.value[a] = 0 /\ m.type # "PS3USB"
    BY <1>1, <1>4 DEF Waiting, Fields
  <2>2. GetAxisFloat(m, a) = Zero
    BY <1>4, <2>1, StickAccess, FloatsOfRest
  <2> QED BY <1>2, <2>2, WaitingZero
<1>5. CASE a = "TRIGGER"
  <2> DEFINE left == m.value["LT"]
             right == m.value["RT"]
             diff == right - left
             g == Float(diff, Top8)
             f == Unit(Plus(Zero, g))
  <2>1. /\ left \in Nat /\ (left = 0 \/ "LT" \in Q)
        /\ right \in Nat /\ (right = 0 \/ "RT" \in Q)
    BY DEF Waiting, Fields, ButtonsIn, Buttons
  <2>2. PressureOf(m, "LT") = left /\ PressureOf(m, "RT") = right
    BY PressureFields DEF Waiting, PressureOf
  <2>3. GetAxisFloat(m, a) = g
    BY <1>5, <2>2, TriggerAccess DEF Waiting
  <2>4. diff \in Int /\ Top8 \in Nat /\ Top8 > 0
    BY <2>1, BitFacts
  <2> HIDE DEF diff
  <2>5. /\ g[1] \in Int /\ g[2] \in Nat /\ g[2] > 0
        /\ (g[1] < 0 => diff < 0) /\ (g[1] > 0 => diff > 0)
    BY <2>4, FloatFacts
  <2> DEFINE h == Plus(Zero, g)
  <2>6. /\ h[1] \in Int /\ h[2] \in Nat /\ h[2] > 0
        /\ (h[1] < 0 => diff < 0) /\ (h[1] > 0 => diff > 0)
    <3> HIDE DEF g
    <3>1. h = Float(0 * g[2] + g[1] * 1, 1 * g[2])
      BY DEF Plus, Zero
    <3>2. 0 * g[2] + g[1] * 1 = g[1] /\ 1 * g[2] = g[2]
      BY <2>5
    <3>3. h = Float(g[1], g[2])
      BY <3>1, <3>2
    <3> HIDE DEF h
    <3> DEFINE u == g[1]
               w == g[2]
    <3>4. u \in Int /\ w \in Nat /\ w > 0 /\ h = Float(u, w)
      BY <2>5, <3>3
    <3> HIDE DEF u, w
    <3>5. /\ h[1] \in Int /\ h[2] \in Nat /\ h[2] > 0
          /\ (h[1] < 0 => u < 0) /\ (h[1] > 0 => u > 0)
      BY <3>4, FloatFacts
    <3> QED BY <2>5, <3>5 DEF u
  <2> HIDE DEF h, g
  <2>7. /\ f[1] \in Int /\ f[2] \in Nat /\ f[2] > 0
        /\ (f[1] < 0 => diff < 0) /\ (f[1] > 0 => diff > 0)
    BY <2>6 DEF Unit, h
  <2> HIDE DEF f
  <2> DEFINE magnitude == Truncated(Times(<<Magnitude(f[1]), f[2]>>, <<Top8, 1>>))
             l == IF f[1] < 0 THEN magnitude ELSE 0
             r == IF f[1] > 0 THEN magnitude ELSE 0
  <2>8. magnitude \in Int
    <3> DEFINE u == Magnitude(f[1]) * Top8
               w == f[2] * 1
               k == Float(u, w)
    <3>1. u \in Int /\ w \in Nat /\ w > 0
      BY <2>4, <2>7 DEF Magnitude
    <3>2. Times(<<Magnitude(f[1]), f[2]>>, <<Top8, 1>>) = k
      BY DEF Times
    <3> HIDE DEF u, w
    <3>3. k[1] \in Int /\ k[2] \in Nat /\ k[2] > 0
      BY <3>1, FloatFacts
    <3> HIDE DEF k
    <3>4. Quotient(k[1], k[2]) \in Int
      BY <3>3, QuotientFacts
    <3> QED BY <3>2, <3>4 DEF Truncated
  <2>9. SetAxisFloat(m, a, f) = SetTrigger(m, l, r)
    BY <1>5, TriggerAccess
  <2>10. (l = 0 \/ "LT" \in Q) /\ (r = 0 \/ "RT" \in Q) /\ l \in Int /\ r \in Int
    BY <2>1, <2>7, <2>8 DEF diff
  <2> HIDE DEF l, r
  <2>11. Waiting(SetTrigger(m, l, r), t, Q)
    BY <2>10, WaitingTrigger
  <2> QED BY <2>3, <2>9, <2>11 DEF f
<1> QED BY <1>3, <1>4, <1>5 DEF Axes

ClearsAxes(f, maps, m) ==
  f[0] = m /\ \A i \in 1..Len(maps) : f[i] = SetAxisFloat(f[i - 1], maps[i].lhs, Zero)

LEMMA ClearedAxesSteps ==
  ASSUME NEW mod, NEW m, Len(mod.maps) \in Nat
  PROVE  \E f : ClearedAxes(mod, m) = f[Len(mod.maps)] /\ ClearsAxes(f, mod.maps, m)
<1> DEFINE n == Len(mod.maps)
           x == mod.maps
           Solved(g) == g = [i \in 0..n |-> IF i = 0 THEN m
                                            ELSE SetAxisFloat(g[i - 1], x[i].lhs, Zero)]
<1>1. ASSUME NEW g, Runs(g, "clear axes", x, n, m) PROVE Solved(g)
  <2>1. \A i, y : StepOf("clear axes", x, i, y) = SetAxisFloat(y, x[i].lhs, Zero)
    BY DEF StepOf
  <2> QED BY <1>1, <2>1 DEF Runs
<1>2. \E g : Runs(g, "clear axes", x, n, m)
  <2> HIDE DEF x
  <2> QED BY LoopExists
<1>3. ClearedAxes(mod, m) = (CHOOSE g : Solved(g))[n]
  BY DEF ClearedAxes
<1>4. PICK f : Solved(f) /\ ClearedAxes(mod, m) = f[n]
  <2> HIDE DEF Solved, x, n
  <2> QED BY <1>1, <1>2, <1>3
<1>5. \A i \in 0..n : f[i] = IF i = 0 THEN m ELSE SetAxisFloat(f[i - 1], x[i].lhs, Zero)
  BY <1>4, Zenon
<1>6. 0 \in 0..n /\ \A i \in 1..n : i \in 0..n /\ i # 0
  OBVIOUS
<1>7. ClearsAxes(f, mod.maps, m)
  BY <1>5, <1>6 DEF ClearsAxes
<1> HIDE DEF Solved
<1> QED BY <1>4, <1>7

(* The pressures that mappings after the i-th set again.                     *)
Later(maps, t, i) ==
  {PressureField[t][a] : a \in {maps[j].lhs : j \in (i + 1)..Len(maps)} \cap DOMAIN PressureField[t]}

LEMMA ClearedAxesWait ==
  ASSUME NEW mod, IsSeq(mod.maps), \A i \in DOMAIN mod.maps : mod.maps[i].lhs \in Axes,
         NEW t \in Types, t # "PS3USB", NEW m, Waiting(m, t, {})
  PROVE  Waiting(ClearedAxes(mod, m), t, Later(mod.maps, t, 0))
<1> DEFINE n == Len(mod.maps)
           maps == mod.maps
           Q == Later(maps, t, 0)
<1>1. n \in Nat /\ DOMAIN maps = 1..n
  BY SeqFacts
<1>2. PICK f : ClearedAxes(mod, m) = f[n] /\ ClearsAxes(f, maps, m)
  BY <1>1, ClearedAxesSteps
<1>3. Q \subseteq Bytes(t)
  BY DEF Later, Bytes, Range
<1>4. ASSUME NEW j \in 1..n, maps[j].lhs \in DOMAIN PressureField[t]
      PROVE  PressureField[t][maps[j].lhs] \in Q
  BY <1>1, <1>4 DEF Later
<1> HIDE DEF Q
<1> DEFINE G == {i \in 0..n : Waiting(f[i], t, Q)}
<1>5. 0 \in G
  BY <1>1, <1>2 DEF ClearsAxes, Waiting
<1>6. ASSUME NEW i \in 1..n, i - 1 \in G PROVE i \in G
  <2> DEFINE a == maps[i].lhs
             old == f[i - 1]
  <2>1. Waiting(old, t, Q) /\ a \in Axes /\ f[i] = SetAxisFloat(old, a, Zero)
    BY <1>1, <1>2, <1>6 DEF ClearsAxes
  <2>2. a \in DOMAIN PressureField[t] => PressureField[t][a] \in Q
    BY <1>4
  <2> HIDE DEF a, old
  <2>3. CASE a \in Pressures
    <3>1. Waiting(SetPressure(old, a, FloatToByte(Zero)), t, Q)
      BY <2>1, <2>2, FloatsOfRest, WaitingPressure
    <3>2. SetAxisFloat(old, a, Zero) = SetPressure(old, a, FloatToByte(Zero))
      BY <2>3, PressureAccess
    <3> QED BY <2>1, <3>1, <3>2
  <2>4. CASE a \notin Pressures
    BY <1>3, <2>1, <2>4, WaitingZero
  <2> QED BY <2>3, <2>4
<1>7. n \in G
  <2> HIDE DEF G, n
  <2>1. 0..n \subseteq G
    BY <1>1, <1>5, <1>6, UpTo
  <2> QED BY <1>1, <2>1
<1> QED BY <1>2, <1>7 DEF Q

MapsAxes(f, maps, S, m, start) ==
  f[0] = start /\ \A i \in 1..Len(maps) : f[i] = AxisStep(maps, S, m, i, f[i - 1])

LEMMA AxisMappedSteps ==
  ASSUME NEW mod, NEW state, NEW d, NEW m, Len(mod.maps) \in Nat
  PROVE  \E f, S : /\ AxisMapped(mod, state, d, m).msg = f[Len(mod.maps)]
                   /\ MapsAxes(f, mod.maps, S, m, ClearedAxes(mod, m))
<1> DEFINE maps == mod.maps
           n == Len(maps)
           S == [i \in DOMAIN maps |-> UpdatedAxisFilters(maps[i].filters, state[i], d)]
           x == [maps |-> maps, states |-> S, msg |-> m]
           start == ClearedAxes(mod, m)
           Step(i, y) ==
             SetAxisFloat(y, maps[i].rhs,
               Merged(maps[i], y,
                 ToFloat(AxisValues(maps[i].filters, S[i], SignedAxis(maps[i], m),
                                    AxisMin(maps[i].lhs), AxisMax(maps[i].lhs))
                           [Len(maps[i].filters)],
                         AxisMin(maps[i].lhs), AxisMax(maps[i].lhs))))
           Solved(g) == g = [i \in 0..n |-> IF i = 0 THEN start ELSE Step(i, g[i - 1])]
<1>1. \A i, y : AxisStep(maps, S, m, i, y) = Step(i, y)
  <2> HIDE DEF S, maps
  <2> QED BY DEF AxisStep, AxisOutput
<1>2. \A i, y : StepOf("axes", x, i, y) = AxisStep(maps, S, m, i, y)
  <2>1. x.maps = maps /\ x.states = S /\ x.msg = m
    OBVIOUS
  <2> HIDE DEF x, S, maps
  <2> QED BY <2>1 DEF StepOf
<1>3. AxisMapped(mod, state, d, m).msg = (CHOOSE g : Solved(g))[n]
  BY DEF AxisMapped
<1> HIDE DEF S, start, Step
<1>4. ASSUME NEW g, Runs(g, "axes", x, n, start) PROVE Solved(g)
  <2> HIDE DEF x
  <2> QED BY <1>1, <1>2, <1>4 DEF Runs
<1>5. \E g : Runs(g, "axes", x, n, start)
  <2> HIDE DEF x
  <2> QED BY LoopExists
<1>6. PICK f : Solved(f) /\ AxisMapped(mod, state, d, m).msg = f[n]
  <2> HIDE DEF Solved, x, n
  <2> QED BY <1>3, <1>4, <1>5
<1>7. \A i \in 0..n : f[i] = IF i = 0 THEN start ELSE Step(i, f[i - 1])
  BY <1>6, Zenon
<1>8. 0 \in 0..n /\ \A i \in 1..n : i \in 0..n /\ i # 0
  OBVIOUS
<1>9. MapsAxes(f, maps, S, m, start)
  BY <1>1, <1>7, <1>8 DEF MapsAxes
<1> HIDE DEF Solved
<1> QED BY <1>6, <1>9 DEF start

(* An axis at rest reads as 0, inverted or not. *)
LEMMA RestReads ==
  ASSUME NEW t \in Types, t # "PS3USB", NEW m, Waiting(m, t, {}),
         NEW map, map.lhs \in Axes, map.lhs \in Pressures => ~ map.invert
  PROVE  SignedAxis(map, m) = 0
<1> DEFINE a == map.lhs
<1>1. \A f \in Fields(t) : m.value[f] = 0
  BY DEF Waiting
<1>2. \A b : PressureOf(m, b) = 0
  <2>1. \A b \in DOMAIN PressureField[t] : PressureField[t][b] \in Fields(t)
    BY DEF Fields, Bytes, Range
  <2> QED BY <1>1, <2>1 DEF PressureOf, Waiting
<1>3. GetAxis(m, a) = 0
  <2>1. CASE a \in DpadAxes
    <3>1. \A b \in {Negative(a), Positive(a)} : ~ Pressed(m, b)
      BY <1>1, <2>1, DpadButtons DEF Pressed, GetButton, Waiting
    <3> QED BY <2>1, <3>1, DpadAccess
  <2>2. CASE a = "TRIGGER"
    <3>1. 0 - 0 = 0
      OBVIOUS
    <3> QED BY <1>2, <2>2, <3>1, TriggerAccess
  <2>3. CASE a \in Sticks
    BY <1>1, <2>3, StickAccess DEF Waiting, Fields
  <2>4. CASE a \in Pressures
    BY <1>2, <2>4, PressureAccess
  <2> QED BY <2>1, <2>2, <2>3, <2>4 DEF Axes
<1> QED BY <1>3, InvertedRest DEF SignedAxis

(* The mappings settle what waits: each sets its own axis to rest.           *)
LEMMA AxisMappedWait ==
  ASSUME NEW mod, mod.kind = "axismap", IsModifier(mod),
         \A map \in Range(mod.maps) : KeepsRest(map),
         NEW t \in Types, t # "PS3USB", NEW m, Waiting(m, t, {}), NEW state, NEW d
  PROVE  Waiting(AxisMapped(mod, state, d, m).msg, t, {})
<1> DEFINE n == Len(mod.maps)
           maps == mod.maps
           start == ClearedAxes(mod, m)
           Q(i) == Later(maps, t, i)
<1>1. /\ IsSeq(maps)
      /\ \A i \in DOMAIN maps :
           /\ maps[i].lhs \in Axes /\ maps[i].rhs \in Axes
           /\ IsSeq(maps[i].filters) /\ \A f \in Range(maps[i].filters) : IsAxisFilter(f)
  BY DEF IsModifier
<1>2. n \in Nat /\ DOMAIN maps = 1..n /\ \A i \in 1..n : KeepsRest(maps[i])
  BY <1>1, SeqFacts
<1>3. PICK f, S : /\ AxisMapped(mod, state, d, m).msg = f[n]
                  /\ MapsAxes(f, maps, S, m, start)
  BY <1>2, AxisMappedSteps
<1>4. Waiting(start, t, Q(0))
  BY <1>1, ClearedAxesWait
<1>5. \A i : Q(i) \subseteq Bytes(t)
  BY DEF Later, Bytes, Range
<1>6. ASSUME NEW i \in 1..n, NEW p \in Q(i - 1), p \notin Q(i)
      PROVE  maps[i].lhs \in DOMAIN PressureField[t] /\ p = PressureField[t][maps[i].lhs]
  <2>1. PICK j \in i..n : maps[j].lhs \in DOMAIN PressureField[t] /\ p = PressureField[t][maps[j].lhs]
    BY <1>2 DEF Later
  <2>2. j \in (i + 1)..n => p \in Q(i)
    BY <1>2, <2>1 DEF Later
  <2>3. j = i
    BY <1>2, <1>6, <2>2
  <2> QED BY <2>1, <2>3
<1>7. Q(n) = {}
  <2>1. (n + 1)..n = {}
    BY <1>2
  <2> QED BY <2>1 DEF Later
<1>8. ASSUME NEW i \in 1..n PROVE Q(i) \subseteq Q(i - 1)
  <2>1. (i + 1)..n \subseteq ((i - 1) + 1)..n
    BY <1>2
  <2> QED BY <2>1 DEF Later
<1> HIDE DEF start, Q
<1> DEFINE G == {i \in 0..n : Waiting(f[i], t, Q(i))}
<1>9. 0 \in G
  BY <1>2, <1>3, <1>4 DEF MapsAxes
<1>10. ASSUME NEW i \in 1..n, i - 1 \in G PROVE i \in G
  <2> DEFINE map == maps[i]
             a == map.lhs
             old == f[i - 1]
             v == AxisOutput(map, S[i], m)
             g == ToFloat(v, AxisMin(a), AxisMax(a))
             p == PressureField[t][a]
  <2>1. Waiting(old, t, Q(i - 1)) /\ KeepsRest(map) /\ a \in Axes /\ map.rhs \in Axes
    BY <1>1, <1>2, <1>10
  <2>2. f[i] = SetAxisFloat(old, map.rhs, Merged(map, old, g))
    BY <1>3 DEF MapsAxes, AxisStep
  <2>3. v = 0
    <3>1. SignedAxis(map, m) = 0
      BY <2>1, RestReads DEF KeepsRest
    <3>2. IsSeq(map.filters) /\ \A h \in Range(map.filters) : IsAxisFilter(h)
      BY <1>1, <1>2
    <3> HIDE DEF map
    <3> QED BY <2>1, <3>1, <3>2, FilteredRest DEF AxisOutput
  <2>4. g = IF a \in Pressures THEN <<-1, 1>> ELSE Zero
    BY <2>1, <2>3, FloatOfRest
  <2>5. ASSUME a \in Pressures PROVE Waiting(f[i], t, Q(i))
    <3>1. map.rhs = a
      BY <2>1, <2>5 DEF KeepsRest
    <3>2. Merged(map, old, g) = <<-1, 1>>
      BY <2>4, <2>5, <3>1 DEF Merged
    <3> HIDE DEF map, g, a, old
    <3>3. PICK u \in Int : u = 0
      OBVIOUS
    <3> DEFINE new == SetPressure(old, a, u)
    <3>4. f[i] = new
      BY <2>2, <2>5, <3>1, <3>2, <3>3, PressureAccess, FloatsOfRest
    <3>5. /\ Waiting(f[i], t, Q(i - 1))
          /\ a \in DOMAIN PressureField[t] => Waiting(f[i], t, Q(i - 1) \ {p})
      <4>1. /\ Waiting(new, t, Q(i - 1))
            /\ a \in DOMAIN PressureField[t] => Waiting(new, t, Q(i - 1) \ {p})
        BY <2>1, <3>3, WaitingPressure
      <4> HIDE DEF new, p
      <4> QED BY <3>4, <4>1
    <3>6. \A q \in Q(i - 1) : q \notin Q(i) => a \in DOMAIN PressureField[t] /\ q = p
      BY <1>6 DEF a, map
    <3> HIDE DEF p
    <3>7. \A k \in Fields(t) : k \notin Q(i) => f[i].value[k] = 0
      BY <3>5, <3>6 DEF Waiting
    <3>8. \A k \in Fields(t) : f[i].value[k] \in Nat
      BY <3>5 DEF Waiting
    <3> QED BY <3>5, <3>7, <3>8 DEF Waiting
  <2>6. ASSUME a \notin Pressures PROVE Waiting(f[i], t, Q(i))
    <3>1. map.rhs \notin Pressures
      BY <2>1, <2>6 DEF KeepsRest
    <3>2. Q(i - 1) = Q(i)
      <4>1. a \notin DOMAIN PressureField[t]
        BY <2>6, PressureFields
      <4> QED BY <1>6, <1>8, <4>1
    <3>3. g = Zero
      BY <2>4, <2>6
    <3> DEFINE rhs == map.rhs
    <3>4. rhs \in Axes \ Pressures /\ Waiting(old, t, Q(i)) /\ Q(i) \subseteq Bytes(t)
      BY <1>5, <2>1, <3>1, <3>2
    <3>5. f[i] = SetAxisFloat(old, rhs, IF a = rhs THEN Zero ELSE Unit(Plus(Zero, GetAxisFloat(old, rhs))))
      BY <2>2, <3>3 DEF Merged
    <3> HIDE DEF rhs, old, a
    <3> QED BY <3>4, <3>5, WaitingZero, WaitingMerged
  <2> QED BY <2>5, <2>6
<1>11. n \in G
  <2> HIDE DEF G, n
  <2>1. 0..n \subseteq G
    BY <1>2, <1>9, <1>10, UpTo
  <2> QED BY <1>2, <2>1
<1> QED BY <1>3, <1>7, <1>11

(* A message at rest, for the modifiers that do not know the type. *)
LEMMA RestFields ==
  ASSUME NEW m, Shaped(m), AtRest(m)
  PROVE  /\ \A b : ~ Pressed(m, b)
         /\ \A a \in DpadAxes : GetAxis(m, a) = 0
         /\ m.type # "PS3USB" => Waiting(m, m.type, {})
<1>1. \A b \in ButtonsIn(m.type) : b \in Fields(m.type) /\ b \notin Sticks
  BY DEF Fields, ButtonsIn, Buttons, Dpad, Sticks
<1>2. \A f \in Fields(m.type) : ~ (f \in Sticks /\ m.type = "PS3USB") => m.value[f] = 0
  BY DEF AtRest, Shaped
<1>3. \A b : ~ Pressed(m, b)
  BY <1>1, <1>2 DEF Pressed, GetButton
<1>4. \A a \in DpadAxes : GetAxis(m, a) = 0
  BY <1>3, DpadAccess
<1> QED BY <1>2, <1>3, <1>4 DEF Waiting

LEMMA WaitingRests ==
  ASSUME NEW t, t # "PS3USB", NEW m, Waiting(m, t, {})
  PROVE  Shaped(m) /\ m.type = t /\ AtRest(m)
BY DEF Waiting, AtRest, Shaped

(* Only buttons have changed, and none is pressed.                           *)
LEMMA NothingPressed ==
  ASSUME NEW m, Shaped(m), AtRest(m), NEW n, Shaped(n), n.type = m.type,
         \A f \in Fields(m.type) \ ButtonsIn(m.type) : n.value[f] = m.value[f],
         \A b \in ButtonsIn(m.type) : ~ Pressed(n, b)
  PROVE  AtRest(n)
<1>1. \A b \in ButtonsIn(m.type) : b \notin Sticks /\ n.value[b] = 0
  BY DEF Pressed, GetButton, ButtonsIn, Buttons, Dpad, Sticks
<1> QED BY <1>1 DEF AtRest, Shaped

(* These filters turn no released button into a pressed one, whatever they  *)
(* remember.                                                                 *)
Still == {"autofire", "delay", "click-press"}

LEMMA FilteredStill ==
  ASSUME NEW F, IsSeq(F), \A f \in Range(F) : f.kind \in Still, NEW S
  PROVE  ~ Filtered(F, S, FALSE)[Len(F)]
<1> DEFINE n == Len(F)
           value == Filtered(F, S, FALSE)
           G == {i \in 0..n : value[i] = FALSE}
<1>1. n \in Nat /\ \A i \in 1..n : F[i].kind \in Still
  BY SeqFacts
<1>2. value[0] = FALSE /\ \A i \in 1..n : value[i] = Filter(F[i], S[i], value[i - 1]).value
  <2> PICK v \in BOOLEAN : v = FALSE
    OBVIOUS
  <2>1. /\ Filtered(F, S, v)[0] = v
        /\ \A i \in 1..Len(F) : Filtered(F, S, v)[i] = Filter(F[i], S[i], Filtered(F, S, v)[i - 1]).value
    BY <1>1, FilteredSteps
  <2> QED BY <2>1, Zenon
<1> HIDE DEF value
<1>3. 0 \in G
  BY <1>1, <1>2
<1>4. ASSUME NEW i \in 1..n, i - 1 \in G PROVE i \in G
  <2>1. \A f, s : f.kind \in Still => Filter(f, s, FALSE).value = FALSE
    BY DEF Still, Filter, Clicks, AutofireFilter, ClickFilter, DelayFilter
  <2>2. value[i - 1] = FALSE /\ F[i].kind \in Still /\ i \in 0..n
    BY <1>1, <1>4
  <2>3. Filter(F[i], S[i], FALSE).value = FALSE
    BY <2>1, <2>2
  <2>4. value[i] = FALSE
    BY <1>2, <2>2, <2>3, Zenon
  <2> QED BY <2>2, <2>4
<1>5. 0..n \subseteq G
  <2> HIDE DEF G, n
  <2> QED BY <1>1, <1>3, <1>4, UpTo
<1>6. n \in 0..n
  BY <1>1
<1> QED BY <1>5, <1>6 DEF value

LEMMA ButtonMapRests ==
  ASSUME NEW mod, mod.kind = "buttonmap", IsModifier(mod),
         \A map \in Range(mod.maps) : \A f \in Range(map.filters) : f.kind \in Still,
         NEW m, Shaped(m), AtRest(m), NEW state, NEW d
  PROVE  LET new == ButtonMapped(mod, state, d, m).msg
         IN  Shaped(new) /\ new.type = m.type /\ AtRest(new)
<1> DEFINE new == ButtonMapped(mod, state, d, m).msg
<1>1. IsSeq(mod.maps) /\ \A i \in DOMAIN mod.maps : IsSeq(mod.maps[i].filters)
  BY DEF IsModifier
<1>2. /\ Shaped(new) /\ new.type = m.type
      /\ \E S : PressedBy(new, S, mod, m)
      /\ \A f \in Fields(m.type) \ ButtonsIn(m.type) : new.value[f] = m.value[f]
  BY <1>1, ButtonMappedFacts
<1>3. PICK S : PressedBy(new, S, mod, m)
  BY <1>2
<1>4. \A b : ~ Pressed(m, b)
  BY RestFields
<1>5. \A b : ~ Pressed(ClearedButtons(mod, m), b)
  BY <1>1, <1>4, ClearedButtonsFacts
<1>6. ASSUME NEW i \in DOMAIN mod.maps PROVE ~ OutputOf(mod.maps[i], S[i], m)
  <2> DEFINE F == mod.maps[i].filters
             s == S[i]
  <2>1. IsSeq(F) /\ \A f \in Range(F) : f.kind \in Still
    BY <1>1 DEF Range
  <2>2. Pressed(m, mod.maps[i].lhs) = FALSE
    BY <1>4
  <2> HIDE DEF F, s
  <2>3. ~ Filtered(F, s, FALSE)[Len(F)]
    BY <2>1, FilteredStill
  <2> QED BY <2>2, <2>3 DEF OutputOf, F, s
<1> HIDE DEF new
<1>7. \A b \in ButtonsIn(m.type) : ~ Pressed(new, b)
  BY <1>3, <1>5, <1>6 DEF PressedBy
<1> QED BY <1>2, <1>7, NothingPressed DEF new

(* A modifier that keeps a pad of its message's type at rest.                *)
Calm(mod, t) ==
  /\ mod.kind = "buttonmap" =>
       \A map \in Range(mod.maps) : \A f \in Range(map.filters) : f.kind \in Still
  /\ mod.kind = "axismap" => \A map \in Range(mod.maps) : KeepsRest(map)
  /\ t = "PS3USB" => mod.kind \notin {"axismap", "four-way"}

LEMMA RestrictorRests ==
  ASSUME NEW mod, mod.kind = "dpad-restrictor", IsModifier(mod),
         NEW m, Shaped(m), AtRest(m), NEW last
  PROVE  LET new == DpadRestricted(mod, last, m).msg
         IN  Shaped(new) /\ new.type = m.type /\ AtRest(new)
<1>1. GetAxis(m, "DPAD_X") = 0 /\ GetAxis(m, "DPAD_Y") = 0
  BY RestFields DEF DpadAxes
<1>2. ASSUME NEW a \in DpadAxes
      PROVE  /\ Shaped(SetAxis(m, a, 0)) /\ SetAxis(m, a, 0).type = m.type
             /\ AtRest(SetAxis(m, a, 0))
  <2> DEFINE n == SetDpad(m, a, FALSE, FALSE)
  <2>1. SetAxis(m, a, 0) = n
    BY DpadAccess
  <2>2. /\ Shaped(n) /\ n.type = m.type
        /\ \A f \in Fields(m.type) \ {Negative(a), Positive(a)} : n.value[f] = m.value[f]
        /\ ~ Pressed(n, Negative(a)) /\ ~ Pressed(n, Positive(a))
    BY SetDpadFacts
  <2>3. {Negative(a), Positive(a)} \subseteq ButtonsIn(m.type)
    BY DpadButtons DEF Shaped
  <2>4. \A b \in ButtonsIn(m.type) : b \in Fields(m.type)
    BY DEF Fields
  <2> HIDE DEF n
  <2>5. \A b \in ButtonsIn(m.type) : ~ Pressed(n, b)
    <3>1. \A b : ~ Pressed(m, b)
      BY RestFields
    <3> QED BY <2>2, <2>4, <3>1 DEF Pressed, GetButton
  <2>6. \A f \in Fields(m.type) \ ButtonsIn(m.type) : n.value[f] = m.value[f]
    BY <2>2, <2>3
  <2>7. AtRest(n)
    BY <2>2, <2>5, <2>6, NothingPressed
  <2> QED BY <2>1, <2>2, <2>7
<1>3. mod.mode \in Modes
  BY DEF IsModifier
<1>4. \/ DpadRestricted(mod, last, m).msg = m
      \/ \E a \in DpadAxes : DpadRestricted(mod, last, m).msg = SetAxis(m, a, 0)
  BY <1>1, <1>3 DEF DpadRestricted, Modes, DpadAxes
<1> DEFINE new == DpadRestricted(mod, last, m).msg
<1> HIDE DEF new
<1>5. Shaped(new) /\ new.type = m.type /\ AtRest(new)
  <2>1. new = m \/ \E a \in DpadAxes : new = SetAxis(m, a, 0)
    BY <1>4 DEF new
  <2> QED BY <1>2, <2>1
<1> QED BY <1>5 DEF new

LEMMA RotationRests ==
  ASSUME NEW mod, NEW m, Shaped(m), AtRest(m)
  PROVE  DpadRotated(mod, m) = m
<1>1. DpadOf(m) = {}
  BY RestFields DEF DpadOf
<1>2. \A i \in 0..7 : Pointing[i + 1] # {}
  BY DEF Pointing
<1>3. Directions(m) = {}
  BY <1>1, <1>2 DEF Directions
<1> QED BY <1>3 DEF DpadRotated

LEMMA ModifierRests ==
  ASSUME NEW mod, IsModifier(mod), NEW m, Shaped(m), AtRest(m), Calm(mod, m.type),
         NEW state, NEW d
  PROVE  LET new == Modify(mod, state, d, m).msg
         IN  Shaped(new) /\ new.type = m.type /\ AtRest(new)
<1> DEFINE new == Modify(mod, state, d, m).msg
<1>1. CASE mod.kind = "buttonmap"
  <2>1. new = ButtonMapped(mod, state, d, m).msg
    BY <1>1 DEF Modify
  <2> HIDE DEF new
  <2> QED BY <1>1, <2>1, ButtonMapRests DEF Calm, new
<1>2. CASE mod.kind = "axismap"
  <2>1. new = AxisMapped(mod, state, d, m).msg
    BY <1>2 DEF Modify
  <2>2. m.type \in Types /\ m.type # "PS3USB" /\ Waiting(m, m.type, {})
        /\ \A map \in Range(mod.maps) : KeepsRest(map)
    BY <1>2, RestFields DEF Calm, Shaped
  <2>3. Waiting(AxisMapped(mod, state, d, m).msg, m.type, {})
    BY <1>2, <2>2, AxisMappedWait
  <2> HIDE DEF new
  <2>4. Waiting(new, m.type, {})
    BY <2>1, <2>3
  <2> QED BY <2>2, <2>4, WaitingRests DEF new
<1>3. CASE mod.kind = "dpad-restrictor"
  <2>1. new = DpadRestricted(mod, state, m).msg
    BY <1>3 DEF Modify
  <2> HIDE DEF new
  <2> QED BY <1>3, <2>1, RestrictorRests DEF new
<1>4. CASE mod.kind = "dpad-rotation"
  <2>1. new = DpadRotated(mod, m)
    BY <1>4 DEF Modify
  <2> HIDE DEF new
  <2> QED BY <2>1, RotationRests DEF new
<1>5. CASE mod.kind = "four-way"
  <2>1. new = FourWay(mod, m)
    BY <1>5 DEF Modify
  <2>2. PICK a \in Axes : new = SetAxis(m, a, 0)
    BY <1>5, <2>1 DEF FourWay, IsModifier
  <2>3. m.type \in Types /\ m.type # "PS3USB" /\ Waiting(m, m.type, {})
    BY <1>5, RestFields DEF Calm, Shaped
  <2>4. Waiting(SetAxis(m, a, 0), m.type, {})
    <3>1. \A Q : Q = {} => Q \subseteq Bytes(m.type)
      OBVIOUS
    <3> QED BY <2>3, <3>1, WaitingCentred
  <2> HIDE DEF new
  <2>5. Waiting(new, m.type, {})
    BY <2>2, <2>4
  <2> QED BY <2>3, <2>5, WaitingRests DEF new
<1> QED BY <1>1, <1>2, <1>3, <1>4, <1>5 DEF IsModifier

RestInv == setup \in Setups /\ Shaped(raw) /\ RestStaysRest

LEMMA InitRest == Init => RestInv
<1> SUFFICES ASSUME Init PROVE RestInv
  OBVIOUS
<1>1. setup \in Setups /\ Shaped(raw) /\ msg = Blank
  BY BlankShaped DEF Init
<1>2. Blank.type = "XBOX"
  BY DEF Blank
<1>3. AtRest(Blank)
  BY <1>2, BlankShaped DEF AtRest, Shaped
<1> QED BY <1>1, <1>3 DEF RestInv, RestStaysRest

(* The condition of the property is on the whole chain: each modifier in it  *)
(* is calm.                                                                  *)
LEMMA ChainCalm ==
  ASSUME setup \in Setups, NEW t,
         FilterKindsOf("buttonmap") \subseteq {"autofire", "delay", "click-press"},
         \A map \in Maps("axismap") : KeepsRest(map),
         t = "PS3USB" => Kinds \cap {"axismap", "four-way"} = {}
  PROVE  \A i \in 1..Len(Chain) : Calm(Chain[i], t)
<1> SUFFICES ASSUME NEW i \in 1..Len(Chain) PROVE Calm(Chain[i], t)
  OBVIOUS
<1>1. i \in DOMAIN Chain
  BY ChainFacts
<1>2. \A kind : Chain[i].kind = kind => Range(Chain[i].maps) \subseteq Maps(kind)
  BY <1>1 DEF Maps
<1>3. \A map \in Maps("buttonmap") : \A f \in Range(map.filters) : f.kind \in Still
  <2> SUFFICES ASSUME NEW map \in Maps("buttonmap"), NEW f \in Range(map.filters)
               PROVE  f.kind \in Still
    OBVIOUS
  <2> DEFINE K(x) == {y.kind : y \in Range(x.filters)}
  <2>1. f.kind \in K(map)
    OBVIOUS
  <2>2. UNION {K(x) : x \in Maps("buttonmap")} \subseteq Still
    BY DEF FilterKindsOf, Still
  <2> HIDE DEF K
  <2> QED BY <2>1, <2>2
<1>4. Chain[i].kind \in Kinds
  BY <1>1 DEF Kinds
<1> QED BY <1>2, <1>3, <1>4 DEF Calm

LEMMA RestStep ==
  ASSUME RestInv, NEW m, NEW d, Shaped(m), Message(m, d)
  PROVE  RestInv'
<1>1. setup' = setup /\ raw' = m /\ setup \in Setups
      /\ msg' = Through(m, d)[Len(Chain)].msg
  BY DEF Message, RestInv, Chain
<1>2. ASSUME AtRest(m), \A i \in 1..Len(Chain) : Calm(Chain[i], m.type)
      PROVE  AtRest(msg')
  <2> DEFINE n == Len(Chain)
             result == Through(m, d)
             Rests(new) == Shaped(new) /\ new.type = m.type /\ AtRest(new)
             G == {i \in 0..n : Rests(result[i].msg)}
  <2>1. n \in Nat /\ \A i \in 1..n : IsModifier(Chain[i])
    BY <1>1, ChainFacts
  <2>2. /\ result[0] = [msg |-> m, state |-> <<>>]
        /\ \A i \in 1..n : result[i] = Modify(Chain[i], states[i], d, result[i - 1].msg)
    BY <1>1, ThroughSteps
  <2>3. result[0].msg = m
    <3> DEFINE first == [msg |-> m, state |-> <<>>]
    <3>1. first.msg = m
      OBVIOUS
    <3> HIDE DEF first, result
    <3> QED BY <2>2, <3>1 DEF first
  <2> HIDE DEF result
  <2>4. 0 \in G
    BY <1>2, <2>1, <2>3
  <2>5. ASSUME NEW i \in 1..n, i - 1 \in G PROVE i \in G
    <3>1. Rests(result[i - 1].msg)
      BY <2>5
    <3> DEFINE old == result[i - 1].msg
               mod == Chain[i]
               state == states[i]
               new == Modify(mod, state, d, old).msg
    <3>2. result[i].msg = new
      BY <2>2
    <3> HIDE DEF old, mod, state
    <3>3. IsModifier(mod) /\ Calm(mod, old.type) /\ Rests(old)
      BY <1>2, <2>1, <3>1 DEF mod, old
    <3>4. Rests(new)
      BY <3>3, ModifierRests
    <3> HIDE DEF new, Rests
    <3> QED BY <2>1, <3>2, <3>4
  <2>6. 0..n \subseteq G
    <3> HIDE DEF G, n
    <3> QED BY <2>1, <2>4, <2>5, UpTo
  <2>7. n \in 0..n
    BY <2>1
  <2>8. Rests(result[n].msg)
    BY <2>6, <2>7
  <2> QED BY <1>1, <2>8 DEF result
<1>3. RestStaysRest'
  <2>1. Chain' = Chain /\ Kinds' = Kinds
        /\ FilterKindsOf("buttonmap")' = FilterKindsOf("buttonmap")
        /\ Maps("axismap")' = Maps("axismap")
        /\ SticksAsBytes' = (m.type = "PS3USB")
    BY <1>1 DEF Chain, Kinds, FilterKindsOf, Maps, SticksAsBytes
  <2>2. SUFFICES
          ASSUME AtRest(m),
                 FilterKindsOf("buttonmap") \subseteq {"autofire", "delay", "click-press"},
                 \A map \in Maps("axismap") : KeepsRest(map),
                 m.type = "PS3USB" => Kinds \cap {"axismap", "four-way"} = {}
          PROVE  AtRest(msg')
    BY <1>1, <2>1 DEF RestStaysRest
  <2>3. \A i \in 1..Len(Chain) : Calm(Chain[i], m.type)
    BY <1>1, <2>2, ChainCalm
  <2> QED BY <1>2, <2>2, <2>3
<1> QED BY <1>1, <1>3 DEF RestInv

(* Modifiers that turn no button round and whose filters keep 0 where it is  *)
(* make nothing of a pad at rest, however many there are, in whatever order, *)
(* and whatever they remember (Modifier::update).                            *)
THEOREM RestKept == Spec => []RestStaysRest
<1>1. ASSUME RestInv, [Next]_vars PROVE RestInv'
  <2>1. CASE Next
    <3>1. PICK m, d : Shaped(m) /\ Message(m, d)
      BY <1>1, <2>1, StepSends DEF RestInv
    <3> QED BY <1>1, <3>1, RestStep
  <2>2. CASE UNCHANGED vars
    BY <1>1, <2>2 DEF RestInv, vars, RestStaysRest, SticksAsBytes, Chain, Kinds,
                      FilterKindsOf, Maps
  <2> QED BY <1>1, <2>1, <2>2
<1>2. RestInv => RestStaysRest
  BY DEF RestInv
<1> QED BY <1>1, <1>2, InitRest, PTL DEF Spec

-----------------------------------------------------------------------------
(* The ends of an axis. What an axis has to itself, in a pad with signed     *)
(* sticks, are its fields; no two axes share one, but the triggers are the   *)
(* halves of another.                                                        *)
HasAxis(t, a) == a \in Axes /\ (a \in Pressures => a \in DOMAIN PressureField[t])

FieldsOf(t, a) ==
  IF a \in DpadAxes THEN {Negative(a), Positive(a)}
  ELSE IF a = "TRIGGER" THEN {"LT", "RT"}
  ELSE IF a \in Sticks THEN {a} ELSE {PressureField[t][a]}

Together(a, b) == "TRIGGER" \in {a, b} /\ {"LT", "RT"} \cap {a, b} # {}

LEMMA FieldsApart ==
  ASSUME NEW t \in Types, t # "PS3USB", NEW a, NEW b, HasAxis(t, a), HasAxis(t, b),
         a # b, ~ Together(a, b)
  PROVE  FieldsOf(t, a) \cap FieldsOf(t, b) = {}
<1>1. \A c \in DpadAxes : FieldsOf(t, c) = {Negative(c), Positive(c)} /\ FieldsOf(t, c) \subseteq Dpad
  BY DpadButtons DEF FieldsOf
<1>2. FieldsOf(t, "TRIGGER") = {"LT", "RT"}
  BY AxisKinds DEF FieldsOf
<1>3. \A c \in Sticks : FieldsOf(t, c) = {c}
  BY AxisKinds DEF FieldsOf
<1>4. \A c \in Pressures : FieldsOf(t, c) = {PressureField[t][c]}
  BY AxisKinds DEF FieldsOf
<1>5. \A c \in Pressures : HasAxis(t, c) => PressureField[t][c] \in Buttons \ Dpad
  BY PressureFields DEF HasAxis
<1>6. \A c \in Pressures : HasAxis(t, c) /\ PressureField[t][c] \in {"LT", "RT"} => c \in {"LT", "RT"}
  BY PressureFields DEF HasAxis
<1>7. \A c, e \in Pressures : HasAxis(t, c) /\ HasAxis(t, e) /\ c # e
                                => PressureField[t][c] # PressureField[t][e]
  BY PressureFields DEF HasAxis
<1>8. {"LT", "RT"} \subseteq Buttons \ Dpad /\ Dpad \subseteq Buttons /\ Buttons \cap Sticks = {}
  BY DEF Buttons, Dpad, Sticks
<1>9. /\ a \in DpadAxes \/ a = "TRIGGER" \/ a \in Sticks \/ a \in Pressures
      /\ b \in DpadAxes \/ b = "TRIGGER" \/ b \in Sticks \/ b \in Pressures
  BY DEF HasAxis, Axes
<1>10. CASE a \in DpadAxes
  <2>1. CASE b \in DpadAxes
    BY <1>1, <1>10, <2>1, DpadButtons
  <2>2. CASE b \notin DpadAxes
    <3>1. FieldsOf(t, b) \cap Dpad = {}
      BY <1>2, <1>3, <1>4, <1>5, <1>8, <1>9, <2>2
    <3> QED BY <1>1, <1>10, <3>1
  <2> QED BY <2>1, <2>2
<1>11. CASE b \in DpadAxes /\ a \notin DpadAxes
  <2>1. FieldsOf(t, a) \cap Dpad = {}
    BY <1>2, <1>3, <1>4, <1>5, <1>8, <1>9, <1>11
  <2> QED BY <1>1, <1>11, <2>1
<1>12. CASE a \in Sticks /\ b \notin DpadAxes
  BY <1>2, <1>3, <1>4, <1>5, <1>8, <1>9, <1>12
<1>13. CASE b \in Sticks /\ a \notin DpadAxes
  BY <1>2, <1>3, <1>4, <1>5, <1>8, <1>9, <1>13
<1>14. CASE a = "TRIGGER" /\ b \in Pressures
  BY <1>2, <1>4, <1>6, <1>14 DEF Together
<1>15. CASE b = "TRIGGER" /\ a \in Pressures
  BY <1>2, <1>4, <1>6, <1>15 DEF Together
<1>16. CASE a \in Pressures /\ b \in Pressures
  BY <1>4, <1>7, <1>16
<1> QED BY <1>9, <1>10, <1>11, <1>12, <1>13, <1>14, <1>15, <1>16

LEMMA FieldsThere ==
  ASSUME NEW t \in Types, NEW a, HasAxis(t, a)
  PROVE  FieldsOf(t, a) \subseteq Fields(t)
<1>1. a \in DpadAxes => {Negative(a), Positive(a)} \subseteq Fields(t)
  BY DpadButtons
<1>2. {"LT", "RT"} \subseteq Fields(t) /\ Sticks \subseteq Fields(t)
  BY DEF Fields, ButtonsIn, Buttons
<1>3. a \in DOMAIN PressureField[t] => PressureField[t][a] \in Fields(t)
  BY DEF Fields, Bytes, Range
<1> QED BY <1>1, <1>2, <1>3 DEF FieldsOf, HasAxis, Axes

(* An axis that is set changes no field but its own.                         *)
LEMMA SetLeaves ==
  ASSUME NEW m, Shaped(m), m.type # "PS3USB", NEW a, HasAxis(m.type, a), NEW x
  PROVE  \A f \in Fields(m.type) \ FieldsOf(m.type, a) :
           SetAxisFloat(m, a, x).value[f] = m.value[f]
<1> DEFINE t == m.type
<1>1. t \in Types /\ a \in Axes
  BY DEF Shaped, HasAxis
<1>2. CASE a \in DpadAxes
  <2> DEFINE l == 2 * x[1] < -x[2]
             r == 2 * x[1] > x[2]
  <2>1. l \in BOOLEAN /\ r \in BOOLEAN
    OBVIOUS
  <2>2. SetAxisFloat(m, a, x) = SetDpad(m, a, l, r)
    BY <1>2, DpadAccess
  <2> HIDE DEF l, r
  <2> QED BY <1>2, <2>1, <2>2, SetDpadFacts DEF FieldsOf
<1>3. CASE a = "TRIGGER"
  <2>1. PICK l, r : SetAxisFloat(m, a, x) = SetTrigger(m, l, r)
    BY <1>3, TriggerAccess
  <2> DEFINE n == SetPressure(m, "LT", l)
  <2>2. /\ Shaped(n) /\ n.type = t
        /\ \A f \in Fields(t) \ {"LT", "RT"} : n.value[f] = m.value[f]
    BY <1>1, PressureFields, SetPressureFacts
  <2> HIDE DEF n
  <2>3. \A f \in Fields(t) \ {"LT", "RT"} : SetPressure(n, "RT", r).value[f] = n.value[f]
    BY <1>1, <2>2, PressureFields, SetPressureFacts
  <2>4. FieldsOf(t, a) = {"LT", "RT"}
    BY <1>3, AxisKinds DEF FieldsOf
  <2> QED BY <2>1, <2>2, <2>3, <2>4 DEF SetTrigger, n
<1>4. CASE a \in Sticks
  <2>1. PICK v : SetAxisFloat(m, a, x) = Store(m, a, v)
    BY <1>4, StickAccess
  <2>2. a \in Fields(t) /\ FieldsOf(t, a) = {a}
    BY <1>4, AxisKinds DEF Fields, FieldsOf
  <2> QED BY <2>1, <2>2, StoreFacts
<1>5. CASE a \in Pressures
  <2>1. PICK v : SetAxisFloat(m, a, x) = SetPressure(m, a, v)
    BY <1>5, PressureAccess
  <2>2. FieldsOf(t, a) = {PressureField[t][a]}
    BY <1>5, AxisKinds DEF FieldsOf
  <2> QED BY <2>1, <2>2, SetPressureFacts
<1> QED BY <1>1, <1>2, <1>3, <1>4, <1>5 DEF Axes

(* Two messages with the same fields of an axis have it in one place.        *)
LEMMA SameAxis ==
  ASSUME NEW m, NEW n, m.type \in Types, m.type # "PS3USB", n.type = m.type,
         NEW a, HasAxis(m.type, a), \A f \in FieldsOf(m.type, a) : n.value[f] = m.value[f]
  PROVE  GetAxis(n, a) = GetAxis(m, a) /\ GetAxisFloat(n, a) = GetAxisFloat(m, a)
<1>1. CASE a \in DpadAxes
  <2>1. n.value[Negative(a)] = m.value[Negative(a)] /\ n.value[Positive(a)] = m.value[Positive(a)]
    BY <1>1 DEF FieldsOf
  <2>2. /\ Pressed(n, Negative(a)) <=> Pressed(m, Negative(a))
        /\ Pressed(n, Positive(a)) <=> Pressed(m, Positive(a))
    BY <2>1 DEF Pressed, GetButton
  <2> QED BY <1>1, <2>2, DpadAccess
<1>2. CASE a = "TRIGGER"
  <2>1. n.value["LT"] = m.value["LT"] /\ n.value["RT"] = m.value["RT"]
    BY <1>2, AxisKinds DEF FieldsOf
  <2>2. PressureOf(n, "LT") = PressureOf(m, "LT") /\ PressureOf(n, "RT") = PressureOf(m, "RT")
    BY <2>1, PressureFields DEF PressureOf
  <2> QED BY <1>2, <2>2, TriggerAccess
<1>3. CASE a \in Sticks
  <2>1. n.value[a] = m.value[a]
    BY <1>3, AxisKinds DEF FieldsOf
  <2> QED BY <1>3, <2>1, StickAccess
<1>4. CASE a \in Pressures
  <2>1. PressureOf(n, a) = PressureOf(m, a)
    BY <1>4, AxisKinds DEF FieldsOf, PressureOf
  <2>2. \A k \in {m, n} : GetAxisFloat(k, a) = IF a \in DOMAIN PressureField[k.type]
                             THEN ByteToFloat(PressureOf(k, a)) ELSE Zero
    BY <1>4, AxisKinds DEF GetAxisFloat
  <2> QED BY <1>4, <2>1, <2>2, PressureAccess
<1> QED BY <1>1, <1>2, <1>3, <1>4 DEF HasAxis, Axes

LEMMA AxisApart ==
  ASSUME NEW m, Shaped(m), m.type # "PS3USB", NEW a, NEW b, HasAxis(m.type, a),
         HasAxis(m.type, b), a # b, ~ Together(a, b), NEW x
  PROVE  LET n == SetAxisFloat(m, a, x)
         IN  GetAxis(n, b) = GetAxis(m, b) /\ GetAxisFloat(n, b) = GetAxisFloat(m, b)
<1> DEFINE n == SetAxisFloat(m, a, x)
<1>1. m.type \in Types /\ a \in Axes
  BY DEF Shaped, HasAxis
<1>2. n.type = m.type
  BY <1>1, SetAxisFloatShaped
<1>3. FieldsOf(m.type, b) \subseteq Fields(m.type) \ FieldsOf(m.type, a)
  BY <1>1, FieldsApart, FieldsThere
<1>4. \A f \in FieldsOf(m.type, b) : n.value[f] = m.value[f]
  BY <1>3, SetLeaves
<1> HIDE DEF n
<1> QED BY <1>1, <1>2, <1>4, SameAxis DEF n

(* Each end of an axis is what the float of that end is set to.              *)
Ends == {-1, 1}
End(a, k) == IF k = 1 THEN AxisMax(a) ELSE AxisMin(a)

LEMMA WholeTimes ==
  ASSUME NEW k \in Ends, NEW n \in Nat, n > 0
  PROVE  /\ Times(<<k, 1>>, <<n, 1>>) = <<k * n, 1>>
         /\ Truncated(<<k * n, 1>>) = k * n /\ Quotient(k * n, 1) = k * n
<1>1. Times(<<k, 1>>, <<n, 1>>) = Float(k * n, 1)
  BY DEF Times
<1>2. \A j \in Nat : j > 0 => Quotient(j, 1) = j /\ Quotient(-j, 1) = -j
  <2>1. \A j \in Nat : j \div 1 = j
    OBVIOUS
  <2>2. Magnitude(1) = 1 /\ ~ (1 < 0)
    BY DEF Magnitude
  <2> QED BY <2>1, <2>2 DEF Quotient, Magnitude
<1>3. Quotient(k * n, 1) = k * n /\ k * n # 0 /\ k * n \in Int
  BY <1>2 DEF Ends
<1>4. Float(k * n, 1) = <<k * n, 1>>
  <2> DEFINE j == k * n
             T == {i \in 1..Magnitude(1) : Magnitude(j) % i = 0 /\ 1 % i = 0}
  <2>1. Magnitude(1) = 1 /\ ~ (1 < 0) /\ Magnitude(j) \in Nat
    BY <1>3 DEF Magnitude
  <2>2. T = {1}
    BY <2>1
  <2>3. Max({1}) = 1
    <3>1. {1} \in SUBSET Int /\ 1 \in {1} /\ \A y \in {1} : y <= 1
      OBVIOUS
    <3>2. Max({1}) \in {1}
      BY <3>1, MaxFacts
    <3> QED BY <3>2
  <2>4. j # 0 /\ Quotient(j, 1) = j /\ Quotient(1, 1) = 1 /\ j \in Int
    BY <1>3, QuotientFacts
  <2>5. Float(j, 1) = <<1 * Quotient(j, 1), 1 * Quotient(1, 1)>>
    <3> HIDE DEF j
    <3> QED BY <2>1, <2>2, <2>3, <2>4 DEF Float
  <2> HIDE DEF j, T
  <2>6. Float(j, 1) = <<j, 1>>
    BY <2>4, <2>5
  <2> QED BY <2>6 DEF j
<1> QED BY <1>1, <1>3, <1>4 DEF Truncated

LEMMA EndToStick ==
  ASSUME NEW k \in Ends
  PROVE  FloatToStick(<<k, 1>>) = IF k = 1 THEN Half16 - 1 ELSE -Half16
<1>1. Unit(<<k, 1>>) = <<k, 1>>
  BY DEF Unit, Ends
<1> DEFINE n == IF k >= 0 THEN Half16 - 1 ELSE Half16
<1>2. n \in Nat /\ n > 0
  BY BitFacts
<1>3. FloatToStick(<<k, 1>>) = Truncated(Times(<<k, 1>>, <<n, 1>>))
  BY <1>1 DEF FloatToStick
<1> HIDE DEF n
<1>4. Truncated(Times(<<k, 1>>, <<n, 1>>)) = k * n
  BY <1>2, WholeTimes
<1>5. k * n = IF k = 1 THEN Half16 - 1 ELSE -Half16
  BY BitFacts DEF n, Ends
<1> QED BY <1>3, <1>4, <1>5

LEMMA EndToByte ==
  ASSUME NEW k \in Ends
  PROVE  FloatToByte(<<k, 1>>) = IF k = 1 THEN Top8 ELSE 0
<1>1. CASE k = 1
  <2>1. Unit(<<1, 1>>) = <<1, 1>>
    BY DEF Unit
  <2>2. FloatToByte(<<1, 1>>) = Quotient((1 + 1) * Top8, 2 * 1)
    BY <2>1 DEF FloatToByte
  <2>3. (1 + 1) * Top8 = 2 * Top8 /\ 2 * 1 = 2 /\ Top8 \in Nat
    BY BitFacts
  <2>4. Magnitude(2 * Top8) = 2 * Top8 /\ Magnitude(2) = 2 /\ ~ (2 * Top8 < 0) /\ ~ (2 < 0)
        /\ (2 * Top8) \div 2 = Top8
    BY <2>3 DEF Magnitude
  <2>5. Quotient(2 * Top8, 2) = Top8
    BY <2>4 DEF Quotient
  <2> QED BY <1>1, <2>2, <2>3, <2>5
<1>2. CASE k = -1
  BY <1>2, FloatsOfRest
<1> QED BY <1>1, <1>2 DEF Ends

LEMMA EndsKept ==
  ASSUME NEW t \in Types, t # "PS3USB"
  PROVE  /\ \A a \in Sticks : Kept(t, a, -Half16) = -Half16 /\ Kept(t, a, Half16 - 1) = Half16 - 1
         /\ \A f \in Bytes(t) : Kept(t, f, Top8) = Top8 /\ Kept(t, f, 0) = 0
<1>1. ASSUME NEW a \in Sticks
      PROVE  Kept(t, a, -Half16) = -Half16 /\ Kept(t, a, Half16 - 1) = Half16 - 1
  <2>1. \A v : Kept(t, a, v) = ((v + Half16) % (2 * Half16)) - Half16
    BY BitFacts DEF Kept, Signed
  <2>2. /\ (-Half16 + Half16) % (2 * Half16) = 0
        /\ (Half16 - 1 + Half16) % (2 * Half16) = 2 * Half16 - 1
    BY BitFacts
  <2> QED BY <2>1, <2>2, BitFacts
<1>2. ASSUME NEW f \in Bytes(t) PROVE Kept(t, f, Top8) = Top8 /\ Kept(t, f, 0) = 0
  <2>1. f \notin Sticks
    BY PressureFields DEF Bytes, Range
  <2>2. \A v : Kept(t, f, v) = v % (2 * Half8)
    BY <2>1, BitFacts DEF Kept, Signed, Width
  <2>3. Top8 % (2 * Half8) = Top8 /\ 0 % (2 * Half8) = 0
    BY BitFacts
  <2> QED BY <2>2, <2>3
<1> QED BY <1>1, <1>2

LEMMA SetToEnd ==
  ASSUME NEW m, Shaped(m), m.type # "PS3USB", NEW a, HasAxis(m.type, a), NEW k \in Ends
  PROVE  GetAxis(SetAxisFloat(m, a, <<k, 1>>), a) = End(a, k)
<1> DEFINE t == m.type
           x == <<k, 1>>
           new == SetAxisFloat(m, a, x)
<1>1. t \in Types /\ a \in Axes /\ x[1] = k /\ x[2] = 1
  BY DEF Shaped, HasAxis
<1>2. CASE a \in DpadAxes
  <2> DEFINE l == k = -1
             r == k = 1
             n == SetDpad(m, a, l, r)
  <2>1. new = SetDpad(m, a, 2 * k < -1, 2 * k > 1)
    BY <1>1, <1>2, DpadAccess
  <2>2. (2 * k < -1) = l /\ (2 * k > 1) = r
    BY DEF Ends
  <2>3. new = n /\ l \in BOOLEAN /\ r \in BOOLEAN
    BY <2>1, <2>2
  <2> HIDE DEF l, r
  <2>4. (Pressed(n, Negative(a)) <=> l) /\ (Pressed(n, Positive(a)) <=> r)
    BY <1>2, <2>3, SetDpadFacts
  <2> HIDE DEF n, new
  <2>5. GetAxis(new, a) = IF l THEN -1 ELSE IF r THEN 1 ELSE 0
    BY <1>2, <2>3, <2>4, DpadAccess
  <2>6. End(a, k) = IF k = 1 THEN 1 ELSE -1
    BY <1>2, DpadAccess DEF End
  <2> QED BY <2>5, <2>6 DEF l, r, Ends, new
<1>3. CASE a = "TRIGGER"
  <2> DEFINE magnitude == Truncated(Times(<<Magnitude(k), 1>>, <<Top8, 1>>))
             l == IF k < 0 THEN magnitude ELSE 0
             r == IF k > 0 THEN magnitude ELSE 0
  <2>1. new = SetTrigger(m, l, r)
    BY <1>1, <1>3, TriggerAccess
  <2>2. magnitude = Top8
    <3>1. Magnitude(k) = 1 /\ 1 \in Ends /\ Top8 \in Nat /\ Top8 > 0 /\ 1 * Top8 = Top8
      BY BitFacts DEF Magnitude, Ends
    <3>2. Times(<<1, 1>>, <<Top8, 1>>) = <<1 * Top8, 1>> /\ Truncated(<<1 * Top8, 1>>) = 1 * Top8
      BY <3>1, WholeTimes
    <3> QED BY <3>1, <3>2
  <2>3. l = (IF k = 1 THEN 0 ELSE Top8) /\ r = (IF k = 1 THEN Top8 ELSE 0)
    BY <2>2 DEF Ends
  <2> HIDE DEF magnitude, l, r
  <2> DEFINE n == SetPressure(m, "LT", l)
             p == SetPressure(n, "RT", r)
  <2>4. /\ {"LT", "RT"} \subseteq DOMAIN PressureField[t]
        /\ PressureField[t]["LT"] = "LT" /\ PressureField[t]["RT"] = "RT"
    BY <1>1, PressureFields
  <2>5. Shaped(n) /\ n.type = t /\ n.value["LT"] = Kept(t, "LT", l)
        /\ {"LT", "RT"} \subseteq Bytes(t) \cap Fields(t)
    <3>1. "LT" \in Bytes(t) \cap Fields(t) /\ "RT" \in Bytes(t) \cap Fields(t)
      BY <2>4 DEF Bytes, Fields, Range
    <3> QED BY <2>4, <3>1, SetPressureFacts
  <2> HIDE DEF n
  <2>6. /\ p.type = t /\ p.value["RT"] = Kept(t, "RT", r)
        /\ p.value["LT"] = n.value["LT"]
    BY <2>4, <2>5, SetPressureFacts
  <2> HIDE DEF p
  <2>7. p.value["LT"] = l /\ p.value["RT"] = r
    BY <1>1, <2>3, <2>5, <2>6, EndsKept
  <2>8. PressureOf(p, "LT") = l /\ PressureOf(p, "RT") = r
    BY <2>4, <2>6, <2>7 DEF PressureOf
  <2>9. new = p
    BY <2>1 DEF SetTrigger, n, p
  <2>10. GetAxis(p, a) = r - l
    BY <1>3, <2>8, TriggerAccess
  <2>11. End(a, k) = IF k = 1 THEN Top8 ELSE -Top8
    BY <1>3, TriggerAccess DEF End
  <2> QED BY <2>3, <2>9, <2>10, <2>11, BitFacts
<1>4. CASE a \in Sticks
  <2> DEFINE v == IF k = 1 THEN Half16 - 1 ELSE -Half16
  <2>1. new = Store(m, a, v)
    <3>1. \A f : SetAxisFloat(m, a, f) = Store(m, a, FloatToStick(f))
      BY <1>4, StickAccess
    <3>2. FloatToStick(x) = v
      BY EndToStick
    <3> HIDE DEF v, x
    <3> QED BY <3>1, <3>2
  <2>2. a \in Fields(t)
    BY <1>4 DEF Fields
  <2>3. Store(m, a, v).type = t /\ Store(m, a, v).value[a] = Kept(t, a, v)
    BY <2>2, StoreFacts
  <2>4. Kept(t, a, v) = v
    BY <1>1, <1>4, EndsKept
  <2>5. End(a, k) = v
    BY <1>4, StickAccess DEF End
  <2> HIDE DEF v, new
  <2> QED BY <1>4, <2>1, <2>3, <2>4, <2>5, StickAccess DEF new
<1>5. CASE a \in Pressures
  <2> DEFINE v == IF k = 1 THEN Top8 ELSE 0
             f == PressureField[t][a]
             n == SetPressure(m, a, v)
  <2>1. new = n
    BY <1>5, PressureAccess, EndToByte
  <2>2. a \in DOMAIN PressureField[t]
    BY <1>5 DEF HasAxis
  <2>3. n.type = t /\ f \in Bytes(t) /\ n.value[f] = Kept(t, f, v)
    BY <2>2, SetPressureFacts
  <2>4. Kept(t, f, v) = v
    BY <1>1, <2>3, EndsKept
  <2>5. End(a, k) = v
    BY <1>5, PressureAccess DEF End
  <2> HIDE DEF n, v
  <2>6. PressureOf(n, a) = n.value[f]
    BY <2>2, <2>3 DEF PressureOf
  <2> HIDE DEF new
  <2> QED BY <1>5, <2>1, <2>3, <2>4, <2>5, <2>6, PressureAccess DEF new
<1> QED BY <1>1, <1>2, <1>3, <1>4, <1>5 DEF Axes

(* An axis that was cleared reads as 0, and nothing is added to what follows. *)
LEMMA SetToZero ==
  ASSUME NEW m, Shaped(m), m.type # "PS3USB", NEW a \in Axes \ Pressures
  PROVE  GetAxisFloat(SetAxisFloat(m, a, Zero), a) = Zero
<1> DEFINE t == m.type
           new == SetAxisFloat(m, a, Zero)
<1>1. t \in Types /\ Zero[1] = 0 /\ Zero[2] = 1
  BY DEF Shaped, Zero
<1>2. CASE a \in DpadAxes
  <2> DEFINE n == SetDpad(m, a, FALSE, FALSE)
  <2>1. new = SetDpad(m, a, 2 * 0 < -1, 2 * 0 > 1)
    BY <1>1, <1>2, DpadAccess
  <2>2. (2 * 0 < -1) = FALSE /\ (2 * 0 > 1) = FALSE
    OBVIOUS
  <2>3. new = n
    BY <2>1, <2>2
  <2>4. ~ Pressed(n, Negative(a)) /\ ~ Pressed(n, Positive(a))
    BY <1>2, SetDpadFacts
  <2> HIDE DEF n, new
  <2> QED BY <1>2, <2>3, <2>4, DpadAccess DEF Zero, new
<1>3. CASE a = "TRIGGER"
  <2> DEFINE n == SetPressure(m, "LT", 0)
             p == SetPressure(n, "RT", 0)
  <2>1. ~ (Zero[1] < 0) /\ ~ (Zero[1] > 0)
    BY <1>1
  <2>2. new = SetTrigger(m, 0, 0)
    BY <1>3, <2>1, TriggerAccess
  <2>3. new = p
    BY <2>2 DEF SetTrigger
  <2>4. /\ {"LT", "RT"} \subseteq DOMAIN PressureField[t]
        /\ PressureField[t]["LT"] = "LT" /\ PressureField[t]["RT"] = "RT"
    BY <1>1, PressureFields
  <2>5. Shaped(n) /\ n.type = t /\ n.value["LT"] = Kept(t, "LT", 0)
        /\ {"LT", "RT"} \subseteq Bytes(t) \cap Fields(t)
    <3>1. "LT" \in Bytes(t) \cap Fields(t) /\ "RT" \in Bytes(t) \cap Fields(t)
      BY <2>4 DEF Bytes, Fields, Range
    <3> QED BY <2>4, <3>1, SetPressureFacts
  <2> HIDE DEF n
  <2>6. p.type = t /\ p.value["RT"] = Kept(t, "RT", 0) /\ p.value["LT"] = n.value["LT"]
    BY <2>4, <2>5, SetPressureFacts
  <2> HIDE DEF p
  <2>7. p.value["LT"] = 0 /\ p.value["RT"] = 0
    BY <1>1, <2>5, <2>6, KeptZero
  <2>8. PressureOf(p, "LT") = 0 /\ PressureOf(p, "RT") = 0
    BY <2>4, <2>6, <2>7 DEF PressureOf
  <2>9. GetAxis(p, "TRIGGER") = 0
    <3>1. GetAxis(p, "TRIGGER") = PressureOf(p, "RT") - PressureOf(p, "LT")
      BY TriggerAccess
    <3>2. 0 - 0 = 0
      OBVIOUS
    <3> QED BY <2>8, <3>1, <3>2
  <2>10. Top8 \in Nat /\ Top8 > 0
    BY BitFacts
  <2>11. \A v \in Int : v = 0 => Float(v, Top8) = Zero
    BY <2>10, FloatFacts
  <2>12. GetAxisFloat(p, "TRIGGER") = Float(0, Top8)
    <3>1. p.type # "PS3USB"
      BY <2>5, <2>6
    <3>2. GetAxisFloat(p, "TRIGGER") = Float(GetAxis(p, "TRIGGER"), Top8)
      BY <3>1, TriggerAccess
    <3> QED BY <2>9, <3>2
  <2>13. Float(0, Top8) = Zero
    BY <2>11
  <2> HIDE DEF new
  <2> QED BY <1>3, <2>3, <2>12, <2>13 DEF new
<1>4. CASE a \in Sticks
  <2>1. new = Store(m, a, 0)
    BY <1>4, StickAccess, FloatsOfRest
  <2>2. a \in Fields(t)
    BY <1>4 DEF Fields
  <2>3. Store(m, a, 0).type = t /\ Store(m, a, 0).value[a] = Kept(t, a, 0)
    BY <2>2, StoreFacts
  <2>4. Kept(t, a, 0) = 0
    BY <1>1, <2>2, KeptZero
  <2> HIDE DEF new
  <2> QED BY <1>4, <2>1, <2>3, <2>4, StickAccess, FloatsOfRest DEF new
<1> QED BY <1>2, <1>3, <1>4 DEF Axes

(* A deadzone and an inversion leave the ends of an axis ends of it, and     *)
(* those are the ends of the floats.                                         *)
LEMMA EndOrder ==
  ASSUME NEW a \in Axes
  PROVE  LET c == Center(AxisMin(a), AxisMax(a))
         IN  /\ AxisMin(a) \in Int /\ c \in Int /\ AxisMax(a) \in Int
             /\ AxisMin(a) < c /\ c < AxisMax(a) /\ AxisMin(a) <= 0
<1> DEFINE c == Center(AxisMin(a), AxisMax(a))
<1>1. CASE a \in DpadAxes
  <2>1. c = 0 /\ AxisMin(a) = -1 /\ AxisMax(a) = 1
    BY <1>1, CentreOf, DpadAccess, AxisKinds
  <2> QED BY <2>1
<1>2. CASE a = "TRIGGER"
  <2>1. c = 0 /\ AxisMin(a) = -Top8 /\ AxisMax(a) = Top8
    BY <1>2, CentreOf, TriggerAccess, AxisKinds
  <2> HIDE DEF c
  <2> QED BY <2>1, BitFacts DEF c
<1>3. CASE a \in Sticks
  <2>1. c = 0 /\ AxisMin(a) = -Half16 /\ AxisMax(a) = Half16 - 1
    BY <1>3, CentreOf, StickAccess, AxisKinds
  <2> HIDE DEF c
  <2> QED BY <2>1, BitFacts DEF c
<1>4. CASE a \in Pressures
  <2>1. c = Half8 /\ AxisMin(a) = 0 /\ AxisMax(a) = Top8
    BY <1>4, CentreOf
  <2> HIDE DEF c
  <2> QED BY <2>1, BitFacts DEF c
<1> QED BY <1>1, <1>2, <1>3, <1>4 DEF Axes

LEMMA FloatOfEnd ==
  ASSUME NEW a \in Axes, NEW k \in Ends
  PROVE  ToFloat(End(a, k), AxisMin(a), AxisMax(a)) = <<k, 1>>
<1> DEFINE min == AxisMin(a)
           max == AxisMax(a)
           c == Center(min, max)
<1>1. min \in Int /\ c \in Int /\ max \in Int /\ min < c /\ c < max
  BY EndOrder
<1>2. \A x : ToFloatUnchecked(x, min, max) = Float(x - c, IF x < c THEN c - min ELSE max - c)
  BY DEF ToFloatUnchecked
<1> HIDE DEF min, max, c
<1>3. CASE k = 1
  <2> DEFINE n == max - c
  <2>1. n \in Nat /\ n > 0 /\ ~ (max < c)
    BY <1>1
  <2>2. ToFloatUnchecked(max, min, max) = Float(n, n)
    BY <1>2, <2>1
  <2> HIDE DEF n
  <2>3. \A j \in Int : j = n => Float(j, n) = <<1, 1>>
    BY <2>1, FloatFacts
  <2>4. Float(n, n) = <<1, 1>>
    BY <2>1, <2>3
  <2>5. Unit(<<1, 1>>) = <<1, 1>>
    BY DEF Unit
  <2>6. End(a, k) = max
    BY <1>3 DEF End, max
  <2>7. ToFloat(max, min, max) = <<1, 1>>
    BY <2>2, <2>4, <2>5 DEF ToFloat
  <2> QED BY <1>3, <2>6, <2>7 DEF min, max
<1>4. CASE k = -1
  <2> DEFINE n == c - min
  <2>1. n \in Nat /\ n > 0 /\ min < c /\ min - c = -n
    BY <1>1
  <2>2. ToFloatUnchecked(min, min, max) = Float(-n, n)
    BY <1>2, <2>1
  <2> HIDE DEF n
  <2>3. Float(-n, n) = <<-1, 1>>
    <3>1. \A j \in Int : j = -n => Float(j, n) = <<-1, 1>>
      BY <2>1, FloatFacts
    <3> QED BY <2>1, <3>1
  <2>4. End(a, k) = min
    BY <1>4 DEF End, min
  <2>5. ToFloat(min, min, max) = <<-1, 1>>
    BY <2>2, <2>3, UnitZero DEF ToFloat
  <2> QED BY <1>4, <2>4, <2>5 DEF min, max
<1> QED BY <1>3, <1>4 DEF Ends

(* What is scaled by the part that is left of it comes out whole.            *)
LEMMA QuotientWhole ==
  ASSUME NEW n \in Int, NEW d \in Int, d # 0
  PROVE  Quotient(n * d, d) = n
<1>1. \A i \in Nat, j \in Nat : j > 0 => (i * j) \div j = i
  OBVIOUS
<1> DEFINE i == Magnitude(n)
           j == Magnitude(d)
<1>2. i \in Nat /\ j \in Nat /\ j > 0
  BY DEF Magnitude
<1>3. Magnitude(n * d) = i * j
  <2>1. CASE n >= 0 /\ d > 0
    <3>1. n * d >= 0
      BY <2>1
    <3> QED BY <2>1, <3>1 DEF Magnitude
  <2>2. CASE n >= 0 /\ d < 0
    <3>1. -(n * d) = n * (-d) /\ n * (-d) >= 0
      BY <2>2
    <3>2. n * d < 0 \/ n * d = 0
      BY <3>1
    <3> QED BY <2>2, <3>1, <3>2 DEF Magnitude
  <2>3. CASE n < 0 /\ d > 0
    <3>1. -(n * d) = (-n) * d /\ (-n) * d > 0
      BY <2>3
    <3> QED BY <2>3, <3>1 DEF Magnitude
  <2>4. CASE n < 0 /\ d < 0
    <3>1. n * d = (-n) * (-d) /\ (-n) * (-d) > 0
      BY <2>4
    <3> QED BY <2>4, <3>1 DEF Magnitude
  <2> QED BY <2>1, <2>2, <2>3, <2>4
<1>4. Magnitude(n * d) \div j = i
  BY <1>1, <1>2, <1>3
<1>5. n # 0 => ((n * d < 0 <=> d < 0) <=> n > 0)
  <2>1. CASE n > 0 /\ d > 0
    BY <2>1
  <2>2. CASE n > 0 /\ d < 0
    <3>1. n * (-d) > 0 /\ n * (-d) = -(n * d)
      BY <2>2
    <3> QED BY <2>2, <3>1
  <2>3. CASE n < 0 /\ d > 0
    <3>1. (-n) * d > 0 /\ (-n) * d = -(n * d)
      BY <2>3
    <3> QED BY <2>3, <3>1
  <2>4. CASE n < 0 /\ d < 0
    <3>1. (-n) * (-d) > 0 /\ (-n) * (-d) = n * d
      BY <2>4
    <3> QED BY <2>4, <3>1
  <2> QED BY <2>1, <2>2, <2>3, <2>4
<1>6. Quotient(n * d, d) = IF n * d < 0 <=> d < 0 THEN i ELSE -i
  <2> HIDE DEF i
  <2> QED BY <1>4 DEF Quotient
<1>7. n = 0 => i = 0
  BY DEF Magnitude
<1>8. n > 0 => i = n
  BY DEF Magnitude
<1>9. n < 0 => i = -n
  BY DEF Magnitude
<1> HIDE DEF i, j
<1>10. CASE n = 0
  BY <1>6, <1>7, <1>10
<1>11. CASE n > 0
  BY <1>5, <1>6, <1>8, <1>11
<1>12. CASE n < 0
  BY <1>5, <1>6, <1>9, <1>12
<1> QED BY <1>10, <1>11, <1>12

LEMMA InvertedEnd ==
  ASSUME NEW a \in Axes, NEW k \in Ends
  PROVE  Inverted(End(a, k), AxisMin(a), AxisMax(a)) = End(a, -k)
<1> DEFINE min == AxisMin(a)
           max == AxisMax(a)
           c == Center(min, max)
<1>1. min \in Int /\ c \in Int /\ max \in Int /\ min < c /\ c < max
  BY EndOrder
<1>2. Inverted(min, min, max) = Quotient((max - c) * (min - c), min - c) + c
  <2> HIDE DEF min, max
  <2>1. ~ (min > c) /\ min < c /\ min # c
    BY <1>1
  <2> QED BY <2>1 DEF Inverted
<1>3. Inverted(max, min, max) = Quotient((min - c) * (max - c), max - c) + c
  <2> HIDE DEF min, max
  <2>1. max > c /\ ~ (max < c) /\ max # c
    BY <1>1
  <2> QED BY <2>1 DEF Inverted
<1>4. End(a, 1) = max /\ End(a, -1) = min
  BY DEF End
<1> HIDE DEF min, max, c
<1>5. Inverted(min, min, max) = max
  <2>1. max - c \in Int /\ min - c \in Int /\ min - c # 0
    BY <1>1
  <2>2. Quotient((max - c) * (min - c), min - c) = max - c
    BY <2>1, QuotientWhole
  <2> QED BY <1>1, <1>2, <2>2
<1>6. Inverted(max, min, max) = min
  <2>1. max - c \in Int /\ min - c \in Int /\ max - c # 0
    BY <1>1
  <2>2. Quotient((min - c) * (max - c), max - c) = min - c
    BY <2>1, QuotientWhole
  <2> QED BY <1>1, <1>3, <2>2
<1>7. k = 1 \/ k = -1
  BY DEF Ends
<1>8. (k = -1 => -k = 1) /\ (k = 1 => -k = -1)
  OBVIOUS
<1> QED BY <1>4, <1>5, <1>6, <1>7, <1>8 DEF min, max

LEMMA DeadzoneEnd ==
  ASSUME NEW a \in Axes, NEW k \in Ends, NEW f, IsAxisFilter(f), LeavesEnds(f, a)
  PROVE  Deadzone(f, End(a, k), AxisMin(a), AxisMax(a)) = End(a, k)
<1> DEFINE min == AxisMin(a)
           max == AxisMax(a)
           from == f.from
           to == f.to
<1>1. min \in Int /\ max \in Int /\ min < max /\ min <= 0
  BY EndOrder
<1>2. from \in Int /\ to \in Int /\ f.smooth \in BOOLEAN
  BY DEF IsAxisFilter, LeavesEnds
<1>3. from <= to /\ to < max /\ (min < from \/ (min = 0 /\ from <= 0 /\ 0 <= to))
  BY <1>2 DEF LeavesEnds
<1>4. End(a, 1) = max /\ End(a, -1) = min
  BY DEF End
<1> HIDE DEF min, max
<1>5. Deadzone(f, max, min, max) = max
  <2>1. ~ (max <= to) /\ ~ (max < from) /\ max > to /\ to < max
    BY <1>1, <1>2, <1>3
  <2>2. Quotient(max * (max - to), max - to) = max
    <3>1. max - to \in Int /\ max - to # 0
      BY <1>1, <1>2, <1>3
    <3> QED BY <1>1, <3>1, QuotientWhole
  <2>3. Deadzone(f, max, min, max) = IF ~ f.smooth THEN max
                                     ELSE Quotient(max * (max - to), max - to)
    <3> HIDE DEF from, to
    <3>1. CASE f.smooth
      BY <2>1, <3>1 DEF Deadzone, from, to
    <3>2. CASE ~ f.smooth
      BY <2>1, <3>2 DEF Deadzone, from, to
    <3> QED BY <1>2, <3>1, <3>2
  <2> QED BY <2>2, <2>3
<1>6. CASE min < from
  <2>1. ~ (min >= from) /\ ~ (min > to) /\ ~ (to < min)
    BY <1>1, <1>2, <1>3, <1>6
  <2>2. Quotient(min * (min - from), min - from) = min
    <3>1. min - from \in Int /\ min - from # 0
      BY <1>1, <1>2, <1>6
    <3> QED BY <1>1, <3>1, QuotientWhole
  <2>3. Deadzone(f, min, min, max) = IF ~ f.smooth THEN min
                                     ELSE Quotient(min * (min - from), min - from)
    <3> HIDE DEF from, to
    <3>1. CASE f.smooth
      BY <1>6, <2>1, <3>1 DEF Deadzone, from, to
    <3>2. CASE ~ f.smooth
      BY <1>6, <2>1, <3>2 DEF Deadzone, from, to
    <3> QED BY <1>2, <3>1, <3>2
  <2>4. Deadzone(f, min, min, max) = min
    BY <2>2, <2>3
  <2> QED BY <1>4, <1>5, <2>4 DEF Ends, min, max
<1>7. CASE ~ (min < from)
  <2>1. min = 0 /\ min >= from /\ min <= to /\ ~ (min < from) /\ ~ (to < min) /\ ~ (min > to)
    BY <1>1, <1>2, <1>3, <1>7
  <2>2. Deadzone(f, min, min, max) = 0
    <3> HIDE DEF from, to
    <3> QED BY <2>1 DEF Deadzone, from, to
  <2>3. Deadzone(f, min, min, max) = min
    BY <2>1, <2>2
  <2> QED BY <1>4, <1>5, <2>3 DEF Ends, min, max
<1> QED BY <1>6, <1>7

LEMMA FilteredEnd ==
  ASSUME NEW a \in Axes, NEW k \in Ends, NEW F, IsSeq(F), NEW S,
         \A f \in Range(F) : IsAxisFilter(f) /\ LeavesEnds(f, a)
  PROVE  AxisValues(F, S, End(a, k), AxisMin(a), AxisMax(a))[Len(F)] = End(a, k)
<1> DEFINE n == Len(F)
           min == AxisMin(a)
           max == AxisMax(a)
           v == End(a, k)
           f == AxisValues(F, S, v, min, max)
           G == {i \in 0..n : f[i] = v}
<1>1. n \in Nat /\ \A i \in 1..n : F[i] \in Range(F)
  BY SeqFacts
<1>2. f[0] = v /\ \A i \in 1..n : f[i] = AxisFiltered(F[i], S[i], f[i - 1], min, max)
  <2> HIDE DEF v, min, max
  <2> QED BY <1>1, AxisValuesSteps
<1>3. ASSUME NEW i \in 1..n PROVE AxisFiltered(F[i], S[i], v, min, max) = v
  <2>1. F[i].kind = "deadzone"
    BY <1>1 DEF LeavesEnds
  <2>2. AxisFiltered(F[i], S[i], v, min, max) = Deadzone(F[i], v, min, max)
    <3> HIDE DEF v, min, max
    <3> QED BY <2>1 DEF AxisFiltered
  <2> QED BY <1>1, <2>2, DeadzoneEnd
<1> HIDE DEF f, v, min, max
<1>4. 0 \in G
  BY <1>1, <1>2
<1>5. ASSUME NEW i \in 1..n, i - 1 \in G PROVE i \in G
  BY <1>2, <1>3, <1>5
<1>6. n \in G
  <2> HIDE DEF G, n
  <2>1. 0..n \subseteq G
    BY <1>1, <1>4, <1>5, UpTo
  <2> QED BY <1>1, <2>1
<1> QED BY <1>6 DEF f, v, min, max

(* The axes of mappings that permute them, all of a message of type t.       *)
LEMMA PermutedAxes ==
  ASSUME NEW maps, NEW t, Permutes(maps, t),
         \A i \in DOMAIN maps : {maps[i].lhs, maps[i].rhs} \subseteq Axes
  PROVE  /\ \A i \in DOMAIN maps : HasAxis(t, maps[i].lhs) /\ HasAxis(t, maps[i].rhs)
         /\ \A i, j \in DOMAIN maps : ~ Together(maps[i].lhs, maps[j].lhs)
         /\ \A i, j \in DOMAIN maps : ~ Together(maps[i].rhs, maps[j].rhs)
         /\ \A i \in DOMAIN maps : \E c \in DOMAIN maps : maps[c].lhs = maps[i].rhs
<1> DEFINE axes == {maps[i].lhs : i \in DOMAIN maps}
<1>1. /\ \A i \in DOMAIN maps : maps[i].lhs \in axes
      /\ \A i \in DOMAIN maps : maps[i].rhs \in axes
      /\ axes \subseteq Axes
      /\ "TRIGGER" \in axes => {"LT", "RT"} \cap axes = {}
      /\ axes \cap Pressures \subseteq DOMAIN PressureField[t]
  <2>1. axes = {maps[i].rhs : i \in DOMAIN maps}
    BY DEF Permutes
  <2>2. \A i \in DOMAIN maps : maps[i].rhs \in {maps[j].rhs : j \in DOMAIN maps}
    OBVIOUS
  <2> QED BY <2>1, <2>2 DEF Permutes
<1>2. \A i \in DOMAIN maps : \E c \in DOMAIN maps : maps[c].lhs = maps[i].rhs
  BY <1>1
<1> HIDE DEF axes
<1>3. \A a, b \in axes : ~ Together(a, b)
  BY <1>1 DEF Together
<1>4. \A a \in axes : HasAxis(t, a)
  BY <1>1 DEF HasAxis
<1> QED BY <1>1, <1>2, <1>3, <1>4

(* After the first loop an axis that a mapping may be added to reads as 0.   *)
LEMMA ClearedReads ==
  ASSUME NEW mod, IsSeq(mod.maps), NEW t \in Types, t # "PS3USB", Permutes(mod.maps, t),
         \A i \in DOMAIN mod.maps : {mod.maps[i].lhs, mod.maps[i].rhs} \subseteq Axes,
         NEW m, Shaped(m), m.type = t, NEW c \in DOMAIN mod.maps
  PROVE  LET n == ClearedAxes(mod, m)
             a == mod.maps[c].lhs
         IN  /\ Shaped(n) /\ n.type = t
             /\ a \notin Pressures => GetAxisFloat(n, a) = Zero
<1> DEFINE maps == mod.maps
           n == Len(maps)
           a == maps[c].lhs
<1>1. n \in Nat /\ DOMAIN maps = 1..n /\ c \in 1..n
  BY SeqFacts
<1>2. PICK f : ClearedAxes(mod, m) = f[n] /\ ClearsAxes(f, maps, m)
  BY <1>1, ClearedAxesSteps
<1> DEFINE Good(j) == /\ Shaped(f[j]) /\ f[j].type = t
                      /\ c <= j /\ a \notin Pressures => GetAxisFloat(f[j], a) = Zero
           G == {j \in 0..n : Good(j)}
<1>3. Good(0)
  BY <1>1, <1>2 DEF ClearsAxes
<1>4. ASSUME NEW j \in 1..n, Good(j - 1) PROVE Good(j)
  <2> DEFINE b == maps[j].lhs
             old == f[j - 1]
  <2>1. f[j] = SetAxisFloat(old, b, Zero) /\ Shaped(old) /\ old.type = t
    BY <1>2, <1>4 DEF ClearsAxes
  <2>2. a \in Axes /\ b \in Axes /\ HasAxis(t, a) /\ HasAxis(t, b) /\ ~ Together(b, a)
    BY <1>1, PermutedAxes
  <2>3. j # c => b # a
    BY <1>1 DEF Permutes
  <2>4. c <= j - 1 /\ a \notin Pressures => GetAxisFloat(old, a) = Zero
    BY <1>4
  <2> HIDE DEF a, b, old
  <2>5. Shaped(f[j]) /\ f[j].type = t
    BY <2>1, <2>2, SetAxisFloatShaped
  <2>6. ASSUME c <= j, a \notin Pressures PROVE GetAxisFloat(f[j], a) = Zero
    <3>1. CASE b = a
      BY <2>1, <2>2, <2>6, <3>1, SetToZero
    <3>2. CASE b # a
      <4>1. GetAxisFloat(SetAxisFloat(old, b, Zero), a) = GetAxisFloat(old, a)
        BY <2>1, <2>2, <3>2, AxisApart
      <4>2. c <= j - 1
        <5>1. b = a \/ j # c
          BY <3>2 DEF a, b
        <5> QED BY <1>1, <2>6, <3>2, <5>1
      <4> QED BY <2>1, <2>4, <2>6, <4>1, <4>2
    <3> QED BY <3>1, <3>2
  <2> QED BY <2>5, <2>6
<1>5. Good(n)
  <2> HIDE DEF Good, n
  <2>1. 0 \in G
    BY <1>1, <1>3
  <2>2. ASSUME NEW j \in 1..n, j - 1 \in G PROVE j \in G
    BY <1>4, <2>2
  <2> HIDE DEF G
  <2>3. 0..n \subseteq G
    BY <1>1, <2>1, <2>2, UpTo
  <2> QED BY <1>1, <2>3 DEF G
<1> QED BY <1>1, <1>2, <1>5

LEMMA OtherEnd == \A k \in Ends : -k \in Ends
<1>1. \A k \in Ends : (k = -1 => -k = 1) /\ (k = 1 => -k = -1)
  OBVIOUS
<1> QED BY <1>1 DEF Ends

(* An end of an axis goes to the end of the axis it is mapped to.            *)
LEMMA EndMapped ==
  ASSUME NEW mod, mod.kind = "axismap", IsModifier(mod),
         NEW t \in Types, t # "PS3USB", Permutes(mod.maps, t),
         \A i \in DOMAIN mod.maps :
           \A f \in Range(mod.maps[i].filters) : LeavesEnds(f, mod.maps[i].lhs),
         NEW m, Shaped(m), m.type = t, NEW state, NEW d,
         NEW i \in DOMAIN mod.maps, NEW k \in Ends,
         GetAxis(m, mod.maps[i].lhs) = End(mod.maps[i].lhs, k)
  PROVE  GetAxis(AxisMapped(mod, state, d, m).msg, mod.maps[i].rhs)
           = End(mod.maps[i].rhs, IF mod.maps[i].invert THEN -k ELSE k)
<1> DEFINE maps == mod.maps
           n == Len(maps)
           map == maps[i]
           a == map.lhs
           b == map.rhs
           e == IF map.invert THEN -k ELSE k
           start == ClearedAxes(mod, m)
<1>1. /\ IsSeq(maps)
      /\ \A j \in DOMAIN maps :
           /\ {maps[j].lhs, maps[j].rhs} \subseteq Axes
           /\ IsSeq(maps[j].filters) /\ \A f \in Range(maps[j].filters) : IsAxisFilter(f)
           /\ maps[j].invert \in BOOLEAN
  BY DEF IsModifier
<1>2. n \in Nat /\ DOMAIN maps = 1..n
  BY <1>1, SeqFacts
<1>3. PICK f, S : /\ AxisMapped(mod, state, d, m).msg = f[n]
                  /\ MapsAxes(f, maps, S, m, start)
  BY <1>2, AxisMappedSteps
<1>4. e \in Ends
  BY OtherEnd
<1>5. ToFloat(AxisOutput(map, S[i], m), AxisMin(a), AxisMax(a)) = <<e, 1>>
  <2>1. a \in Axes /\ map.invert \in BOOLEAN
    BY <1>1
  <2>2. SignedAxis(map, m) = End(a, e)
    <3>1. CASE map.invert
      BY <2>1, <3>1, InvertedEnd DEF SignedAxis
    <3>2. CASE ~ map.invert
      BY <3>2 DEF SignedAxis
    <3> QED BY <3>1, <3>2
  <2>3. IsSeq(map.filters)
        /\ \A x \in Range(map.filters) : IsAxisFilter(x) /\ LeavesEnds(x, a)
    BY <1>1
  <2> HIDE DEF e
  <2>4. AxisOutput(map, S[i], m) = End(a, e)
    <3> HIDE DEF a, map
    <3>1. AxisValues(map.filters, S[i], End(a, e), AxisMin(a), AxisMax(a))[Len(map.filters)]
            = End(a, e)
      BY <1>4, <2>1, <2>3, FilteredEnd
    <3> QED BY <2>2, <3>1 DEF AxisOutput, a
  <2> HIDE DEF a
  <2> QED BY <1>4, <2>1, <2>4, FloatOfEnd
<1>6. /\ Shaped(start) /\ start.type = t
      /\ a # b => b \notin Pressures /\ GetAxisFloat(start, b) = Zero
  <2>1. PICK c \in DOMAIN maps : maps[c].lhs = b
    BY <1>1, PermutedAxes
  <2>2. /\ Shaped(start) /\ start.type = t
        /\ maps[c].lhs \notin Pressures => GetAxisFloat(start, maps[c].lhs) = Zero
    <3> HIDE DEF start
    <3> QED BY <1>1, ClearedReads DEF start
  <2>3. a # b => b \notin Pressures
    BY DEF Permutes
  <2> HIDE DEF start
  <2> QED BY <2>1, <2>2, <2>3
<1>7. \A j \in 1..n : /\ maps[j].rhs \in Axes /\ HasAxis(t, maps[j].rhs)
                      /\ ~ Together(maps[j].rhs, b)
                      /\ j # i => maps[j].rhs # b
  <2>1. \A j \in 1..n : HasAxis(t, maps[j].rhs) /\ ~ Together(maps[j].rhs, b)
    BY <1>1, <1>2, PermutedAxes
  <2>2. \A j \in 1..n : j # i => maps[j].rhs # b
    BY <1>2 DEF Permutes
  <2> QED BY <1>1, <1>2, <2>1, <2>2
<1>8. HasAxis(t, b) /\ i \in 1..n
  BY <1>2, <1>7
<1> DEFINE Good(j) == /\ Shaped(f[j]) /\ f[j].type = t
                      /\ j < i /\ a # b => GetAxisFloat(f[j], b) = Zero
                      /\ j >= i => GetAxis(f[j], b) = End(b, e)
           G == {j \in 0..n : Good(j)}
<1>9. f[0] = start /\ \A j \in 1..n : f[j] = AxisStep(maps, S, m, j, f[j - 1])
  BY <1>3 DEF MapsAxes
<1> HIDE DEF start
<1>10. Good(0)
  BY <1>6, <1>8, <1>9
<1>11. ASSUME NEW j \in 1..n, Good(j - 1) PROVE Good(j)
  <2> DEFINE old == f[j - 1]
             r == maps[j].rhs
  <2>1. Shaped(old) /\ old.type = t /\ r \in Axes /\ HasAxis(t, r) /\ ~ Together(r, b)
    BY <1>7, <1>11
  <2>2. PICK x : f[j] = SetAxisFloat(old, r, x) /\ (j = i => x = Merged(map, old, <<e, 1>>))
    <3>1. f[j] = SetAxisFloat(old, r, Merged(maps[j], old,
                   ToFloat(AxisOutput(maps[j], S[j], m), AxisMin(maps[j].lhs), AxisMax(maps[j].lhs))))
      BY <1>9 DEF AxisStep
    <3> QED BY <1>5, <3>1
  <2> HIDE DEF old, r
  <2>3. Shaped(f[j]) /\ f[j].type = t
    BY <2>1, <2>2, SetAxisFloatShaped
  <2>4. CASE j = i
    <3>1. r = b
      BY <2>4 DEF r
    <3>2. x = <<e, 1>>
      <4>1. CASE a = b
        BY <2>2, <2>4, <4>1 DEF Merged
      <4>2. CASE a # b
        <5>1. GetAxisFloat(old, b) = Zero
          BY <1>8, <1>11, <2>4, <4>2 DEF old
        <5>2. x = Unit(Plus(<<e, 1>>, Zero))
          BY <2>2, <2>4, <4>2, <5>1 DEF Merged
        <5>3. Plus(<<e, 1>>, Zero) = Float(e, 1)
          <6>1. Plus(<<e, 1>>, Zero) = Float(e * 1 + 0 * 1, 1 * 1)
            BY DEF Plus, Zero
          <6>2. e * 1 + 0 * 1 = e /\ 1 * 1 = 1
            <7> HIDE DEF e
            <7> QED BY <1>4 DEF Ends
          <6> QED BY <6>1, <6>2
        <5>4. Float(e, 1) = <<e, 1>>
          <6>1. \A y \in Int : /\ y = -1 => Float(y, 1) = <<-1, 1>>
                               /\ y = 1 => Float(y, 1) = <<1, 1>>
            BY FloatFacts
          <6> HIDE DEF e
          <6> QED BY <1>4, <6>1 DEF Ends
        <5>5. Unit(<<e, 1>>) = <<e, 1>>
          <6> HIDE DEF e
          <6> QED BY <1>4 DEF Unit, Ends
        <5> QED BY <5>2, <5>3, <5>4, <5>5
      <4> QED BY <4>1, <4>2
    <3> HIDE DEF e, b, a
    <3>3. GetAxis(f[j], b) = End(b, e)
      BY <1>4, <2>1, <2>2, <3>1, <3>2, SetToEnd
    <3> QED BY <1>8, <2>3, <2>4, <3>3
  <2>5. CASE j # i
    <3>1. r # b
      BY <1>7, <2>5 DEF r
    <3> HIDE DEF b
    <3>2. GetAxis(f[j], b) = GetAxis(old, b) /\ GetAxisFloat(f[j], b) = GetAxisFloat(old, b)
      BY <1>8, <2>1, <2>2, <3>1, AxisApart
    <3>3. (j < i => j - 1 < i) /\ (j >= i => j - 1 >= i)
      BY <1>8, <2>5
    <3> HIDE DEF e, a
    <3> QED BY <1>11, <2>3, <3>2, <3>3 DEF old
  <2> QED BY <2>4, <2>5
<1>12. Good(n)
  <2> HIDE DEF Good, n
  <2>1. 0 \in G
    BY <1>2, <1>10
  <2>2. ASSUME NEW j \in 1..n, j - 1 \in G PROVE j \in G
    BY <1>11, <2>2
  <2> HIDE DEF G
  <2>3. 0..n \subseteq G
    BY <1>2, <2>1, <2>2, UpTo
  <2> QED BY <1>2, <2>3 DEF G
<1>13. GetAxis(f[n], b) = End(b, e)
  <2> HIDE DEF b, e, a
  <2> QED BY <1>2, <1>8, <1>12
<1> QED BY <1>3, <1>13

EndsInv == setup \in Setups /\ Shaped(raw) /\ EndsReached

LEMMA InitEnds == Init => EndsInv
BY BlankShaped DEF Init, EndsInv, EndsReached

LEMMA EndsStep ==
  ASSUME EndsInv, NEW m, NEW d, Shaped(m), Message(m, d)
  PROVE  EndsInv'
<1>1. setup' = setup /\ raw' = m /\ setup \in Setups /\ Chain' = Chain
  BY DEF Message, EndsInv, Chain
<1> DEFINE mod == Chain[1]
           maps == mod.maps
<1>2. ASSUME Len(Chain) = 1, Kinds = {"axismap"}, m.type # "PS3USB", Permutes(maps, m.type),
             \A j \in DOMAIN maps : \A f \in Range(maps[j].filters) : LeavesEnds(f, maps[j].lhs),
             NEW i \in DOMAIN maps, NEW k \in Ends, GetAxis(m, maps[i].lhs) = End(maps[i].lhs, k)
      PROVE  GetAxis(msg', maps[i].rhs) = End(maps[i].rhs, IF maps[i].invert THEN -k ELSE k)
  <2>1. DOMAIN Chain = {1} /\ IsModifier(mod) /\ msg' = Modify(mod, states[1], d, m).msg
    BY <1>1, <1>2, SingleModifier
  <2>2. mod.kind = "axismap"
    BY <1>2, <2>1 DEF Kinds
  <2>3. msg' = AxisMapped(mod, states[1], d, m).msg
    BY <2>1, <2>2 DEF Modify
  <2>4. m.type \in Types
    BY DEF Shaped
  <2> HIDE DEF mod
  <2> QED BY <1>2, <2>1, <2>2, <2>3, <2>4, EndMapped
<1>3. EndsReached'
  <2>1. Kinds' = Kinds
    BY <1>1 DEF Kinds
  <2> SUFFICES
        ASSUME Len(Chain) = 1, Kinds = {"axismap"}, m.type # "PS3USB", Permutes(maps, m.type),
               \A j \in DOMAIN maps : \A f \in Range(maps[j].filters) : LeavesEnds(f, maps[j].lhs),
               NEW i \in DOMAIN maps
        PROVE  LET map == maps[i]
                   v   == GetAxis(m, map.lhs)
                   lo  == AxisMin(map.rhs)
                   hi  == AxisMax(map.rhs)
               IN  /\ v = AxisMin(map.lhs)
                        => GetAxis(msg', map.rhs) = IF map.invert THEN hi ELSE lo
                   /\ v = AxisMax(map.lhs)
                        => GetAxis(msg', map.rhs) = IF map.invert THEN lo ELSE hi
    <3> HIDE DEF maps
    <3> QED BY <1>1, <2>1 DEF EndsReached, SticksAsBytes, maps
  <2> DEFINE map == maps[i]
  <2>2. \A a : End(a, 1) = AxisMax(a) /\ End(a, -1) = AxisMin(a)
    BY DEF End
  <2>3. 1 \in Ends /\ -1 \in Ends
    BY DEF Ends
  <2>4. \A k \in Ends : GetAxis(m, map.lhs) = End(map.lhs, k)
                          => GetAxis(msg', map.rhs) = End(map.rhs, IF map.invert THEN -k ELSE k)
    BY <1>2
  <2>5. \A k \in Ends : (k = 1 => -k = -1) /\ (k = -1 => -k = 1)
    OBVIOUS
  <2> HIDE DEF map, mod, maps
  <2>6. GetAxis(m, map.lhs) = AxisMin(map.lhs)
          => GetAxis(msg', map.rhs) = IF map.invert THEN AxisMax(map.rhs) ELSE AxisMin(map.rhs)
    BY <2>2, <2>3, <2>4, <2>5
  <2>7. GetAxis(m, map.lhs) = AxisMax(map.lhs)
          => GetAxis(msg', map.rhs) = IF map.invert THEN AxisMin(map.rhs) ELSE AxisMax(map.rhs)
    BY <2>2, <2>3, <2>4, <2>5
  <2> QED BY <2>6, <2>7 DEF map
<1> QED BY <1>1, <1>3 DEF EndsInv

(* An axis map that permutes axes permutes their full deflections, through   *)
(* inversion, any deadzones that cover no end, and both conversions of       *)
(* floats, for every number of bits (AxismapModifier::update).               *)
THEOREM EndsStayReachable == Spec => []EndsReached
<1>1. ASSUME EndsInv, [Next]_vars PROVE EndsInv'
  <2>1. CASE Next
    <3>1. PICK m, d : Shaped(m) /\ Message(m, d)
      BY <1>1, <2>1, StepSends DEF EndsInv
    <3> QED BY <1>1, <3>1, EndsStep
  <2>2. CASE UNCHANGED vars
    BY <1>1, <2>2 DEF EndsInv, vars, EndsReached, SticksAsBytes, Chain, Kinds
  <2> QED BY <1>1, <2>1, <2>2
<1>2. EndsInv => EndsReached
  BY DEF EndsInv
<1> QED BY <1>1, <1>2, InitEnds, PTL DEF Spec
=============================================================================
