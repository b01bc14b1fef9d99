------------------------------ MODULE Modifiers ------------------------------
(***************************************************************************)
(* The modifiers of a configuration (modifier/): each rewrites the message  *)
(* of the pad, which may have been parsed from a report of its own (Pads),  *)
(* before it is sent to the outputs. The message processor runs              *)
(* all of them on every message, and again on the last message at every     *)
(* timeout of the controller thread.                                        *)
(*                                                                         *)
(* rotate and square need real roots and angles and are left out, as is the *)
(* counting of presses for a report (stat).                                 *)
(***************************************************************************)
EXTENDS Pads, ButtonFilters

CONSTANTS
  Setups,      \* [chain, ...]: configurations, each with its modifiers in order
  Sends,       \* per configuration the messages its pad may send,
  Reports,     \* the reports of a pad that is parsed, and
  Events,      \* the events an evdev device may send before it synchronises
  Deltas       \* milliseconds between two messages

VARIABLES
  setup,       \* the configuration and its pad
  report,      \* history: the last report, or evdev's last value of each code
  raw,         \* the last message of the pad
  msg,         \* the same message after the modifiers
  states,      \* per modifier what it remembers
  started      \* history: a message has been through the modifiers

vars == <<setup, report, raw, msg, states, started>>

Modes == {"four-way", "x-axis", "y-axis"}
IsSeq(s) == s \in Seq(Range(s))
IsAxisFilter(f) ==
  f.kind = "deadzone" => f.from \in Int /\ f.to \in Int /\ f.smooth \in BOOLEAN
IsModifier(mod) ==
  \/ /\ mod.kind = "buttonmap" /\ IsSeq(mod.maps)
     /\ \A i \in DOMAIN mod.maps : IsSeq(mod.maps[i].filters)
     /\ \A i \in DOMAIN mod.maps : {mod.maps[i].lhs, mod.maps[i].rhs} \subseteq Buttons
  \/ /\ mod.kind = "axismap" /\ IsSeq(mod.maps)
     /\ \A i \in DOMAIN mod.maps :
          IsSeq(mod.maps[i].filters) /\ \A f \in Range(mod.maps[i].filters) : IsAxisFilter(f)
     /\ \A i \in DOMAIN mod.maps : /\ {mod.maps[i].lhs, mod.maps[i].rhs} \subseteq Axes
                                   /\ mod.maps[i].invert \in BOOLEAN
  \/ mod.kind = "dpad-restrictor" /\ mod.mode \in Modes
  \/ mod.kind = "dpad-rotation" /\ mod.turn \in 0..7
  \/ mod.kind = "four-way" /\ {mod.x, mod.y} \subseteq Axes

ASSUME SetupsAssumption ==
  \A s \in Setups :
    /\ IsSeq(s.chain) /\ \A i \in DOMAIN s.chain : IsModifier(s.chain[i])
    /\ \A m \in Sends[s] : IsMessage(m)
    /\ Sends[s] # {} => Reports[s] = {}
    /\ Events[s] # {} => s.pad = "EVDEV" /\ IsEvdev(s.evdev)
    /\ \A events \in Events[s] :
         IsSeq(events) /\ \A i \in DOMAIN events : events[i].kind \in {"key", "abs"}

ASSUME DeltasAssumption == Deltas \subseteq Nat

-----------------------------------------------------------------------------
(* A new modifier: filters of its mappings, or the axis it last saw unpressed. *)
NewState(mod) ==
  CASE mod.kind = "buttonmap" -> [i \in DOMAIN mod.maps |->
                                    [j \in DOMAIN mod.maps[i].filters |-> NewFilter]]
    [] mod.kind = "axismap" -> [i \in DOMAIN mod.maps |->
                                  [j \in DOMAIN mod.maps[i].filters |-> NewAxisFilter]]
    [] mod.kind = "dpad-restrictor" -> "DPAD_X"
    [] OTHER -> <<>>

(* The message before a pad has sent one: a zeroed one. *)
Blank == [type |-> "XBOX", value |-> [f \in Fields("XBOX") |-> 0]]

(* set_button or set_axis_float on the left sides of the first i mappings.  *)
ClearedButtons(mod, m) ==
  LET new[i \in 0..Len(mod.maps)] ==
        IF i = 0 THEN m ELSE SetButton(new[i - 1], mod.maps[i].lhs, FALSE)
  IN  new[Len(mod.maps)]

ClearedAxes(mod, m) ==
  LET new[i \in 0..Len(mod.maps)] ==
        IF i = 0 THEN m ELSE SetAxisFloat(new[i - 1], mod.maps[i].lhs, Zero)
  IN  new[Len(mod.maps)]

(* Not the code: a mapping reads what the one before it has written. *)
SourceNew(m, new) == new

(* A mapping reads the message as it came. *)
Source(m, new) == m

(* ButtonmapModifier::update. *)
ButtonMapped(mod, state, d, m) ==
  LET maps    == mod.maps
      updated == [i \in DOMAIN maps |-> UpdatedFilters(maps[i].filters, state[i], d)]
      new[i \in 0..Len(maps)] ==
        IF i = 0 THEN ClearedButtons(mod, m)
        ELSE LET in  == Pressed(Source(m, new[i - 1]), maps[i].lhs)
                 out == Filtered(maps[i].filters, updated[i], in)[Len(maps[i].filters)]
             IN  SetButton(new[i - 1], maps[i].rhs,
                           out \/ Pressed(new[i - 1], maps[i].rhs))
  IN  [msg |-> new[Len(maps)],
       state |-> [i \in DOMAIN maps |->
                    FiltersAfter(maps[i].filters, updated[i], Pressed(m, maps[i].lhs))]]

(* The integer of an axis with the sign of its mapping. *)
SignedAxis(map, m) ==
  LET v == GetAxis(m, map.lhs)
  IN  IF map.invert THEN Inverted(v, AxisMin(map.lhs), AxisMax(map.lhs)) ELSE v

(* An axis mapped to another is added to it. *)
Merged(map, m, f) ==
  IF map.lhs = map.rhs THEN f ELSE Unit(Plus(f, GetAxisFloat(m, map.rhs)))

(* AxismapModifier::update. *)
AxisMapped(mod, state, d, m) ==
  LET maps    == mod.maps
      updated == [i \in DOMAIN maps |-> UpdatedAxisFilters(maps[i].filters, state[i], d)]
      min(i)  == AxisMin(maps[i].lhs)
      max(i)  == AxisMax(maps[i].lhs)
      out(i)  == AxisValues(maps[i].filters, updated[i], SignedAxis(maps[i], m),
                            min(i), max(i))[Len(maps[i].filters)]
      new[i \in 0..Len(maps)] ==
        IF i = 0 THEN ClearedAxes(mod, m)
        ELSE SetAxisFloat(new[i - 1], maps[i].rhs,
               Merged(maps[i], new[i - 1], ToFloat(out(i), min(i), max(i))))
  IN  [msg |-> new[Len(maps)],
       state |-> [i \in DOMAIN maps |->
                    AxisFiltersAfter(maps[i].filters, updated[i],
                                     SignedAxis(maps[i], m), min(i), max(i))]]

(* Not the code: the axis that was pressed is remembered. *)
LastPressed(x, y, last) == IF x # 0 THEN "DPAD_X" ELSE IF y # 0 THEN "DPAD_Y" ELSE last

LastUnpressed(x, y, last) == IF x # 0 THEN "DPAD_Y" ELSE IF y # 0 THEN "DPAD_X" ELSE last

(* DpadRestrictorModifier::update. *)
DpadRestricted(mod, last, m) ==
  LET x == GetAxis(m, "DPAD_X")
      y == GetAxis(m, "DPAD_Y")
      diagonal == x # 0 /\ y # 0
  IN  CASE mod.mode = "four-way" ->
             [msg |-> IF diagonal THEN SetAxis(m, last, 0) ELSE m,
              state |-> IF diagonal THEN last ELSE LastUnpressed(x, y, last)]
        [] mod.mode = "x-axis" -> [msg |-> SetAxis(m, "DPAD_Y", 0), state |-> last]
        [] mod.mode = "y-axis" -> [msg |-> SetAxis(m, "DPAD_X", 0), state |-> last]

(* The eight directions of the pad, clockwise from up, and what is pressed. *)
Pointing ==
  <<{"UP"}, {"UP", "RIGHT"}, {"RIGHT"}, {"DOWN", "RIGHT"}, {"DOWN"},
    {"DOWN", "LEFT"}, {"LEFT"}, {"UP", "LEFT"}>>

DpadOf(m) == {b \in Dpad : Pressed(m, b)}
Directions(m) == {i \in 0..7 : Pointing[i + 1] = DpadOf(m)}

Sides(m, pressed) ==
  [f \in DOMAIN m.value |->
     IF f \in pressed THEN 1 ELSE IF f \in Dpad THEN 0 ELSE m.value[f]]

(* DpadRotationModifier::update. *)
DpadRotated(mod, m) ==
  IF Directions(m) = {} THEN m
  ELSE LET i == CHOOSE i \in Directions(m) : TRUE
       IN  [m EXCEPT !.value = Sides(m, Pointing[((i + mod.turn) % 8) + 1])]

(* FourWayRestrictorModifier::update. *)
FourWay(mod, m) ==
  LET x == Magnitude(GetAxis(m, mod.x))
      y == Magnitude(GetAxis(m, mod.y))
  IN  SetAxis(m, IF x > y THEN mod.y ELSE mod.x, 0)

(* Modifier::update. *)
Modify(mod, state, d, m) ==
  CASE mod.kind = "buttonmap" -> ButtonMapped(mod, state, d, m)
    [] mod.kind = "axismap" -> AxisMapped(mod, state, d, m)
    [] mod.kind = "dpad-restrictor" -> DpadRestricted(mod, state, m)
    [] mod.kind = "dpad-rotation" -> [msg |-> DpadRotated(mod, m), state |-> state]
    [] mod.kind = "four-way" -> [msg |-> FourWay(mod, m), state |-> state]

(* Message m after each of the first i modifiers. *)
Through(m, d) ==
  LET result[i \in 0..Len(setup.chain)] ==
        IF i = 0 THEN [msg |-> m, state |-> <<>>]
        ELSE Modify(setup.chain[i], states[i], d, result[i - 1].msg)
  IN  result

-----------------------------------------------------------------------------
Init ==
  /\ setup \in Setups
  /\ raw = Blank /\ msg = Blank /\ started = FALSE /\ report = <<>>
  /\ states = [i \in DOMAIN setup.chain |-> NewState(setup.chain[i])]

(* ControllerThread::on_message. *)
Message(m, d) ==
  LET result == Through(m, d)
  IN  /\ raw' = m
      /\ msg' = result[Len(setup.chain)].msg
      /\ states' = [i \in DOMAIN setup.chain |-> result[i].state]
      /\ started' = TRUE
      /\ UNCHANGED setup

(* At a timeout the last message goes through once more. *)
Timeout(d) == Message(raw, d) /\ UNCHANGED report

Sent(d) == (\E m \in Sends[setup] : Message(m, d)) /\ UNCHANGED report

Report(r, d) == Message(Parsed(setup.pad, r), d) /\ report' = r

(* EvdevController::on_read_data up to EV_SYN. *)
Synchronised(events, d) ==
  /\ Message(EventsParsed(setup.evdev, IF started THEN raw ELSE Initial360, events), d)
  /\ report' = FoldLeft(LAMBDA last, event : (event.code :> event.value) @@ last, report, events)

Next ==
  \E d \in Deltas :
    \/ Timeout(d) \/ Sent(d)
    \/ \E r \in Reports[setup] : Report(r, d)
    \/ \E events \in Events[setup] : Synchronised(events, d)

Spec == Init /\ [][Next]_vars

-----------------------------------------------------------------------------
Chain == setup.chain
Kinds == {Chain[i].kind : i \in DOMAIN Chain}
Maps(kind) == UNION {Range(Chain[i].maps) : i \in {j \in DOMAIN Chain : Chain[j].kind = kind}}
FilterKindsOf(kind) == UNION {{f.kind : f \in Range(map.filters)} : map \in Maps(kind)}

(* The sticks of a PS3 pad are bytes that rest in the middle, but are set   *)
(* as if they rested at zero: an axis that a modifier centres is deflected. *)
SticksAsBytes == raw.type = "PS3USB"

(* A button map without filters presses exactly the buttons to which one of *)
(* the held ones is mapped, and those it does not know: mappings that swap  *)
(* buttons, form a chain or share a button do not see each other's output.  *)
ButtonsRemapped ==
  (Len(Chain) = 1 /\ Kinds = {"buttonmap"} /\ FilterKindsOf("buttonmap") = {}) =>
    \A b \in ButtonsIn(raw.type) :
      Pressed(msg, b) <=>
        \/ \E map \in Maps("buttonmap") : map.rhs = b /\ Pressed(raw, map.lhs)
        \/ Pressed(raw, b) /\ \A map \in Maps("buttonmap") : map.lhs # b

(* The mappings permute their axes: each is mapped once and is the target   *)
(* once. TRIGGER has no field but the two triggers', and the axes that say   *)
(* how hard a button is pressed are those the pad has, mapped to themselves. *)
Permutes(maps, t) ==
  LET axes == {maps[i].lhs : i \in DOMAIN maps}
  IN  /\ \A i, j \in DOMAIN maps :
           i # j => maps[i].lhs # maps[j].lhs /\ maps[i].rhs # maps[j].rhs
      /\ axes = {maps[i].rhs : i \in DOMAIN maps}
      /\ "TRIGGER" \in axes => {"LT", "RT"} \cap axes = {}
      /\ axes \cap Pressures \subseteq DOMAIN PressureField[t]
      /\ \A i \in DOMAIN maps :
           maps[i].lhs # maps[i].rhs => {maps[i].lhs, maps[i].rhs} \cap Pressures = {}

(* A deadzone that covers no end of the axis, or only one that is 0.         *)
LeavesEnds(f, a) ==
  /\ f.kind = "deadzone" /\ f.from <= f.to /\ f.to < AxisMax(a)
  /\ AxisMin(a) < f.from \/ (AxisMin(a) = 0 /\ 0 \in f.from..f.to)

(* An axis map that permutes axes permutes their full deflections: the ends *)
(* of an axis stay reachable through inversion, deadzones, the conversion to *)
(* floats and back, and the axes the mappings clear and set in each other's  *)
(* way. The sticks of a PS3 pad are left out.                                *)
EndsReached ==
  LET maps == Chain[1].maps
  IN  (/\ started /\ Len(Chain) = 1 /\ Kinds = {"axismap"} /\ ~SticksAsBytes
       /\ Permutes(maps, raw.type)
       /\ \A i \in DOMAIN maps : \A f \in Range(maps[i].filters) : LeavesEnds(f, maps[i].lhs))
      => \A i \in DOMAIN maps :
           LET map == maps[i]
               v   == GetAxis(raw, map.lhs)
               lo  == AxisMin(map.rhs)
               hi  == AxisMax(map.rhs)
           IN  /\ v = AxisMin(map.lhs)
                  => GetAxis(msg, map.rhs) = IF map.invert THEN hi ELSE lo
               /\ v = AxisMax(map.lhs)
                  => GetAxis(msg, map.rhs) = IF map.invert THEN lo ELSE hi

(* Modifiers that neither turn a button round nor remember what it did make *)
(* nothing of a pad at rest, whatever it sent before: no button is pressed  *)
(* and no axis deflected. A pressure rests at an end of its axis: it is not *)
(* mapped to another axis nor turned round. A deadzone is one about 0.       *)
AtRest(m) == \A f \in DOMAIN m.value :
               m.value[f] = IF f \in Sticks /\ m.type = "PS3USB" THEN Half8 ELSE 0

AboutZero(f) == f.kind = "deadzone" /\ f.from <= 0 /\ f.to >= 0
KeepsRest(map) ==
  IF {map.lhs, map.rhs} \cap Pressures = {}
  THEN \A f \in Range(map.filters) : AboutZero(f) \/ f.kind = "invert"
  ELSE /\ map.lhs = map.rhs /\ ~map.invert
       /\ \A f \in Range(map.filters) : AboutZero(f)

RestStaysRest ==
  (/\ AtRest(raw)
   /\ FilterKindsOf("buttonmap") \subseteq {"autofire", "delay", "click-press"}
   /\ \A map \in Maps("axismap") : KeepsRest(map)
   /\ SticksAsBytes => Kinds \cap {"axismap", "four-way"} = {})
  => AtRest(msg)

(* A d-pad restricted to four ways never points along both axes, and leaves *)
(* the direction it shows only when the thumb does: sliding into a diagonal *)
(* and along it changes nothing.                                            *)
Restricted == Chain # <<>> /\ Chain[Len(Chain)] = [kind |-> "dpad-restrictor", mode |-> "four-way"]

DirectionKept ==
  [][(Restricted /\ Len(Chain) = 1) =>
       /\ \E a \in DpadAxes : GetAxis(msg', a) = 0
       /\ \A a \in DpadAxes :
            GetAxis(msg, a) # 0 /\ GetAxis(raw', a) = GetAxis(msg, a)
              => GetAxis(msg', a) = GetAxis(msg, a)]_vars

(* An axis with a relative filter stands still while its stick is centred,  *)
(* and when the stick is held towards an end it moves there with every      *)
(* message that is not at once: it has not run on beyond the other end.     *)
Relative(map) == map.lhs = map.rhs /\ Len(map.filters) = 1 /\ map.filters[1].kind = "relative"

ThrottleFollows ==
  [][(Kinds = {"axismap"} /\ Len(Chain) = 1 /\ ~SticksAsBytes') =>
       \A map \in {x \in Maps("axismap") : Relative(x)} :
         LET a == map.lhs
             v == SignedAxis(map, raw)
         IN  /\ v = Center(AxisMin(a), AxisMax(a)) => GetAxis(msg', a) = GetAxis(msg, a)
             /\ \A m \in Sends[setup], d \in Deltas \ {0} :
                  Message(m, d) =>
                    /\ v = AxisMin(a) /\ GetAxis(msg, a) # AxisMin(a)
                       => GetAxis(msg', a) < GetAxis(msg, a)
                    /\ v = AxisMax(a) /\ GetAxis(msg, a) # AxisMax(a)
                       => GetAxis(msg', a) > GetAxis(msg, a)]_vars

(* Whatever the encoding of its stick (signed or not, counted from the      *)
(* other end, with two centres, between a kernel's bounds or beyond them),  *)
(* a pad that is parsed follows the thumb: as the stick moves one way no    *)
(* axis of the message moves the other way, whatever came between, and a    *)
(* stick that is let go rests at 0. The P2500's Y axes are not turned round. *)
FromOneEnd(a) == setup.pad \in {"P3600", "TWIRELESS"} \/ (setup.pad = "FIRESTORM" /\ a = "Y2")
LetGo(a) ==
  IF ~FromOneEnd(a) THEN {0} ELSE IF a = "Y2" /\ setup.pad = "FIRESTORM" THEN {Half8}
  ELSE {Half8 - 1, Half8}

Place(a, byte) ==
  LET v == IF FromOneEnd(a) THEN byte ELSE SignedByte(byte)
  IN  IF a \in {"Y1", "Y2"} /\ setup.pad # "P2500" THEN -v ELSE v

Places(r) ==
  LET evdev == setup.evdev
      codes(map) == DOMAIN map \cap DOMAIN r
      at(map, sign) == [a \in {map[c] : c \in codes(map)} |->
                          sign * r[CHOOSE c \in codes(map) : map[c] = a]]
  IN  IF setup.pad = "EVDEV"
      THEN at(evdev.both, 1) @@ at(evdev.minus, 1) @@ at(evdev.plus, -1)
      ELSE [a \in Sticks |-> Place(a, r.sticks[a])]

SticksFollowed ==
  [][(Chain = <<>> /\ setup.pad \notin Types /\ report' # <<>>) =>
       LET new == Places(report')
           old == IF report = <<>> THEN <<>> ELSE Places(report)
       IN  /\ \A a \in DOMAIN old \cap DOMAIN new :
                /\ old[a] <= new[a] => GetAxis(msg, a) <= GetAxis(msg', a)
                /\ old[a] >= new[a] => GetAxis(msg, a) >= GetAxis(msg', a)
           /\ setup.pad # "EVDEV" =>
                \A a \in Sticks : report'.sticks[a] \in LetGo(a) => GetAxis(msg', a) = 0]_vars
=============================================================================
