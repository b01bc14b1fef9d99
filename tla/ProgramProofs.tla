--------------------------- MODULE ProgramProofs ---------------------------
(***************************************************************************)
(* Theorems about the single-controller program, for any command line, any *)
(* configuration files and any devices.                                    *)
(***************************************************************************)
EXTENDS Program, MinTheorems, FiniteSetTheorems, SequenceTheorems

-----------------------------------------------------------------------------
(***************************************************************************)
(* The LED of the controller that is left behind.                          *)
(***************************************************************************)

(* A controller object remembers the LED that is lit, as long as it writes  *)
(* what it remembers, and only an unplugged one is disconnected.            *)
PadOK ==
  /\ pad = [kind |-> pad.kind, disconnected |-> pad.disconnected, m_led |-> pad.m_led]
  /\ pad.disconnected \in BOOLEAN /\ (pad.disconnected => ~plugged)
  /\ pad.kind = "usb" /\ ~pad.disconnected => lit = pad.m_led \/ (lit = -1 /\ pad.m_led = 0)
  /\ pad.kind # "usb" => lit = -1

(* The LED as it was found, or off. *)
Dark == lit \in {-1, 0}

(* From create_controller() on there is a controller; whoever asks the      *)
(* program to stop puts its LED out, and nobody sets it again once          *)
(* init_controller() is through.                                            *)
LedInv ==
  /\ phase \in {"initializing", "setup", "starting", "running", "leaving", "closing"} => PadOK
  /\ phase \in {"parsing", "dispatch", "creating"} => lit = -1
  /\ asked \in BOOLEAN
  /\ asked => /\ phase \in {"setup", "starting", "running", "leaving", "closing"} \cup Over
              /\ plugged => Dark

LEMMA SetLedStep ==
  ASSUME NEW status, PadOK, SetLed(status), plugged' = plugged
  PROVE  PadOK' /\ (status = 0 /\ ~pad.disconnected => Dark')
<1>1. /\ pad'.kind = pad.kind /\ pad'.disconnected = pad.disconnected
      /\ pad'.m_led = status
      /\ pad' = [kind |-> pad'.kind, disconnected |-> pad'.disconnected, m_led |-> pad'.m_led]
      /\ lit' = IF MustWrite(status) THEN status ELSE lit
  BY DEF SetLed, PadOK
<1> QED BY <1>1 DEF PadOK, Dark, MustWrite

LEMMA ShutdownStep ==
  ASSUME LedInv, phase \in {"creating", "initializing", "setup", "starting", "running",
                            "leaving", "closing"},
         phase = "creating" => pad = NoPad, Shutdown, plugged' = plugged
  PROVE  LedInv'
<1>1. /\ PadOK /\ phase' = phase /\ asked' = (asked \/ Initialized)
      /\ phase \in {"initializing", "setup", "starting", "running", "leaving"}
  BY DEF Shutdown, HasController, LedInv
<1>2. PadOK' /\ (plugged => Dark')
  <2>1. CASE pad.disconnected
    BY <1>1, <2>1 DEF Shutdown, PadOK, driven
  <2>2. CASE ~pad.disconnected
    BY <1>1, <2>2, SetLedStep DEF Shutdown
  <2> QED BY <2>1, <2>2
<1> QED BY <1>1, <1>2 DEF LedInv, Initialized

LEMMA StartStep ==
  ASSUME LedInv, Start
  PROVE  LedInv'
<1> USE DEF Over
<1>0. plugged' = plugged /\ asked' = asked
  BY DEF Start, SchedulingRefused, RunMode, CreateController, CreateControllerThrows,
     InitController, InitControllerThrows, InitControllerAborts, SetUpProcessor, SetUpThrows,
     EnterMainLoop, world
<1>1. CASE SchedulingRefused \/ CreateControllerThrows \/ InitControllerThrows \/ SetUpThrows
  <2>1. phase' = "exited" /\ lit' = lit
    BY <1>1 DEF SchedulingRefused, CreateControllerThrows, InitControllerThrows, SetUpThrows,
       Throws
  <2> QED BY <1>0, <2>1 DEF LedInv, Dark
<1>2. CASE RunMode
  <2>1. phase = "dispatch" /\ phase' \in {"creating", "daemon", "exited"} /\ lit' = lit
    BY <1>2 DEF RunMode, driven
  <2> QED BY <1>0, <2>1 DEF LedInv, Dark
<1>3. CASE CreateController
  <2>1. phase = "creating" /\ phase' = "initializing" /\ lit' = lit
    BY <1>3 DEF CreateController
  <2>2. pad' = NewPad("evdev") \/ pad' = NewPad("usb")
    BY <1>3 DEF CreateController
  <2>3. /\ pad' = [kind |-> pad'.kind, disconnected |-> pad'.disconnected, m_led |-> pad'.m_led]
        /\ pad'.disconnected = FALSE /\ pad'.m_led = 0
    BY <2>2 DEF NewPad
  <2>4. lit' = -1
    BY <2>1 DEF LedInv
  <2>5. PadOK'
    BY <2>3, <2>4 DEF PadOK
  <2> QED BY <1>0, <2>1, <2>5 DEF LedInv
<1>4. CASE InitController
  <2>1. phase = "initializing" /\ phase' \in {"leaving", "setup"} /\ ~asked
    BY <1>4 DEF InitController, LedInv
  <2>2. PadOK'
    BY <1>0, <1>4, <2>1, SetLedStep DEF InitController, LedInv
  <2> QED BY <1>0, <2>1, <2>2 DEF LedInv
<1>5. CASE InitControllerAborts \/ SetUpProcessor \/ EnterMainLoop
  <2>1. /\ phase \in {"initializing", "setup", "starting"}
        /\ phase' \in {"starting", "running", "crashed"} /\ pad' = pad /\ lit' = lit
    BY <1>5 DEF InitControllerAborts, SetUpProcessor, EnterMainLoop, driven
  <2> QED BY <1>0, <2>1 DEF LedInv, PadOK, Dark
<1> QED BY <1>1, <1>2, <1>3, <1>4, <1>5 DEF Start

(* There is no controller before create_controller() has made one. *)
NoneYet == phase \in {"parsing", "dispatch", "creating"} => pad = NoPad

LEMMA NoneYetStep == NoneYet /\ [Next]_vars => NoneYet'
<1> USE DEF NoneYet, driven
<1>1. ASSUME NoneYet, Parse PROVE NoneYet'
  BY <1>1 DEF Parse, ApplyOption, ReadConstruct, EndOfFile, FinishOptions, ParsingFails
<1>2. ASSUME NoneYet, Start PROVE NoneYet'
  BY <1>2 DEF Start, SchedulingRefused, RunMode, CreateController, CreateControllerThrows,
     InitController, InitControllerThrows, InitControllerAborts, SetUpProcessor, SetUpThrows,
     EnterMainLoop, Throws
<1>3. ASSUME NoneYet, Unplug \/ ChildEnds PROVE NoneYet'
  BY <1>3 DEF Unplug, ChildEnds
<1>4. ASSUME NoneYet, Signal \/ SignalKills PROVE NoneYet'
  BY <1>4 DEF Signal, SignalKills, Shutdown, ShutdownCrashes, HasController
<1>5. ASSUME NoneYet, Dispatch \/ Finish PROVE NoneYet'
  BY <1>5 DEF Dispatch, Finish, OnChildWatch, OnDisconnect, LeaveMainLoop, Return, Shutdown,
     ShutdownCrashes
<1>6. ASSUME NoneYet, UNCHANGED vars PROVE NoneYet'
  BY <1>6 DEF vars
<1> QED BY <1>1, <1>2, <1>3, <1>4, <1>5, <1>6 DEF Next

LEMMA LedStep == LedInv /\ NoneYet /\ [Next]_vars => LedInv'
<1> SUFFICES ASSUME LedInv, NoneYet, [Next]_vars PROVE LedInv'
  OBVIOUS
<1> USE DEF Over, driven, world
<1>a. ASSUME UNCHANGED <<pad, lit, phase, asked>>, plugged' = plugged \/ plugged' = FALSE
      PROVE  LedInv'
  BY <1>a DEF LedInv, PadOK, Dark
<1>b. ASSUME UNCHANGED <<pad, lit, plugged, asked>>, phase' \in Over PROVE LedInv'
  BY <1>b DEF LedInv, Dark
<1>1. CASE UNCHANGED vars
  BY <1>1, <1>a DEF vars
<1>2. CASE Parse
  <2>1. UNCHANGED <<pad, lit, plugged, asked>> /\ phase = "parsing"
        /\ phase' \in {"parsing", "dispatch", "exited", "crashed"}
    BY <1>2 DEF Parse, ApplyOption, ReadConstruct, EndOfFile, FinishOptions, ParsingFails
  <2> QED BY <2>1 DEF LedInv
<1>3. CASE Start
  BY <1>3, StartStep
<1>4. CASE Unplug \/ ChildEnds
  BY <1>4, <1>a DEF Unplug, ChildEnds
<1>5. CASE Signal
  <2>1. CASE Shutdown
    BY <1>5, <2>1, ShutdownStep DEF Signal, NoneYet
  <2>2. CASE ShutdownCrashes
    BY <1>5, <2>2, <1>b DEF Signal, ShutdownCrashes
  <2> QED BY <1>5, <2>1, <2>2 DEF Signal
<1>6. CASE SignalKills
  BY <1>6, <1>b DEF SignalKills
<1>7. CASE OnChildWatch
  <2>1. CASE Shutdown
    BY <1>7, <2>1, ShutdownStep DEF OnChildWatch
  <2>2. CASE ShutdownCrashes
    BY <1>7, <2>2, <1>b DEF OnChildWatch, ShutdownCrashes
  <2> QED BY <1>7, <2>1, <2>2 DEF OnChildWatch
<1>8. CASE OnDisconnect
  <2>1. /\ phase = "running" /\ phase' = phase /\ asked' = TRUE /\ PadOK
        /\ pad' = [pad EXCEPT !.disconnected = TRUE] /\ lit' = lit
        /\ ~plugged /\ plugged' = plugged
    BY <1>8 DEF OnDisconnect, LedInv
  <2>2. PadOK'
    <3>1. /\ pad'.disconnected = TRUE /\ pad'.kind = pad.kind /\ pad'.m_led = pad.m_led
          /\ pad' = [kind |-> pad'.kind, disconnected |-> pad'.disconnected, m_led |-> pad'.m_led]
      BY <2>1 DEF PadOK
    <3> QED BY <2>1, <3>1 DEF PadOK
  <2> QED BY <2>1, <2>2 DEF LedInv
<1>9. CASE LeaveMainLoop
  <2>1. UNCHANGED <<pad, lit, plugged, asked>> /\ phase = "running" /\ phase' = "closing"
    BY <1>9 DEF LeaveMainLoop
  <2> QED BY <2>1 DEF LedInv, PadOK, Dark
<1>10. CASE Return
  BY <1>10, <1>b DEF Return
<1> QED BY <1>1, <1>2, <1>3, <1>4, <1>5, <1>6, <1>7, <1>8, <1>9, <1>10 DEF Next, Dispatch, Finish

(* Once init_controller() has set the LED, a program that is asked to stop  *)
(* leaves it out: whatever asked, before or in the main loop, and whatever  *)
(* fails, is asked again or is pulled after that.                           *)
THEOREM NoLedLeftOn == Spec => []LedOffAtExit
<1>1. Init => LedInv /\ NoneYet
  BY DEF Init, LedInv, NoneYet
<1>2. LedInv => LedOffAtExit
  BY DEF LedInv, Dark, LedOffAtExit
<1> QED BY <1>1, <1>2, LedStep, NoneYetStep, PTL DEF Spec
-----------------------------------------------------------------------------
(***************************************************************************)
(* The maps of a configuration.                                            *)
(***************************************************************************)

(* The inputs that some preset binds a code to.                             *)
BtnHomes ==
  [c \in {"BTN_START", "BTN_MODE", "BTN_SELECT", "BTN_A", "BTN_B", "BTN_X", "BTN_Y", "BTN_TL",
          "BTN_TR", "BTN_THUMBL", "BTN_THUMBR", "BTN_0", "BTN_1", "BTN_2", "BTN_3", "BTN_4",
          "BTN_TL2", "BTN_TR2", "BTN_BASE", "BTN_BASE2", "BTN_BASE3", "BTN_BASE4",
          "BTN_TRIGGER_HAPPY1", "BTN_TRIGGER_HAPPY2", "BTN_TRIGGER_HAPPY3",
          "BTN_TRIGGER_HAPPY4"} |->
     CASE c = "BTN_START"  -> {"START"}
       [] c = "BTN_MODE"   -> {"GUIDE"}
       [] c = "BTN_SELECT" -> {"BACK"}
       [] c \in {"BTN_A", "BTN_0"} -> {"A"}
       [] c \in {"BTN_B", "BTN_1"} -> {"B"}
       [] c \in {"BTN_X", "BTN_3"} -> {"X"}
       [] c \in {"BTN_Y", "BTN_2"} -> {"Y"}
       [] c \in {"BTN_TL", "BTN_4"} -> {"LB"}
       [] c = "BTN_TR"     -> {"RB"}
       [] c = "BTN_THUMBL" -> {"TL"}
       [] c = "BTN_THUMBR" -> {"TR"}
       [] c = "BTN_TL2"    -> {"LT"}
       [] c = "BTN_TR2"    -> {"RT"}
       [] c \in {"BTN_BASE", "BTN_TRIGGER_HAPPY3"}  -> {"DU"}
       [] c \in {"BTN_BASE2", "BTN_TRIGGER_HAPPY4"} -> {"DD"}
       [] c \in {"BTN_BASE3", "BTN_TRIGGER_HAPPY1"} -> {"DL"}
       [] c \in {"BTN_BASE4", "BTN_TRIGGER_HAPPY2"} -> {"DR"}]
AxisHomes ==
  [c \in {"ABS_X", "ABS_Y", "ABS_RX", "ABS_RY", "ABS_BRAKE", "ABS_GAS", "ABS_Z", "ABS_RZ",
          "ABS_HAT0X", "ABS_HAT0Y"} |->
     CASE c = "ABS_X"     -> {"X1", "X2", "DPAD_X"}
       [] c = "ABS_Y"     -> {"Y1", "Y2", "DPAD_Y"}
       [] c = "ABS_RX"    -> {"X2"}
       [] c = "ABS_RY"    -> {"Y2"}
       [] c = "ABS_BRAKE" -> {"LT"}
       [] c = "ABS_GAS"   -> {"RT"}
       [] c = "ABS_Z"     -> {"LT", "TRIGGER"}
       [] c = "ABS_RZ"    -> {"RT"}
       [] c = "ABS_HAT0X" -> {"DPAD_X"}
       [] c = "ABS_HAT0Y" -> {"DPAD_Y"}]

(* A code that is not of the user's own is where presets put it, and only   *)
(* in one of those places.                                                 *)
AtHome(map, homes) ==
  \A k \in DOMAIN map :
    /\ "code" \in DOMAIN map[k]
    /\ \/ map[k].code \in EventCodes \cup Macros
       \/ map[k].code \in DOMAIN homes /\ k \in {NoShift} \X homes[map[k].code]
MapOK(map, homes) == AtHome(map, homes) /\ ~Shared(map)

(* What a preset binds is in place among itself.                            *)
Fits(codes, homes) ==
  /\ \A i \in DOMAIN codes : codes[i] \in DOMAIN homes /\ i \in homes[codes[i]]
  /\ \A i, j \in DOMAIN codes : codes[i] = codes[j] => i = j

LEMMA UnshiftedFacts ==
  ASSUME NEW codes
  PROVE  /\ DOMAIN Unshifted(codes) = {NoShift} \X DOMAIN codes
         /\ \A i \in DOMAIN codes : /\ Unshifted(codes)[<<NoShift, i>>].code = codes[i]
                                    /\ "code" \in DOMAIN Unshifted(codes)[<<NoShift, i>>]
<1>1. DOMAIN Unshifted(codes) = {NoShift} \X DOMAIN codes
  BY DEF Unshifted
<1>2. ASSUME NEW i \in DOMAIN codes
      PROVE  Unshifted(codes)[<<NoShift, i>>] = Sends(codes[i])
  <2>1. <<NoShift, i>> \in {NoShift} \X DOMAIN codes
    OBVIOUS
  <2> QED BY <2>1 DEF Unshifted
<1>3. ASSUME NEW c PROVE Sends(c).code = c /\ "code" \in DOMAIN Sends(c)
  BY DEF Sends
<1> QED BY <1>1, <1>2, <1>3

LEMMA UnbindStep ==
  ASSUME NEW map, NEW homes, MapOK(map, homes), NEW inputs
  PROVE  MapOK(Unbind(map, inputs), homes)
<1> DEFINE m == Unbind(map, inputs)
<1>1. DOMAIN m \subseteq DOMAIN map /\ \A k \in DOMAIN m : m[k] = map[k]
  BY DEF Unbind
<1> HIDE DEF m
<1>2. AtHome(m, homes)
  BY <1>1 DEF MapOK, AtHome
<1>3. ~Shared(m)
  <2>1. ASSUME NEW j \in DOMAIN m, NEW k \in DOMAIN m, j # k, m[j].code = m[k].code
        PROVE  m[j].code \in EventCodes \cup Macros
    <3>1. map[j].code = map[k].code
      BY <1>1, <2>1
    <3>2. map[j].code \in EventCodes \cup Macros
      BY <1>1, <2>1, <3>1 DEF MapOK, Shared
    <3> QED BY <1>1, <3>2
  <2> QED BY <2>1 DEF Shared
<1> QED BY <1>2, <1>3 DEF MapOK, m

(* A preset may bind its codes where nothing else that is bound has one.    *)
LEMMA BindStep ==
  ASSUME NEW map, NEW homes, MapOK(map, homes), NEW codes, Fits(codes, homes),
         \A i \in DOMAIN codes : \A x \in homes[codes[i]] :
           x \in DOMAIN codes \/ <<NoShift, x>> \notin DOMAIN map
  PROVE  MapOK(Bind(map, codes), homes)
<1> DEFINE m == Bind(map, codes)
           new == Unshifted(codes)
<1>1. /\ DOMAIN m = DOMAIN new \cup DOMAIN map
      /\ \A k \in DOMAIN new : m[k] = new[k]
      /\ \A k \in DOMAIN map : k \notin DOMAIN new => m[k] = map[k]
  BY DEF Bind, Merged
<1>2. /\ DOMAIN new = {NoShift} \X DOMAIN codes
      /\ \A i \in DOMAIN codes : new[<<NoShift, i>>].code = codes[i]
                                 /\ "code" \in DOMAIN new[<<NoShift, i>>]
  BY UnshiftedFacts
<1> HIDE DEF m, new
<1>3. ASSUME NEW k \in DOMAIN new
      PROVE  \E i \in DOMAIN codes : k = <<NoShift, i>> /\ m[k].code = codes[i]
                                     /\ "code" \in DOMAIN m[k]
  <2>1. PICK i \in DOMAIN codes : k = <<NoShift, i>>
    BY <1>2
  <2> QED BY <1>1, <1>2, <2>1
<1>4. AtHome(m, homes)
  <2>1. ASSUME NEW k \in DOMAIN new
        PROVE  /\ "code" \in DOMAIN m[k]
               /\ m[k].code \in DOMAIN homes /\ k \in {NoShift} \X homes[m[k].code]
    <3>1. PICK i \in DOMAIN codes : k = <<NoShift, i>> /\ m[k].code = codes[i]
                                    /\ "code" \in DOMAIN m[k]
      BY <1>3
    <3> QED BY <3>1 DEF Fits
  <2>2. ASSUME NEW k \in DOMAIN map, k \notin DOMAIN new PROVE m[k] = map[k]
    BY <1>1, <2>2
  <2> QED BY <1>1, <2>1, <2>2 DEF AtHome, MapOK
<1>5. ASSUME NEW j \in DOMAIN m, NEW k \in DOMAIN m, m[j].code = m[k].code,
             m[j].code \notin EventCodes \cup Macros, j \in DOMAIN new
      PROVE  j = k
  <2>1. PICK i \in DOMAIN codes : j = <<NoShift, i>> /\ m[j].code = codes[i]
    BY <1>3, <1>5
  <2>2. CASE k \in DOMAIN new
    <3>1. PICK h \in DOMAIN codes : k = <<NoShift, h>> /\ m[k].code = codes[h]
      BY <1>3, <2>2
    <3> QED BY <1>5, <2>1, <3>1 DEF Fits
  <2>3. CASE k \notin DOMAIN new
    <3>1. k \in DOMAIN map /\ m[k] = map[k]
      BY <1>1, <2>3
    <3>2. k \in {NoShift} \X homes[codes[i]]
      BY <1>5, <2>1, <3>1 DEF MapOK, AtHome
    <3>3. PICK x \in homes[codes[i]] : k = <<NoShift, x>>
      BY <3>2
    <3>4. x \in DOMAIN codes
      BY <3>1, <3>3
    <3> QED BY <1>2, <2>3, <3>3, <3>4
  <2> QED BY <2>2, <2>3
<1>6. ASSUME NEW j \in DOMAIN m, NEW k \in DOMAIN m, j # k, m[j].code = m[k].code
      PROVE  m[j].code \in EventCodes \cup Macros
  <2>1. CASE j \in DOMAIN new \/ k \in DOMAIN new
    BY <1>5, <1>6, <2>1
  <2>2. CASE j \notin DOMAIN new /\ k \notin DOMAIN new
    <3>1. j \in DOMAIN map /\ k \in DOMAIN map /\ m[j] = map[j] /\ m[k] = map[k]
      BY <1>1, <2>2
    <3> QED BY <1>6, <3>1 DEF MapOK, Shared
  <2> QED BY <2>1, <2>2
<1>7. ~Shared(m)
  BY <1>6 DEF Shared
<1> QED BY <1>4, <1>7 DEF MapOK, m

LEMMA UnshiftedStep ==
  ASSUME NEW homes, NEW codes, Fits(codes, homes)
  PROVE  MapOK(Unshifted(codes), homes)
<1> DEFINE m == Unshifted(codes)
<1>1. /\ DOMAIN m = {NoShift} \X DOMAIN codes
      /\ \A i \in DOMAIN codes : m[<<NoShift, i>>].code = codes[i]
                                 /\ "code" \in DOMAIN m[<<NoShift, i>>]
  BY UnshiftedFacts
<1> HIDE DEF m
<1>2. ASSUME NEW k \in DOMAIN m
      PROVE  \E i \in DOMAIN codes : k = <<NoShift, i>> /\ m[k].code = codes[i]
                                     /\ "code" \in DOMAIN m[k]
  <2>1. PICK i \in DOMAIN codes : k = <<NoShift, i>>
    BY <1>1
  <2> QED BY <1>1, <2>1
<1>3. AtHome(m, homes)
  <2>1. ASSUME NEW k \in DOMAIN m
        PROVE  /\ "code" \in DOMAIN m[k]
               /\ m[k].code \in DOMAIN homes /\ k \in {NoShift} \X homes[m[k].code]
    <3>1. PICK i \in DOMAIN codes : k = <<NoShift, i>> /\ m[k].code = codes[i]
                                    /\ "code" \in DOMAIN m[k]
      BY <1>2
    <3> QED BY <3>1 DEF Fits
  <2> QED BY <2>1 DEF AtHome
<1>4. ASSUME NEW j \in DOMAIN m, NEW k \in DOMAIN m, j # k PROVE m[j].code # m[k].code
  BY <1>2, <1>4 DEF Fits
<1>5. ~Shared(m)
  BY <1>4 DEF Shared
<1> QED BY <1>3, <1>5 DEF MapOK, m

(* What the presets bind, written out.                                      *)
WirelessKeys ==
  Merged(PadKeys, [DU |-> "BTN_TRIGGER_HAPPY3", DD |-> "BTN_TRIGGER_HAPPY4",
                   DL |-> "BTN_TRIGGER_HAPPY1", DR |-> "BTN_TRIGGER_HAPPY2"])
GuitarKeys ==
  Merged(MenuKeys, [A |-> "BTN_0", B |-> "BTN_1", Y |-> "BTN_2", X |-> "BTN_3", LB |-> "BTN_4"])
GuitarAxes == Merged([X2 |-> "ABS_X", Y2 |-> "ABS_Y"], HatAxes)

LEMMA PadKeysFit == Fits(PadKeys, BtnHomes)
<1> DEFINE p == PadKeys
<1>1. /\ DOMAIN p =
           {"START", "GUIDE", "BACK", "A", "B", "X", "Y", "LB", "RB", "TL",
            "TR"}
      /\ p["START"] = "BTN_START" /\ p["GUIDE"] = "BTN_MODE"
      /\ p["BACK"] = "BTN_SELECT" /\ p["A"] = "BTN_A" /\ p["B"] = "BTN_B"
      /\ p["X"] = "BTN_X" /\ p["Y"] = "BTN_Y" /\ p["LB"] = "BTN_TL"
      /\ p["RB"] = "BTN_TR" /\ p["TL"] = "BTN_THUMBL"
      /\ p["TR"] = "BTN_THUMBR"
  BY DEF PadKeys, Merged, MenuKeys, FaceKeys, ShoulderKeys, ThumbKeys
<1> HIDE DEF p
<1>2. ASSUME NEW i \in DOMAIN p PROVE p[i] \in DOMAIN BtnHomes /\ i \in BtnHomes[p[i]]
  BY <1>1, <1>2 DEF BtnHomes
<1>3. ASSUME NEW i \in DOMAIN p, NEW j \in DOMAIN p, p[i] = p[j] PROVE i = j
  BY <1>1, <1>3
<1>4. Fits(p, BtnHomes)
  BY <1>2, <1>3 DEF Fits
<1> QED BY <1>4 DEF p

LEMMA PedalsFit == Fits(Merged(PadAxes, Pedals), AxisHomes)
<1> DEFINE p == Merged(PadAxes, Pedals)
<1>1. /\ DOMAIN p =
           {"X1", "Y1", "X2", "Y2", "DPAD_X", "DPAD_Y", "LT", "RT"}
      /\ p["X1"] = "ABS_X" /\ p["Y1"] = "ABS_Y" /\ p["X2"] = "ABS_RX"
      /\ p["Y2"] = "ABS_RY" /\ p["DPAD_X"] = "ABS_HAT0X"
      /\ p["DPAD_Y"] = "ABS_HAT0Y" /\ p["LT"] = "ABS_BRAKE"
      /\ p["RT"] = "ABS_GAS"
  BY DEF PadAxes, Merged, StickAxes, HatAxes, Pedals
<1> HIDE DEF p
<1>2. ASSUME NEW i \in DOMAIN p PROVE p[i] \in DOMAIN AxisHomes /\ i \in AxisHomes[p[i]]
  BY <1>1, <1>2 DEF AxisHomes
<1>3. ASSUME NEW i \in DOMAIN p, NEW j \in DOMAIN p, p[i] = p[j] PROVE i = j
  BY <1>1, <1>3
<1>4. Fits(p, AxisHomes)
  BY <1>2, <1>3 DEF Fits
<1> QED BY <1>4 DEF p

LEMMA ZAxesFit == Fits(Merged(PadAxes, ZAxes), AxisHomes)
<1> DEFINE p == Merged(PadAxes, ZAxes)
<1>1. /\ DOMAIN p =
           {"X1", "Y1", "X2", "Y2", "DPAD_X", "DPAD_Y", "LT", "RT"}
      /\ p["X1"] = "ABS_X" /\ p["Y1"] = "ABS_Y" /\ p["X2"] = "ABS_RX"
      /\ p["Y2"] = "ABS_RY" /\ p["DPAD_X"] = "ABS_HAT0X"
      /\ p["DPAD_Y"] = "ABS_HAT0Y" /\ p["LT"] = "ABS_Z" /\ p["RT"] = "ABS_RZ"
  BY DEF PadAxes, Merged, StickAxes, HatAxes, ZAxes
<1> HIDE DEF p
<1>2. ASSUME NEW i \in DOMAIN p PROVE p[i] \in DOMAIN AxisHomes /\ i \in AxisHomes[p[i]]
  BY <1>1, <1>2 DEF AxisHomes
<1>3. ASSUME NEW i \in DOMAIN p, NEW j \in DOMAIN p, p[i] = p[j] PROVE i = j
  BY <1>1, <1>3
<1>4. Fits(p, AxisHomes)
  BY <1>2, <1>3 DEF Fits
<1> QED BY <1>4 DEF p

LEMMA WirelessAxesFit == Fits(Merged(StickAxes, ZAxes), AxisHomes)
<1> DEFINE p == Merged(StickAxes, ZAxes)
<1>1. /\ DOMAIN p =
           {"X1", "Y1", "X2", "Y2", "LT", "RT"}
      /\ p["X1"] = "ABS_X" /\ p["Y1"] = "ABS_Y" /\ p["X2"] = "ABS_RX"
      /\ p["Y2"] = "ABS_RY" /\ p["LT"] = "ABS_Z" /\ p["RT"] = "ABS_RZ"
  BY DEF Merged, StickAxes, ZAxes
<1> HIDE DEF p
<1>2. ASSUME NEW i \in DOMAIN p PROVE p[i] \in DOMAIN AxisHomes /\ i \in AxisHomes[p[i]]
  BY <1>1, <1>2 DEF AxisHomes
<1>3. ASSUME NEW i \in DOMAIN p, NEW j \in DOMAIN p, p[i] = p[j] PROVE i = j
  BY <1>1, <1>3
<1>4. Fits(p, AxisHomes)
  BY <1>2, <1>3 DEF Fits
<1> QED BY <1>4 DEF p

LEMMA WirelessKeysFit == Fits(WirelessKeys, BtnHomes)
<1> DEFINE p == WirelessKeys
<1>1. /\ DOMAIN p =
           {"START", "GUIDE", "BACK", "A", "B", "X", "Y", "LB", "RB", "TL",
            "TR", "DU", "DD", "DL", "DR"}
      /\ p["START"] = "BTN_START" /\ p["GUIDE"] = "BTN_MODE"
      /\ p["BACK"] = "BTN_SELECT" /\ p["A"] = "BTN_A" /\ p["B"] = "BTN_B"
      /\ p["X"] = "BTN_X" /\ p["Y"] = "BTN_Y" /\ p["LB"] = "BTN_TL"
      /\ p["RB"] = "BTN_TR" /\ p["TL"] = "BTN_THUMBL"
      /\ p["TR"] = "BTN_THUMBR" /\ p["DU"] = "BTN_TRIGGER_HAPPY3"
      /\ p["DD"] = "BTN_TRIGGER_HAPPY4" /\ p["DL"] = "BTN_TRIGGER_HAPPY1"
      /\ p["DR"] = "BTN_TRIGGER_HAPPY2"
  BY DEF WirelessKeys, PadKeys, Merged, MenuKeys, FaceKeys, ShoulderKeys, ThumbKeys
<1> HIDE DEF p
<1>2. ASSUME NEW i \in DOMAIN p PROVE p[i] \in DOMAIN BtnHomes /\ i \in BtnHomes[p[i]]
  BY <1>1, <1>2 DEF BtnHomes
<1>3. ASSUME NEW i \in DOMAIN p, NEW j \in DOMAIN p, p[i] = p[j] PROVE i = j
  BY <1>1, <1>3
<1>4. Fits(p, BtnHomes)
  BY <1>2, <1>3 DEF Fits
<1> QED BY <1>4 DEF p

LEMMA GuitarKeysFit == Fits(GuitarKeys, BtnHomes)
<1> DEFINE p == GuitarKeys
<1>1. /\ DOMAIN p =
           {"START", "GUIDE", "BACK", "A", "B", "Y", "X", "LB"}
      /\ p["START"] = "BTN_START" /\ p["GUIDE"] = "BTN_MODE"
      /\ p["BACK"] = "BTN_SELECT" /\ p["A"] = "BTN_0" /\ p["B"] = "BTN_1"
      /\ p["Y"] = "BTN_2" /\ p["X"] = "BTN_3" /\ p["LB"] = "BTN_4"
  BY DEF GuitarKeys, Merged, MenuKeys
<1> HIDE DEF p
<1>2. ASSUME NEW i \in DOMAIN p PROVE p[i] \in DOMAIN BtnHomes /\ i \in BtnHomes[p[i]]
  BY <1>1, <1>2 DEF BtnHomes
<1>3. ASSUME NEW i \in DOMAIN p, NEW j \in DOMAIN p, p[i] = p[j] PROVE i = j
  BY <1>1, <1>3
<1>4. Fits(p, BtnHomes)
  BY <1>2, <1>3 DEF Fits
<1> QED BY <1>4 DEF p

LEMMA GuitarAxesFit == Fits(GuitarAxes, AxisHomes)
<1> DEFINE p == GuitarAxes
<1>1. /\ DOMAIN p =
           {"X2", "Y2", "DPAD_X", "DPAD_Y"}
      /\ p["X2"] = "ABS_X" /\ p["Y2"] = "ABS_Y" /\ p["DPAD_X"] = "ABS_HAT0X"
      /\ p["DPAD_Y"] = "ABS_HAT0Y"
  BY DEF GuitarAxes, Merged, HatAxes
<1> HIDE DEF p
<1>2. ASSUME NEW i \in DOMAIN p PROVE p[i] \in DOMAIN AxisHomes /\ i \in AxisHomes[p[i]]
  BY <1>1, <1>2 DEF AxisHomes
<1>3. ASSUME NEW i \in DOMAIN p, NEW j \in DOMAIN p, p[i] = p[j] PROVE i = j
  BY <1>1, <1>3
<1>4. Fits(p, AxisHomes)
  BY <1>2, <1>3 DEF Fits
<1> QED BY <1>4 DEF p

(* The maps of one configuration.                                           *)
UInputOK(u) ==
  /\ {"btn", "axis"} \subseteq DOMAIN u
  /\ MapOK(u.btn, BtnHomes) /\ MapOK(u.axis, AxisHomes)

LEMMA PresetsOK ==
  /\ UInputOK(SetDefaults) /\ UInputOK(MimicXpad) /\ UInputOK(MimicXpadWireless)
  /\ UInputOK(Guitar) /\ UInputOK(ClearAll)
<1>1. /\ MapOK(Unshifted(PadKeys), BtnHomes) /\ MapOK(Unshifted(WirelessKeys), BtnHomes)
      /\ MapOK(Unshifted(GuitarKeys), BtnHomes)
  BY UnshiftedStep, PadKeysFit, WirelessKeysFit, GuitarKeysFit
<1>2. /\ MapOK(Unshifted(Merged(PadAxes, Pedals)), AxisHomes)
      /\ MapOK(Unshifted(Merged(PadAxes, ZAxes)), AxisHomes)
      /\ MapOK(Unshifted(Merged(StickAxes, ZAxes)), AxisHomes)
      /\ MapOK(Unshifted(GuitarAxes), AxisHomes)
  BY UnshiftedStep, PedalsFit, ZAxesFit, WirelessAxesFit, GuitarAxesFit
<1>3. MapOK(<<>>, BtnHomes) /\ MapOK(<<>>, AxisHomes)
  BY DEF MapOK, AtHome, Shared
<1>4. UInputOK(SetDefaults)
  BY <1>1, <1>2 DEF SetDefaults, UInputOK
<1>5. UInputOK(MimicXpad)
  BY <1>1, <1>2 DEF MimicXpad, UInputOK
<1>6. UInputOK(MimicXpadWireless)
  BY <1>1, <1>2 DEF MimicXpadWireless, WirelessKeys, UInputOK
<1>7. UInputOK(Guitar)
  BY <1>1, <1>2 DEF Guitar, GuitarKeys, GuitarAxes, UInputOK
<1>8. UInputOK(ClearAll)
  BY <1>3 DEF ClearAll, UInputOK
<1> QED BY <1>4, <1>5, <1>6, <1>7, <1>8

(* The presets that change some of the maps, whatever they held.            *)
LEMMA TriggerAsButtonOK ==
  ASSUME NEW u, UInputOK(u)
  PROVE  UInputOK(TriggerAsButton(u))
<1> DEFINE codes == [LT |-> "BTN_TL2", RT |-> "BTN_TR2"]
<1>1. /\ DOMAIN codes = {"LT", "RT"} /\ codes["LT"] = "BTN_TL2" /\ codes["RT"] = "BTN_TR2"
      /\ BtnHomes["BTN_TL2"] = {"LT"} /\ BtnHomes["BTN_TR2"] = {"RT"}
      /\ {"BTN_TL2", "BTN_TR2"} \subseteq DOMAIN BtnHomes
  BY DEF BtnHomes
<1>2. /\ DOMAIN TriggerAsButton(u) = DOMAIN u
      /\ TriggerAsButton(u).btn = Bind(u.btn, codes)
      /\ TriggerAsButton(u).axis = Unbind(u.axis, {"LT", "RT"})
  BY DEF TriggerAsButton, UInputOK
<1> HIDE DEF codes
<1>3. Fits(codes, BtnHomes)
  BY <1>1 DEF Fits
<1>4. \A i \in DOMAIN codes : \A x \in BtnHomes[codes[i]] : x \in DOMAIN codes
  BY <1>1
<1>5. MapOK(Bind(u.btn, codes), BtnHomes)
  BY <1>3, <1>4, BindStep DEF UInputOK
<1>6. MapOK(Unbind(u.axis, {"LT", "RT"}), AxisHomes)
  BY UnbindStep DEF UInputOK
<1> QED BY <1>2, <1>5, <1>6 DEF UInputOK
LEMMA TriggerAsZaxisOK ==
  ASSUME NEW u, UInputOK(u)
  PROVE  UInputOK(TriggerAsZaxis(u))
<1> DEFINE codes == [TRIGGER |-> "ABS_Z"]
           two == {"LT", "RT"}
           rest == Unbind(u.axis, two)
<1>1. /\ DOMAIN codes = {"TRIGGER"} /\ codes["TRIGGER"] = "ABS_Z"
      /\ AxisHomes["ABS_Z"] = {"LT", "TRIGGER"} /\ "ABS_Z" \in DOMAIN AxisHomes
  BY DEF AxisHomes
<1>2. /\ DOMAIN TriggerAsZaxis(u) = DOMAIN u
      /\ TriggerAsZaxis(u).btn = u.btn
      /\ TriggerAsZaxis(u).axis = Unbind(Bind(u.axis, codes), two)
  BY DEF TriggerAsZaxis, UInputOK
<1>3. Unbind(Bind(u.axis, codes), two) = Bind(rest, codes)
  <2>1. DOMAIN Unshifted(codes) = {NoShift} \X {"TRIGGER"}
    BY <1>1, UnshiftedFacts
  <2>2. DOMAIN Unshifted(codes) \cap ({NoShift} \X two) = {}
    BY <2>1
  <2> HIDE DEF codes, two
  <2> QED BY <2>2 DEF Unbind, Bind, Merged
<1>4. \A x \in two : <<NoShift, x>> \notin DOMAIN rest
  BY DEF Unbind
<1>5. MapOK(rest, AxisHomes)
  BY UnbindStep DEF UInputOK
<1> HIDE DEF codes, rest
<1>6. Fits(codes, AxisHomes)
  BY <1>1 DEF Fits
<1>7. \A i \in DOMAIN codes : \A x \in AxisHomes[codes[i]] :
        x \in DOMAIN codes \/ <<NoShift, x>> \notin DOMAIN rest
  BY <1>1, <1>4
<1>8. MapOK(Bind(rest, codes), AxisHomes)
  BY <1>5, <1>6, <1>7, BindStep
<1> QED BY <1>2, <1>3, <1>8 DEF UInputOK

LEMMA DpadAsButtonOK ==
  ASSUME NEW u, UInputOK(u)
  PROVE  UInputOK(DpadAsButton(u))
<1> DEFINE codes == [DU |-> "BTN_BASE", DD |-> "BTN_BASE2", DL |-> "BTN_BASE3", DR |-> "BTN_BASE4"]
<1>1. /\ DOMAIN codes = {"DU", "DD", "DL", "DR"}
      /\ codes["DU"] = "BTN_BASE" /\ codes["DD"] = "BTN_BASE2"
      /\ codes["DL"] = "BTN_BASE3" /\ codes["DR"] = "BTN_BASE4"
      /\ BtnHomes["BTN_BASE"] = {"DU"} /\ BtnHomes["BTN_BASE2"] = {"DD"}
      /\ BtnHomes["BTN_BASE3"] = {"DL"} /\ BtnHomes["BTN_BASE4"] = {"DR"}
      /\ {"BTN_BASE", "BTN_BASE2", "BTN_BASE3", "BTN_BASE4"} \subseteq DOMAIN BtnHomes
  BY DEF BtnHomes
<1>2. /\ DOMAIN DpadAsButton(u) = DOMAIN u
      /\ DpadAsButton(u).btn = Bind(u.btn, codes)
      /\ DpadAsButton(u).axis = Unbind(u.axis, {"DPAD_X", "DPAD_Y"})
  BY DEF DpadAsButton, UInputOK
<1> HIDE DEF codes
<1>3. Fits(codes, BtnHomes)
  BY <1>1 DEF Fits
<1>4. \A i \in DOMAIN codes : \A x \in BtnHomes[codes[i]] : x \in DOMAIN codes
  BY <1>1
<1>5. MapOK(Bind(u.btn, codes), BtnHomes)
  BY <1>3, <1>4, BindStep DEF UInputOK
<1>6. MapOK(Unbind(u.axis, {"DPAD_X", "DPAD_Y"}), AxisHomes)
  BY UnbindStep DEF UInputOK
<1> QED BY <1>2, <1>5, <1>6 DEF UInputOK

LEMMA DpadOnlyOK ==
  ASSUME NEW u, UInputOK(u)
  PROVE  UInputOK(DpadOnly(u))
<1> DEFINE codes == [DPAD_X |-> "ABS_X", DPAD_Y |-> "ABS_Y"]
           sticks == {"X1", "Y1", "X2", "Y2"}
           rest == Unbind(u.axis, sticks)
<1>1. /\ DOMAIN codes = {"DPAD_X", "DPAD_Y"}
      /\ codes["DPAD_X"] = "ABS_X" /\ codes["DPAD_Y"] = "ABS_Y"
      /\ AxisHomes["ABS_X"] = {"X1", "X2", "DPAD_X"}
      /\ AxisHomes["ABS_Y"] = {"Y1", "Y2", "DPAD_Y"}
      /\ {"ABS_X", "ABS_Y"} \subseteq DOMAIN AxisHomes
  BY DEF AxisHomes
<1>2. /\ DOMAIN DpadOnly(u) = DOMAIN u
      /\ DpadOnly(u).btn = u.btn
      /\ DpadOnly(u).axis = Bind(rest, codes)
  BY DEF DpadOnly, UInputOK
<1>3. \A x \in sticks : <<NoShift, x>> \notin DOMAIN rest
  BY DEF Unbind
<1>4. MapOK(rest, AxisHomes)
  BY UnbindStep DEF UInputOK
<1> HIDE DEF codes, rest
<1>5. Fits(codes, AxisHomes)
  BY <1>1 DEF Fits
<1>6. \A i \in DOMAIN codes : \A x \in AxisHomes[codes[i]] :
        x \in DOMAIN codes \/ <<NoShift, x>> \notin DOMAIN rest
  BY <1>1, <1>3
<1>7. MapOK(Bind(rest, codes), AxisHomes)
  BY <1>4, <1>5, <1>6, BindStep
<1> QED BY <1>2, <1>7 DEF UInputOK

(* set_ui_buttonmap() and set_ui_axismap(): a binding of the user's own.    *)
LEMMA MapAfterOK ==
  ASSUME NEW map, NEW homes, MapOK(map, homes), NEW o, NEW key, NEW name, NEW value, IsEvent(value)
  PROVE  MapOK(MapAfter(o, map, key, name, value), homes)
<1> DEFINE m == MapAfter(o, map, key, name, value)
<1>1. CASE value = "" /\ key \in DOMAIN map
  <2>1. m = [map EXCEPT ![key].filters = map[key].filters \o InputOf(name).filters]
    BY <1>1 DEF MapAfter
  <2>2. DOMAIN m = DOMAIN map /\ \A k \in DOMAIN map : k # key => m[k] = map[k]
    BY <2>1
  <2>3. m[key] = [map[key] EXCEPT !.filters = map[key].filters \o InputOf(name).filters]
    BY <1>1, <2>1
  <2>4. DOMAIN m[key] = DOMAIN map[key] /\ m[key].code = map[key].code
    BY <1>1, <2>3 DEF MapOK, AtHome
  <2> HIDE DEF m
  <2>5. \A k \in DOMAIN map : DOMAIN m[k] = DOMAIN map[k] /\ m[k].code = map[k].code
    BY <2>2, <2>4
  <2>6. AtHome(m, homes)
    BY <2>2, <2>5 DEF MapOK, AtHome
  <2>7. ~Shared(m)
    BY <2>2, <2>5 DEF MapOK, Shared
  <2> QED BY <2>6, <2>7 DEF MapOK, m
<1>2. CASE ~(value = "" /\ key \in DOMAIN map) /\ value \in {"", "void", "none"}
  <2>1. m = map
    BY <1>2 DEF MapAfter
  <2> QED BY <2>1
<1>3. CASE ~(value = "" /\ key \in DOMAIN map) /\ value \notin {"", "void", "none"}
  <2> DEFINE e == [EventOf(o, value) EXCEPT !.filters = InputOf(name).filters]
  <2>1. m = Put(map, key, e)
    BY <1>3 DEF MapAfter
  <2>2. "code" \in DOMAIN e /\ e.code = value
    BY DEF EventOf
  <2>3. value \in EventCodes \cup Macros
    BY <1>3 DEF IsEvent
  <2> HIDE DEF e
  <2>4. /\ DOMAIN m = DOMAIN map \cup {key} /\ m[key] = e
        /\ \A k \in DOMAIN map : k # key => m[k] = map[k]
    BY <2>1 DEF Put, Merged
  <2> HIDE DEF m
  <2>5. AtHome(m, homes)
    BY <2>2, <2>3, <2>4 DEF MapOK, AtHome
  <2>6. ASSUME NEW j \in DOMAIN m, NEW k \in DOMAIN m, j # k, m[j].code = m[k].code
        PROVE  m[j].code \in EventCodes \cup Macros
    <3>1. CASE j = key \/ k = key
      BY <2>2, <2>3, <2>4, <2>6, <3>1
    <3>2. CASE j # key /\ k # key
      <4>1. m[j] = map[j] /\ m[k] = map[k] /\ j \in DOMAIN map /\ k \in DOMAIN map
        BY <2>4, <3>2
      <4>2. map[j].code = map[k].code
        BY <2>6, <4>1
      <4>3. map[j].code \in EventCodes \cup Macros
        BY <2>6, <4>1, <4>2 DEF MapOK, Shared
      <4> QED BY <4>1, <4>3
    <3> QED BY <3>1, <3>2
  <2>7. ~Shared(m)
    BY <2>6 DEF Shared
  <2> QED BY <2>5, <2>7 DEF MapOK, m
<1> QED BY <1>1, <1>2, <1>3
-----------------------------------------------------------------------------
(***************************************************************************)
(* The open files and the directory context.                               *)
(***************************************************************************)

IsSeq(s) == \E S : s \in Seq(S)

(* The directories are those of the open files on disk, in their order.     *)
ContextOK(stack, dirs) ==
  /\ IsSeq(stack) /\ IsSeq(dirs)
  /\ \A k \in 1..Len(stack) : "file" \in DOMAIN stack[k] /\ "disk" \in DOMAIN stack[k]
                              /\ stack[k].disk \in BOOLEAN
  /\ Len(dirs) = Cardinality(OnDisk(stack, Len(stack)))
  /\ \A k \in OnDisk(stack, Len(stack)) :
       dirs[Cardinality(OnDisk(stack, k))] = Dir[stack[k].file]

LEMMA OnDiskFacts ==
  ASSUME NEW stack, NEW n \in Nat
  PROVE  /\ IsFiniteSet(OnDisk(stack, n)) /\ Cardinality(OnDisk(stack, n)) \in Nat
         /\ OnDisk(stack, 0) = {}
         /\ \A k \in 1..n : Cardinality(OnDisk(stack, k)) <= Cardinality(OnDisk(stack, n))
         /\ \A k \in OnDisk(stack, n) : Cardinality(OnDisk(stack, k)) >= 1
         /\ stack[n + 1].disk =>
              Cardinality(OnDisk(stack, n + 1)) = Cardinality(OnDisk(stack, n)) + 1
         /\ ~stack[n + 1].disk => OnDisk(stack, n + 1) = OnDisk(stack, n)
<1>1. ASSUME NEW k \in Nat
      PROVE  IsFiniteSet(OnDisk(stack, k)) /\ Cardinality(OnDisk(stack, k)) \in Nat
  <2>1. IsFiniteSet(1..k) /\ OnDisk(stack, k) \subseteq 1..k
    BY FS_Interval DEF OnDisk
  <2>2. IsFiniteSet(OnDisk(stack, k))
    BY <2>1, FS_Subset
  <2> QED BY <2>2, FS_CardinalityType
<1>2. OnDisk(stack, 0) = {}
  BY DEF OnDisk
<1>3. ASSUME NEW k \in 1..n
      PROVE  Cardinality(OnDisk(stack, k)) <= Cardinality(OnDisk(stack, n))
  <2>1. OnDisk(stack, k) \subseteq OnDisk(stack, n)
    BY DEF OnDisk
  <2> QED BY <1>1, <2>1, FS_Subset
<1>4. ASSUME NEW k \in OnDisk(stack, n) PROVE Cardinality(OnDisk(stack, k)) >= 1
  <2>1. k \in 1..n /\ k \in OnDisk(stack, k) /\ k \in Nat
    BY DEF OnDisk
  <2>2. Cardinality(OnDisk(stack, k)) # 0
    BY <1>1, <2>1, FS_EmptySet
  <2> QED BY <1>1, <2>1, <2>2
<1>5. ASSUME stack[n + 1].disk
      PROVE  Cardinality(OnDisk(stack, n + 1)) = Cardinality(OnDisk(stack, n)) + 1
  <2>1. OnDisk(stack, n + 1) = OnDisk(stack, n) \cup {n + 1} /\ n + 1 \notin OnDisk(stack, n)
    BY <1>5 DEF OnDisk
  <2> QED BY <1>1, <2>1, FS_AddElement
<1>6. ASSUME ~stack[n + 1].disk PROVE OnDisk(stack, n + 1) = OnDisk(stack, n)
  BY <1>6 DEF OnDisk
<1> QED BY <1>1, <1>2, <1>3, <1>4, <1>5, <1>6

(* A file is opened ...                                                     *)
LEMMA OpenStep ==
  ASSUME NEW stack, NEW dirs, ContextOK(stack, dirs), NEW file, NEW disk \in BOOLEAN
  PROVE  ContextOK(Append(stack, Frame(file, disk)),
                   IF disk THEN Append(dirs, Dir[file]) ELSE dirs)
<1> DEFINE n == Len(stack)
           f == Frame(file, disk)
           s == Append(stack, f)
           d == IF disk THEN Append(dirs, Dir[file]) ELSE dirs
<1>1. PICK S : stack \in Seq(S)
  BY DEF ContextOK, IsSeq
<1>2. PICK T : dirs \in Seq(T)
  BY DEF ContextOK, IsSeq
<1>3. /\ "file" \in DOMAIN f /\ "disk" \in DOMAIN f /\ f.disk = disk /\ f.file = file
  BY DEF Frame
<1> HIDE DEF f
<1>4. /\ n \in Nat /\ s \in Seq(S \cup {f}) /\ Len(s) = n + 1 /\ s[n + 1] = f
      /\ \A k \in 1..n : s[k] = stack[k]
  BY <1>1
<1> HIDE DEF s
<1>5. ASSUME NEW k \in 0..n PROVE OnDisk(s, k) = OnDisk(stack, k)
  BY <1>4 DEF OnDisk
<1>6. /\ d \in Seq(T \cup {Dir[file]}) /\ Len(dirs) \in Nat
      /\ \A i \in 1..Len(dirs) : d[i] = dirs[i]
      /\ disk => Len(d) = Len(dirs) + 1 /\ d[Len(dirs) + 1] = Dir[file]
      /\ ~disk => d = dirs
  BY <1>2
<1> HIDE DEF d
<1> DEFINE c == Cardinality(OnDisk(stack, n))
<1>7. Len(dirs) = c
  BY DEF ContextOK
<1>8. Cardinality(OnDisk(s, n)) = c
  BY <1>4, <1>5
<1>9. /\ disk => Cardinality(OnDisk(s, n + 1)) = c + 1
      /\ ~disk => OnDisk(s, n + 1) = OnDisk(s, n)
  BY <1>3, <1>4, <1>8, OnDiskFacts
<1>10. Len(d) = Cardinality(OnDisk(s, n + 1))
  BY <1>6, <1>7, <1>8, <1>9
<1>11. ASSUME NEW k \in OnDisk(s, n + 1)
       PROVE  d[Cardinality(OnDisk(s, k))] = Dir[s[k].file]
  <2>1. k \in 1..(n + 1) /\ s[k].disk
    BY <1>11 DEF OnDisk
  <2>2. CASE k = n + 1
    BY <1>3, <1>4, <1>6, <1>7, <1>9, <2>1, <2>2
  <2>3. CASE k # n + 1
    <3>1. k \in 1..n /\ s[k] = stack[k] /\ OnDisk(s, k) = OnDisk(stack, k)
      BY <1>4, <1>5, <2>1, <2>3
    <3>2. k \in OnDisk(stack, n)
      BY <2>1, <3>1 DEF OnDisk
    <3>3. Cardinality(OnDisk(stack, k)) \in 1..c
      <4>1. Cardinality(OnDisk(stack, k)) \in Nat /\ c \in Nat
        BY <1>4, <3>1, OnDiskFacts
      <4>2. Cardinality(OnDisk(stack, k)) <= c
        BY <1>4, <3>1, OnDiskFacts
      <4>3. Cardinality(OnDisk(stack, k)) >= 1
        BY <1>4, <3>2, OnDiskFacts
      <4> QED BY <4>1, <4>2, <4>3
    <3>4. dirs[Cardinality(OnDisk(stack, k))] = Dir[stack[k].file]
      BY <3>2 DEF ContextOK
    <3> QED BY <1>6, <1>7, <3>1, <3>3, <3>4
  <2> QED BY <2>2, <2>3
<1>12. \A k \in 1..Len(s) : "file" \in DOMAIN s[k] /\ "disk" \in DOMAIN s[k] /\ s[k].disk \in BOOLEAN
  BY <1>3, <1>4 DEF ContextOK
<1>13. IsSeq(s) /\ IsSeq(d)
  BY <1>4, <1>6 DEF IsSeq
<1>14. ContextOK(s, d)
  BY <1>4, <1>10, <1>11, <1>12, <1>13 DEF ContextOK
<1> QED BY <1>14 DEF s, d, f

(* ... and closed again.                                                    *)
LEMMA CloseStep ==
  ASSUME NEW stack, NEW dirs, ContextOK(stack, dirs), stack # <<>>
  PROVE  ContextOK(Front(stack), IF Last(stack).disk THEN Front(dirs) ELSE dirs)
<1> DEFINE n == Len(stack) - 1
           s == Front(stack)
           disk == Last(stack).disk
           d == IF disk THEN Front(dirs) ELSE dirs
<1>1. PICK S : stack \in Seq(S)
  BY DEF ContextOK, IsSeq
<1>2. PICK T : dirs \in Seq(T)
  BY DEF ContextOK, IsSeq
<1>3. /\ n \in Nat /\ Len(stack) = n + 1 /\ s \in Seq(S) /\ Len(s) = n
      /\ \A k \in 1..n : s[k] = stack[k]
      /\ Last(stack) = stack[n + 1]
  <2>1. Len(stack) \in Nat /\ Len(stack) # 0
    BY <1>1, EmptySeq
  <2>2. /\ SubSeq(stack, 1, Len(stack) - 1) \in Seq(S)
        /\ Len(SubSeq(stack, 1, Len(stack) - 1)) = Len(stack) - 1
        /\ \A k \in 1..(Len(stack) - 1) : SubSeq(stack, 1, Len(stack) - 1)[k] = stack[k]
    <3> DEFINE m == Len(stack) - 1
    <3>1. m \in Nat /\ m <= Len(stack)
      BY <2>1
    <3>2. \A k \in 1..m : stack[k] \in S
      BY <1>1, <2>1
    <3> HIDE DEF m
    <3>3. SubSeq(stack, 1, m) = [k \in 1..m |-> stack[k]]
      BY <1>1, <3>1
    <3>4. [k \in 1..m |-> stack[k]] \in Seq(S)
      BY <3>1, <3>2, IsASeq
    <3>5. Len(SubSeq(stack, 1, m)) = m
      BY <1>1, <3>1
    <3> QED BY <3>3, <3>4, <3>5 DEF m
  <2> QED BY <2>1, <2>2 DEF Front, Last
<1> HIDE DEF s, n
<1>4. ASSUME NEW k \in 0..n PROVE OnDisk(s, k) = OnDisk(stack, k)
  BY <1>3 DEF OnDisk
<1> DEFINE c == Cardinality(OnDisk(stack, n))
<1>5. c \in Nat /\ Len(dirs) = IF disk THEN c + 1 ELSE c
  BY <1>3, OnDiskFacts DEF ContextOK
<1>6. d \in Seq(T) /\ Len(d) = c /\ \A i \in 1..c : d[i] = dirs[i]
  BY <1>2, <1>5 DEF Front
<1> HIDE DEF d
<1>7. ASSUME NEW k \in OnDisk(s, n)
       PROVE  d[Cardinality(OnDisk(s, k))] = Dir[s[k].file]
  <2>1. k \in 1..n /\ s[k].disk /\ s[k] = stack[k]
    BY <1>3, <1>7 DEF OnDisk
  <2>2. OnDisk(s, k) = OnDisk(stack, k)
    BY <1>3, <1>4, <2>1
  <2>3. k \in OnDisk(stack, n + 1) /\ k \in OnDisk(stack, n)
    BY <1>3, <2>1 DEF OnDisk
  <2>4. Cardinality(OnDisk(stack, k)) \in 1..c
    <3>1. Cardinality(OnDisk(stack, k)) \in Nat
      BY <2>1, OnDiskFacts
    <3>2. Cardinality(OnDisk(stack, k)) <= c
      BY <1>3, <2>1, OnDiskFacts
    <3>3. Cardinality(OnDisk(stack, k)) >= 1
      BY <1>3, <2>3, OnDiskFacts
    <3> QED BY <1>5, <3>1, <3>2, <3>3
  <2>5. dirs[Cardinality(OnDisk(stack, k))] = Dir[stack[k].file]
    BY <1>3, <2>3 DEF ContextOK
  <2> QED BY <1>6, <2>1, <2>2, <2>4, <2>5
<1>8. \A k \in 1..n : "file" \in DOMAIN s[k] /\ "disk" \in DOMAIN s[k] /\ s[k].disk \in BOOLEAN
  BY <1>3 DEF ContextOK
<1>9. IsSeq(s) /\ IsSeq(d)
  BY <1>3, <1>6 DEF IsSeq
<1>10. Len(d) = Cardinality(OnDisk(s, n))
  BY <1>3, <1>4, <1>6
<1>11. ContextOK(s, d)
  BY <1>3, <1>7, <1>8, <1>9, <1>10 DEF ContextOK
<1> QED BY <1>11 DEF s, d

(* Reading on in a file opens and closes none.                              *)
LEMMA AdvanceStep ==
  ASSUME NEW stack, NEW dirs, ContextOK(stack, dirs), NEW n \in 1..Len(stack),
         NEW f, DOMAIN f = DOMAIN stack[n], f.file = stack[n].file, f.disk = stack[n].disk
  PROVE  ContextOK([stack EXCEPT ![n] = f], dirs)
<1> DEFINE s == [stack EXCEPT ![n] = f]
<1>1. PICK S : stack \in Seq(S)
  BY DEF ContextOK, IsSeq
<1>2. /\ s \in Seq(S \cup {f}) /\ Len(s) = Len(stack) /\ Len(stack) \in Nat
      /\ s[n] = f /\ \A k \in 1..Len(stack) : k # n => s[k] = stack[k]
  BY <1>1
<1> HIDE DEF s
<1>3. \A k \in 1..Len(stack) : DOMAIN s[k] = DOMAIN stack[k] /\ s[k].file = stack[k].file
                               /\ s[k].disk = stack[k].disk
  BY <1>2
<1>4. \A k \in 1..Len(stack) : OnDisk(s, k) = OnDisk(stack, k)
  BY <1>3 DEF OnDisk
<1>5. OnDisk(s, Len(stack)) = OnDisk(stack, Len(stack))
  BY <1>2, <1>4
<1>6. ASSUME NEW k \in OnDisk(s, Len(s))
      PROVE  dirs[Cardinality(OnDisk(s, k))] = Dir[s[k].file]
  <2>1. k \in 1..Len(stack) /\ k \in OnDisk(stack, Len(stack))
    BY <1>2, <1>5, <1>6 DEF OnDisk
  <2> QED BY <1>3, <1>4, <2>1 DEF ContextOK
<1>7. Len(dirs) = Cardinality(OnDisk(s, Len(s)))
  BY <1>2, <1>5 DEF ContextOK
<1>8. IsSeq(s)
  BY <1>2 DEF IsSeq
<1>9. \A k \in 1..Len(s) : "file" \in DOMAIN s[k] /\ "disk" \in DOMAIN s[k] /\ s[k].disk \in BOOLEAN
  BY <1>2, <1>3 DEF ContextOK
<1>10. ContextOK(s, dirs)
  BY <1>6, <1>7, <1>8, <1>9 DEF ContextOK
<1> QED BY <1>10 DEF s
-----------------------------------------------------------------------------
(***************************************************************************)
(* What every setter of an option leaves in order.                         *)
(***************************************************************************)

ConfigOK(config) == "uinput" \in DOMAIN config /\ UInputOK(config.uinput)
SlotOK(slot) ==
  "configs" \in DOMAIN slot /\ \A c \in DOMAIN slot.configs : ConfigOK(slot.configs[c])
SlotsOK(slots) == \A s \in DOMAIN slots : SlotOK(slots[s])

Ordered == {"slots", "stack", "dirs"}
Good(o) ==
  Ordered \subseteq DOMAIN o /\ SlotsOK(o.slots) /\ ContextOK(o.stack, o.dirs)

(* An option that is kept elsewhere.                                        *)
LEMMA Elsewhere ==
  ASSUME NEW o, Good(o), NEW p, DOMAIN p = DOMAIN o,
         p.slots = o.slots, p.stack = o.stack, p.dirs = o.dirs
  PROVE  Good(p)
BY DEF Good

LEMMA FieldOK ==
  ASSUME NEW o, Good(o), NEW f, f \notin Ordered, NEW v
  PROVE  Good([o EXCEPT ![f] = v])
<1> DEFINE p == [o EXCEPT ![f] = v]
<1>1. DOMAIN p = DOMAIN o /\ p.slots = o.slots /\ p.stack = o.stack /\ p.dirs = o.dirs
  BY DEF Good, Ordered
<1> HIDE DEF p
<1>2. Good(p)
  BY <1>1, Elsewhere
<1> QED BY <1>2 DEF p

LEMMA PutFacts ==
  ASSUME NEW map, NEW key, NEW value
  PROVE  /\ DOMAIN Put(map, key, value) = DOMAIN map \cup {key}
         /\ Put(map, key, value)[key] = value
         /\ \A k \in DOMAIN map : k # key => Put(map, key, value)[k] = map[k]
BY DEF Put, Merged

LEMMA NewOK == ConfigOK(NewConfig) /\ SlotOK(NewSlot)
<1>1. ConfigOK(NewConfig)
  BY PresetsOK DEF NewConfig, ConfigOK
<1>2. DOMAIN NewSlot.configs = {} /\ "configs" \in DOMAIN NewSlot
  BY DEF NewSlot
<1> QED BY <1>1, <1>2 DEF SlotOK

LEMMA SlotAtOK ==
  ASSUME NEW o, Good(o), NEW s
  PROVE  SlotOK(SlotAt(o, s))
BY NewOK DEF SlotAt, Good, SlotsOK

LEMMA ConfigAtOK ==
  ASSUME NEW o, Good(o), NEW s, NEW c
  PROVE  ConfigOK(ConfigAt(o, s, c))
BY NewOK, SlotAtOK DEF ConfigAt, SlotOK

LEMMA SlotsSetOK ==
  ASSUME NEW o, Good(o), NEW s, NEW slot, SlotOK(slot)
  PROVE  Good([o EXCEPT !.slots = Put(@, s, slot)])
<1> DEFINE slots == Put(o.slots, s, slot)
           p == [o EXCEPT !.slots = slots]
<1>1. SlotsOK(slots)
  <2>1. \A k \in DOMAIN slots : \/ k = s /\ slots[k] = slot
                                \/ k \in DOMAIN o.slots /\ slots[k] = o.slots[k]
    <3> DEFINE before == o.slots
    <3>1. slots = Put(before, s, slot)
      OBVIOUS
    <3> HIDE DEF slots, before
    <3>2. /\ DOMAIN slots = DOMAIN before \cup {s} /\ slots[s] = slot
          /\ \A k \in DOMAIN before : k # s => slots[k] = before[k]
      BY <3>1 DEF Put, Merged
    <3> QED BY <3>2 DEF before
  <2> HIDE DEF slots
  <2> QED BY <2>1 DEF SlotsOK, Good
<1>2. DOMAIN p = DOMAIN o /\ p.slots = slots /\ p.stack = o.stack /\ p.dirs = o.dirs
  BY DEF Good, Ordered
<1> HIDE DEF slots, p
<1>3. Good(p)
  BY <1>1, <1>2 DEF Good
<1> QED BY <1>3 DEF p, slots

LEMMA SetSlotOK ==
  ASSUME NEW o, Good(o), NEW field, field # "configs", NEW value
  PROVE  Good(SetSlot(o, field, value))
<1> DEFINE old == SlotAt(o, o.controller_slot)
           slot == [old EXCEPT ![field] = value]
<1>1. SlotOK(old)
  BY SlotAtOK
<1>2. DOMAIN slot = DOMAIN old /\ slot.configs = old.configs
  <2> HIDE DEF old
  <2> QED BY <1>1 DEF SlotOK
<1>3. SlotOK(slot)
  <2> HIDE DEF old, slot
  <2> QED BY <1>1, <1>2 DEF SlotOK
<1> HIDE DEF slot
<1>4. Good([o EXCEPT !.slots = Put(o.slots, o.controller_slot, slot)])
  BY <1>3, SlotsSetOK
<1> QED BY <1>4 DEF SetSlot, slot

LEMMA SetConfigOK ==
  ASSUME NEW o, Good(o), NEW s, NEW c, NEW config, ConfigOK(config)
  PROVE  Good(SetConfig(o, s, c, config))
<1> DEFINE old == SlotAt(o, s)
           configs == Put(old.configs, c, config)
           slot == [old EXCEPT !.configs = configs]
<1>1. SlotOK(old)
  BY SlotAtOK
<1> HIDE DEF old
<1>2. DOMAIN slot = DOMAIN old /\ slot.configs = configs
  BY <1>1 DEF SlotOK
<1>3. \A k \in DOMAIN configs : \/ k = c /\ configs[k] = config
                                \/ k \in DOMAIN old.configs /\ configs[k] = old.configs[k]
  <2> DEFINE before == old.configs
  <2>1. configs = Put(before, c, config)
    OBVIOUS
  <2> HIDE DEF configs, before
  <2>2. /\ DOMAIN configs = DOMAIN before \cup {c} /\ configs[c] = config
        /\ \A k \in DOMAIN before : k # c => configs[k] = before[k]
    BY <2>1 DEF Put, Merged
  <2> QED BY <2>2 DEF before
<1> HIDE DEF slot, configs
<1>4. SlotOK(slot)
  BY <1>1, <1>2, <1>3 DEF SlotOK
<1>5. Good([o EXCEPT !.slots = Put(o.slots, s, slot)])
  BY <1>4, SlotsSetOK
<1> QED BY <1>5 DEF SetConfig, slot, configs, old

(* A setting of a configuration that is not its maps.                       *)
LEMMA ConfigFieldOK ==
  ASSUME NEW config, ConfigOK(config), NEW field, field # "uinput", NEW value
  PROVE  ConfigOK([config EXCEPT ![field] = value])
<1> DEFINE p == [config EXCEPT ![field] = value]
<1>1. DOMAIN p = DOMAIN config /\ p.uinput = config.uinput
  BY DEF ConfigOK
<1> HIDE DEF p
<1>2. ConfigOK(p)
  BY <1>1 DEF ConfigOK
<1> QED BY <1>2 DEF p

LEMMA SetPresetOK ==
  ASSUME NEW o, Good(o), NEW u, UInputOK(u)
  PROVE  Good(SetPreset(o, u))
<1> DEFINE old == Current(o)
           config == [old EXCEPT !.uinput = u]
<1>1. ConfigOK(old)
  BY ConfigAtOK DEF Current
<1> HIDE DEF old
<1>2. DOMAIN config = DOMAIN old /\ config.uinput = u
  BY <1>1 DEF ConfigOK
<1> HIDE DEF config
<1>3. ConfigOK(config)
  BY <1>1, <1>2 DEF ConfigOK
<1>4. Good(SetConfig(o, o.controller_slot, o.config_slot, config))
  BY <1>3, SetConfigOK
<1> QED BY <1>4 DEF SetPreset, Configure, SetCurrent, config, old

LEMMA ConfigureOK ==
  ASSUME NEW o, Good(o), NEW field, field # "uinput", NEW value
  PROVE  Good(Configure(o, field, value))
<1>1. ConfigOK(Current(o))
  BY ConfigAtOK DEF Current
<1> DEFINE config == [Current(o) EXCEPT ![field] = value]
<1>2. ConfigOK(config)
  BY <1>1, ConfigFieldOK
<1> HIDE DEF config
<1>3. Good(SetCurrent(o, config))
  BY <1>2, SetConfigOK DEF SetCurrent
<1> QED BY <1>3 DEF Configure, config

LEMMA FlagsOK ==
  ASSUME NEW o, Good(o), NEW flags, NEW value
  PROVE  /\ Good(Turn(o, flags, value)) /\ Good(Thrown(o)) /\ Good(Aborted(o))
<1>1. "on" \notin Ordered /\ "failed" \notin Ordered
  BY DEF Ordered
<1>2. Good(Turn(o, flags, value))
  BY <1>1, FieldOK DEF Turn
<1>3. Good(Thrown(o))
  BY <1>1, FieldOK DEF Thrown
<1>4. Good(Aborted(o))
  BY <1>1, FieldOK DEF Aborted
<1> QED BY <1>2, <1>3, <1>4
LEMMA TextsOK ==
  ASSUME NEW o, Good(o), NEW name, NEW value
  PROVE  Good(SetNum(o, name, value)) /\ Good(SetText(o, name, value))
<1>1. "num" \notin Ordered /\ "text" \notin Ordered
  BY DEF Ordered
<1>2. ASSUME NEW v PROVE Good([o EXCEPT !.num = v]) /\ Good([o EXCEPT !.text = v])
  BY <1>1, FieldOK
<1> DEFINE n == [o.num EXCEPT ![name] = value]
           t == [o.text EXCEPT ![name] = value]
<1>3. Good([o EXCEPT !.num = n]) /\ Good([o EXCEPT !.text = t])
  <2> HIDE DEF n, t
  <2> QED BY <1>2
<1>4. SetNum(o, name, value) = [o EXCEPT !.num = n]
  BY Zenon DEF SetNum
<1>5. SetText(o, name, value) = [o EXCEPT !.text = t]
  BY Zenon DEF SetText
<1> QED BY <1>3, <1>4, <1>5, Zenon

LEMMA PutInOK ==
  ASSUME NEW o, Good(o), NEW map, map \notin Ordered, NEW key, NEW value
  PROVE  Good(PutIn(o, map, key, value))
BY FieldOK DEF PutIn

LEMMA SetDeviceOK ==
  ASSUME NEW o, Good(o), NEW name, NEW usbid
  PROVE  Good(SetDevice(o, name, usbid))
<1> DEFINE id == <<o.controller_slot, "auto">>
           a == PutIn(o, "names", id, name)
<1> HIDE DEF id
<1>1. "names" \notin Ordered /\ "usbids" \notin Ordered
  BY DEF Ordered
<1>2. Good(a)
  BY <1>1, PutInOK
<1> HIDE DEF a
<1>3. Good(PutIn(a, "usbids", id, usbid))
  BY <1>1, <1>2, PutInOK
<1> QED BY <1>3 DEF SetDevice, a, id

LEMMA ReadConfigFileOK ==
  ASSUME NEW o, Good(o), NEW file
  PROVE  Good(ReadConfigFile(o, file))
<1>1. CASE file \notin DOMAIN Files
  BY <1>1, FlagsOK DEF ReadConfigFile
<1>2. CASE file \in DOMAIN Files
  <2> DEFINE p == ReadConfigFile(o, file)
             f == Frame(file, TRUE)
  <2>1. p = [o EXCEPT !.stack = Append(o.stack, f), !.dirs = Append(o.dirs, Dir[file])]
    BY <1>2 DEF ReadConfigFile
  <2>2. ContextOK(Append(o.stack, f), Append(o.dirs, Dir[file]))
    <3>1. PICK disk \in BOOLEAN : disk = TRUE
      OBVIOUS
    <3>2. ContextOK(Append(o.stack, Frame(file, disk)),
                    IF disk THEN Append(o.dirs, Dir[file]) ELSE o.dirs)
      BY OpenStep DEF Good
    <3> QED BY <3>1, <3>2
  <2> HIDE DEF p, f
  <2>3. /\ DOMAIN p = DOMAIN o /\ p.slots = o.slots
        /\ p.stack = Append(o.stack, f) /\ p.dirs = Append(o.dirs, Dir[file])
    BY <2>1 DEF Good, Ordered
  <2>4. Good(p)
    BY <2>2, <2>3 DEF Good
  <2> QED BY <2>4 DEF p
<1> QED BY <1>1, <1>2

LEMMA ReadBuiltinOK ==
  ASSUME NEW o, Good(o)
  PROVE  Good(ReadBuiltin(o))
<1> DEFINE p == ReadBuiltin(o)
           f == Frame("mouse", FALSE)
<1>1. ContextOK(Append(o.stack, f), o.dirs)
  <2>1. PICK disk \in BOOLEAN : disk = FALSE
    OBVIOUS
  <2>2. PICK file : file = "mouse"
    OBVIOUS
  <2>3. ContextOK(Append(o.stack, Frame(file, disk)),
                  IF disk THEN Append(o.dirs, Dir[file]) ELSE o.dirs)
    BY OpenStep DEF Good
  <2> QED BY <2>1, <2>2, <2>3
<1>2. /\ DOMAIN p = DOMAIN o /\ p.slots = o.slots /\ p.dirs = o.dirs
      /\ p.stack = Append(o.stack, f)
  BY DEF ReadBuiltin, Good, Ordered
<1> HIDE DEF p, f
<1>3. Good(p)
  BY <1>1, <1>2 DEF Good
<1> QED BY <1>3 DEF p

(* The pairs of the sections that belong to a configuration.                *)
LEMMA SetUiMapOK ==
  ASSUME NEW o, Good(o), NEW s, NEW c, NEW map \in {"btn", "axis"}, NEW input, NEW name, NEW value
  PROVE  Good(SetUiMap(o, s, c, map, input, name, value))
<1>1. CASE input = NoName \/ ShiftOf(name) = NoName \/ ~IsEvent(value)
  BY <1>1, FlagsOK DEF SetUiMap
<1>2. CASE ~(input = NoName \/ ShiftOf(name) = NoName \/ ~IsEvent(value))
  <2> DEFINE old == ConfigAt(o, s, c)
             key == <<ShiftOf(name), input>>
             after == MapAfter(o, old.uinput[map], key, name, value)
             u == [old.uinput EXCEPT ![map] = after]
             config == [old EXCEPT !.uinput = u]
  <2>1. ConfigOK(old)
    BY ConfigAtOK
  <2>2. SetUiMap(o, s, c, map, input, name, value) = SetConfig(o, s, c, config)
    BY <1>2, Zenon DEF SetUiMap
  <2> HIDE DEF old, key
  <2>3. MapOK(old.uinput[map], IF map = "btn" THEN BtnHomes ELSE AxisHomes)
    BY <2>1 DEF ConfigOK, UInputOK
  <2>4. MapOK(after, IF map = "btn" THEN BtnHomes ELSE AxisHomes)
    BY <1>2, <2>3, MapAfterOK
  <2> HIDE DEF after
  <2>5. /\ DOMAIN u = DOMAIN old.uinput /\ u[map] = after
        /\ map = "btn" => u.axis = old.uinput.axis
        /\ map = "axis" => u.btn = old.uinput.btn
    BY <2>1 DEF ConfigOK, UInputOK
  <2> HIDE DEF u
  <2>6. UInputOK(u)
    <3>1. CASE map = "btn"
      BY <2>1, <2>4, <2>5, <3>1 DEF ConfigOK, UInputOK
    <3>2. CASE map = "axis"
      BY <2>1, <2>4, <2>5, <3>2 DEF ConfigOK, UInputOK
    <3> QED BY <3>1, <3>2
  <2>7. DOMAIN config = DOMAIN old /\ config.uinput = u
    BY <2>1 DEF ConfigOK
  <2> HIDE DEF config
  <2>8. ConfigOK(config)
    BY <2>1, <2>6, <2>7 DEF ConfigOK
  <2>9. Good(SetConfig(o, s, c, config))
    BY <2>8, SetConfigOK
  <2> QED BY <2>2, <2>9
<1> QED BY <1>1, <1>2

LEMMA PutFilterOK ==
  ASSUME NEW o, Good(o), NEW s, NEW c, NEW section, NEW key, NEW value
  PROVE  Good(SetConfig(o, s, c, [ConfigAt(o, s, c) EXCEPT
                                    !.filters[section] = Put(@, key, value)]))
<1> DEFINE old == ConfigAt(o, s, c)
           filters == [old.filters EXCEPT ![section] = Put(old.filters[section], key, value)]
           config == [old EXCEPT !.filters = filters]
<1>1. ConfigOK(old)
  BY ConfigAtOK
<1> HIDE DEF old, filters
<1>2. ConfigOK(config)
  BY <1>1, ConfigFieldOK
<1> HIDE DEF config
<1>3. Good(SetConfig(o, s, c, config))
  BY <1>2, SetConfigOK
<1> QED BY <1>3, Zenon DEF config, filters, old

LEMMA AddMappingOK ==
  ASSUME NEW o, Good(o), NEW s, NEW c, NEW section, section # "uinput", NEW name, NEW from, NEW to
  PROVE  Good(AddMapping(o, s, c, section, name, from, to))
<1>1. CASE InputOf(name).shift # "" \/ NoName \in {from, to}
  BY <1>1, FlagsOK DEF AddMapping
<1>2. CASE ~(InputOf(name).shift # "" \/ NoName \in {from, to})
  <2> DEFINE old == ConfigAt(o, s, c)
             config == [old EXCEPT ![section] = Append(old[section], <<name, to>>)]
  <2>1. ConfigOK(old)
    BY ConfigAtOK
  <2> HIDE DEF old
  <2>2. ConfigOK(config)
    BY <2>1, ConfigFieldOK
  <2> HIDE DEF config
  <2>3. Good(SetConfig(o, s, c, config))
    BY <2>2, SetConfigOK
  <2> QED BY <1>2, <2>3 DEF AddMapping, config, old
<1> QED BY <1>1, <1>2

LEMMA ConfigPairOK ==
  ASSUME NEW o, Good(o), NEW s, NEW c, NEW section, NEW name, NEW value
  PROVE  Good(ConfigPair(o, s, c, section, name, value))
<1> DEFINE result == ConfigPair(o, s, c, section, name, value)
<1>1. CASE section = "modifier"
  <2>1. CASE <<name, value>> \notin ModifierTexts
    BY <1>1, <2>1, FlagsOK DEF ConfigPair
  <2>2. CASE <<name, value>> \in ModifierTexts
    <3> DEFINE old == ConfigAt(o, s, c)
               config == [old EXCEPT !.modifier = Append(old.modifier, <<name, value>>)]
    <3>1. ConfigOK(old)
      BY ConfigAtOK
    <3> HIDE DEF old
    <3>2. ConfigOK(config)
      BY <3>1, ConfigFieldOK
    <3> HIDE DEF config
    <3>3. Good(SetConfig(o, s, c, config))
      BY <3>2, SetConfigOK
    <3> QED BY <1>1, <2>2, <3>3 DEF ConfigPair, config, old
  <2> QED BY <2>1, <2>2
<1>2. CASE section = "ui-buttonmap"
  <2>1. \A input : Good(SetUiMap(o, s, c, "btn", input, name, value))
    BY SetUiMapOK
  <2> QED BY <1>2, <2>1 DEF ConfigPair
<1>3. CASE section = "ui-axismap"
  <2>1. \A input : Good(SetUiMap(o, s, c, "axis", input, name, value))
    BY SetUiMapOK
  <2> QED BY <1>3, <2>1 DEF ConfigPair
<1>4. CASE section \in {"buttonmap", "axismap"}
  <2>1. \A from, to : Good(AddMapping(o, s, c, section, name, from, to))
    BY <1>4, AddMappingOK
  <2> QED BY <1>4, <2>1 DEF ConfigPair
<1>5. \A input : Good(SetFilter(o, s, c, section, input, value))
  BY FlagsOK, PutFilterOK DEF SetFilter
<1>6. CASE section = "autofire"
  BY <1>5, <1>6 DEF ConfigPair
<1>7. CASE section = "calibration"
  <2>1. Good(SetCalibration(o, s, c, name, value))
    BY FlagsOK, PutFilterOK DEF SetCalibration
  <2> QED BY <1>7, <2>1 DEF ConfigPair
<1>8. CASE section \notin {"modifier", "ui-buttonmap", "ui-axismap", "buttonmap", "axismap",
                           "autofire", "calibration"}
  BY <1>5, <1>8 DEF ConfigPair
<1> QED BY <1>1, <1>2, <1>3, <1>4, <1>6, <1>7, <1>8
-----------------------------------------------------------------------------
(***************************************************************************)
(* The setters of the command line and the section [xboxdrv].              *)
(***************************************************************************)

LEMMA SetDaemonDetachOK ==
  ASSUME NEW o, Good(o), NEW value
  PROVE  Good(SetDaemonDetach(o, value))
BY FlagsOK DEF SetDaemonDetach

LEMMA SetToggleButtonOK ==
  ASSUME NEW o, Good(o), NEW text
  PROVE  Good(SetToggleButton(o, text))
<1> DEFINE button == IF text = "void" THEN "none" ELSE String2Btn(text)
           p == [o EXCEPT !.toggle = button, !.toggle_set = TRUE]
<1>1. Good(p)
  <2>1. DOMAIN p = DOMAIN o /\ p.slots = o.slots /\ p.stack = o.stack /\ p.dirs = o.dirs
    BY DEF Good, Ordered
  <2> HIDE DEF p
  <2> QED BY <2>1, Elsewhere
<1>2. SetToggleButton(o, text) = IF button = NoName THEN Thrown(o) ELSE p
  BY Zenon DEF SetToggleButton
<1> HIDE DEF button, p
<1> QED BY <1>1, <1>2, FlagsOK

(* A further slot or configuration is what is current from now on.          *)
LEMMA CurrentOK ==
  ASSUME NEW o, Good(o)
  PROVE  Good(SetCurrent(o, Current(o)))
BY ConfigAtOK, SetConfigOK DEF SetCurrent, Current

LEMMA NextControllerOK ==
  ASSUME NEW o, Good(o)
  PROVE  Good(NextController(o))
<1> DEFINE n == [o EXCEPT !.controller_slot = o.controller_slot + 1, !.config_slot = 0]
<1>1. DOMAIN n = DOMAIN o /\ n.slots = o.slots /\ n.stack = o.stack /\ n.dirs = o.dirs
  BY DEF Good, Ordered
<1>2. NextController(o) = SetCurrent(n, Current(n))
  BY Zenon DEF NextController
<1> HIDE DEF n
<1> QED BY <1>1, <1>2, Elsewhere, CurrentOK

LEMMA NextConfigOK ==
  ASSUME NEW o, Good(o)
  PROVE  Good(NextConfig(o))
<1> DEFINE n == [o EXCEPT !.config_slot = o.config_slot + 1]
<1>1. DOMAIN n = DOMAIN o /\ n.slots = o.slots /\ n.stack = o.stack /\ n.dirs = o.dirs
  BY DEF Good, Ordered
<1>2. NextConfig(o) = SetCurrent(n, Current(n))
  BY Zenon DEF NextConfig
<1> HIDE DEF n
<1> QED BY <1>1, <1>2, Elsewhere, CurrentOK

LEMMA SetMimicOK ==
  ASSUME NEW o, Good(o), NEW name, NEW usbid, NEW u, UInputOK(u)
  PROVE  Good(SetMimic(o, name, usbid, u))
<1> DEFINE a == Turn(o, {"extra-devices", "extra-events"}, FALSE)
           b == SetDevice(a, name, usbid)
<1>1. Good(a)
  BY FlagsOK
<1> HIDE DEF a
<1>2. Good(b)
  BY <1>1, SetDeviceOK
<1> HIDE DEF b
<1>3. Good(SetPreset(b, u))
  BY <1>2, SetPresetOK
<1> QED BY <1>3 DEF SetMimic, a, b

LEMMA NamesOK ==
  ASSUME NEW o, Good(o), NEW key, NEW value
  PROVE  /\ Good(PutIn(o, "names", key, value)) /\ Good(PutIn(o, "usbids", key, value))
         /\ Good(PutIn(o, "absmap", key, value)) /\ Good(PutIn(o, "keymap", key, value))
<1>1. /\ "names" \notin Ordered /\ "usbids" \notin Ordered
      /\ "absmap" \notin Ordered /\ "keymap" \notin Ordered
  BY DEF Ordered
<1> QED BY <1>1, PutInOK

LEMMA SetValueOK ==
  ASSUME NEW o, Good(o), NEW name, NEW value
  PROVE  Good(SetValue(o, name, value))
<1> DEFINE result == SetValue(o, name, value)
<1>1. CASE name = "config"
  BY <1>1, ReadConfigFileOK DEF SetValue
<1>2. CASE name = "alt-config"
  <2>1. Good(NextConfig(o))
    BY NextConfigOK
  <2>2. Good(ReadConfigFile(NextConfig(o), value))
    BY <2>1, ReadConfigFileOK
  <2> QED BY <1>2, <2>2 DEF SetValue
<1>3. CASE name = "priority"
  BY <1>3, TextsOK, FlagsOK DEF SetValue
<1>4. CASE name = "toggle"
  BY <1>4, SetToggleButtonOK DEF SetValue
<1>5. CASE name \in {"led", "rumble-gain", "ff-device", "force-feedback"}
  <2>1. \A v : /\ Good(SetSlot(o, "led", v)) /\ Good(SetSlot(o, "gain", v))
               /\ Good(SetSlot(o, "ffdev", v)) /\ Good(SetSlot(o, "ff", v))
    <3>1. \A field, v : field # "configs" => Good(SetSlot(o, field, v))
      BY SetSlotOK
    <3> QED BY <3>1
  <2> QED BY <1>5, <2>1, FlagsOK DEF SetValue
<1>6. CASE name \in {"deadzone", "deadzone-trigger", "dpad-rotation"}
  <2>1. ASSUME NEW v
        PROVE  /\ Good(Configure(o, "deadzone", v)) /\ Good(Configure(o, "trigger", v))
               /\ Good(Configure(o, "rotation", v))
    BY ConfigureOK
  <2> QED BY <1>6, <2>1, FlagsOK DEF SetValue
<1>7. CASE name \in {"device-name", "device-usbid"}
  BY <1>7, NamesOK, FlagsOK DEF SetValue
<1>8. CASE name \notin {"config", "alt-config", "priority", "toggle", "led", "rumble-gain",
                        "ff-device", "force-feedback", "deadzone", "deadzone-trigger",
                        "dpad-rotation", "device-name", "device-usbid"}
  BY <1>8, FlagsOK DEF SetValue
<1> QED BY <1>1, <1>2, <1>3, <1>4, <1>5, <1>6, <1>7, <1>8

LEMMA SetPlainOK ==
  ASSUME NEW o, Good(o), NEW name
  PROVE  Good(SetPlain(o, name))
<1> DEFINE u == Current(o).uinput
<1>1. UInputOK(u)
  BY ConfigAtOK DEF Current, ConfigOK
<1> HIDE DEF u
<1>2. /\ UInputOK(TriggerAsButton(u)) /\ UInputOK(TriggerAsZaxis(u))
      /\ UInputOK(DpadAsButton(u)) /\ UInputOK(DpadOnly(u))
  BY <1>1, TriggerAsButtonOK, TriggerAsZaxisOK, DpadAsButtonOK, DpadOnlyOK
<1>3. \A v : UInputOK(v) => Good(SetPreset(o, v))
  BY SetPresetOK
<1>4. Good(SetMimic(o, "Microsoft X-Box 360 pad", "045e:028e:110", MimicXpad))
  BY PresetsOK, SetMimicOK
<1>5. Good(SetMimic(o, "Xbox 360 Wireless Receiver", "045e:0719:100", MimicXpadWireless))
  BY PresetsOK, SetMimicOK
<1>6. Good(Configure(o, "square", TRUE)) /\ Good(Configure(o, "fourway", TRUE))
  <2>1. ASSUME NEW v
        PROVE  Good(Configure(o, "square", v)) /\ Good(Configure(o, "fourway", v))
    BY ConfigureOK
  <2> QED BY <2>1
<1>7. CASE name \in {"next", "next-controller", "mouse"}
  BY <1>7, NextConfigOK, NextControllerOK, ReadBuiltinOK DEF SetPlain
<1>8. CASE name \in {"square-axis", "four-way-restrictor"}
  BY <1>6, <1>8 DEF SetPlain
<1>9. CASE name \in {"guitar", "trigger-as-button", "trigger-as-zaxis", "dpad-as-button",
                     "dpad-only", "ui-clear"}
  BY <1>2, <1>3, <1>9, PresetsOK DEF SetPlain, u
<1>10. CASE name \in {"mimic-xpad", "mimic-xpad-wireless"}
  BY <1>4, <1>5, <1>10 DEF SetPlain
<1>11. CASE name \notin {"next", "next-controller", "mouse", "square-axis", "four-way-restrictor",
                         "guitar", "trigger-as-button", "trigger-as-zaxis", "dpad-as-button",
                         "dpad-only", "ui-clear", "mimic-xpad", "mimic-xpad-wireless"}
  BY <1>11 DEF SetPlain
<1> QED BY <1>7, <1>8, <1>9, <1>10, <1>11

LEMMA XboxdrvPairOK ==
  ASSUME NEW o, Good(o), NEW name, NEW value
  PROVE  Good(XboxdrvPair(o, name, value))
<1>1. \A flags, v : Good(Turn(o, flags, v))
  BY FlagsOK
<1>2. \A key, v : Good(SetNum(o, key, v)) /\ Good(SetText(o, key, v))
  BY TextsOK
<1>3. Good(Thrown(o))
  BY FlagsOK
<1>4. Good(SetValue(o, name, value)) /\ Good(SetPlain(o, name))
  BY SetValueOK, SetPlainOK
<1> QED BY <1>1, <1>2, <1>3, <1>4 DEF XboxdrvPair

LEMMA DaemonPairOK ==
  ASSUME NEW o, Good(o), NEW name, NEW value
  PROVE  Good(DaemonPair(o, name, value))
<1>1. Good(Thrown(o)) /\ \A v : Good(SetDaemonDetach(o, v))
  BY FlagsOK, SetDaemonDetachOK
<1>2. \A key, v : Good(SetText(o, key, v))
  BY TextsOK
<1> QED BY <1>1, <1>2 DEF DaemonPair

LEMMA OtherPairOK ==
  ASSUME NEW o, Good(o), NEW section, NEW name, NEW value
  PROVE  Good(OtherPair(o, section, name, value))
<1>1. Good(Thrown(o))
  BY FlagsOK
<1>2. \A key, v : /\ Good(PutIn(o, "names", key, v)) /\ Good(PutIn(o, "usbids", key, v))
                  /\ Good(PutIn(o, "absmap", key, v)) /\ Good(PutIn(o, "keymap", key, v))
  BY NamesOK
<1> QED BY <1>1, <1>2 DEF OtherPair

LEMMA SendPairOK ==
  ASSUME NEW o, Good(o), NEW section, NEW name, NEW value
  PROVE  Good(SendPair(o, section, name, value))
<1>1. /\ Good(XboxdrvPair(o, name, value)) /\ Good(DaemonPair(o, name, value))
      /\ Good(OtherPair(o, section, name, value)) /\ Good(Thrown(o))
  BY XboxdrvPairOK, DaemonPairOK, OtherPairOK, FlagsOK
<1>2. \A s, c, x : Good(ConfigPair(o, s, c, x, name, value))
  BY ConfigPairOK
<1>3. \A x : Good(SlotPair(o, x, name, value))
  BY <1>2, FlagsOK DEF SlotPair
<1> QED BY <1>1, <1>2, <1>3 DEF SendPair

LEMMA MatchOK ==
  ASSUME NEW o, Good(o), NEW text
  PROVE  Good(Match(o, text)) /\ Good(MatchGroup(o, text))
<1>1. Good(Thrown(o))
  BY FlagsOK
<1>2. \A v : Good(SetSlot(o, "rules", v))
  BY SetSlotOK
<1>3. Good(Match(o, text))
  BY <1>1, <1>2 DEF Match
<1>4. Good(MatchGroup(o, text))
  BY <1>1, <1>2 DEF MatchGroup
<1> QED BY <1>3, <1>4

LEMMA AddSpecOK ==
  ASSUME NEW o, Good(o), NEW text
  PROVE  Good(AddSpec(o, text))
<1>1. Good(Thrown(o)) /\ "specs" \notin Ordered
  BY FlagsOK DEF Ordered
<1>2. \A v : Good([o EXCEPT !.specs = v])
  BY <1>1, FieldOK
<1> QED BY <1>1, <1>2 DEF AddSpec

(* process_name_value_string(): one pair after the other.                   *)
LEMMA EachOK ==
  ASSUME NEW o, Good(o), NEW section, NEW text
  PROVE  Good(Each(o, section, text))
<1> DEFINE pairs == PairsOf(text)
           n == Len(pairs)
           Step(g, k) == IF k = 0 THEN o
                         ELSE SendPair(g[k - 1], section, pairs[k][1], pairs[k][2])
           Solved(g) == g = [k \in 0..n |-> Step(g, k)]
<1>1. n \in Nat
  BY PairsAreLists DEF PairsOf
<1>2. Each(o, section, text) = (CHOOSE g : Solved(g))[n]
  BY DEF Each
<1> HIDE DEF pairs
<1>3. \E g : Solved(g)
  <2> DEFINE Solves(g, m) == DOMAIN g = 0..m /\ \A k \in 0..m : g[k] = Step(g, k)
             G == {m \in 0..n : \E g : Solves(g, m)}
  <2>1. 0 \in G
    <3> DEFINE g == [k \in 0..0 |-> o]
    <3>1. Solves(g, 0)
      OBVIOUS
    <3> HIDE DEF Solves, g
    <3> QED BY <1>1, <3>1
  <2>2. ASSUME NEW m \in 1..n, m - 1 \in G PROVE m \in G
    <3>1. PICK g : Solves(g, m - 1)
      BY <2>2
    <3> DEFINE h == [k \in 0..m |-> IF k = m THEN Step(g, m) ELSE g[k]]
    <3>2. ASSUME NEW k \in 0..m PROVE h[k] = Step(h, k)
      <4>1. CASE k = m
        <5>1. m - 1 \in 0..m /\ m - 1 # m /\ k # 0 /\ h[m - 1] = g[m - 1]
          BY <4>1
        <5> QED BY <4>1, <5>1
      <4>2. CASE k # m
        <5>1. k \in 0..(m - 1) /\ h[k] = g[k]
          BY <4>2
        <5>2. k # 0 => k - 1 \in 0..m /\ k - 1 # m /\ h[k - 1] = g[k - 1]
          BY <4>2
        <5>3. g[k] = Step(g, k)
          BY <3>1, <5>1
        <5> HIDE DEF h
        <5> QED BY <5>1, <5>2, <5>3
      <4> QED BY <4>1, <4>2
    <3>3. Solves(h, m)
      <4>1. DOMAIN h = 0..m
        OBVIOUS
      <4> HIDE DEF h, Step
      <4> QED BY <3>2, <4>1
    <3> HIDE DEF h, Solves
    <3> QED BY <3>3
  <2>3. 0..n \subseteq G
    <3> HIDE DEF G, n
    <3> QED BY <1>1, <2>1, <2>2, UpTo
  <2>4. n \in G
    BY <1>1, <2>3
  <2> HIDE DEF Step, n
  <2>5. PICK g : Solves(g, n)
    BY <2>4
  <2> DEFINE q == [k \in 0..n |-> g[k]]
  <2>6. \A k \in 0..n : q[k] = g[k]
    OBVIOUS
  <2>7. q = [k \in 0..n |-> Step(g, k)]
    BY <2>5
  <2> HIDE DEF q
  <2>8. \A k \in 0..n : Step(q, k) = Step(g, k)
    BY <1>1, <2>6 DEF Step
  <2>9. Solved(q)
    BY <2>7, <2>8
  <2> HIDE DEF Solved
  <2> QED BY <2>9
<1> DEFINE sent == CHOOSE g : Solved(g)
<1>4. Solved(sent)
  <2> HIDE DEF Solved
  <2> QED BY <1>3
<1> HIDE DEF sent
<1>5. \A k \in 0..n : sent[k] = Step(sent, k)
  <2> HIDE DEF Step
  <2> QED BY <1>4
<1>6. sent[0] = o /\ \A k \in 1..n : sent[k] = SendPair(sent[k - 1], section, pairs[k][1], pairs[k][2])
  BY <1>1, <1>5
<1> DEFINE G == {k \in 0..n : Good(sent[k])}
<1>7. 0 \in G
  BY <1>1, <1>6
<1>8. ASSUME NEW k \in 1..n, k - 1 \in G PROVE k \in G
  <2>1. Good(sent[k - 1])
    BY <1>8
  <2>2. Good(SendPair(sent[k - 1], section, pairs[k][1], pairs[k][2]))
    BY <2>1, SendPairOK
  <2> QED BY <1>6, <2>2
<1>9. 0..n \subseteq G
  <2> HIDE DEF G, n
  <2> QED BY <1>1, <1>7, <1>8, UpTo
<1> QED BY <1>1, <1>2, <1>9 DEF sent
-----------------------------------------------------------------------------
(***************************************************************************)
(* Every option, every construct of a file, and the end of parsing.        *)
(***************************************************************************)

(* What the groups of options are made of.                                  *)
LEMMA SettersOK ==
  ASSUME NEW o, Good(o)
  PROVE  /\ Good(Thrown(o))
         /\ \A flags, v : Good(Turn(o, flags, v))
         /\ \A key, v : Good(SetNum(o, key, v))
         /\ \A key, v : Good(SetText(o, key, v))
         /\ \A f, v : f \notin Ordered => Good([o EXCEPT ![f] = v])
         /\ \A key, v : Good(SetValue(o, key, v))
         /\ \A key : Good(SetPlain(o, key))
         /\ \A section, text : Good(Each(o, section, text))
BY FlagsOK, TextsOK, FieldOK, SetValueOK, SetPlainOK, EachOK

LEMMA ModeOK ==
  ASSUME NEW o, Good(o), NEW mode
  PROVE  Good([o EXCEPT !.mode = mode])
BY FieldOK DEF Ordered

LEMMA ApplyGeneralOK ==
  ASSUME NEW o, Good(o), NEW key, NEW arg
  PROVE  Good(ApplyGeneral(o, key, arg))
<1>1. \A m : Good([o EXCEPT !.mode = m])
  BY ModeOK
<1>2. Good(Turn([o EXCEPT !.mode = "RUN_DAEMON"], {"silent"}, TRUE))
  BY <1>1, FlagsOK
<1>3. /\ Good(Match(o, arg)) /\ Good(MatchGroup(o, arg))
      /\ \A name, value : Good(SendPair(o, "xboxdrv", name, value))
  BY MatchOK, SendPairOK
<1> QED BY <1>1, <1>2, <1>3, SettersOK DEF ApplyGeneral

LEMMA ApplyRunOK ==
  ASSUME NEW o, Good(o), NEW key, NEW arg
  PROVE  Good(ApplyRun(o, key, arg))
<1>1. \A v, w : Good(SetNum(SetNum(o, "rumble-l", v), "rumble-r", w))
  BY TextsOK
<1> QED BY <1>1, SettersOK DEF ApplyRun

LEMMA ApplyAccessoryOK ==
  ASSUME NEW o, Good(o), NEW key, NEW arg
  PROVE  Good(ApplyAccessory(o, key, arg))
<1>1. Good(Turn(SetText(o, key, arg), {"headset"}, TRUE))
  BY TextsOK, FlagsOK
<1>2. Good(SetSlot(o, "ff", TRUE))
  BY SetSlotOK
<1> QED BY <1>1, <1>2, SettersOK DEF ApplyAccessory

LEMMA ApplyMapOK ==
  ASSUME NEW o, Good(o), NEW key, NEW arg
  PROVE  Good(ApplyMap(o, key, arg))
<1>1. Good(NextConfig(o))
  BY NextConfigOK
<1>2. /\ \A v : Good([o EXCEPT !.controller_slot = v])
      /\ \A v : Good([o EXCEPT !.config_slot = v])
  BY FieldOK DEF Ordered
<1> QED BY <1>1, <1>2, SettersOK DEF ApplyMap

LEMMA ApplyDeviceOK ==
  ASSUME NEW o, Good(o), NEW key, NEW arg
  PROVE  Good(ApplyDevice(o, key, arg))
<1>1. \A m : Good([o EXCEPT !.mode = m])
  BY ModeOK
<1> QED BY <1>1, SettersOK DEF ApplyDevice

LEMMA ApplyPresetOK ==
  ASSUME NEW o, Good(o), NEW key, NEW arg
  PROVE  Good(ApplyPreset(o, key, arg))
BY SettersOK DEF ApplyPreset

LEMMA ApplyDaemonOK ==
  ASSUME NEW o, Good(o), NEW key, NEW arg
  PROVE  Good(ApplyDaemon(o, key, arg))
<1>1. \A m : Good([o EXCEPT !.mode = m])
  BY ModeOK
<1>2. /\ \A v, w : Good(SetNum(SetNum(o, "vendor-id", v), "product-id", w))
      /\ \A v, w : Good(SetText(SetText(o, "busid", v), "devid", w))
  BY TextsOK
<1>3. Good(AddSpec(o, arg)) /\ Good(SetDaemonDetach(o, TRUE))
  BY AddSpecOK, SetDaemonDetachOK
<1> QED BY <1>1, <1>2, <1>3, SettersOK DEF ApplyDaemon

LEMMA ApplyListOK ==
  ASSUME NEW o, Good(o), NEW key, NEW arg
  PROVE  Good(ApplyList(o, key, arg))
<1>1. \A m : Good([o EXCEPT !.mode = m])
  BY ModeOK
<1>2. \A m, e : Good([o EXCEPT !.mode = m, !.enums = e])
  <2> TAKE m, e
  <2> DEFINE p == [o EXCEPT !.mode = m, !.enums = e]
  <2>1. DOMAIN p = DOMAIN o /\ p.slots = o.slots /\ p.stack = o.stack /\ p.dirs = o.dirs
    BY DEF Good, Ordered
  <2> HIDE DEF p
  <2>2. Good(p)
    BY <2>1, Elsewhere
  <2> QED BY <2>2 DEF p
<1>3. \A v : Good([o EXCEPT !.exec = v])
  BY FieldOK DEF Ordered
<1>4. Good(Thrown(o))
  BY FlagsOK
<1> QED BY <1>1, <1>2, <1>3, <1>4 DEF ApplyList

LEMMA ApplyOptOK ==
  ASSUME NEW o, Good(o), NEW key, NEW arg
  PROVE  Good(ApplyOpt(o, key, arg))
BY ApplyGeneralOK, ApplyRunOK, ApplyAccessoryOK, ApplyMapOK, ApplyDeviceOK, ApplyPresetOK,
   ApplyDaemonOK, ApplyListOK DEF ApplyOpt

LEMMA SetFrameOK ==
  ASSUME NEW o, Good(o), NEW n \in 1..Len(o.stack), n = Len(o.stack), NEW f,
         DOMAIN f = DOMAIN o.stack[n], f.file = o.stack[n].file, f.disk = o.stack[n].disk
  PROVE  Good(SetFrame(o, f))
<1> DEFINE stack == [o.stack EXCEPT ![n] = f]
           p == SetFrame(o, f)
<1>1. ContextOK(stack, o.dirs)
  BY AdvanceStep DEF Good
<1>2. DOMAIN p = DOMAIN o /\ p.slots = o.slots /\ p.stack = stack /\ p.dirs = o.dirs
  BY DEF SetFrame, Good, Ordered
<1> HIDE DEF p, stack
<1>3. Good(p)
  BY <1>1, <1>2 DEF Good
<1> QED BY <1>3 DEF p

LEMMA ReadOneOK ==
  ASSUME NEW o, Good(o), o.stack # <<>>
  PROVE  Good(ReadOne(o))
<1> DEFINE n == Len(o.stack)
           read == Construct(TextOf(Last(o.stack)), Last(o.stack).pos)
           f == [Last(o.stack) EXCEPT !.pos = read.next]
           g == [f EXCEPT !.section = read.name]
<1>1. n \in 1..n /\ Last(o.stack) = o.stack[n]
  <2>1. PICK S : o.stack \in Seq(S)
    BY DEF Good, ContextOK, IsSeq
  <2>2. n \in Nat /\ n # 0
    BY <2>1, EmptySeq
  <2> QED BY <2>2 DEF Last
<1>2. "file" \in DOMAIN o.stack[n] /\ "disk" \in DOMAIN o.stack[n]
  BY <1>1 DEF Good, ContextOK
<1> HIDE DEF read
<1>3. DOMAIN f = DOMAIN o.stack[n] /\ f.file = o.stack[n].file /\ f.disk = o.stack[n].disk
  BY <1>1, <1>2
<1>4. DOMAIN g = DOMAIN o.stack[n] /\ g.file = o.stack[n].file /\ g.disk = o.stack[n].disk
  <2> HIDE DEF f
  <2> QED BY <1>2, <1>3
<1> HIDE DEF f, g
<1>5. Good(SetFrame(o, f)) /\ Good(SetFrame(o, g))
  BY <1>1, <1>3, <1>4, SetFrameOK
<1>6. /\ \A section, name, value : Good(SendPair(SetFrame(o, f), section, name, value))
      /\ Good(Thrown(SetFrame(o, f)))
  BY <1>5, SendPairOK, FlagsOK
<1> QED BY <1>5, <1>6 DEF ReadOne, f, g, read

LEMMA CloseFileOK ==
  ASSUME NEW o, Good(o), o.stack # <<>>
  PROVE  Good(CloseFile(o))
<1> DEFINE p == CloseFile(o)
           dirs == IF Last(o.stack).disk THEN Front(o.dirs) ELSE o.dirs
<1>1. ContextOK(Front(o.stack), dirs)
  BY CloseStep DEF Good
<1>2. DOMAIN p = DOMAIN o /\ p.slots = o.slots /\ p.stack = Front(o.stack) /\ p.dirs = dirs
  BY DEF CloseFile, Good, Ordered
<1> HIDE DEF p, dirs
<1>3. Good(p)
  BY <1>1, <1>2 DEF Good
<1> QED BY <1>3 DEF p

LEMMA FinishedOK ==
  ASSUME NEW o, Good(o)
  PROVE  Good(Finished(o))
<1>1. CASE o.toggle_set
  BY <1>1 DEF Finished
<1>2. CASE ~o.toggle_set
  <2> DEFINE slots == Put(o.slots, o.controller_slot, SlotAt(o, o.controller_slot))
             q == [o EXCEPT !.slots = slots]
             toggle == IF Cardinality(DOMAIN SlotAt(o, o.controller_slot).configs) > 1
                       THEN "GUIDE" ELSE o.toggle
             p == [o EXCEPT !.slots = slots, !.toggle = toggle]
  <2>1. Finished(o) = p
    BY <1>2, Zenon DEF Finished
  <2>2. Good(q)
    BY SlotAtOK, SlotsSetOK
  <2> HIDE DEF slots, toggle
  <2>3. /\ DOMAIN p = DOMAIN q /\ p.slots = q.slots /\ p.stack = q.stack /\ p.dirs = q.dirs
    BY DEF Good, Ordered
  <2> HIDE DEF p, q
  <2>4. Good(p)
    BY <2>2, <2>3, Elsewhere
  <2> QED BY <2>1, <2>4
<1> QED BY <1>1, <1>2

LEMMA NewOptionsOK == Good(NewOptions)
<1> DEFINE slot == [NewSlot EXCEPT !.configs = Put(<<>>, 0, NewConfig)]
<1>1. DOMAIN Put(<<>>, 0, NewConfig) = {0} /\ Put(<<>>, 0, NewConfig)[0] = NewConfig
  BY DEF Put, Merged
<1>2. SlotOK(slot)
  <2> DEFINE configs == Put(<<>>, 0, NewConfig)
  <2> HIDE DEF configs
  <2>1. "configs" \in DOMAIN slot /\ slot.configs = configs
    BY DEF NewSlot, configs
  <2> HIDE DEF slot
  <2>2. DOMAIN configs = {0} /\ configs[0] = NewConfig
    BY <1>1 DEF configs
  <2> QED BY <2>1, <2>2, NewOK DEF SlotOK
<1>3. NewOptions.slots = Put(<<>>, 0, slot)
  <2>1. NewSlot.configs = <<>>
    BY DEF NewSlot
  <2> QED BY <2>1 DEF NewOptions
<1> HIDE DEF slot
<1>4. DOMAIN Put(<<>>, 0, slot) = {0} /\ Put(<<>>, 0, slot)[0] = slot
  BY DEF Put, Merged
<1>5. SlotsOK(NewOptions.slots)
  BY <1>2, <1>3, <1>4 DEF SlotsOK
<1>6. Ordered \subseteq DOMAIN NewOptions /\ NewOptions.stack = <<>> /\ NewOptions.dirs = <<>>
  BY DEF NewOptions, Ordered
<1>7. ContextOK(<<>>, <<>>)
  <2>1. OnDisk(<<>>, 0) = {}
    BY DEF OnDisk
  <2>2. Cardinality(OnDisk(<<>>, 0)) = 0 /\ Len(<<>>) = 0
    BY <2>1, FS_EmptySet
  <2>3. IsSeq(<<>>)
    <3>1. <<>> \in Seq({})
      OBVIOUS
    <3> QED BY <3>1 DEF IsSeq
  <2> QED BY <2>1, <2>2, <2>3 DEF ContextOK
<1> QED BY <1>5, <1>6, <1>7 DEF Good

(* The invariant: the options are in order, whatever is set next.           *)
OptionsInv == Good(opts)

LEMMA GoodStep == OptionsInv /\ [Next]_vars => OptionsInv'
<1> SUFFICES ASSUME Good(opts), [Next]_vars PROVE Good(opts')
  BY DEF OptionsInv
<1>1. CASE ApplyOption
  <2>1. PICK o : o = opts
    OBVIOUS
  <2>2. PICK key, arg : opts' = ApplyOpt(opts, key, arg)
    BY <1>1 DEF ApplyOption
  <2>3. Good(ApplyOpt(o, key, arg))
    BY <2>1, ApplyOptOK
  <2> QED BY <2>1, <2>2, <2>3
<1>2. CASE ReadConstruct
  BY <1>2, ReadOneOK DEF ReadConstruct
<1>3. CASE EndOfFile
  BY <1>3, CloseFileOK DEF EndOfFile
<1>4. CASE FinishOptions
  BY <1>4, FinishedOK DEF FinishOptions
<1>5. CASE RunMode
  <2>1. opts' = opts \/ opts' = SetSlot(opts, "ff", FALSE)
    BY <1>5 DEF RunMode
  <2>2. Good(SetSlot(opts, "ff", FALSE))
    BY SetSlotOK
  <2> QED BY <2>1, <2>2
<1>6. CASE UNCHANGED opts
  BY <1>6
<1>7. CASE ParsingFails
  BY <1>6, <1>7 DEF ParsingFails, parsing
<1>8. CASE Start /\ ~RunMode
  BY <1>6, <1>8 DEF Start, SchedulingRefused, CreateController, CreateControllerThrows,
     InitController, InitControllerThrows, InitControllerAborts, SetUpProcessor, SetUpThrows,
     EnterMainLoop, parsing
<1>9. CASE Unplug \/ ChildEnds \/ Signal \/ SignalKills
  BY <1>6, <1>9 DEF Unplug, ChildEnds, Signal, SignalKills, parsing
<1>10. CASE Dispatch \/ Finish
  BY <1>6, <1>10 DEF Dispatch, OnChildWatch, OnDisconnect, Finish, LeaveMainLoop, Return, parsing
<1>11. CASE UNCHANGED vars
  BY <1>6, <1>11 DEF vars, parsing
<1> QED BY <1>1, <1>2, <1>3, <1>4, <1>5, <1>7, <1>8, <1>9, <1>10, <1>11 DEF Next, Parse

LEMMA OptionsInOrder == Spec => []OptionsInv
<1>1. Init => OptionsInv
  BY NewOptionsOK DEF Init, OptionsInv
<1> QED BY <1>1, GoodStep, PTL DEF Spec

(* Whatever files open in files, and wherever one ends or is given up, the  *)
(* directory a macro is looked up in is that of the innermost file on disk  *)
(* (m_directory_context).                                                  *)
THEOREM MacrosFoundBesideTheirFile == Spec => []ContextIsOpenFiles
<1>1. OptionsInv => ContextIsOpenFiles
  BY DEF OptionsInv, Good, ContextOK, ContextIsOpenFiles
<1> QED BY <1>1, OptionsInOrder, PTL

(* Whatever presets, options and files a program is called with, in any     *)
(* order, two inputs of a configuration never send the same event, unless   *)
(* the user has bound one of them to it (uinput_options.cpp).              *)
THEOREM PresetsKeepApart == Spec => []PresetsShareNoCode
<1>1. OptionsInv => PresetsShareNoCode
  BY DEF OptionsInv, Good, SlotsOK, SlotOK, ConfigOK, UInputOK, MapOK, PresetsShareNoCode
<1> QED BY <1>1, OptionsInOrder, PTL
=============================================================================
