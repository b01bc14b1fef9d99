-------------------------------- MODULE Options --------------------------------
(***************************************************************************)
(* Options and CommandLineParser: what the options of a command line and   *)
(* the pairs of configuration files do to the Options object.              *)
(*                                                                         *)
(* o is that object: the flags that are on, numbers, texts and the slots   *)
(* with their configurations, together with the reader's open files        *)
(* (stack, innermost last), its directory context (dirs) and the way it    *)
(* failed, if it did: an exception ("error") or an assertion ("abort").    *)
(***************************************************************************)
EXTENDS Integers, Sequences, FiniteSets, SequencesExt, UInputOptions, Names, IniParser

CONSTANTS
  Files,        \* the readable files, each a sequence of tokens
  Dir,          \* the directory part of their names
  MouseFile,    \* examples/mouse.xboxdrv, which is built into the program
  Numerals,     \* the texts that stoi() and hexstr2int() can convert, to numbers
  Percentages,  \* the texts that end in a percent sign, to their numbers
  Pairs,        \* comma-separated NAME=VALUE lists, to sequences of pairs
  Parts,        \* colon-separated lists, to sequences of texts
  Inputs,       \* the left sides with a shift button or filters
  Macros,       \* the texts of macro events
  EventCodes,   \* the other texts that ButtonEvent and AxisEvent::from_string accept
  DeviceIds,    \* SLOT.TYPE texts, to <<slot, type>>
  EvdevAxes,    \* ABS, ABS+ and ABS-, to <<abs, side>>
  Keycodes,     \* the texts str2key() accepts
  ModifierTexts \* the <<name, value>> that Modifier::from_string accepts

ASSUME PairsAreLists == \A text \in DOMAIN Pairs : Pairs[text] \in Seq(STRING \X STRING)

\* An entry of one of the maps, written or overwritten.
Put(map, key, value) == Merged([k \in {key} |-> value], map)

FlagNames == {"silent", "quiet", "usb-debug", "rumble", "instant-exit", "no-uinput",
              "detach-kernel-driver", "evdev-grab", "evdev-debug", "extra-devices",
              "extra-events", "chatpad", "chatpad-no-init", "chatpad-debug", "headset",
              "headset-debug", "detach"}
IntNames  == {"rumble-l", "rumble-r", "controller-id", "wireless-id", "vendor-id",
              "product-id", "timeout"}
TextNames == {"busid", "devid", "evdev", "headset-dump", "headset-play", "pid-file",
              "on-connect", "on-disconnect", "priority", "dbus", "type"}
FilterMaps == {"calibration", "axis-sensitivity", "relative-axis", "autofire"}

NewConfig ==
  [uinput |-> SetDefaults, modifier |-> <<>>, buttonmap |-> <<>>, axismap |-> <<>>,
   deadzone |-> 0, trigger |-> 0, square |-> FALSE, fourway |-> FALSE, rotation |-> 0,
   filters |-> [f \in FilterMaps |-> <<>>]]
NewSlot ==
  [configs |-> <<>>, rules |-> <<>>, ff |-> FALSE, led |-> -1, ffdev |-> "joystick",
   gain |-> 255]

NewOptions ==
  [mode |-> "RUN_DEFAULT", on |-> {"evdev-grab", "extra-devices", "extra-events"},
   num |-> [n \in IntNames |->
              IF n = "timeout" THEN 10
              ELSE IF n \in {"controller-id", "wireless-id"} THEN 0 ELSE -1],
   text |-> [n \in TextNames |->
               CASE n = "priority" -> "normal" [] n = "dbus" -> "auto"
                 [] n = "type" -> "unknown" [] OTHER -> ""],
   slots |-> Put(<<>>, 0, [NewSlot EXCEPT !.configs = Put(@, 0, NewConfig)]),
   controller_slot |-> 0, config_slot |-> 0, toggle |-> "none", toggle_set |-> FALSE,
   names |-> <<>>, usbids |-> <<>>, absmap |-> <<>>, keymap |-> <<>>,
   specs |-> <<>>, exec |-> <<>>, enums |-> {},
   stack |-> <<>>, dirs |-> <<>>, failed |-> "no"]

Thrown(o)  == [o EXCEPT !.failed = "error"]
Aborted(o) == [o EXCEPT !.failed = "abort"]

-----------------------------------------------------------------------------
(***************************************************************************)
(* Conversions of values, and the entries that options are written to.     *)
(***************************************************************************)

IsNumber(text) == text \in DOMAIN Numerals
Atoi(text)     == IF IsNumber(text) THEN Numerals[text] ELSE 0
PairsOf(text)  == IF text \in DOMAIN Pairs THEN Pairs[text] ELSE <<<<text, "">>>>
PartsOf(text)  == IF text \in DOMAIN Parts THEN Parts[text] ELSE <<text>>

IsAmount(text)        == text = "" \/ text \in DOMAIN Percentages \/ IsNumber(text)
ToNumber(range, text) ==
  IF text \in DOMAIN Percentages THEN (range * Percentages[text]) \div 100 ELSE Atoi(text)

\* What INIPairSchemaBool takes for true and false, and the narrower str2bool().
YesTexts == {"yes", "true", "1"}
NoTexts  == {"no", "false", "0"}
Str2Bool(text) == text = "true"

Turn(o, flags, value) == [o EXCEPT !.on = IF value THEN @ \cup flags ELSE @ \ flags]
PutIn(o, map, key, value) == [o EXCEPT ![map] = Put(@, key, value)]
SetNum(o, name, value)  == [o EXCEPT !.num[name] = value]
SetText(o, name, value) == [o EXCEPT !.text[name] = value]

SlotAt(o, s)      == IF s \in DOMAIN o.slots THEN o.slots[s] ELSE NewSlot
ConfigAt(o, s, c) ==
  IF c \in DOMAIN SlotAt(o, s).configs THEN SlotAt(o, s).configs[c] ELSE NewConfig

SetSlot(o, field, value) ==
  [o EXCEPT !.slots = Put(@, o.controller_slot, [SlotAt(o, o.controller_slot) EXCEPT ![field] = value])]
SetConfig(o, s, c, config) ==
  [o EXCEPT !.slots = Put(@, s, [SlotAt(o, s) EXCEPT !.configs = Put(@, c, config)])]

Current(o)       == ConfigAt(o, o.controller_slot, o.config_slot)
SetCurrent(o, config) == SetConfig(o, o.controller_slot, o.config_slot, config)
Configure(o, field, value) == SetCurrent(o, [Current(o) EXCEPT ![field] = value])

SetDevice(o, name, usbid) ==
  LET id == <<o.controller_slot, "auto">>
  IN PutIn(PutIn(o, "names", id, name), "usbids", id, usbid)
IsInputId(text) ==
  Len(PartsOf(text)) \in 2..4 /\ \A k \in DOMAIN PartsOf(text) : IsNumber(PartsOf(text)[k])

\* m_directory_context.back()
DirContext(o) == IF o.dirs = <<>> THEN "" ELSE Last(o.dirs)

\* Reading goes on in the file; every file has its own INISchemaBuilder, which
\* starts without a section.
Frame(file, disk) == [file |-> file, disk |-> disk, pos |-> 1, section |-> ""]
ReadConfigFile(o, file) ==
  IF file \notin DOMAIN Files THEN Thrown(o)
  ELSE [o EXCEPT !.stack = Append(@, Frame(file, TRUE)), !.dirs = Append(@, Dir[file])]
ReadBuiltin(o) == [o EXCEPT !.stack = Append(@, Frame("mouse", FALSE))]
TextOf(frame)  == IF frame.disk THEN Files[frame.file] ELSE MouseFile

-----------------------------------------------------------------------------
(***************************************************************************)
(* Bindings: set_ui_buttonmap() and set_ui_axismap().                      *)
(***************************************************************************)

InputOf(name) ==
  IF name \in DOMAIN Inputs THEN Inputs[name]
  ELSE [shift |-> "", input |-> name, filters |-> <<>>]

ShiftOf(name) == IF InputOf(name).shift = "" THEN NoShift ELSE String2Btn(InputOf(name).shift)

\* "void" and "none" are invalid() events.
IsEvent(value) == value \in EventCodes \cup Macros \cup {"", "void", "none"}
EventOf(o, value) ==
  [code |-> value, dir |-> IF value \in Macros THEN DirContext(o) ELSE "", filters |-> <<>>]

\* Without a value, the filters are added to what is bound already; an
\* invalid event is not bound, and what was bound stays.
MapAfter(o, map, key, name, value) ==
  IF value = "" /\ key \in DOMAIN map
  THEN [map EXCEPT ![key].filters = @ \o InputOf(name).filters]
  ELSE IF value \in {"", "void", "none"} THEN map
  ELSE Put(map, key, [EventOf(o, value) EXCEPT !.filters = InputOf(name).filters])

SetUiMap(o, s, c, map, input, name, value) ==
  IF input = NoName \/ ShiftOf(name) = NoName \/ ~IsEvent(value) THEN Thrown(o)
  ELSE SetConfig(o, s, c,
         [ConfigAt(o, s, c) EXCEPT
            !.uinput[map] = MapAfter(o, @, <<ShiftOf(name), input>>, name, value)])

-----------------------------------------------------------------------------
(***************************************************************************)
(* The pairs of the sections that belong to a configuration.               *)
(***************************************************************************)

ConfigSections == {"modifier", "ui-buttonmap", "ui-axismap", "buttonmap", "axismap",
                   "autofire", "relative-axis", "calibration", "axis-sensitivity"}

SetFilter(o, s, c, section, input, value) ==
  IF input = NoName \/ ~IsNumber(value) THEN Thrown(o)
  ELSE SetConfig(o, s, c, [ConfigAt(o, s, c) EXCEPT
                             !.filters[section] = Put(@, input, value)])

\* The left side may have filters or a minus sign, but no shift button.
AddMapping(o, s, c, section, name, from, to) ==
  IF InputOf(name).shift # "" \/ NoName \in {from, to} THEN Thrown(o)
  ELSE SetConfig(o, s, c, [ConfigAt(o, s, c) EXCEPT ![section] = Append(@, <<name, to>>)])

SetCalibration(o, s, c, name, value) ==
  IF Len(PartsOf(value)) # 3 \/ \E k \in DOMAIN PartsOf(value) : ~IsNumber(PartsOf(value)[k])
     \/ String2Axis(name) = NoName
  THEN Thrown(o)
  ELSE SetConfig(o, s, c, [ConfigAt(o, s, c) EXCEPT
                             !.filters["calibration"] = Put(@, String2Axis(name), value)])

ConfigPair(o, s, c, section, name, value) ==
  CASE section = "modifier" ->
         IF <<name, value>> \notin ModifierTexts THEN Thrown(o)
         ELSE SetConfig(o, s, c, [ConfigAt(o, s, c) EXCEPT !.modifier = Append(@, <<name, value>>)])
    [] section = "ui-buttonmap" ->
         SetUiMap(o, s, c, "btn", String2Btn(InputOf(name).input), name, value)
    [] section = "ui-axismap" ->
         SetUiMap(o, s, c, "axis", String2Axis(InputOf(name).input), name, value)
    [] section = "buttonmap" ->
         AddMapping(o, s, c, section, name, String2Btn(InputOf(name).input),
                    String2Btn(IF value = "" THEN InputOf(name).input ELSE value))
    [] section = "axismap" ->
         AddMapping(o, s, c, section, name, String2Axis(InputOf(name).input),
                    String2Axis(IF value = "" THEN InputOf(name).input ELSE value))
    [] section = "autofire" -> SetFilter(o, s, c, section, String2Btn(name), value)
    [] section = "calibration" -> SetCalibration(o, s, c, name, value)
    [] OTHER -> SetFilter(o, s, c, section, String2Axis(name), value)

\* The sections controllerN/configM/NAME.
SlotSections ==
  [x \in (0..9) \X (0..9) \X ConfigSections |->
     "controller" \o ToString(x[1]) \o "/config" \o ToString(x[2]) \o "/" \o x[3]]

-----------------------------------------------------------------------------
(***************************************************************************)
(* The setters of Options and CommandLineParser that the command line and  *)
(* the section [xboxdrv] share.                                            *)
(***************************************************************************)

DBusModes == {"system", "session", "auto", "disabled"}
DBusMode(text) ==
  IF text \in DBusModes THEN text ELSE IF Str2Bool(text) THEN "auto" ELSE "disabled"

SetDaemonDetach(o, value) ==
  IF value THEN Turn(o, {"detach", "silent", "quiet"}, TRUE) ELSE Turn(o, {"detach"}, FALSE)

SetToggleButton(o, text) ==
  LET button == IF text = "void" THEN "none" ELSE String2Btn(text)
  IN IF button = NoName THEN Thrown(o)
     ELSE [o EXCEPT !.toggle = button, !.toggle_set = TRUE]

\* Degrees to steps of 45, cut towards zero before the remainder.
Steps(degree) == ((IF degree < 0 THEN -((-degree) \div 45) ELSE degree \div 45)) % 8

NextController(o) ==
  LET n == [o EXCEPT !.controller_slot = @ + 1, !.config_slot = 0]
  IN SetCurrent(n, Current(n))
NextConfig(o) ==
  LET n == [o EXCEPT !.config_slot = @ + 1] IN SetCurrent(n, Current(n))

SetPreset(o, uinput) == Configure(o, "uinput", uinput)
SetMimic(o, name, usbid, uinput) ==
  SetPreset(SetDevice(Turn(o, {"extra-devices", "extra-events"}, FALSE), name, usbid), uinput)

\* Setters with an argument.
ValueNames == {"led", "rumble-gain", "config", "alt-config", "priority", "toggle", "ff-device",
               "deadzone", "deadzone-trigger", "dpad-rotation", "device-name", "device-usbid",
               "force-feedback"}
Kinds      == {"auto", "mouse", "keyboard", "joystick"}
SetValue(o, name, value) ==
  CASE name = "config"     -> ReadConfigFile(o, value)
    [] name = "alt-config" -> ReadConfigFile(NextConfig(o), value)
    [] name = "priority" /\ value \in {"realtime", "normal"} -> SetText(o, "priority", value)
    [] name = "toggle" -> SetToggleButton(o, value)
    [] name = "led" /\ IsNumber(value) -> SetSlot(o, "led", Numerals[value])
    [] name = "rumble-gain" /\ IsAmount(value) -> SetSlot(o, "gain", ToNumber(255, value))
    [] name = "ff-device" /\ value \in Kinds -> SetSlot(o, "ffdev", value)
    [] name = "force-feedback" -> SetSlot(o, "ff", Str2Bool(value))
    [] name = "deadzone" /\ IsAmount(value) ->
         Configure(o, "deadzone", ToNumber(32767, value))
    [] name = "deadzone-trigger" /\ IsAmount(value) ->
         Configure(o, "trigger", ToNumber(255, value))
    [] name = "dpad-rotation" /\ IsNumber(value) ->
         Configure(o, "rotation", Steps(Numerals[value]))
    [] name = "device-name" -> PutIn(o, "names", <<o.controller_slot, "auto">>, value)
    [] name = "device-usbid" /\ IsInputId(value) ->
         PutIn(o, "usbids", <<o.controller_slot, "auto">>, value)
    [] OTHER -> Thrown(o)

\* Setters without one.
PlainNames == {"next", "next-controller", "square-axis", "four-way-restrictor", "mouse", "guitar",
               "trigger-as-button", "trigger-as-zaxis", "dpad-as-button", "dpad-only",
               "mimic-xpad", "mimic-xpad-wireless", "ui-clear", "verbose"}
SetPlain(o, name) ==
  LET u == Current(o).uinput IN
  CASE name = "next"                -> NextConfig(o)
    [] name = "next-controller"     -> NextController(o)
    [] name = "square-axis"         -> Configure(o, "square", TRUE)
    [] name = "four-way-restrictor" -> Configure(o, "fourway", TRUE)
    [] name = "mouse"               -> ReadBuiltin(o)
    [] name = "guitar"              -> SetPreset(o, Guitar)
    [] name = "trigger-as-button"   -> SetPreset(o, TriggerAsButton(u))
    [] name = "trigger-as-zaxis"    -> SetPreset(o, TriggerAsZaxis(u))
    [] name = "dpad-as-button"      -> SetPreset(o, DpadAsButton(u))
    [] name = "dpad-only"           -> SetPreset(o, DpadOnly(u))
    [] name = "mimic-xpad" ->
         SetMimic(o, "Microsoft X-Box 360 pad", "045e:028e:110", MimicXpad)
    [] name = "mimic-xpad-wireless" ->
         SetMimic(o, "Xbox 360 Wireless Receiver", "045e:0719:100", MimicXpadWireless)
    [] name = "ui-clear"            -> SetPreset(o, ClearAll)
    [] OTHER                        -> o

-----------------------------------------------------------------------------
(***************************************************************************)
(* Sections of a configuration file: init_ini() and send_pair().           *)
(***************************************************************************)

IniTexts == {"busid", "devid", "evdev", "headset-dump", "headset-play"}
IniFlags == FlagNames \ {"detach"}

XboxdrvPair(o, name, value) ==
  CASE name \in IniFlags /\ value \in YesTexts -> Turn(o, {name}, TRUE)
    [] name \in IniFlags /\ value \in NoTexts  -> Turn(o, {name}, FALSE)
    [] name \in IntNames   -> SetNum(o, name, Atoi(value))
    [] name \in IniTexts   -> SetText(o, name, value)
    [] name \in ValueNames -> SetValue(o, name, value)
    [] name \in PlainNames /\ value \in YesTexts -> SetPlain(o, name)
    [] name \in PlainNames /\ value \in NoTexts  -> o
    [] OTHER -> Thrown(o)

DaemonPair(o, name, value) ==
  CASE name = "detach" /\ value \in YesTexts -> SetDaemonDetach(o, TRUE)
    [] name = "detach" /\ value \in NoTexts  -> SetDaemonDetach(o, FALSE)
    [] name = "dbus" -> SetText(o, "dbus", DBusMode(value))
    [] name \in {"pid-file", "on-connect", "on-disconnect"} -> SetText(o, name, value)
    [] OTHER -> Thrown(o)

OtherSections == {"device-name", "device-usbid", "evdev-absmap", "evdev-keymap"}
OtherPair(o, section, name, value) ==
  CASE section = "device-name" /\ name \in DOMAIN DeviceIds ->
         PutIn(o, "names", DeviceIds[name], value)
    [] section = "device-usbid" /\ name \in DOMAIN DeviceIds /\ IsInputId(value) ->
         PutIn(o, "usbids", DeviceIds[name], value)
    [] section = "evdev-absmap" /\ name \in DOMAIN EvdevAxes /\ String2Axis(value) # NoName ->
         PutIn(o, "absmap", EvdevAxes[name], String2Axis(value))
    [] section = "evdev-keymap" /\ name \in Keycodes /\ String2Btn(value) # NoName ->
         PutIn(o, "keymap", name, String2Btn(value))
    [] OTHER -> Thrown(o)

\* A calibration for a given slot is an assertion that fails.
SlotPair(o, x, name, value) ==
  IF x[3] = "calibration" THEN Aborted(o) ELSE ConfigPair(o, x[1], x[2], x[3], name, value)

SendPair(o, section, name, value) ==
  LET slot == {x \in DOMAIN SlotSections : SlotSections[x] = section} IN
  CASE o.failed # "no" -> o
    [] section = "xboxdrv"        -> XboxdrvPair(o, name, value)
    [] section = "xboxdrv-daemon" -> DaemonPair(o, name, value)
    [] section \in ConfigSections ->
         ConfigPair(o, o.controller_slot, o.config_slot, section, name, value)
    [] section \in OtherSections  -> OtherPair(o, section, name, value)
    [] slot # {} -> SlotPair(o, CHOOSE x \in slot : TRUE, name, value)
    [] OTHER -> Thrown(o)

-----------------------------------------------------------------------------
(***************************************************************************)
(* Matching rules.  A rule is the set of <<udev property, value>> that a   *)
(* device must have; the empty set is a rule that from_string() refuses.   *)
(***************************************************************************)

RuleFrom(name, value) ==
  LET part == PartsOf(value)
      two  == Len(part) = 2
      one  == Len(part) = 1
  IN CASE name = "usbid" /\ two     -> {<<"ID_VENDOR_ID", part[1]>>, <<"ID_MODEL_ID", part[2]>>}
       [] name = "vendor" /\ one    -> {<<"ID_VENDOR_ID", part[1]>>}
       [] name = "product" /\ one   -> {<<"ID_MODEL_ID", part[1]>>}
       [] name = "property" /\ two  -> {<<part[1], part[2]>>}
       [] name = "usbpath" /\ two   -> {<<"BUSNUM", part[1]>>, <<"DEVNUM", part[2]>>}
       [] name = "usbserial" /\ one -> {<<"ID_SERIAL_SHORT", part[1]>>}
       [] OTHER                     -> {}

\* --match adds a rule for each pair, --match-group one rule for all of them.
Match(o, text) ==
  LET rules == [k \in DOMAIN PairsOf(text) |-> RuleFrom(PairsOf(text)[k][1], PairsOf(text)[k][2])]
  IN IF {} \in Range(rules) THEN Thrown(o)
     ELSE SetSlot(o, "rules", SlotAt(o, o.controller_slot).rules \o rules)
MatchGroup(o, text) ==
  LET rules == {RuleFrom(p[1], p[2]) : p \in Range(PairsOf(text))}
  IN IF {} \in rules THEN Thrown(o)
     ELSE SetSlot(o, "rules", Append(SlotAt(o, o.controller_slot).rules, UNION rules))

\* --generic-usb-spec: the last of several names for one field counts.
SpecFields ==
  [interface |-> {"if", "interface"}, endpoint |-> {"ep", "endpoint"},
   vendor |-> {"vid", "vendor_id", "vendorid", "vendor"},
   product |-> {"pid", "product_id", "productid", "product"}]
AddSpec(o, text) ==
  LET pairs == PairsOf(text)
      Value(f) == LET at == {k \in DOMAIN pairs : pairs[k][1] \in SpecFields[f]}
                  IN IF at = {} THEN -1 ELSE Numerals[pairs[Max(at)][2]]
  IN IF \E p \in Range(pairs) :
          Named(SpecFields, p[1]) = NoName \/ ~IsNumber(p[2])
     THEN Thrown(o)
     ELSE [o EXCEPT !.specs = Append(@, [f \in DOMAIN SpecFields |-> Value(f)])]

-----------------------------------------------------------------------------
(***************************************************************************)
(* CommandLineParser::apply_opt, in the order of its cases.                *)
(***************************************************************************)

\* process_name_value_string()
Each(o, section, text) ==
  LET pairs == PairsOf(text)
      sent[k \in 0..Len(pairs)] ==
        IF k = 0 THEN o ELSE SendPair(sent[k - 1], section, pairs[k][1], pairs[k][2])
  IN sent[Len(pairs)]

GeneralKeys == {"help", "version", "verbose", "quiet", "silent", "debug", "usb-debug", "priority",
                "daemon", "match", "match-group", "write-config", "option", "config",
                "alt-config", "test-rumble"}
ApplyGeneral(o, key, arg) ==
  CASE key = "help"    -> [o EXCEPT !.mode = "PRINT_HELP"]
    [] key = "version" -> [o EXCEPT !.mode = "PRINT_VERSION"]
    [] key \in {"verbose", "debug"} -> o
    [] key \in {"quiet", "silent", "usb-debug"} -> Turn(o, {key}, TRUE)
    [] key = "daemon"       -> Turn([o EXCEPT !.mode = "RUN_DAEMON"], {"silent"}, TRUE)
    [] key = "match"        -> Match(o, arg)
    [] key = "match-group"  -> MatchGroup(o, arg)
    [] key = "write-config" -> Turn(o, {"instant-exit"}, TRUE)
    [] key = "option"       -> SendPair(o, "xboxdrv", PairsOf(arg)[1][1], PairsOf(arg)[1][2])
    [] key = "test-rumble"  -> Turn(o, {"rumble"}, TRUE)
    [] OTHER                -> SetValue(o, key, arg)

PadTypeNames == {"xbox", "xbox-mat", "xbox360", "xbox360-guitar", "xbox360-wireless", "firestorm",
                 "firestorm-vsb", "t-wireless", "saitek-p2500", "playstation3-usb", "generic-usb"}
Clamped(n) == IF n < 0 THEN 0 ELSE IF n > 255 THEN 255 ELSE n

RunKeys == {"rumble", "ff-device", "quit", "timeout", "no-uinput", "mimic-xpad",
            "mimic-xpad-wireless", "type"}
ApplyRun(o, key, arg) ==
  LET two == IF arg \in DOMAIN Pairs THEN [k \in DOMAIN Pairs[arg] |-> Pairs[arg][k][1]] ELSE <<>>
  IN
  CASE key = "rumble" /\ Len(two) = 2 /\ IsNumber(two[1]) /\ IsNumber(two[2]) ->
         SetNum(SetNum(o, "rumble-l", Clamped(Numerals[two[1]])),
                "rumble-r", Clamped(Numerals[two[2]]))
    [] key = "ff-device" -> SetValue(o, key, arg)
    [] key = "quit"      -> Turn(o, {"instant-exit"}, TRUE)
    [] key = "timeout" /\ IsNumber(arg) -> SetNum(o, "timeout", Numerals[arg])
    [] key = "no-uinput" -> Turn(o, {key}, TRUE)
    [] key = "type" /\ arg \in PadTypeNames -> SetText(o, "type", arg)
    [] key \in PlainNames -> SetPlain(o, key)
    [] OTHER -> Thrown(o)

AccessoryKeys == {"chatpad", "chatpad-no-init", "chatpad-debug", "headset", "headset-dump",
                  "headset-play", "force-feedback", "rumble-gain"}
ApplyAccessory(o, key, arg) ==
  CASE key = "chatpad-no-init" -> Turn(o, {"chatpad", key}, TRUE)
    [] key \in {"headset-dump", "headset-play"} ->
         Turn(SetText(o, key, arg), {"headset"}, TRUE)
    [] key = "force-feedback" -> SetSlot(o, "ff", TRUE)
    [] key = "rumble-gain"    -> SetValue(o, key, arg)
    [] OTHER                  -> Turn(o, {key}, TRUE)

MapKeys == {"modifier", "buttonmap", "axismap", "device-usbid", "device-usbids", "device-name",
            "device-names", "next-config", "next-controller", "controller-slot", "config-slot",
            "toggle", "ui-clear", "ui-axismap", "ui-buttonmap", "mouse", "guitar"}
ApplyMap(o, key, arg) ==
  CASE key \in ConfigSections     -> Each(o, key, arg)
    [] key = "device-usbids"      -> Each(o, "device-usbid", arg)
    [] key = "device-names"       -> Each(o, "device-name", arg)
    [] key = "next-config"        -> NextConfig(o)
    [] key = "controller-slot" /\ IsNumber(arg) -> [o EXCEPT !.controller_slot = Numerals[arg]]
    [] key = "config-slot" /\ IsNumber(arg)     -> [o EXCEPT !.config_slot = Numerals[arg]]
    [] key \in {"next-controller", "ui-clear", "mouse", "guitar"} -> SetPlain(o, key)
    [] key \in ValueNames         -> SetValue(o, key, arg)
    [] OTHER                      -> Thrown(o)

DeviceKeys == {"detach-kernel-driver", "evdev", "evdev-debug", "evdev-no-grab", "evdev-absmap",
               "evdev-keymap", "id", "wid", "led", "no-extra-devices", "no-extra-events"}
ApplyDevice(o, key, arg) ==
  CASE key \in {"detach-kernel-driver", "evdev-debug"} -> Turn(o, {key}, TRUE)
    [] key = "evdev"            -> SetText(o, "evdev", arg)
    [] key = "evdev-no-grab"    -> Turn(o, {"evdev-grab"}, FALSE)
    [] key \in OtherSections    -> Each(o, key, arg)
    [] key = "id" /\ IsNumber(arg)  -> SetNum(o, "controller-id", Numerals[arg])
    [] key = "wid" /\ IsNumber(arg) /\ Atoi(arg) \in 0..3 ->
         SetNum(o, "wireless-id", Numerals[arg])
    [] key = "led" /\ arg = "help" -> [o EXCEPT !.mode = "PRINT_LED_HELP"]
    [] key = "led"              -> SetValue(o, key, arg)
    [] key = "no-extra-devices" -> Turn(o, {"extra-devices"}, FALSE)
    [] key = "no-extra-events"  -> Turn(o, {"extra-events"}, FALSE)
    [] OTHER                    -> Thrown(o)

PresetKeys == {"dpad-only", "dpad-as-button", "deadzone", "deadzone-trigger", "trigger-as-button",
               "trigger-as-zaxis", "autofire", "calibration", "relative-axis",
               "axis-sensitivity", "four-way-restrictor", "dpad-rotation", "square-axis"}
ApplyPreset(o, key, arg) ==
  IF key \in ConfigSections THEN Each(o, key, arg)
  ELSE IF key \in ValueNames THEN SetValue(o, key, arg)
  ELSE SetPlain(o, key)

DaemonKeys == {"help-led", "detach", "pid-file", "on-connect", "on-disconnect", "dbus", "no-dbus",
               "device-by-id", "device-by-path", "generic-usb-spec"}
ApplyDaemon(o, key, arg) ==
  LET two == PartsOf(arg) IN
  CASE key = "help-led" -> [o EXCEPT !.mode = "PRINT_LED_HELP"]
    [] key = "detach"   -> SetDaemonDetach(o, TRUE)
    [] key \in {"pid-file", "on-connect", "on-disconnect"} -> SetText(o, key, arg)
    [] key = "dbus"     -> SetText(o, "dbus", DBusMode(arg))
    [] key = "no-dbus"  -> SetText(o, "dbus", "disabled")
    [] key = "device-by-id" /\ Len(two) >= 2 /\ IsNumber(two[1]) /\ IsNumber(two[2]) ->
         SetNum(SetNum(o, "vendor-id", Numerals[two[1]]), "product-id", Numerals[two[2]])
    [] key = "device-by-path" /\ Len(two) >= 2 ->
         SetText(SetText(o, "busid", two[1]), "devid", two[2])
    [] key = "generic-usb-spec" -> AddSpec(o, arg)
    [] OTHER            -> Thrown(o)

ListModes ==
  [key \in {"list-supported-devices", "list-supported-devices-xpad", "list-controller",
             "help-devices"} |->
     CASE key = "list-supported-devices"      -> "RUN_LIST_SUPPORTED_DEVICES"
       [] key = "list-supported-devices-xpad" -> "RUN_LIST_SUPPORTED_DEVICES_XPAD"
       [] key = "list-controller"             -> "RUN_LIST_CONTROLLER"
       [] key = "help-devices"                -> "PRINT_HELP_DEVICES"]
EnumKeys == {"help-abs", "help-rel", "help-key", "help-x11keysym", "help-axis", "help-button"}
ApplyList(o, key, arg) ==
  CASE key \in DOMAIN ListModes -> [o EXCEPT !.mode = ListModes[key]]
    [] key = "help-all"         -> [o EXCEPT !.mode = "PRINT_ENUMS", !.enums = EnumKeys]
    [] key \in EnumKeys         -> [o EXCEPT !.mode = "PRINT_ENUMS", !.enums = @ \cup {key}]
    [] key = "rest"             -> [o EXCEPT !.exec = Append(@, arg)]
    [] OTHER                    -> Thrown(o)

ApplyOpt(o, key, arg) ==
  CASE key \in GeneralKeys   -> ApplyGeneral(o, key, arg)
    [] key \in RunKeys       -> ApplyRun(o, key, arg)
    [] key \in AccessoryKeys -> ApplyAccessory(o, key, arg)
    [] key \in MapKeys       -> ApplyMap(o, key, arg)
    [] key \in DeviceKeys    -> ApplyDevice(o, key, arg)
    [] key \in PresetKeys    -> ApplyPreset(o, key, arg)
    [] key \in DaemonKeys    -> ApplyDaemon(o, key, arg)
    [] OTHER                 -> ApplyList(o, key, arg)

-----------------------------------------------------------------------------
(***************************************************************************)
(* One construct of the innermost open file, its end, and the end of all.  *)
(***************************************************************************)

AtEnd(frame) == frame.pos > Len(TextOf(frame))
SetFrame(o, frame) == [o EXCEPT !.stack = [@ EXCEPT ![Len(o.stack)] = frame]]

ReadOne(o) ==
  LET read  == Construct(TextOf(Last(o.stack)), Last(o.stack).pos)
      frame == [Last(o.stack) EXCEPT !.pos = read.next]
      past  == SetFrame(o, frame)
  IN CASE read.kind = "skip"    -> past
       [] read.kind = "section" -> SetFrame(o, [frame EXCEPT !.section = read.name])
       [] read.kind = "pair"    -> SendPair(past, frame.section, read.name, read.value)
       [] OTHER                 -> Thrown(past)

\* Not the code: the directory stays.
CloseFileOnly(o) == [o EXCEPT !.stack = Front(@)]

CloseFile(o) ==
  [o EXCEPT !.stack = Front(@), !.dirs = IF Last(o.stack).disk THEN Front(@) ELSE @]

\* Options::finish(); operator[] creates the slot, unless the first condition
\* decides already.
Finished(o) ==
  IF o.toggle_set THEN o
  ELSE [o EXCEPT !.slots = Put(@, o.controller_slot, SlotAt(o, o.controller_slot)),
                 !.toggle = IF Cardinality(DOMAIN SlotAt(o, o.controller_slot).configs) > 1
                            THEN "GUIDE" ELSE @]
=============================================================================
