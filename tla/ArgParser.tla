------------------------------- MODULE ArgParser -------------------------------
(***************************************************************************)
(* The command line of xboxdrv: the table of options that                  *)
(* CommandLineParser::init_argp registers, and ArgParser::parse_args, which *)
(* turns the words of a command line into a sequence of options before any *)
(* of them is applied.                                                     *)
(*                                                                         *)
(* A word is a tuple: <<"long", n>> for --n, <<"long=", n, v>> for --n=v,  *)
(* <<"short", letters>> for -abc, <<"plain", t>> for a word without a      *)
(* leading dash, <<"-">> and <<"--">>.                                     *)
(***************************************************************************)
EXTENDS Naturals, Sequences

Flag(short, long)   == [key |-> long, short |-> short, long |-> long, arg |-> FALSE]
Valued(short, long) == [key |-> long, short |-> short, long |-> long, arg |-> TRUE]
LongFlag(long)      == Flag("", long)
LongValued(long)    == Valued("", long)
Alias(entry, old)   == [entry EXCEPT !.long = old, !.short = ""]

GeneralOptions ==
  {Flag("h", "help"), Flag("V", "version"), Flag("v", "verbose"), LongFlag("debug"),
   Flag("s", "silent"), LongFlag("quiet"), LongFlag("usb-debug"), LongValued("priority")}

ListOptions ==
  {LongFlag(n) : n \in {"list-supported-devices", "list-supported-devices-xpad", "help-led",
     "help-devices", "help-abs", "help-rel", "help-key", "help-x11keysym", "help-axis",
     "help-button", "help-all"}}

ConfigFileOptions ==
  {Valued("c", "config"), LongValued("alt-config"), Valued("o", "option"),
   LongValued("write-config")}

DaemonOptions ==
  {Flag("D", "daemon"), LongFlag("detach"), LongValued("pid-file"), LongFlag("no-dbus"),
   LongValued("dbus"), LongValued("on-connect"), LongValued("on-disconnect")}

DeviceOptions ==
  {Flag("L", "list-controller"), Valued("i", "id"), Valued("w", "wid"),
   LongValued("device-by-path"), LongValued("device-by-id"), LongValued("type"),
   Flag("d", "detach-kernel-driver"), LongValued("generic-usb-spec")}

EvdevOptions ==
  {LongValued("evdev"), LongFlag("evdev-debug"), LongFlag("evdev-no-grab"),
   LongValued("evdev-absmap"), LongValued("evdev-keymap")}

StatusOptions == {Valued("l", "led"), Valued("r", "rumble"), Flag("q", "quit")}

AccessoryOptions ==
  {LongFlag("chatpad"), LongFlag("chatpad-no-init"), LongFlag("chatpad-debug"),
   LongFlag("headset"), LongValued("headset-dump"), LongValued("headset-play")}

ForceFeedbackOptions ==
  {LongFlag("force-feedback"), LongValued("rumble-gain"), Flag("R", "test-rumble"),
   LongValued("ff-device")}

ControllerSlotOptions ==
  {LongValued("controller-slot"), LongFlag("next-controller"), LongValued("match"),
   LongValued("match-group")}

ConfigSlotOptions ==
  {LongValued("config-slot"), LongFlag("next-config"), Alias(LongFlag("next-config"), "ui-new"),
   LongValued("toggle"), Alias(LongValued("toggle"), "ui-toggle")}

ConfigurationOptions ==
  {Valued("m", "modifier"), LongValued("timeout"), Valued("b", "buttonmap"),
   Valued("a", "axismap")}

ModifierPresets ==
  {LongValued(n) : n \in {"autofire", "axis-sensitivity", "calibration", "deadzone",
     "deadzone-trigger", "dpad-rotation", "relative-axis"}}
  \cup {LongFlag("four-way-restrictor"), LongFlag("square-axis")}

UInputPresets ==
  {LongFlag(n) : n \in {"trigger-as-button", "trigger-as-zaxis", "dpad-as-button", "dpad-only",
     "guitar", "mouse", "mimic-xpad", "mimic-xpad-wireless"}}

UInputSettings ==
  {LongFlag(n) : n \in {"no-uinput", "no-extra-devices", "no-extra-events", "ui-clear"}}
  \cup {LongValued(n) : n \in {"device-name", "device-names", "device-usbid", "device-usbids",
          "ui-buttonmap", "ui-axismap"}}

\* add_usage() comes first and leaves the long name empty, so that --=x finds it.
Usage == [key |-> "usage", short |-> "", long |-> "", arg |-> FALSE]

OptionTable ==
  {Usage} \cup GeneralOptions \cup ListOptions \cup ConfigFileOptions \cup DaemonOptions
  \cup DeviceOptions \cup EvdevOptions \cup StatusOptions \cup AccessoryOptions
  \cup ForceFeedbackOptions \cup ControllerSlotOptions \cup ConfigSlotOptions
  \cup ConfigurationOptions \cup ModifierPresets \cup UInputPresets \cup UInputSettings

-----------------------------------------------------------------------------
(***************************************************************************)
(* ArgParser::parse_args.  An error anywhere throws before any option is   *)
(* applied; it is the element Malformed of the result.                     *)
(***************************************************************************)

LookupLong(n)  == {o \in OptionTable : o.long = n}
LookupShort(c) == {o \in OptionTable : o.short = c}

Parsed(key, arg) == <<[key |-> key, arg |-> arg]>>
Malformed        == Parsed("malformed", "")
RestArg(text)    == Parsed("rest", text)

\* A word taken as the argument of the option before it: any word will do.
AsArgument(word) == IF word[1] = "plain" THEN word[2] ELSE word[1]

\* Everything behind "--" is left to the child process.
AfterDashes(argv, i) ==
  [k \in 1..(Len(argv) - i) |->
     [key |-> "rest", arg |-> AsArgument(argv[i + k])]]

ParseArgs(argv) ==
  LET
    Takes(o, i, follow) ==
      IF i = Len(argv) THEN Malformed
      ELSE Parsed(o.key, AsArgument(argv[i + 1])) \o follow

    Chain(letters, i, next, afterNext) ==
      LET n     == Len(letters)
          known == \A k \in 1..n : LookupShort(letters[k]) # {}
          Of(k) == CHOOSE o \in LookupShort(letters[k]) : TRUE
          Plain(m) == [k \in 1..m |-> [key |-> Of(k).key, arg |-> ""]]
      IN IF ~known \/ \E k \in 1..(n - 1) : Of(k).arg THEN Malformed
         ELSE IF Of(n).arg THEN Plain(n - 1) \o Takes(Of(n), i, afterNext)
         ELSE Plain(n) \o next

    from[i \in 1..(Len(argv) + 2)] ==
      IF i > Len(argv) THEN <<>>
      ELSE LET word == argv[i] IN
        CASE word[1] = "--"    -> AfterDashes(argv, i)
          [] word[1] = "-"     -> RestArg("-") \o from[i + 1]
          [] word[1] = "plain" -> RestArg(word[2]) \o from[i + 1]
          [] word[1] = "short" -> Chain(word[2], i, from[i + 1], from[i + 2])
          [] OTHER ->
               IF LookupLong(word[2]) = {} THEN Malformed
               ELSE LET o == CHOOSE o \in LookupLong(word[2]) : TRUE
                    IN IF ~o.arg THEN Parsed(o.key, "") \o from[i + 1]
                       ELSE IF word[1] = "long=" THEN Parsed(o.key, word[3]) \o from[i + 1]
                       ELSE Takes(o, i, from[i + 2])
  IN from[1]

WellFormed(options) == \A k \in DOMAIN options : options[k].key # "malformed"
=============================================================================
