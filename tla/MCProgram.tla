------------------------------- MODULE MCProgram -------------------------------
(* Small instances of Program: four devices, four configuration files that  *)
(* include each other, and command lines of up to three options.            *)
EXTENDS Program

Q == Quote
NL == "NL"

\* examples/mouse.xboxdrv, with one line of each of its sections.
MCMouse ==
  <<"#", " ", "Mouse", NL, "[", "xboxdrv", "]", NL, "ui-clear", "=", "true", NL,
    "[", "ui-axismap", "]", NL, "x1^dead", " ", "=", " ", "REL_X", NL,
    "[", "ui-buttonmap", "]", NL, "a", "=", "BTN_LEFT", NL, "#", "EOF">>
MCFiles ==
  [main |-> <<"[", "xboxdrv", "]", "#", NL, "alt-config", "=", Q, "pad", Q, NL,
              "next", "=", "true", NL, "led", " ", "=", " ", "5", " ", "#", " ", "why", NL,
              "[", "ui-buttonmap", "]", NL, "lb+a", "=", "macro", NL>>,
   pad |-> <<" ", "[", "ui-buttonmap", "]", NL, "a", "=", "macro", NL, "a^auto", "=", NL,
             "[", "xboxdrv", "]", NL, "mouse", "=", "true", NL, "timeout", "=", "soon">>,
   slots |-> <<"[", "controller1/config0/buttonmap", "]", NL, "a", "=", "b", NL,
               "[", "controller1/config2/ui-axismap", "]", NL, "z", "=", "ABS_Z", NL,
               "[", "xboxdrv-daemon", "]", NL, "detach", "=", "yes", NL, "dbus", "=", "off", NL,
               "[", "evdev-absmap", "]", NL, "ABS_X+", "=", "x1", NL>>,
   wrong |-> <<"[", "calibration", "]", NL, "x1", "=", "0:5:9", NL,
               "[", "controller0/config0/calibration", "]", NL, "x1", "=", "0:5:9", NL>>]
MCDir == [main |-> "etc", pad |-> "home", slots |-> "etc", wrong |-> "etc"]

MCNumerals == [n \in {"0", "1", "5", "9", "256", "-90", "045e", "028e", "7"} |->
                 CASE n = "0" -> 0 [] n = "1" -> 1 [] n = "5" -> 5 [] n = "9" -> 9 [] n = "7" -> 7
                   [] n = "256" -> 256 [] n = "-90" -> -90 [] n = "045e" -> 1118 [] n = "028e" -> 654]
MCPercentages == [p \in {"50%"} |-> 50]
MCPairs ==
  [t \in {"5,256", "lb+a=BTN_LEFT,a=void", "a=5", "vid=7,pid=9,ep=1", "vendor=045e,product=028e",
          "usbid=045e:028e,usbpath=1:5", "config=pad", "deadzone=50%", "joystick=Pad",
          "joystick=7:9", "ABS_X+=x1,ABS_Y=y1", "KEY_A=a", "x1=0:5:9", "rotate=90"} |->
     CASE t = "5,256" -> <<<<"5", "">>, <<"256", "">>>>
       [] t = "lb+a=BTN_LEFT,a=void" -> <<<<"lb+a", "BTN_LEFT">>, <<"a", "void">>>>
       [] t = "a=5" -> <<<<"a", "5">>>>
       [] t = "vid=7,pid=9,ep=1" -> <<<<"vid", "7">>, <<"pid", "9">>, <<"ep", "1">>>>
       [] t = "vendor=045e,product=028e" -> <<<<"vendor", "045e">>, <<"product", "028e">>>>
       [] t = "usbid=045e:028e,usbpath=1:5" -> <<<<"usbid", "045e:028e">>, <<"usbpath", "1:5">>>>
       [] t = "config=pad" -> <<<<"config", "pad">>>>
       [] t = "deadzone=50%" -> <<<<"deadzone", "50%">>>>
       [] t = "joystick=Pad" -> <<<<"joystick", "Pad">>>>
       [] t = "joystick=7:9" -> <<<<"joystick", "7:9">>>>
       [] t = "ABS_X+=x1,ABS_Y=y1" -> <<<<"ABS_X+", "x1">>, <<"ABS_Y", "y1">>>>
       [] t = "KEY_A=a" -> <<<<"KEY_A", "a">>>>
       [] t = "x1=0:5:9" -> <<<<"x1", "0:5:9">>>>
       [] t = "rotate=90" -> <<<<"rotate", "90">>>>]
MCParts ==
  [t \in {"0:5:9", "045e:028e", "1:5", "7:9", "045e:028e:110", "045e:0719:100"} |->
     CASE t = "0:5:9" -> <<"0", "5", "9">> [] t = "045e:028e" -> <<"045e", "028e">>
       [] t = "1:5" -> <<"1", "5">> [] t = "7:9" -> <<"7", "9">>
       [] OTHER -> <<"045e", "028e", "1">>]
MCInputs ==
  [t \in {"lb+a", "a^auto", "x1^dead"} |->
     CASE t = "lb+a"    -> [shift |-> "lb", input |-> "a", filters |-> <<>>]
       [] t = "a^auto"  -> [shift |-> "", input |-> "a", filters |-> <<"auto">>]
       [] t = "x1^dead" -> [shift |-> "", input |-> "x1", filters |-> <<"dead">>]]
MCMacros == {"macro"}
MCEventCodes == {"BTN_LEFT", "REL_X", "ABS_Z"}
MCDeviceIds == [t \in {"joystick"} |-> <<"auto", "joystick">>]
MCEvdevAxes == [t \in {"ABS_X+", "ABS_Y"} |-> IF t = "ABS_Y" THEN <<"ABS_Y", "both">> ELSE <<"ABS_X", "plus">>]
MCKeycodes == {"KEY_A"}
MCModifierTexts == {<<"rotate", "90">>}

Device(vendor, product, type, dev) ==
  [vendor |-> vendor, product |-> product, type |-> type, bus |-> 1, dev |-> dev]
MCDevices == <<Device(3, 3, "unknown", 1), Device(1118, 654, "xbox360", 5),
               Device(7, 9, "unknown", 7), Device(7, 9, "unknown", 9)>>

-----------------------------------------------------------------------------
Long(n) == <<"long", n>>
With(n, v) == <<"long=", n, v>>
Short(letters) == <<"short", letters>>
Plain(t) == <<"plain", t>>

PresetWords == {Long(n) : n \in {"mimic-xpad", "mimic-xpad-wireless", "trigger-as-button",
                  "trigger-as-zaxis", "dpad-as-button", "dpad-only", "guitar"}}
SlotWords == {Long("next-config"), Long("ui-new"), Long("next-controller"), Long("mouse"),
              With("controller-slot", "1"), With("config-slot", "5"), With("toggle", "a"),
              With("toggle", "void"), With("config", "main"), With("config", "slots"),
              With("ui-buttonmap", "lb+a=BTN_LEFT,a=void"), With("deadzone", "50%"),
              With("led", "0"), With("led", "5"), Long("force-feedback"), Long("daemon")}
RunWords == {Long("quit"), Long("no-uinput"), With("rumble", "5,256"), With("evdev", "js"),
             With("priority", "realtime"), With("type", "generic-usb"),
             With("device-by-id", "7:9"), With("id", "1"), With("device-by-path", "1:5"),
             With("generic-usb-spec", "vid=7,pid=9,ep=1"), With("wid", "1"), With("wid", "5"),
             Long("chatpad-no-init"), With("headset-dump", "file"), Long("detach")}
\* Options that only write what no other option reads.
OtherWords ==
  {Long(n) : n \in {"help", "version", "verbose", "quiet", "list-controller", "help-all",
     "help-key", "help-led", "test-rumble", "ui-clear", "four-way-restrictor", "square-axis",
     "evdev-no-grab", "no-extra-devices", "no-extra-events", "no-dbus", "chatpad", "unknown"}}
  \cup {With(e[1], e[2]) : e \in
     {<<"led", "help">>, <<"dbus", "system">>, <<"dbus", "true">>, <<"pid-file", "f">>,
      <<"match", "vendor=045e,product=028e">>, <<"match-group", "usbid=045e:028e,usbpath=1:5">>,
      <<"match", "evdev=f">>, <<"write-config", "f">>, <<"option", "config=pad">>,
      <<"option", "deadzone=50%">>, <<"ff-device", "mouse">>, <<"timeout", "5">>,
      <<"timeout", "soon">>, <<"rumble-gain", "50%">>, <<"modifier", "rotate=90">>,
      <<"autofire", "a=5">>, <<"calibration", "x1=0:5:9">>, <<"buttonmap", "a=5">>,
      <<"device-names", "joystick=Pad">>, <<"device-usbids", "joystick=7:9">>,
      <<"device-usbid", "7:9">>, <<"device-name", "Pad">>, <<"dpad-rotation", "-90">>,
      <<"deadzone-trigger", "50%">>, <<"evdev-absmap", "ABS_X+=x1,ABS_Y=y1">>,
      <<"evdev-keymap", "KEY_A=a">>, <<"rumble", "5">>, <<"config", "wrong">>,
      <<"config", "missing">>, <<"toggle", "wheel">>, <<"generic-usb-spec", "x1=0:5:9">>,
      <<"alt-config", "pad">>, <<"on-connect", "f">>}}
  \cup {Plain("game"), <<"-">>, Short(<<"d", "R">>), Short(<<"q", "l">>), Short(<<"l", "q">>)}

Words2 == PresetWords \cup SlotWords \cup RunWords
MCCommandLines ==
  {<<w>> : w \in Words2 \cup OtherWords}
  \cup {<<v, w>> : v, w \in Words2}
  \cup {<<u, v, w>> : u, v, w \in PresetWords}
  \cup {<<v, w, <<"--">>, Plain("game")>> : v \in {With("led", "5"), Long("no-uinput")}, w \in RunWords}
  \cup {<<With("type", "generic-usb"), With("device-by-id", "7:9"), With("generic-usb-spec", "vid=7,pid=9,ep=1")>>,
        <<With("toggle", "a"), With("controller-slot", "1"), With("led", "5")>>,
        <<With("config", "main"), Long("mimic-xpad"), Long("quit")>>,
        <<Long("led"), Plain("5"), Plain("game")>>, <<Long("led")>>, <<Short(<<"l">>), Plain("9")>>}
=============================================================================
