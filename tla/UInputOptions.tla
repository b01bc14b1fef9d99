----------------------------- MODULE UInputOptions -----------------------------
(***************************************************************************)
(* What a configuration sends for each button and axis, and the presets of *)
(* UInputOptions that change it.  A map takes <<shift button, input>> to   *)
(* its event; a pair that is not in its domain is bound to nothing.        *)
(***************************************************************************)
EXTENDS Naturals, Sequences

NoShift == "UNKNOWN"

\* An event made by create_key() or create_abs(): its code, the directory a
\* macro's file is looked up in, and its filters.
Sends(code) == [code |-> code, dir |-> "", filters |-> <<>>]

Unshifted(codes) ==
  [k \in {NoShift} \X DOMAIN codes |-> Sends(codes[k[2]])]

\* bind(), with one of the invalid() events that clear a binding or with others.
Unbind(map, inputs) == [k \in DOMAIN map \ ({NoShift} \X inputs) |-> map[k]]
Merged(f, g) == [k \in DOMAIN f \cup DOMAIN g |-> IF k \in DOMAIN f THEN f[k] ELSE g[k]]
Bind(map, codes)    == Merged(Unshifted(codes), map)

MenuKeys     == [START |-> "BTN_START", GUIDE |-> "BTN_MODE", BACK |-> "BTN_SELECT"]
FaceKeys     == [A |-> "BTN_A", B |-> "BTN_B", X |-> "BTN_X", Y |-> "BTN_Y"]
ShoulderKeys == [LB |-> "BTN_TL", RB |-> "BTN_TR"]
ThumbKeys    == [TL |-> "BTN_THUMBL", TR |-> "BTN_THUMBR"]
PadKeys      == Merged(Merged(MenuKeys, FaceKeys), Merged(ShoulderKeys, ThumbKeys))
StickAxes    == [X1 |-> "ABS_X", Y1 |-> "ABS_Y", X2 |-> "ABS_RX", Y2 |-> "ABS_RY"]
HatAxes      == [DPAD_X |-> "ABS_HAT0X", DPAD_Y |-> "ABS_HAT0Y"]
PadAxes      == Merged(StickAxes, HatAxes)
Pedals       == [LT |-> "ABS_BRAKE", RT |-> "ABS_GAS"]
ZAxes        == [LT |-> "ABS_Z", RT |-> "ABS_RZ"]

SetDefaults ==
  [btn  |-> Unshifted(PadKeys),
   axis |-> Unshifted(Merged(PadAxes, Pedals))]

MimicXpad ==
  [btn  |-> Unshifted(PadKeys),
   axis |-> Unshifted(Merged(PadAxes, ZAxes))]

MimicXpadWireless ==
  [btn  |-> Unshifted(Merged(PadKeys, [DU |-> "BTN_TRIGGER_HAPPY3", DD |-> "BTN_TRIGGER_HAPPY4",
                                       DL |-> "BTN_TRIGGER_HAPPY1", DR |-> "BTN_TRIGGER_HAPPY2"])),
   axis |-> Unshifted(Merged(StickAxes, ZAxes))]

Guitar ==
  [btn  |-> Unshifted(Merged(MenuKeys, [A |-> "BTN_0", B |-> "BTN_1", Y |-> "BTN_2",
                                        X |-> "BTN_3", LB |-> "BTN_4"])),
   axis |-> Unshifted(Merged([X2 |-> "ABS_X", Y2 |-> "ABS_Y"], HatAxes))]

TriggerAsButton(u) ==
  [u EXCEPT !.axis = Unbind(@, {"LT", "RT"}),
            !.btn  = Bind(@, [LT |-> "BTN_TL2", RT |-> "BTN_TR2"])]

TriggerAsZaxis(u) ==
  [u EXCEPT !.axis = Unbind(Bind(@, [TRIGGER |-> "ABS_Z"]), {"LT", "RT"})]

DpadAsButton(u) ==
  [u EXCEPT !.btn  = Bind(@, [DU |-> "BTN_BASE", DD |-> "BTN_BASE2",
                              DL |-> "BTN_BASE3", DR |-> "BTN_BASE4"]),
            !.axis = Unbind(@, {"DPAD_X", "DPAD_Y"})]

\* Not the code: the left stick stays bound.
DpadOnlyBeside(u) ==
  [u EXCEPT !.axis = Bind(Unbind(@, {"X2", "Y2"}), [DPAD_X |-> "ABS_X", DPAD_Y |-> "ABS_Y"])]

DpadOnly(u) ==
  [u EXCEPT !.axis = Bind(Unbind(@, {"X1", "Y1", "X2", "Y2"}),
                          [DPAD_X |-> "ABS_X", DPAD_Y |-> "ABS_Y"])]

ClearAll == [btn |-> <<>>, axis |-> <<>>]
=============================================================================
