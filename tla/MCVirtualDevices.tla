-------------------------- MODULE MCVirtualDevices --------------------------
(* Axes alone, a pad with two motors, and a pad with force feedback.         *)
EXTENDS VirtualDevices, TLC

Event(type, code) == [slot |-> AutoId, device |-> AutoId, type |-> type, code |-> code]
KeyAxis(slot, threshold, filters) ==
  [slot |-> slot, kind |-> "key", min |-> -3, max |-> 2, filters |-> filters,
   threshold |-> threshold,
   ui |-> (Up :> {Event("key", "KEY_UP")}) @@ (Down :> {Event("key", "KEY_DOWN")})]
RelAxis(slot, kind, code, value, repeat) ==
  [slot |-> slot, kind |-> kind, ui |-> Event("rel", code), value |-> value,
   repeat |-> repeat, min |-> -2, max |-> 2, filters |-> <<>>]
AbsAxis(slot) ==
  [slot |-> slot, kind |-> "abs", ui |-> Event("abs", "ABS_X"), min |-> -1, max |-> 1,
   filters |-> <<[kind |-> "invert"]>>]
DeadzoneOf(n) == [kind |-> "deadzone", from |-> -n, to |-> n, smooth |-> TRUE]

Binds(bound, extra_devices) ==
  [axes |-> bound, extra_devices |-> extra_devices, extra_events |-> TRUE,
   names |-> (<<1, AutoId>> :> "second pad") @@ (<<AutoId, "mouse">> :> "pointer"),
   usbids |-> <<AutoId, "mouse">> :> <<3, 1, 2, 0>>,
   ff |-> "off", features |-> {}, gain |-> FullGain]
Rumbles(kind, features) ==
  [Binds(<<>>, TRUE) EXCEPT !.ff = kind, !.features = features]

MCSetups ==
  {Binds(<<KeyAxis(0, 1, <<>>), KeyAxis(0, 2, <<DeadzoneOf(1)>>)>>, TRUE),
   Binds(<<KeyAxis(0, 2, <<[kind |-> "invert"]>>), AbsAxis(1)>>, FALSE),
   Binds(<<RelAxis(0, "rel", "REL_X", <<3, 2>>, 2), RelAxis(1, "rel", "REL_X", <<-1, 1>>, 1)>>, TRUE),
   Binds(<<RelAxis(0, "rel", "REL_Y", <<3, 1>>, -1), RelAxis(0, "rel-repeat", "REL_WHEEL", <<1, 1>>, 3)>>, FALSE),
   Rumbles("emulated", {}),
   Rumbles("native", {"rumble", "constant", "gain"}),
   Rumbles("native", {"rumble"})}

Effect(type, delay, length, strong, weak) ==
  [type |-> type, delay |-> delay, length |-> length, envelope |-> NoEnvelope,
   start |-> [strong |-> strong, weak |-> weak], end |-> [strong |-> strong, weak |-> weak]]
MCEffects ==
  {Effect("rumble", 0, 2, 9, 3), Effect("rumble", 1, 0, 4, 6),
   Effect("constant", 0, 2, 0, 0)}
=============================================================================
