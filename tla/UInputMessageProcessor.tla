----------------------- MODULE UInputMessageProcessor -----------------------
(***************************************************************************)
(* From a controller's message to pressed keys: the thread of a slot        *)
(* (controller_thread.cpp), its message processor with the configuration    *)
(* toggle (uinput_message_processor.cpp), the button half of a              *)
(* configuration with its shift buttons (uinput_config.cpp, button_map.cpp) *)
(* and the collectors that merge the emitters bound to one key              *)
(* (ui_key_event_emitter.cpp, ui_key_event_collector.cpp).                  *)
(*                                                                         *)
(* One step per call of UInputConfig::send_button: the events leave in the  *)
(* order of those calls, and the invariants hold between any two of them.   *)
(* Axes are in UInputAxes; button filters, hold thresholds, cycles and      *)
(* macros are not in this module: every bound event is a plain key button.  *)
(***************************************************************************)
EXTENDS Integers, Sequences, FiniteSets, FiniteSetsExt, Functions, ShiftButtons

CONSTANTS
  NumConfigs,   \* configurations of the controller slot
  Bound,        \* per configuration the <<shift, button>> pairs with an event
  Keys,         \* keys of the virtual devices
  KeysOf,       \* per configuration and bound pair, the keys of its event
  Toggle,       \* m_config_toggle_button
  ButtonsOf,    \* per type the buttons its send() passes on, in order
  PadTypes,     \* types of the controllers that get connected
  Modified,     \* per configuration what its modifiers make of the buttons
  Wireless,     \* controllers can send the neutral message of status 0x00
  DBus          \* somebody uses the D-Bus method SetConfig

Configs == 0..(NumConfigs - 1)
Layers  == Buttons \cup {Unknown}

(* memset() yields an XboxMsg. *)
BlankType == "XBOX"

ASSUME SizesAssumption ==
  NumConfigs \in Nat \ {0} /\ NumButtons \in Nat \ {0} /\ Toggle \in Layers
ASSUME BindingsAssumption ==
  /\ Bound \in [Configs -> SUBSET (Layers \X Buttons)]
  /\ \A c \in Configs : KeysOf[c] \in [Bound[c] -> SUBSET Keys]
  /\ \A c \in Configs, b \in Buttons : <<b, b>> \notin Bound[c]
ASSUME MessagesAssumption ==
  /\ {ResetType, BlankType} \subseteq Types /\ PadTypes \subseteq Types
  /\ ButtonsOf \in [Types -> Seq(Buttons)]
  /\ \A type \in Types : Range(ButtonsOf[type]) \subseteq Range(ButtonsOf[ResetType])
  /\ Modified \in [Configs -> [SUBSET Buttons -> SUBSET Buttons]]
  /\ Wireless \in BOOLEAN /\ DBus \in BOOLEAN

VARIABLES
  pad,          \* message type of the connected controller
  oldrealmsg,   \* ControllerThread::m_oldrealmsg
  heard,        \* this thread has been given a message
  oldmsg,       \* UInputMessageProcessor::m_oldmsg
  current,      \* ControllerSlotConfig::m_current_config
  calls,        \* the calls of send_button still to be made, in order
  held,         \* per configuration the buttons with button_state set
  down,         \* emitters with m_value 1, as <<configuration, shift, button>>
  value,        \* per key the m_value of its collector
  mixed         \* history: messages came in several types, or SetConfig came

thread == <<pad, oldrealmsg, heard>>
outputs == <<held, down, value>>
vars == <<thread, oldmsg, current, calls, outputs, mixed>>

(* Real messages carry a length, a zeroed one does not. *)
Messages == [type : Types, length : {0, 20}, held : SUBSET Buttons]
Blank == [type |-> BlankType, length |-> 0, held |-> {}]
Call == [config : Configs, button : Buttons, pressed : BOOLEAN]

Init ==
  /\ pad \in PadTypes
  /\ oldrealmsg = Blank /\ heard = FALSE
  /\ oldmsg = Blank
  /\ current = 0
  /\ calls = <<>>
  /\ held = [c \in Configs |-> {}]
  /\ down = {}
  /\ value = [k \in Keys |-> 0]
  /\ mixed = FALSE

-----------------------------------------------------------------------------
(* UInputMessageProcessor::send. The toggle button is looked up in the new  *)
(* message before, and in the old message after, the modifiers changed it.  *)
Sends(c, type, buttons) ==
  [i \in 1..Len(ButtonsOf[type]) |->
     [config |-> c, button |-> ButtonsOf[type][i],
      pressed |-> ButtonsOf[type][i] \in buttons]]

(* Not the code: the level of the toggle button counts, not its edge. *)
TogglesWhileHeld(msg) == Toggle # Unknown /\ Toggle \in msg.held

Toggles(msg) ==
  Toggle # Unknown /\ Toggle \in msg.held /\ Toggle \notin oldmsg.held

NextConfig == (current + 1) % NumConfigs

(* Not the code: the reset sends an XboxMsg, or nothing. *)
ResetAllOutputsXbox(c) == Sends(c, BlankType, {})
ResetAllOutputsNone(c) == <<>>

ResetAllOutputs(c) == Sends(c, ResetType, {})

Send(raw) ==
  LET config == IF Toggles(raw) THEN NextConfig ELSE current
      msg    == [raw EXCEPT !.held = Modified[config][raw.held]]
      reset  == IF Toggles(raw) THEN ResetAllOutputs(current) ELSE <<>>
  IN  /\ current' = config
      /\ oldmsg' = msg
      /\ calls' = reset \o (IF msg # oldmsg
                            THEN Sends(config, msg.type, msg.held) ELSE <<>>)

Idle == calls = <<>>

(* ControllerThread::on_message, for a report of the controller ... *)
OnMessage(buttons) ==
  LET msg == [type |-> pad, length |-> 20, held |-> buttons]
  IN  /\ Idle
      /\ oldrealmsg' = msg /\ heard' = TRUE
      /\ Send(msg)
      /\ UNCHANGED <<pad, outputs, mixed>>

(* ... and for the neutral message of a wireless pad that switched off. *)
OnSwitchedOff ==
  /\ Idle /\ Wireless
  /\ oldrealmsg' = Blank /\ heard' = TRUE
  /\ Send(Blank)
  /\ mixed' = TRUE
  /\ UNCHANGED <<pad, outputs>>

(* ControllerThread::on_timeout sends the last message again. *)
OnTimeout ==
  /\ Idle
  /\ Send(oldrealmsg)
  /\ UNCHANGED <<thread, outputs, mixed>>

(* The slot's controller goes, with the thread and its message processor;   *)
(* the next one finds the slot's configurations as they were left.          *)
Reconnect(type) ==
  /\ Idle
  /\ pad' = type
  /\ mixed' = (mixed \/ type # pad)
  /\ oldrealmsg' = Blank /\ heard' = FALSE
  /\ oldmsg' = Blank
  /\ UNCHANGED <<current, calls, outputs>>

(* D-Bus: SetConfig. *)
SetConfig(c) ==
  /\ Idle /\ DBus
  /\ current' = c
  /\ mixed' = TRUE
  /\ UNCHANGED <<thread, oldmsg, calls, outputs>>

-----------------------------------------------------------------------------
(* UInputConfig::send_button. *)
(* The held shift buttons that give button b another event. *)
Shifts(c, b, buttons) == {s \in buttons : <<s, b>> \in Bound[c]}

(* The layer the event of button b is taken from. *)
Layer(c, b, buttons) ==
  IF Shifts(c, b, buttons) = {} THEN Unknown ELSE Min(Shifts(c, b, buttons))

(* Not the code: no loop that clears. *)
ClearedNone(c, b, buttons) == {}

(* The first loop: every event of a held button that b shifts is released. *)
Cleared(c, b, buttons) ==
  {e \in {c} \X Layers \X Buttons :
     /\ <<e[2], e[3]>> \in Bound[c]
     /\ e[3] \in buttons
     /\ <<b, e[3]>> \in Bound[c]}

(* ButtonMap::send of the selected event, if the button is bound at all. *)
Selected(c, b, buttons) ==
  LET layer == Layer(c, b, buttons)
  IN  IF <<layer, b>> \in Bound[c] THEN {<<c, layer, b>>} ELSE {}

(* Emitters drop what does not change their value; the others count their   *)
(* press in, or their release out of, the collector of each of their keys.  *)
Emit(released, pressed) ==
  LET changed(events, k) ==
        Cardinality({e \in events : k \in KeysOf[e[1]][<<e[2], e[3]>>]})
  IN  /\ down' = (down \ released) \cup pressed
      /\ value' = [k \in Keys |-> value[k] + changed(pressed \ (down \ released), k)
                                           - changed(released \cap down, k)]

SendButton ==
  /\ calls # <<>>
  /\ calls' = Tail(calls)
  /\ LET call == Head(calls)
         c == call.config
         b == call.button
         buttons == IF call.pressed THEN held[c] \cup {b} ELSE held[c] \ {b}
     IN  IF buttons = held[c]
         THEN UNCHANGED outputs
         ELSE /\ held' = [held EXCEPT ![c] = buttons]
              /\ IF call.pressed
                 THEN Emit(Cleared(c, b, buttons), Selected(c, b, buttons))
                 ELSE Emit(Cleared(c, b, buttons) \cup Selected(c, b, buttons), {})
  /\ UNCHANGED <<thread, oldmsg, current, mixed>>

Next ==
  \/ \E buttons \in SUBSET Range(ButtonsOf[pad]) : OnMessage(buttons)
  \/ OnSwitchedOff
  \/ OnTimeout
  \/ \E type \in PadTypes : Reconnect(type)
  \/ \E c \in Configs : SetConfig(c)
  \/ SendButton

Spec == Init /\ [][Next]_vars

-----------------------------------------------------------------------------
(* A pressed event is always the one send_button would choose now: its      *)
(* button is held, its shift button is held and is the first held one that  *)
(* shifts the button, and an unshifted event is pressed only while no such  *)
(* shift is held. So no order of pressing and releasing shift buttons       *)
(* leaves two layers of a button pressed, or one that its release misses.   *)
PressedIsSelected ==
  \A e \in down : e[3] \in held[e[1]] /\ e \in Selected(e[1], e[3], held[e[1]])

(* When the controller reports no button held, and the report is processed, *)
(* no key is pressed: not by another configuration, nor by the slot's       *)
(* previous controller, which may have been unplugged with buttons held. As *)
(* long as all messages have the same type, and SetConfig is not used.      *)
NeutralReleasesAll ==
  ~mixed /\ Idle /\ heard /\ oldrealmsg.held = {} => \A k \in Keys : value[k] = 0

(* Under the same conditions a configuration is left with nothing pressed:  *)
(* the only one with pressed events is the current one, or one whose reset  *)
(* is not yet through.                                                      *)
OnlyCurrentPresses ==
  ~mixed => \A e \in down :
    e[1] = current \/ \E i \in 1..Len(calls) : calls[i].config = e[1]

(* Unless SetConfig changes it, the configuration changes once per press of *)
(* the toggle button: when that stays held, in reports or repeated by the   *)
(* timeout, nothing changes.                                                *)
ToggleOncePerPress ==
  [][current' # current =>
       \/ UNCHANGED <<thread, oldmsg, calls>>
       \/ Toggle \in oldrealmsg'.held /\ Toggle \notin oldrealmsg.held]_vars
=============================================================================
