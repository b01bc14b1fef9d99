----------------------------- MODULE UInputAxes -----------------------------
(***************************************************************************)
(* The axis half of a configuration (uinput_config.cpp, axis_map.cpp): an   *)
(* axis has one event per shift button and one for no shift, and send_axis  *)
(* finds out by comparing the buttons of this message with those of the     *)
(* message before whether the axis has moved from one event to another.     *)
(*                                                                         *)
(* One step per UInputConfig::send: all send_button calls come before all   *)
(* send_axis calls, so button_state is that of the message by then. Which   *)
(* axes are sent depends on the type of the message. Axis filters are not   *)
(* modelled: an event passes on the value it is sent.                       *)
(***************************************************************************)
EXTENDS Integers, FiniteSetsExt, ShiftButtons

CONSTANTS
  Axes,         \* axes of the controllers
  AxesOf,       \* per message type the axes its send() passes on
  BoundAxes,    \* <<shift, axis>> pairs with an event
  Values        \* positions of an axis, 0 at rest

NoEvent == <<>>                        \* the empty AxisEventPtr

ASSUME AxesAssumption ==
  /\ NumButtons \in Nat \ {0}
  /\ ResetType \in Types /\ AxesOf \in [Types -> SUBSET Axes]
  /\ BoundAxes \subseteq (Buttons \cup {Unknown}) \X Axes
  /\ Values \subseteq Int /\ 0 \in Values

VARIABLES
  button_state, last_button_state,
  axis_state,   \* the value each axis was last sent
  sent,         \* the value each event was last sent
  lost          \* history: why the change of an axis' event may have been missed

axes_vars == <<button_state, last_button_state, axis_state, sent, lost>>

AxesInit ==
  /\ button_state = {} /\ last_button_state = {}
  /\ axis_state = [a \in Axes |-> 0]
  /\ sent = [e \in BoundAxes |-> 0]
  /\ lost = [a \in Axes |-> {}]

-----------------------------------------------------------------------------
Unshifted(a) == IF <<Unknown, a>> \in BoundAxes THEN <<Unknown, a>> ELSE NoEvent

(* The held buttons that shift the axis. *)
ShiftsOf(a, buttons) == {s \in buttons : <<s, a>> \in BoundAxes}

(* The current event: that of the first held button that shifts the axis.   *)
CurrentEvent(a, buttons) ==
  IF ShiftsOf(a, buttons) # {} THEN <<Min(ShiftsOf(a, buttons)), a>> ELSE Unshifted(a)

(* The last event: that of the first held button, if it shifts the axis at  *)
(* all (the break is outside of the if).                                    *)
LastEvent(a, buttons) ==
  IF buttons # {} /\ <<Min(buttons), a>> \in BoundAxes
  THEN <<Min(buttons), a>>
  ELSE Unshifted(a)

(* Not the code: the last event keeps its value. *)
SentToKeepsLast(e, buttons, last, position) ==
  IF e = CurrentEvent(e[2], buttons) THEN position[e[2]] ELSE sent[e]

(* send_axis: on a change of event the last one is put to rest. *)
SentTo(e, buttons, last, position) ==
  LET a     == e[2]
      ev    == CurrentEvent(a, buttons)
      lastv == LastEvent(a, last)
  IN  CASE lastv # ev /\ e = ev     -> position[a]
        [] lastv # ev /\ e = lastv  -> 0
        [] lastv = ev /\ e = ev /\ axis_state[a] # position[a] -> position[a]
        [] OTHER                    -> sent[e]

(* For the properties, why send_axis misses that a deflected axis changes   *)
(* its event: it is not called for it, it looks no further than an ordinary *)
(* button held before the shift button, or a reset right after the message  *)
(* that changed the event takes the event before that for the last one.     *)
Reasons(a, type, last) ==
  {r \in {"unsent", "covered", "hasty"} :
     CASE r = "unsent"  -> a \notin AxesOf[type]
       [] r = "covered" -> ShiftsOf(a, last) # {} /\ <<Min(last), a>> \notin BoundAxes
       [] r = "hasty"   -> CurrentEvent(a, last) # CurrentEvent(a, button_state)}

Moves(a, buttons) ==
  axis_state[a] # 0 /\ CurrentEvent(a, button_state) # CurrentEvent(a, buttons)

SendAxes(type, buttons, last, position) ==
  /\ button_state' = buttons
  /\ sent' = [e \in BoundAxes |-> IF e[2] \in AxesOf[type]
                                  THEN SentTo(e, buttons, last, position) ELSE sent[e]]
  /\ axis_state' = [a \in Axes |-> IF a \in AxesOf[type]
                                   THEN position[a] ELSE axis_state[a]]
  /\ lost' = [a \in Axes |-> IF Moves(a, buttons)
                             THEN lost[a] \cup Reasons(a, type, last) ELSE lost[a]]

(* UInputConfig::send(XboxGenericMsg&). *)
SendGenericMsg(type, buttons, position) ==
  /\ last_button_state' = button_state
  /\ SendAxes(type, buttons, button_state, position)

(* reset_all_outputs() goes past it: last_button_state stays what it was    *)
(* before the last message, and the axes an Xbox360Msg does not have stay   *)
(* where they are.                                                          *)
ResetAxes ==
  /\ SendAxes(ResetType, {}, last_button_state, [a \in Axes |-> 0])
  /\ UNCHANGED last_button_state

AxesNext ==
  \/ \E type \in Types, buttons \in SUBSET Buttons, position \in [Axes -> Values] :
       SendGenericMsg(type, buttons, position)
  \/ ResetAxes

AxesSpec == AxesInit /\ [][AxesNext]_axes_vars

-----------------------------------------------------------------------------
(* Every variable stays in its type. *)
TypeOK ==
  /\ button_state \subseteq Buttons /\ last_button_state \subseteq Buttons
  /\ axis_state \in [Axes -> Values]
  /\ sent \in [BoundAxes -> Values]
  /\ lost \in [Axes -> SUBSET {"unsent", "covered", "hasty"}]

(* What an event should show: the position of its axis if the axis is bound *)
(* to it now, otherwise rest.                                               *)
Right(e) == IF e = CurrentEvent(e[2], button_state) THEN axis_state[e[2]] ELSE 0

(* The event an axis is bound to now shows the position of the axis, and    *)
(* every other event of the axis is at rest: no stick stays deflected on a  *)
(* virtual axis the controller no longer moves, whichever shift buttons     *)
(* were pressed and released in which messages and whenever the             *)
(* configuration was reset, unless the axis was deflected when its event    *)
(* changed for one of the three Reasons.                                    *)
NoAxisStuck == \A e \in BoundAxes : lost[e[2]] = {} => sent[e] = Right(e)

(* NEWS: "fixed axis getting stuck when using a shift key". The same of     *)
(* axes that were sent, with ordinary buttons held or not.                  *)
ShiftedAxesLetGo ==
  \A e \in BoundAxes : lost[e[2]] \subseteq {"covered"} => sent[e] = Right(e)
=============================================================================
