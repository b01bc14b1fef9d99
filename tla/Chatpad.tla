------------------------------ MODULE Chatpad ------------------------------
(***************************************************************************)
(* The keyboard that is plugged into a wired pad (chatpad.cpp). It must be   *)
(* woken by a series of control requests and kept awake by two that         *)
(* alternate, a second apart; meanwhile it reports its keys over a read      *)
(* that is submitted again and again, and its LEDs are set by further        *)
(* control requests.                                                        *)
(*                                                                         *)
(* The operators take and return the Chatpad object, [state, timers,        *)
(* controls, read, keys, down, led, lit, heard, held, lost]. controls are   *)
(* the control requests in flight, in their order; keys is m_state and down  *)
(* what the virtual keyboard has pressed. lit, heard and held are the       *)
(* chatpad's own: its LEDs, the last command that reached it, and the keys  *)
(* it reported last.                                                        *)
(***************************************************************************)
EXTENDS Integers, Sequences, SequencesExt, FiniteSets

CONSTANTS
  Mods,       \* shift, green, orange and people: keys with an LED
  Mapped,     \* scancodes in m_keymap, which maps no two to one key
  Unmapped    \* other scancodes: the event of key 0 has no effect

ASSUME KeysAssumption ==
  /\ IsFiniteSet(Mods)
  /\ Mapped \cap Unmapped = {} /\ Mods \cap (Mapped \cup Unmapped) = {}

(* m_init_state, each with the next; kStateLoop is never stayed in. *)
NextState ==
  [Init1 |-> "Init2", Init2 |-> "Init3", Init3 |-> "Init4", Init4 |-> "Init5",
   Init5 |-> "Init6", Init6 |-> "Init_1e", Init_1e |-> "Init_1f", Init_1f |-> "Init_1b",
   Init_1b |-> "KeepAlive_1e", KeepAlive_1e |-> "KeepAlive_1f",
   KeepAlive_1f |-> "KeepAlive_1e"]

MayFail == {"Init1", "Init2", "Init3"}
Timed == {"Init_1e", "Init_1f", "KeepAlive_1e", "KeepAlive_1f"}

NewChatpad(no_init) ==
  [state |-> IF no_init THEN "KeepAlive_1e" ELSE "Init1", timers |-> 0, controls |-> <<>>,
   read |-> "flight", keys |-> {}, down |-> {}, led |-> {}, lit |-> {},
   heard |-> "nothing", held |-> {}, lost |-> FALSE]

NoChatpad == [NewChatpad(TRUE) EXCEPT !.read = "freed"]

(* send_ctrl, when libusb takes the request. *)
SendCtrl(c, request) == [c EXCEPT !.controls = Append(@, request)]
Command(what) == [kind |-> "command", what |-> what]
Light(mod, on) == [kind |-> "led", mod |-> mod, on |-> on]

(* send_command: a timer, or a request named after its state.               *)
SendCommand(c) ==
  IF c.state \in Timed THEN [c EXCEPT !.timers = @ + 1] ELSE SendCtrl(c, Command(c.state))

(* Not the code: the second request of the pair is the first again. *)
OnTimeoutSame(c) == SendCtrl([c EXCEPT !.timers = @ - 1], Command("1f"))

(* on_timeout: the request is the other one than the state is named after.  *)
(* The source of the timer is gone when it returns.                         *)
OnTimeout(c) ==
  SendCtrl([c EXCEPT !.timers = @ - 1],
           Command(IF c.state \in {"Init_1e", "KeepAlive_1e"} THEN "1f" ELSE "1e"))

-----------------------------------------------------------------------------
(* on_control: a request that fails after the third ends the conversation.  *)
Advances(c, ok) == ok \/ c.state \in MayFail
Received(c, request, ok) ==
  CASE ~ok -> c
    [] ok /\ request.kind = "command" -> [c EXCEPT !.heard = request.what]
    [] ok /\ request.kind = "led" ->
         [c EXCEPT !.lit = IF request.on THEN @ \cup {request.mod} ELSE @ \ {request.mod}]

Answered(c, ok) == Received([c EXCEPT !.controls = Tail(@)], Head(c.controls), ok)

(* The LED requests have no callback. *)
OnControl(c, ok) ==
  LET after == Answered(c, ok)
  IN  CASE Head(c.controls).kind = "led" -> [after EXCEPT !.lost = @ \/ ~ok]
        [] Head(c.controls).kind = "command" /\ Advances(c, ok) ->
             SendCommand([after EXCEPT !.state = NextState[@]])
        [] OTHER -> [after EXCEPT !.lost = TRUE]

(* Whether on_control and process submit something, which may throw.        *)
ControlSubmits(c, ok) ==
  /\ Head(c.controls).kind = "command" /\ Advances(c, ok)
  /\ NextState[c.state] \notin Timed

-----------------------------------------------------------------------------
(* process: what a report has more than the last one is pressed, and        *)
(* pressing one of the four toggles its LED.                                *)
Changed(old, new) == (old \ new) \cup (new \ old)

(* Not the code: the last report's keys are kept. *)
StateKept(c, report) == c.keys \cup report

StateOf(c, report) == report

Process(c, report) ==
  LET state == StateOf(c, report)
      hit   == SetToSeq((state \ c.keys) \cap Mods)
      light == [i \in DOMAIN hit |-> Light(hit[i], hit[i] \notin c.led)]
      moved == Changed(c.keys, state) \ Unmapped
  IN  [c EXCEPT !.keys = state, !.held = report, !.led = Changed(@, ToSet(hit)),
                !.controls = @ \o light,
                !.down = (@ \ moved) \cup (moved \cap state)]

ProcessSubmits(c, report) == (report \ c.keys) \cap Mods # {}
=============================================================================
