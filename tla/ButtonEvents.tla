---------------------------- MODULE ButtonEvents ----------------------------
(***************************************************************************)
(* The button events of one configuration over time: the filters of an      *)
(* event (buttonfilter/), the handlers for keys with a hold threshold,      *)
(* cycles of keys, macros and relative repetition (buttonevent/), and the    *)
(* virtual keys and repetitions they leave behind (uinput.cpp).              *)
(*                                                                         *)
(* The message processor updates every event with the milliseconds that     *)
(* passed, once per message or timeout, and then sends the buttons that     *)
(* changed. Which event a button has, with its shift buttons, is decided in  *)
(* UInputMessageProcessor; here a press and a release reach the event. One  *)
(* step per call of ButtonEvent::update or ButtonEvent::send.               *)
(*                                                                         *)
(* The emitters of one UIEventSequence are always sent together and are one *)
(* group here. Time is cut to whole milliseconds by the controller thread,  *)
(* so an update may be told that none passed.                               *)
(***************************************************************************)
EXTENDS ButtonFilters, FiniteSets

CONSTANTS
  NumEvents,    \* the button events, numbered in the order ButtonMap updates them
  Setups,       \* the sets of events a configuration may bind together
  Filters,      \* per event its m_filters
  Handler,      \* per event its m_handler
  Cycles,       \* the sequences of cycle-key, by name
  Cycle,        \* per name [length, wrap]
  KeysOf,       \* per group of emitters the keys it presses
  Keys,         \* keys of the virtual devices
  RelCodes,     \* relative axes
  Deltas        \* milliseconds between two messages

Events == 1..NumEvents
None == 0

ASSUME NumEventsAssumption == NumEvents \in Nat /\ Setups \subseteq SUBSET Events
ASSUME DeltasAssumption == Deltas \subseteq Nat
ASSUME FiltersAssumption ==
  Filters \in [Events -> Seq([kind : FilterKinds, rate : 0..(MaxTime - 1),
                              delay : 0..(MaxTime - 1)])]
ASSUME HandlersAssumption ==
  \A e \in Events :
    LET h == Handler[e]
    IN  \/ h.kind = "key" /\ h.threshold \in Nat
        \/ /\ h.kind = "cycle" /\ h.cycle \in Cycles /\ h.press \in BOOLEAN
           /\ h.direction \in {"forward", "backward", "none"}
        \/ /\ h.kind = "macro" /\ h.events \in Seq(Range(h.events)) \ {<<>>}
           /\ \A ev \in Range(h.events) : ev.op = "send" \/ (ev.op = "wait" /\ ev.msec \in Int)
        \/ h.kind = "rel" /\ h.code \in RelCodes /\ h.repeats \in BOOLEAN
ASSUME CyclesAssumption ==
  \A s \in Cycles : Cycle[s].length \in Nat \ {0} /\ Cycle[s].wrap \in BOOLEAN
ASSUME GroupsAssumption == Cycles \cap {"codes", "secondary"} = {}

VARIABLES
  bound,        \* the events of the configuration
  active,       \* the configuration is the current one of its slot
  calls,        \* the calls on events still to be made, in order
  raw,          \* per event m_last_raw_state
  sent,         \* per event m_last_send_state; a key handler's m_state equals it
  filters,      \* per event the states of its filters
  hold,         \* per event m_hold_counter
  cycle,        \* per name m_current_key and m_last_key
  macro,        \* per event m_send_in_progress, m_event_counter, m_countdown
  repeating,    \* per relative axis the event in m_rel_repeat_lst
  down,         \* groups whose emitters have value 1
  pressed,      \* keys pressed on the virtual devices
  spent,        \* events released in this message: they are not pressed in it
  overlapped    \* history: two events that share a cycle or axis were on at once

outputs  == <<down, pressed>>
handlers == <<hold, cycle, macro, repeating, outputs>>
event    == <<raw, sent, filters, handlers>>
vars == <<bound, active, calls, event, spent, overlapped>>

Groups == DOMAIN KeysOf
Rest == [running |-> FALSE, next |-> 1, countdown |-> 0]

Init ==
  /\ bound \in Setups
  /\ active = TRUE /\ calls = <<>>
  /\ raw = [e \in Events |-> FALSE] /\ sent = [e \in Events |-> FALSE]
  /\ filters = [e \in Events |-> [i \in DOMAIN Filters[e] |-> NewFilter]]
  /\ hold = [e \in Events |-> 0]
  /\ cycle = [s \in Cycles |-> [current |-> 0, last |-> 0]]
  /\ macro = [e \in Events |-> Rest]
  /\ repeating = [c \in RelCodes |-> None]
  /\ down = {} /\ pressed = {}
  /\ spent = bound
  /\ overlapped = FALSE

-----------------------------------------------------------------------------
(* Emitters and collectors: a key goes down with the first group that       *)
(* presses it and up with the last.                                         *)
Holders(k) == {g \in down : k \in KeysOf[g]}

Press(g) ==
  /\ down' = down \cup {g}
  /\ pressed' = pressed \cup {k \in KeysOf[g] : Holders(k) = {}}

Lift(g) ==
  /\ down' = down \ {g}
  /\ pressed' = pressed \ {k \in KeysOf[g] : Holders(k) = {g}}

Emit(g, v) == IF v THEN Press(g) ELSE Lift(g)

(* Not the code: the click has no release. *)
ClickPresses(g) == Press(g)

(* A press and a release at once; no other group of the event is down. *)
Click(g) ==
  /\ pressed' = pressed \ {k \in KeysOf[g] : Holders(k) = {}}
  /\ UNCHANGED down

(* KeyButtonEventHandler::send. *)
KeySend(e, v) ==
  LET threshold == Handler[e].threshold
  IN  /\ Handler[e].kind = "key"
      /\ hold' = [hold EXCEPT ![e] = IF v THEN @ ELSE 0]
      /\ \/ threshold = 0 /\ Emit(<<"codes", e>>, v)
         \/ threshold > 0 /\ v /\ UNCHANGED outputs
         \/ threshold > 0 /\ ~v /\ hold[e] < threshold /\ Click(<<"codes", e>>)
         \/ threshold > 0 /\ ~v /\ hold[e] >= threshold /\ Lift(<<"secondary", e>>)
      /\ UNCHANGED <<cycle, macro, repeating>>

(* KeyButtonEventHandler::update. *)
KeyUpdate(e, d) ==
  LET counts == sent[e] /\ hold[e] < Handler[e].threshold
  IN  /\ Handler[e].kind = "key"
      /\ hold' = [hold EXCEPT ![e] = IF counts THEN @ + d ELSE @]
      /\ IF counts /\ hold[e] + d >= Handler[e].threshold
         THEN Press(<<"secondary", e>>) ELSE UNCHANGED outputs
      /\ UNCHANGED <<cycle, macro, repeating>>

(* CycleKeySequence::next_key and prev_key: from the current key or, if     *)
(* none is set, from the last one sent.                                     *)
Unset == -1

Cursor(s) == IF cycle[s].current = Unset THEN cycle[s].last ELSE cycle[s].current

Moved(s, direction) ==
  LET last == Cycle[s].length - 1
      key  == Cursor(s)
  IN  CASE direction = "forward" /\ key < last -> key + 1
        [] direction = "forward" /\ key = last -> IF Cycle[s].wrap THEN 0 ELSE last
        [] direction = "backward" /\ key > 0 -> key - 1
        [] direction = "backward" /\ key = 0 -> IF Cycle[s].wrap THEN last ELSE 0
        [] direction = "none" -> cycle[s].current

(* Not the code: the key sent last is not noted. *)
SentKeepsLast(s, key) == [current |-> Unset, last |-> cycle[s].last]

(* CycleKeySequence::send: the key is noted and the cursor unset. *)
Sent(s, key) == [current |-> Unset, last |-> key]

(* CycleKeyButtonEventHandler::send. A button that sends does not move the  *)
(* cursor another one has set.                                              *)
CycleSend(e, v) ==
  LET s == Handler[e].cycle
      stays   == ~v \/ (Handler[e].press /\ cycle[s].current # Unset)
      current == IF stays THEN cycle[s].current ELSE Moved(s, Handler[e].direction)
      key     == IF current = Unset THEN cycle[s].last ELSE current
  IN  /\ Handler[e].kind = "cycle"
      /\ IF Handler[e].press
         THEN Emit(<<s, key>>, v) /\ cycle' = [cycle EXCEPT ![s] = Sent(s, key)]
         ELSE cycle' = [cycle EXCEPT ![s].current = current] /\ UNCHANGED outputs
      /\ UNCHANGED <<hold, macro, repeating>>

(* Not the code: a press starts the macro again at any time. *)
StartsAlways(e, v) == v

(* A press starts the macro unless it is in progress. *)
Starts(e, v) == v /\ ~macro[e].running

(* MacroButtonEventHandler::send. *)
MacroSend(e, v) ==
  /\ Handler[e].kind = "macro"
  /\ macro' = IF Starts(e, v)
              THEN [macro EXCEPT ![e] = [Rest EXCEPT !.running = TRUE]] ELSE macro
  /\ UNCHANGED <<hold, cycle, repeating, outputs>>

(* The keys that are pressed once the events in I of a macro are sent. Sent  *)
(* to the device itself, past the collectors.                               *)
Played(e, I) ==
  LET last(k) == LET of == {i \in I : Handler[e].events[i].op = "send"
                                      /\ Handler[e].events[i].key = k}
                 IN  IF of = {} THEN k \in pressed
                     ELSE Handler[e].events[Max(of)].value = 1
  IN  {k \in Keys : last(k)}

(* The macro is through, whatever its last event is. *)
Finished(e, waits) == waits = {} \/ Min(waits) = Len(Handler[e].events)

Remains(m, d) == m.countdown - d

(* MacroButtonEventHandler::update: all events up to the next real wait. *)
MacroUpdate(e, d) ==
  LET m     == macro[e]
      last  == Len(Handler[e].events)
      waits == {i \in m.next..last : /\ Handler[e].events[i].op = "wait"
                                     /\ Handler[e].events[i].msec > 0}
      runs  == m.running /\ Remains(m, d) <= 0
      step  == CASE ~m.running -> m
                 [] m.running /\ ~runs -> [m EXCEPT !.countdown = Remains(m, d)]
                 [] runs /\ Finished(e, waits) -> Rest
                 [] OTHER -> [m EXCEPT !.next = Min(waits) + 1,
                                !.countdown = Handler[e].events[Min(waits)].msec]
  IN  /\ Handler[e].kind = "macro"
      /\ macro' = [macro EXCEPT ![e] = step]
      /\ pressed' = IF ~runs THEN pressed
                    ELSE Played(e, m.next..(IF waits = {} THEN last ELSE Min(waits)))
      /\ UNCHANGED <<hold, cycle, repeating, down>>

(* Not the code: the release stops nothing. *)
RepeatsOn(e, v) == e

(* UInput::send_rel_repetitive keeps one entry per axis: a press takes it   *)
(* over, a release erases it.                                               *)
Repeats(e, v) == IF v THEN e ELSE None

(* RelButtonEventHandler::send; without repetition it sends an event only.  *)
RelSend(e, v) ==
  /\ Handler[e].kind = "rel"
  /\ repeating' = IF Handler[e].repeats
                  THEN [repeating EXCEPT ![Handler[e].code] = Repeats(e, v)]
                  ELSE repeating
  /\ UNCHANGED <<hold, cycle, macro, outputs>>

-----------------------------------------------------------------------------
(* Two events that use the same sequence or relative axis. *)
Share(e, f) ==
  \/ /\ Handler[e].kind = "cycle" /\ Handler[f].kind = "cycle"
     /\ Handler[e].cycle = Handler[f].cycle
  \/ /\ Handler[e].kind = "rel" /\ Handler[f].kind = "rel"
     /\ Handler[e].code = Handler[f].code

HandlerSend(e, v) ==
  KeySend(e, v) \/ CycleSend(e, v) \/ MacroSend(e, v) \/ RelSend(e, v)

(* ButtonEvent::send. *)
Send(e, v) ==
  LET state == Filtered(Filters[e], filters[e], v)[Len(Filters[e])]
  IN  /\ raw' = [raw EXCEPT ![e] = v]
      /\ filters' = [filters EXCEPT ![e] = FiltersAfter(Filters[e], @, v)]
      /\ sent' = [sent EXCEPT ![e] = state]
      /\ IF state = sent[e] THEN UNCHANGED handlers ELSE HandlerSend(e, state)
      /\ overlapped' =
           (overlapped \/ \E f \in bound \ {e} : state /\ sent[f] /\ Share(e, f))

(* A call of op for each event of E, in the order of ButtonMap.             *)
CallsFor(op, d, E) ==
  LET due[n \in 0..NumEvents] ==
        IF n = 0 THEN <<>>
        ELSE IF n \in E THEN Append(due[n - 1], [op |-> op, event |-> n, delta |-> d])
        ELSE due[n - 1]
  IN  due[NumEvents]

Idle == calls = <<>>

(* UInputConfig::update, at the start of each message and timeout. *)
Update(d) ==
  /\ Idle /\ active
  /\ calls' = CallsFor("update", d, bound)
  /\ spent' = {}
  /\ UNCHANGED <<bound, active, event, overlapped>>

(* A button goes down, and with it its event ... *)
ButtonDown(e) ==
  /\ Idle /\ active /\ e \in bound \ spent /\ ~raw[e]
  /\ Send(e, TRUE)
  /\ UNCHANGED <<bound, active, calls, spent>>

(* ... or goes up. An event is also released, pressed or not, when a shift  *)
(* button changes under its button.                                         *)
ButtonUp(e) ==
  /\ Idle /\ active /\ e \in bound
  /\ Send(e, FALSE)
  /\ spent' = spent \cup {e}
  /\ UNCHANGED <<bound, active, calls>>

(* reset_all_outputs releases the events that are held. *)
Reset(e) == raw[e]

(* Another configuration becomes the current one, and this one again. *)
Leave ==
  /\ Idle /\ active
  /\ active' = FALSE
  /\ calls' = CallsFor("release", 0, {e \in bound : Reset(e)})
  /\ spent' = bound
  /\ UNCHANGED <<bound, event, overlapped>>

Return ==
  /\ Idle /\ ~active
  /\ active' = TRUE
  /\ UNCHANGED <<bound, calls, event, spent, overlapped>>

(* ButtonEvent::update: the filters, the handler, and the last state again. *)
UpdateEvent(e, d) ==
  /\ filters' = [filters EXCEPT ![e] = UpdatedFilters(Filters[e], @, d)]
  /\ \/ KeyUpdate(e, d)
     \/ MacroUpdate(e, d)
     \/ Handler[e].kind \in {"cycle", "rel"} /\ UNCHANGED handlers
  /\ calls' = <<[op |-> "resend", event |-> e, delta |-> 0]>> \o Tail(calls)
  /\ UNCHANGED <<bound, active, raw, sent, spent, overlapped>>

Perform ==
  /\ ~Idle
  /\ LET call == Head(calls)
     IN  \/ call.op = "update" /\ UpdateEvent(call.event, call.delta)
         \/ /\ call.op \in {"resend", "release"}
            /\ Send(call.event, call.op = "resend" /\ raw[call.event])
            /\ calls' = Tail(calls)
            /\ UNCHANGED <<bound, active, spent>>

Next ==
  \/ \E d \in Deltas : Update(d)
  \/ \E e \in Events : ButtonDown(e) \/ ButtonUp(e)
  \/ Leave \/ Return
  \/ Perform

(* The timeout of the controller thread recurs, and time is not always cut  *)
(* to zero: an update with a positive delta happens again and again.        *)
Fairness ==
  /\ WF_vars(Perform)
  /\ SF_vars(\E d \in Deltas \ {0} : Update(d))

Spec == Init /\ [][Next]_vars /\ Fairness

-----------------------------------------------------------------------------
Kinds(e) == {Filters[e][i].kind : i \in DOMAIN Filters[e]}
(* Events that are off when their button is up: no toggle, no inversion and *)
(* one click at most, since two delay each other by another update.         *)
Momentary(e) ==
  /\ Kinds(e) \subseteq {"autofire", "delay"} \cup Clicks
  /\ Cardinality({i \in DOMAIN Filters[e] : Filters[e][i].kind \in Clicks}) <= 1

(* The button is up, and an update has gone by since.                       *)
Quiet(e) ==
  ~raw[e] /\ e \notin spent /\ \A i \in DOMAIN calls : calls[i].event # e

(* A key button holds its first keys, or with a hold threshold its second   *)
(* ones once it is reached, exactly as long as it is on: a click leaves     *)
(* nothing, and the second keys are never missed by the release, however    *)
(* the updates fall.                                                        *)
KeysFollowState ==
  \A e \in Events : Handler[e].kind = "key" =>
    LET threshold == Handler[e].threshold
    IN  /\ <<"codes", e>> \in down <=> sent[e] /\ threshold = 0
        /\ <<"secondary", e>> \in down <=>
             sent[e] /\ threshold > 0 /\ hold[e] >= threshold

(* As long as no two buttons that share a sequence or a relative axis are   *)
(* on together: exactly the button that is on holds a key of the sequence,  *)
(* the one sent last, and exactly it is repeated.                           *)
SharedFollowState ==
  ~overlapped =>
    /\ \A s \in Cycles :
         {i \in 0..(Cycle[s].length - 1) : <<s, i>> \in down} =
           {cycle[s].last : e \in {x \in bound : /\ Handler[x].kind = "cycle"
                                                 /\ Handler[x].cycle = s
                                                 /\ Handler[x].press /\ sent[x]}}
    /\ \A c \in RelCodes :
         {repeating[c]} \ {None} =
           {e \in bound : /\ Handler[e].kind = "rel" /\ Handler[e].code = c
                          /\ Handler[e].repeats /\ sent[e]}

(* When every button is up, one update later and with no macro running, no  *)
(* key is pressed and no axis moves, whatever filters, thresholds, cycles   *)
(* and macros went through before (macros that release what they press).    *)
LetGoReleasesAll ==
  /\ ~overlapped
  /\ \A e \in bound : Momentary(e) /\ Quiet(e) /\ ~macro[e].running
  => pressed = {} /\ \A c \in RelCodes : repeating[c] = None

(* An autofire whose rate leaves room for an update between two shots. *)
Shoots(e) ==
  /\ Kinds(e) = {"autofire"} /\ Len(Filters[e]) = 1
  /\ \A d \in Deltas : Filters[e][1].delay + d <= Filters[e][1].rate

(* A held button with a delay fires at last, and with autofire it fires and *)
(* stops again and again, unless it is let go or the configuration is left. *)
HeldFires ==
  /\ \A e \in {x \in Events : Kinds(x) \in {{"autofire"}, {"delay"}}} :
       (raw[e] /\ active) ~> (sent[e] \/ ~raw[e] \/ ~active)
  /\ \A e \in {x \in Events : Shoots(x)} :
       (raw[e] /\ active) ~> (~sent[e] \/ ~raw[e] \/ ~active)

(* A macro ends unless the configuration is left. *)
MacroEnds ==
  \A e \in {x \in Events : Handler[x].kind = "macro"} :
    macro[e].running ~> (~macro[e].running \/ ~active)
=============================================================================
