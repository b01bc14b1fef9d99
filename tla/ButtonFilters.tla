---------------------------- MODULE ButtonFilters ----------------------------
(***************************************************************************)
(* The filters of buttonfilter/, used by the events of a configuration      *)
(* (ButtonEvents) and by the mappings of a buttonmap (Modifiers). A filter   *)
(* is updated with the milliseconds that passed, and changes the value it    *)
(* is given. The const and log filters are left out: a constant, a copy.     *)
(***************************************************************************)
EXTENDS Integers, Sequences, FiniteSetsExt

CONSTANT MaxTime       \* bound: times beyond it are not told apart

Clicks == {"click-press", "click-release", "click-both"}
FilterKinds == {"autofire", "delay", "toggle", "invert"} \cup Clicks

ASSUME MaxTimeAssumption == MaxTime \in Nat

(* Members of a filter's state that its kind does not have stay as they are. *)
FilterState == [value : BOOLEAN, on : BOOLEAN, time : Nat]
NewFilter == [value |-> FALSE, on |-> FALSE, time |-> 0]

(* ButtonFilter::update. *)
Passed(f, s, d) ==
  CASE f.kind = "autofire" /\ s.value ->
         [s EXCEPT !.time = Min({@ + d, MaxTime}), !.on = @ \/ s.time + d > f.delay]
    [] f.kind = "delay" -> [s EXCEPT !.time = Min({@ + d, MaxTime})]
    [] OTHER -> s

(* ButtonFilter::filter: the value it passes on and the state it is in then. *)
(* Not the code: a shot does not start the counter again. *)
CounterKept(f, s, v) == IF v THEN s.time ELSE 0

Counter(f, s, v) == IF v /\ ~(s.on /\ s.time > f.rate) THEN s.time ELSE 0

AutofireFilter(f, s, v) ==
  [value |-> v /\ (s.on => s.time > f.rate),
   state |-> [value |-> v, on |-> v /\ s.on, time |-> Counter(f, s, v)]]

ClickFilter(f, s, v) ==
  [value |-> /\ v # s.value
             /\ f.kind = "click-press" => v
             /\ f.kind = "click-release" => ~v,
   state |-> [s EXCEPT !.value = v]]

DelayFilter(f, s, v) ==
  [value |-> v /\ s.time >= f.delay, state |-> [s EXCEPT !.time = IF v THEN @ ELSE 0]]

ToggleFilter(f, s, v) ==
  LET on == s.on # (v /\ ~s.value)
  IN  [value |-> on, state |-> [s EXCEPT !.value = v, !.on = on]]

Filter(f, s, v) ==
  CASE f.kind = "autofire" -> AutofireFilter(f, s, v)
    [] f.kind \in Clicks -> ClickFilter(f, s, v)
    [] f.kind = "delay" -> DelayFilter(f, s, v)
    [] f.kind = "toggle" -> ToggleFilter(f, s, v)
    [] f.kind = "invert" -> [value |-> ~v, state |-> s]

(* The value v after the first i filters of F in states S. *)
Filtered(F, S, v) ==
  LET value[i \in 0..Len(F)] ==
        IF i = 0 THEN v ELSE Filter(F[i], S[i], value[i - 1]).value
  IN  value

(* Filters F in states S: updated with d, and after they were given v.       *)
UpdatedFilters(F, S, d) == [i \in DOMAIN F |-> Passed(F[i], S[i], d)]

FiltersAfter(F, S, v) ==
  [i \in DOMAIN F |-> Filter(F[i], S[i], Filtered(F, S, v)[i - 1]).state]
=============================================================================
