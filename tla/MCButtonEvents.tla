--------------------------- MODULE MCButtonEvents ---------------------------
(* Button events of each kind, and the sets of them that are bound together. *)
EXTENDS ButtonEvents, TLC

CONSTANTS k1, k2, k3, wheel

Auto  == [kind |-> "autofire", rate |-> 3, delay |-> 1]
Other(kind) == [kind |-> kind, rate |-> 0, delay |-> 0]
Delay == [kind |-> "delay", rate |-> 0, delay |-> 3]

KeyOf(threshold) == [kind |-> "key", threshold |-> threshold]
CycleOf(name, direction, press) ==
  [kind |-> "cycle", cycle |-> name, direction |-> direction, press |-> press]
Rel == [kind |-> "rel", code |-> wheel, repeats |-> TRUE]
SendOp(key, value) == [op |-> "send", key |-> key, value |-> value]
WaitOp(msec) == [op |-> "wait", msec |-> msec]

MCHandler ==
  <<KeyOf(3), KeyOf(0), KeyOf(0), KeyOf(2), KeyOf(0), KeyOf(0),
    CycleOf("weapons", "forward", TRUE), CycleOf("weapons", "backward", TRUE),
    CycleOf("weapons", "none", TRUE), CycleOf("weapons", "forward", FALSE),
    CycleOf("throttle", "forward", TRUE), CycleOf("throttle", "backward", TRUE),
    [kind |-> "macro", events |-> <<SendOp(k2, 1), WaitOp(3), SendOp(k2, 0),
       SendOp(k3, 1), WaitOp(0), WaitOp(1), SendOp(k3, 0), WaitOp(2)>>],
    Rel, Rel>>
MCFilters ==
  <<<<>>, <<Auto>>, <<Delay, Other("click-press")>>, <<Other("click-release")>>,
    <<Other("toggle")>>, <<Other("invert"), Delay>>,
    <<>>, <<>>, <<>>, <<>>, <<>>, <<Other("click-both")>>, <<>>, <<>>, <<Delay>>>>
MCSetups ==
  {{1, 2, 3}, {1, 4}, {2, 5}, {3, 5}, {6}, {7, 8}, {9, 10}, {11, 12}, {2, 13}, {14, 15}}
MCCycle == [s \in Cycles |-> [length |-> 3, wrap |-> s = "weapons"]]
MCGroups ==
  ({"codes", "secondary"} \X {e \in Events : MCHandler[e].kind = "key"})
    \cup (Cycles \X (0..2))
MCKeysOf ==
  [g \in MCGroups |->
     CASE g[1] = "codes" -> {k1}
       [] g[1] = "secondary" -> {k1, k2}
       [] OTHER -> IF g[2] = 0 THEN {k1} ELSE IF g[2] = 1 THEN {k2} ELSE {k2, k3}]
=============================================================================
