------------------------------ MODULE Registry ------------------------------
(***************************************************************************)
(* What the daemon promises about controllers and slots, with no callbacks, *)
(* queues or positions of loops in sight: when a controller may get a slot  *)
(* and which, when it may be put aside, and when it may go. XboxdrvDaemon    *)
(* implements it.                                                           *)
(***************************************************************************)
EXTENDS Integers

CONSTANTS
  Slots,         \* numbers, the lower ones first
  Controllers,
  Nobody,        \* in an empty slot
  DeviceOf,      \* the device of a controller
  Wireless,      \* devices whose controllers sleep until they are heard of
  RuleSlots,     \* slots for the devices they match only
  Matches

VARIABLES
  slot,          \* who has each slot
  stage,         \* of each controller
  active,        \* controllers that are switched on
  gone           \* controllers whose device was pulled

vars == <<slot, stage, active, gone>>
Stages == {"absent", "waiting", "served", "leaving"}

Init ==
  /\ slot = [s \in Slots |-> Nobody]
  /\ stage = [c \in Controllers |-> "absent"]
  /\ active = {} /\ gone = {}

-----------------------------------------------------------------------------
Empty == {s \in Slots : slot[s] = Nobody}
MadeFor(c) == {s \in RuleSlots : DeviceOf[c] \in Matches[s]}
Fit(c) == IF Empty \cap MadeFor(c) # {} THEN Empty \cap MadeFor(c) ELSE Empty \ RuleSlots

GetsSlot(c) ==
  \E s \in Fit(c) :
    /\ \A t \in Fit(c) : s <= t
    /\ slot' = [slot EXCEPT ![s] = c]
    /\ stage' = [stage EXCEPT ![c] = "served"]

GivesUpSlot(c, next) ==
  /\ slot' = [s \in Slots |-> IF slot[s] = c THEN Nobody ELSE slot[s]]
  /\ stage' = [stage EXCEPT ![c] = next]

(* A wired controller gets a slot when it comes, or goes at once if there   *)
(* is none; the controllers of a receiver wait.                             *)
Comes(c) ==
  /\ DeviceOf[c] \notin Wireless /\ stage[c] = "absent"
  /\ \/ GetsSlot(c) /\ active' = active \cup {c}
     \/ /\ Fit(c) = {} /\ stage' = [stage EXCEPT ![c] = "leaving"]
        /\ UNCHANGED <<slot, active>>
  /\ UNCHANGED gone

ReceiverComes(d) ==
  LET its == {c \in Controllers : DeviceOf[c] = d}
  IN  /\ \A c \in its : stage[c] = "absent"
      /\ stage' = [c \in Controllers |-> IF c \in its THEN "waiting" ELSE stage[c]]
      /\ UNCHANGED <<slot, active, gone>>

(* A controller that is known says that it was switched on or off, or that  *)
(* it is pulled, which is the last that is heard of it.                     *)
Speaks(c) ==
  /\ stage[c] \in {"waiting", "served"} /\ c \notin gone
  /\ \/ active' = active \cup {c} /\ UNCHANGED gone
     \/ DeviceOf[c] \in Wireless /\ active' = active \ {c} /\ UNCHANGED gone
     \/ gone' = gone \cup {c} /\ UNCHANGED active
  /\ UNCHANGED <<slot, stage>>

(* Only who is switched on gets a slot, and only who is not loses it, ...   *)
Served(c) ==
  /\ stage[c] = "waiting" /\ c \in active /\ GetsSlot(c) /\ UNCHANGED <<active, gone>>
PutAside(c) ==
  /\ stage[c] = "served" /\ c \notin active /\ GivesUpSlot(c, "waiting")
  /\ UNCHANGED <<active, gone>>

(* ... unless it was pulled: then it goes, and may come back when it is     *)
(* forgotten.                                                               *)
Goes(c) ==
  /\ stage[c] \in {"waiting", "served"} /\ c \in gone /\ GivesUpSlot(c, "leaving")
  /\ UNCHANGED <<active, gone>>
Forgotten(c) ==
  /\ stage[c] = "leaving" /\ stage' = [stage EXCEPT ![c] = "absent"]
  /\ active' = active \ {c} /\ gone' = gone \ {c} /\ UNCHANGED slot

End ==
  /\ slot' = [s \in Slots |-> Nobody] /\ stage' = [c \in Controllers |-> "absent"]
  /\ active' = {} /\ gone' = {}

Next ==
  \/ \E d \in Wireless : ReceiverComes(d)
  \/ \E c \in Controllers :
       Comes(c) \/ Speaks(c) \/ Served(c) \/ PutAside(c) \/ Goes(c) \/ Forgotten(c)
  \/ End

Spec == Init /\ [][Next]_vars
=============================================================================
