------------------------ MODULE XboxdrvDaemonProofs ------------------------
(***************************************************************************)
(* Theorems about the daemon, for any number of slots, devices, receivers   *)
(* and match rules.                                                         *)
(***************************************************************************)
EXTENDS XboxdrvDaemon, TLAPS, SequenceTheorems, MinTheorems

(* What erasing one entry of the list leaves. *)
LEMMA RemoveAtFacts ==
  ASSUME NEW S, NEW q \in Seq(S), NEW i \in 1..Len(q)
  PROVE  /\ RemoveAt(q, i) \in Seq(S)
         /\ Len(RemoveAt(q, i)) = Len(q) - 1
         /\ \A j \in 1..(Len(q) - 1) :
              RemoveAt(q, i)[j] = IF j < i THEN q[j] ELSE q[j + 1]
<1> DEFINE a == SubSeq(q, 1, i - 1)
           b == SubSeq(q, i + 1, Len(q))
<1>1. /\ a \in Seq(S) /\ Len(a) = i - 1
      /\ \A j \in 1..(i - 1) : a[j] = q[j]
  BY SubSeqProperties
<1>2. /\ b \in Seq(S) /\ Len(b) = Len(q) - i
      /\ \A j \in 1..(Len(q) - i) : b[j] = q[i + j]
  BY SubSeqProperties
<1>3. /\ a \o b \in Seq(S) /\ Len(a \o b) = Len(a) + Len(b)
      /\ \A j \in 1..(Len(a) + Len(b)) :
           (a \o b)[j] = IF j <= Len(a) THEN a[j] ELSE b[j - Len(a)]
  <2> HIDE DEF a, b
  <2> QED BY <1>1, <1>2, ConcatProperties
<1> HIDE DEF a, b
<1>4. Len(a \o b) = Len(q) - 1 BY <1>1, <1>2, <1>3
<1>5. ASSUME NEW j \in 1..(Len(q) - 1)
      PROVE  (a \o b)[j] = IF j < i THEN q[j] ELSE q[j + 1]
  BY <1>1, <1>2, <1>3
<1>6. RemoveAt(q, i) = a \o b BY DEF RemoveAt, a, b
<1> QED BY <1>3, <1>4, <1>5, <1>6

(* find_free_slot returns a free slot, and one whose rules, if it has any,  *)
(* match the device.                                                        *)
LEMMA FreeSlotFacts ==
  ASSUME NEW d, Candidates(d) # {}
  PROVE  /\ Min(Candidates(d)) \in Slots
         /\ Free(Min(Candidates(d)))
         /\ Min(Candidates(d)) \in RuleSlots
              => d \in Matches[Min(Candidates(d))]
<1> DEFINE C == Candidates(d)
<1>1. /\ C \subseteq Slots
      /\ \A s \in C : Free(s) /\ (s \in RuleSlots => d \in Matches[s])
  BY DEF Candidates, RuleMatches
<1>2. C \subseteq Nat
  BY <1>1, SlotsAssumption DEF Slots
<1>4. Min(C) \in C
  <2>1. C # {}
    OBVIOUS
  <2> HIDE DEF C
  <2> QED BY <1>2, <2>1, MinFacts
<1> QED BY <1>1, <1>4

-----------------------------------------------------------------------------
(* The position of a slot loop is a slot. *)
LoopOK == op \in {"disconnect_slots", "activate_slots"} => at \in Slots

TypeInv == TypeOK /\ LoopOK

LEMMA EndsTypeInv ==
  ASSUME TypeInv, NEW how \in Phases, NEW why \in Faults,
         Ends(how, why), plugged' \subseteq Devices, signalled' \in BOOLEAN
  PROVE  TypeInv'
<1>1. <<>> \in Seq(Controllers) /\ <<>> \in Seq(Callbacks)
  BY EmptySeq
<1>2. [s \in Slots |-> NoController] \in [Slots -> Controllers \cup {NoController}]
  OBVIOUS
<1>3. slots' \in [Slots -> Controllers \cup {NoController}]
  BY <1>2 DEF Ends
<1>4. inactive' \in Seq(Controllers) /\ idle' \in Seq(Callbacks)
  BY <1>1 DEF Ends
<1>5. op' \in Loops /\ at' \in Nat \ {0} /\ LoopOK'
  BY DEF Ends, Loops, LoopOK
<1> QED BY <1>3, <1>4, <1>5 DEF TypeInv, TypeOK, Ends

LEMMA LaunchTypeInv ==
  ASSUME TypeInv, NEW d \in Devices, Launch(d),
         plugged' = plugged, toEnumerate' \subseteq Devices, monitor' \subseteq Devices
  PROVE  TypeInv'
<1> USE DEF TypeInv, TypeOK, LoopOK
<1>1. CASE LaunchNothing
  BY <1>1 DEF LaunchNothing, proc, flags, handler
<1>2. CASE LaunchReceiver(d)
  <2>1. inactive \o Ports[d] \in Seq(Controllers)
    BY ConcatProperties, ControllersAssumption
  <2> QED BY <1>2, <2>1 DEF LaunchReceiver, proc, flags, handler
<1>3. CASE LaunchWired(d)
  <2>1. Ports[d][1] \in Controllers
    BY <1>3, ControllersAssumption, PortsAssumption DEF LaunchWired
  <2> QED BY <1>3, <2>1 DEF LaunchWired, proc, handler
<1>4. CASE LaunchIgnored(d)
  <2>1. Ports[d][1] \in Controllers
    BY <1>4, ControllersAssumption, PortsAssumption DEF LaunchIgnored
  <2> QED BY <1>4, <2>1 DEF LaunchIgnored, proc, flags, handler
<1> QED BY <1>1, <1>2, <1>3, <1>4 DEF Launch

LEMMA QueueTypeInv ==
  ASSUME TypeInv, NEW callback \in Callbacks, QueueIdle(callback)
  PROVE  idle' \in Seq(Callbacks)
BY AppendProperties DEF TypeInv, TypeOK, QueueIdle

(* The read callbacks change flags, the idle queue and the fault only. *)
LEMMA UsbCallbackTypeInv ==
  ASSUME TypeInv, NEW c \in Controllers, UsbCallback(c)
  PROVE  TypeInv'
<1> USE DEF TypeInv, TypeOK, LoopOK
<1>1. CASE ConnectionLost(c)
  <2>1. active' \subseteq Controllers /\ idle' \in Seq(Callbacks)
    BY <1>1, QueueTypeInv DEF ConnectionLost, SetInactive, Callbacks
  <2> QED BY <1>1, <2>1 DEF ConnectionLost, Delivers, Faults, env, handler
<1>2. CASE ConnectionFound(c)
  <2>1. active' \subseteq Controllers /\ idle' \in Seq(Callbacks)
    BY <1>2, QueueTypeInv DEF ConnectionFound, SetActive, Callbacks
  <2> QED BY <1>2, <2>1 DEF ConnectionFound, env, proc, handler
<1>3. CASE StatusWriteThrows(c)
  BY <1>3, EndsTypeInv DEF StatusWriteThrows, Phases, Faults
<1>4. CASE Report(c)
  <2>1. active' \subseteq Controllers /\ idle' \in Seq(Callbacks)
    BY <1>4, QueueTypeInv DEF Report, SetActive, Callbacks
  <2> QED BY <1>4, <2>1 DEF Report, env, proc, handler
<1>5. CASE Event(c)
  <2>1. active' \subseteq Controllers /\ idle' \in Seq(Callbacks)
    BY <1>5, QueueTypeInv DEF Event, SetActive, Callbacks
  <2> QED BY <1>5, <2>1 DEF Event, Delivers, Faults, env, handler
<1>6. CASE DeadThreadCrash(c)
  BY <1>6, EndsTypeInv DEF DeadThreadCrash, Phases, Faults
<1>7. CASE NoDevice(c) \/ ResubmitFails(c)
  <2>1. gone' \subseteq Controllers /\ idle' \in Seq(Callbacks)
    BY <1>7, QueueTypeInv DEF NoDevice, ResubmitFails, SendDisconnect, Callbacks
  <2> QED BY <1>7, <2>1 DEF NoDevice, ResubmitFails, env, proc, handler
<1> QED BY <1>1, <1>2, <1>3, <1>4, <1>5, <1>6, <1>7 DEF UsbCallback

LEMMA NextSlotFacts ==
  ASSUME at \in Slots, NEW following \in {"disconnect_list", "activate_list"},
         op \in {"disconnect_slots", "activate_slots"}, NextSlot(following)
  PROVE  /\ op' \in Loops /\ at' \in Nat \ {0}
         /\ op' \in {"disconnect_slots", "activate_slots"} => at' \in Slots
BY SlotsAssumption DEF NextSlot, Slots, Loops

LEMMA IdleStepTypeInv ==
  ASSUME TypeInv, IdleStep
  PROVE  TypeInv'
<1> USE DEF TypeInv, TypeOK, LoopOK
<1>1. CASE DispatchIdle
  <2>1. idle' \in Seq(Callbacks)
    BY <1>1, HeadTailProperties DEF DispatchIdle
  <2>2. op' \in {"disconnect_slots", "activate_slots"} /\ at' = 1
    BY <1>1 DEF DispatchIdle
  <2>3. op' \in Loops /\ at' \in Slots
    BY <2>2, SlotsAssumption DEF Loops, Slots
  <2> QED BY <1>1, <2>1, <2>2, <2>3 DEF DispatchIdle, env, proc, flags
<1>2. CASE DisconnectSlot
  <2>1. at \in Slots
    BY <1>2 DEF DisconnectSlot, Running
  <2>2. /\ dying' \in Controllers \cup {NoController}
        /\ slots' \in [Slots -> Controllers \cup {NoController}]
    BY <1>2, <2>1 DEF DisconnectSlot
  <2> QED BY <1>2, <2>1, <2>2, NextSlotFacts DEF DisconnectSlot, Running, env, proc, flags
<1>3. CASE DisconnectListed
  <2>1. at \in 1..Len(inactive)
    BY <1>3 DEF DisconnectListed
  <2>2. /\ dying' \in Controllers \cup {NoController}
        /\ inactive' \in Seq(Controllers)
        /\ at' \in Nat \ {0}
    <3>1. RemoveAt(inactive, at) \in Seq(Controllers) /\ inactive[at] \in Controllers
      BY <2>1, RemoveAtFacts, ElementOfSeq
    <3> QED BY <1>3, <3>1 DEF DisconnectListed
  <2> QED BY <1>3, <2>2 DEF DisconnectListed, Running, env, proc, flags
<1>5. CASE ParkSlot
  <2>1. at \in Slots
    BY <1>5 DEF ParkSlot, Running
  <2>2. /\ inactive' \in Seq(Controllers)
        /\ slots' \in [Slots -> Controllers \cup {NoController}]
    <3>1. Occupied(at) => Append(inactive, slots[at]) \in Seq(Controllers)
      BY <2>1, AppendProperties DEF Occupied
    <3> QED BY <1>5, <2>1, <3>1 DEF ParkSlot
  <2> QED BY <1>5, <2>1, <2>2, NextSlotFacts DEF ParkSlot, Running, env, proc, flags
<1>6. CASE ConnectListed
  <2>1. at \in 1..Len(inactive)
    BY <1>6 DEF ConnectListed
  <2>2. /\ inactive' \in Seq(Controllers)
        /\ at' \in Nat \ {0}
        /\ slots' \in [Slots -> Controllers \cup {NoController}]
        /\ bound' \subseteq Controllers
    <3>1. RemoveAt(inactive, at) \in Seq(Controllers) /\ inactive[at] \in Controllers
      BY <2>1, RemoveAtFacts, ElementOfSeq
    <3> DEFINE c == inactive[at]
              S == Candidates(DeviceOf[c])
    <3>2. CASE c \in active /\ S # {}
      <4>1. Min(S) \in Slots
        BY <3>2, FreeSlotFacts
      <4> QED BY <1>6, <3>1, <3>2, <4>1 DEF ConnectListed
    <3>3. CASE ~(c \in active /\ S # {})
      BY <1>6, <3>3 DEF ConnectListed
    <3> QED BY <3>2, <3>3
  <2> QED BY <1>6, <2>2 DEF ConnectListed, Running, env, proc
<1>7. CASE EndOfList
  BY <1>7 DEF EndOfList, Loops, env, proc, flags
<1> QED BY <1>1, <1>2, <1>3, <1>5, <1>6, <1>7 DEF IdleStep

LEMMA NextTypeInv == TypeInv /\ [Next]_vars => TypeInv'
<1> SUFFICES ASSUME TypeInv, [Next]_vars PROVE TypeInv'
  OBVIOUS
<1> USE DEF TypeInv, TypeOK, LoopOK
<1>1. CASE UNCHANGED vars
  BY <1>1 DEF vars, env, proc, flags, handler
<1>2. ASSUME NEW d \in Devices, Plug(d) \/ Unplug(d) PROVE TypeInv'
  BY <1>2 DEF Plug, Unplug, proc, flags, handler
<1>3. ASSUME NEW d \in Devices, EnumerateDevice(d) PROVE TypeInv'
  BY <1>3, LaunchTypeInv DEF EnumerateDevice
<1>4. ASSUME NEW d \in Devices, UdevAdd(d) PROVE TypeInv'
  BY <1>4, LaunchTypeInv DEF UdevAdd
<1>5. CASE EnterMainLoop
  BY <1>5 DEF EnterMainLoop, Phases, env, flags, handler
<1>6. CASE Signal
  <2>1. CASE \E how \in {"failed"}, why \in Faults : Ends(how, why) /\ UNCHANGED plugged
    BY <1>6, <2>1, EndsTypeInv DEF Signal, Phases
  <2>2. CASE UNCHANGED <<env, phase, fault, slots, inactive, flags, dying, idle, handler>>
    BY <1>6, <2>2 DEF Signal, Ends, env, flags, handler
  <2> QED BY <1>6, <2>1, <2>2 DEF Signal, Faults
<1>7. CASE Teardown
  BY <1>7, EndsTypeInv DEF Teardown, Phases
<1>8. CASE Destroyed
  BY <1>8 DEF Destroyed, env, proc, handler
<1> QED BY <1>1, <1>2, <1>3, <1>4, <1>5, <1>6, <1>7, <1>8,
          UsbCallbackTypeInv, IdleStepTypeInv DEF Next

LEMMA InitTypeInv == Init => TypeInv
<1>1. <<>> \in Seq(Controllers) /\ <<>> \in Seq(Callbacks)
  BY EmptySeq
<1>2. Init => slots \in [Slots -> Controllers \cup {NoController}]
  BY DEF Init
<1>3. Init => op \in Loops /\ at \in Nat \ {0} /\ LoopOK
  BY DEF Init, Loops, LoopOK
<1> QED BY <1>1, <1>2, <1>3 DEF Init, TypeInv, TypeOK, Phases, Faults

(* Every variable stays in its type, and the slot loops stay inside the     *)
(* vector of slots.                                                         *)
THEOREM TypeCorrect == Spec => []TypeOK
<1>1. TypeInv => TypeOK
  BY DEF TypeInv
<1> QED BY InitTypeInv, NextTypeInv, <1>1, PTL DEF Spec

-----------------------------------------------------------------------------
(* The steps that move, create or destroy a controller. *)
LEMMA PlacementSteps ==
  ASSUME TypeInv, [Next]_vars
  PROVE  \/ UNCHANGED <<slots, inactive, dying>>
         \/ \E d \in Devices :
              LaunchReceiver(d) \/ LaunchWired(d) \/ (LaunchIgnored(d) /\ dying = NoController)
         \/ \E how \in Phases, why \in Faults : Ends(how, why)
         \/ DisconnectSlot \/ DisconnectListed \/ Destroyed
         \/ ParkSlot \/ ConnectListed
<1> DEFINE Same == UNCHANGED <<slots, inactive, dying>>
<1>1. CASE UNCHANGED vars
  BY <1>1 DEF vars
<1>2. ASSUME NEW d \in Devices, Plug(d) \/ Unplug(d) PROVE Same
  BY <1>2 DEF Plug, Unplug
<1>3. ASSUME NEW d \in Devices, EnumerateDevice(d) \/ UdevAdd(d)
      PROVE  \/ Same
             \/ \E e \in Devices :
                  LaunchReceiver(e) \/ LaunchWired(e) \/ (LaunchIgnored(e) /\ dying = NoController)
  BY <1>3 DEF EnumerateDevice, UdevAdd, Launch, LaunchNothing
<1>4. CASE EnterMainLoop
  BY <1>4 DEF EnterMainLoop
<1>5. ASSUME NEW c \in Controllers, UsbCallback(c)
      PROVE  Same \/ Ends("failed", "status_write") \/ Ends("failed", "dead_thread")
  BY <1>5 DEF UsbCallback, ConnectionLost, ConnectionFound, StatusWriteThrows,
              Report, Event, DeadThreadCrash, NoDevice, ResubmitFails
<1>6. CASE IdleStep
  BY <1>6 DEF IdleStep, DispatchIdle, EndOfList
<1>7. CASE Signal
  BY <1>7 DEF Signal, Phases, Faults
<1>8. CASE Teardown
  BY <1>8 DEF Teardown, Phases, TypeInv, TypeOK
<1> QED BY <1>1, <1>2, <1>3, <1>4, <1>5, <1>6, <1>7, <1>8 DEF Next, Phases, Faults

(* Erasing an entry of a list without duplicates leaves a list without      *)
(* duplicates, of the other entries.                                        *)
LEMMA RemoveAtDistinct ==
  ASSUME NEW S, NEW q \in Seq(S), NEW n \in 1..Len(q),
         \A i, j \in 1..Len(q) : q[i] = q[j] => i = j
  PROVE  /\ \A i, j \in 1..Len(RemoveAt(q, n)) :
              RemoveAt(q, n)[i] = RemoveAt(q, n)[j] => i = j
         /\ {RemoveAt(q, n)[i] : i \in 1..Len(RemoveAt(q, n))}
              = {q[i] : i \in 1..Len(q)} \ {q[n]}
<1> DEFINE r == RemoveAt(q, n)
<1>1. /\ r \in Seq(S) /\ Len(r) = Len(q) - 1
      /\ \A j \in 1..(Len(q) - 1) : r[j] = IF j < n THEN q[j] ELSE q[j + 1]
  BY RemoveAtFacts
<1> HIDE DEF r
<1>2. ASSUME NEW i \in 1..Len(r), NEW j \in 1..Len(r), r[i] = r[j] PROVE i = j
  BY <1>1, <1>2
<1>3. ASSUME NEW i \in 1..Len(r)
      PROVE  r[i] \in {q[k] : k \in 1..Len(q)} \ {q[n]}
  BY <1>1, <1>3
<1>4. ASSUME NEW k \in 1..Len(q), k # n
      PROVE  \E i \in 1..Len(r) : r[i] = q[k]
  <2>1. CASE k < n
    BY <1>1, <1>4, <2>1
  <2>2. CASE k > n
    <3>1. k - 1 \in 1..Len(r) /\ r[k - 1] = q[k]
      BY <1>1, <1>4, <2>2
    <3> QED BY <3>1
  <2> QED BY <1>4, <2>1, <2>2
<1>5. {r[i] : i \in 1..Len(r)} = {q[i] : i \in 1..Len(q)} \ {q[n]}
  <2>1. ASSUME NEW k \in 1..Len(q), q[k] # q[n]
        PROVE  q[k] \in {r[i] : i \in 1..Len(r)}
    BY <1>4, <2>1
  <2> QED BY <1>3, <2>1
<1> QED BY <1>2, <1>5 DEF r

(* Erasing an entry of the list takes that controller off it. *)
LEMMA ListedLosesEntry ==
  ASSUME TypeInv, OwnedOnce, at \in 1..Len(inactive), inactive' = RemoveAt(inactive, at)
  PROVE  /\ \A i, j \in 1..Len(inactive') : inactive'[i] = inactive'[j] => i = j
         /\ Listed' = Listed \ {inactive[at]}
<1> DEFINE r == RemoveAt(inactive, at)
<1>1. \A i, j \in 1..Len(inactive) : inactive[i] = inactive[j] => i = j
  BY DEF OwnedOnce
<1>2. inactive \in Seq(Controllers)
  BY DEF TypeInv, TypeOK
<1>3. /\ \A i, j \in 1..Len(r) : r[i] = r[j] => i = j
      /\ {r[i] : i \in 1..Len(r)} = {inactive[i] : i \in 1..Len(inactive)} \ {inactive[at]}
  BY <1>1, <1>2, RemoveAtDistinct
<1>4. Listed' = {inactive'[i] : i \in 1..Len(inactive')}
  BY DEF Listed
<1> HIDE DEF r
<1>5. inactive' = r
  BY DEF r
<1> QED BY <1>3, <1>4, <1>5 DEF Listed

(* Appending to the list puts that controller on it. *)
LEMMA ListedGainsEntry ==
  ASSUME inactive \in Seq(Controllers), NEW x \in Controllers, inactive' = Append(inactive, x)
  PROVE  Listed' = Listed \cup {x}
<1>1. /\ Len(inactive) \in Nat /\ Len(inactive') = Len(inactive) + 1
      /\ \A i \in 1..Len(inactive) : inactive'[i] = inactive[i]
      /\ inactive'[Len(inactive) + 1] = x
  BY AppendProperties
<1> QED BY <1>1 DEF Listed

LEMMA OwnedOnceStep ==
  ASSUME TypeInv, OwnedOnce, [Next]_vars
  PROVE  OwnedOnce'
<1>0. /\ slots \in [Slots -> Controllers \cup {NoController}]
      /\ inactive \in Seq(Controllers) /\ Len(inactive) \in Nat
      /\ dying \in Controllers \cup {NoController}
      /\ at \in Nat \ {0} /\ LoopOK
      /\ NoController \notin Controllers
  BY ControllersAssumption DEF TypeInv, TypeOK
<1>a. Listed \subseteq Controllers
  BY <1>0 DEF Listed
<1>b. \A i \in 1..Len(inactive) : inactive[i] \in Listed
  BY DEF Listed
<1>1. CASE UNCHANGED <<slots, inactive, dying>>
  BY <1>0, <1>1 DEF OwnedOnce, Occupied, Listed, InSlot
<1>2. ASSUME NEW d \in Devices, LaunchReceiver(d) PROVE OwnedOnce'
  <2>1. Ports[d] \in Seq(Controllers)
    BY ControllersAssumption
  <2>2. /\ inactive' \in Seq(Controllers)
        /\ Len(inactive') = Len(inactive) + Len(Ports[d])
        /\ \A i \in 1..Len(inactive') :
             inactive'[i] = IF i <= Len(inactive) THEN inactive[i]
                            ELSE Ports[d][i - Len(inactive)]
    BY <1>0, <1>2, <2>1, ConcatProperties DEF LaunchReceiver
  <2>3. \A i \in 1..Len(Ports[d]) : ~Exists(Ports[d][i]) /\ Ports[d][i] \in Controllers
    BY <1>0, <1>2, <2>1, PortsAssumption DEF LaunchReceiver, Creates
  <2>4. Len(inactive) \in Nat /\ Len(Ports[d]) \in Nat
    BY <1>0, <2>1
  <2>5. ASSUME NEW i \in 1..Len(inactive'), NEW j \in 1..Len(inactive'),
               inactive'[i] = inactive'[j]
        PROVE  i = j
    <3> DEFINE n == Len(inactive)
    <3>1. \A k \in 1..Len(inactive') : k > n => k - n \in 1..Len(Ports[d])
      BY <1>0, <2>2, <2>4
    <3>2. \A k \in 1..n : inactive[k] \in Listed
      BY <1>0 DEF Listed
    <3>3. \A k \in 1..Len(Ports[d]) : Ports[d][k] \notin Listed
      BY <1>0, <2>3 DEF Exists
    <3>4. CASE i <= n /\ j <= n
      <4>1. i \in 1..n /\ j \in 1..n /\ inactive[i] = inactive[j]
        BY <1>0, <2>2, <2>4, <2>5, <3>4
      <4> QED BY <1>0, <4>1 DEF OwnedOnce
    <3>5. CASE i <= n /\ j > n
      <4>1. inactive'[i] \in Listed
        BY <2>2, <3>2, <3>5
      <4>2. inactive'[j] \notin Listed
        <5>1. j - n \in 1..Len(Ports[d]) /\ inactive'[j] = Ports[d][j - n]
          BY <2>2, <2>4, <3>1, <3>5
        <5> QED BY <3>3, <5>1
      <4> QED BY <2>5, <4>1, <4>2
    <3>6. CASE i > n /\ j <= n
      <4>1. inactive'[j] \in Listed
        BY <2>2, <3>2, <3>6
      <4>2. inactive'[i] \notin Listed
        <5>1. i - n \in 1..Len(Ports[d]) /\ inactive'[i] = Ports[d][i - n]
          BY <2>2, <2>4, <3>1, <3>6
        <5> QED BY <3>3, <5>1
      <4> QED BY <2>5, <4>1, <4>2
    <3>7. CASE i > n /\ j > n
      <4>1. /\ i - n \in 1..Len(Ports[d]) /\ j - n \in 1..Len(Ports[d])
            /\ Ports[d][i - n] = Ports[d][j - n]
        <5>1. i - n \in 1..Len(Ports[d]) /\ j - n \in 1..Len(Ports[d])
          BY <3>1, <3>7
        <5>2. inactive'[i] = Ports[d][i - n] /\ inactive'[j] = Ports[d][j - n]
          BY <2>2, <2>4, <3>7
        <5> QED BY <2>5, <5>1, <5>2
      <4>2. i - n = j - n
        BY <1>0, <4>1, PortsAssumption
      <4> QED BY <1>0, <2>4, <4>2
    <3> QED BY <1>0, <2>2, <2>4, <3>4, <3>5, <3>6, <3>7
  <2>6. ASSUME NEW x \in Listed'
        PROVE  x \in Listed \/ (~Exists(x) /\ x \in Controllers)
    <3>1. PICK k \in 1..Len(inactive') : x = inactive'[k]
      BY <1>0 DEF Listed
    <3>2. CASE k <= Len(inactive)
      BY <1>0, <2>2, <2>4, <3>1, <3>2 DEF Listed
    <3>3. CASE k > Len(inactive)
      BY <1>0, <2>2, <2>3, <2>4, <3>1, <3>3
    <3> QED BY <1>0, <2>2, <2>4, <3>2, <3>3
  <2>7. slots' = slots /\ dying' = dying
    BY <1>0, <1>2 DEF LaunchReceiver
  <2>8. NoController \notin Listed
    BY <1>0, <1>a
  <2>9. ASSUME NEW s \in Slots PROVE slots'[s] \notin Listed'
    BY <1>0, <2>6, <2>7 DEF OwnedOnce, Exists, InSlot
  <2>10. dying' # NoController => dying' \notin Listed' /\ ~InSlot(dying)'
    BY <1>0, <2>6, <2>7 DEF OwnedOnce, Exists, InSlot
  <2> QED BY <1>0, <2>5, <2>7, <2>9, <2>10 DEF OwnedOnce, Occupied
<1>3. ASSUME NEW d \in Devices, LaunchWired(d) PROVE OwnedOnce'
  <2> DEFINE c == Ports[d][1]
            n == Min(Candidates(d))
  <2>1. ~Exists(c) /\ c \in Controllers
    <3>1. Ports[d] \in Seq(Controllers) /\ Len(Ports[d]) = 1
      BY <1>0, <1>3, ControllersAssumption, PortsAssumption DEF LaunchWired
    <3>2. 1 \in 1..Len(Ports[d])
      BY <1>0, <3>1
    <3>3. c \in Controllers /\ DeviceOf[c] = d
      BY <1>0, <3>1, <3>2, PortsAssumption
    <3> QED BY <1>0, <1>3, <3>3 DEF LaunchWired, Creates
  <2>2. n \in Slots
    BY <1>0, <1>3, FreeSlotFacts DEF LaunchWired
  <2>3. /\ slots' = [slots EXCEPT ![n] = c]
        /\ inactive' = inactive /\ dying' = dying
    BY <1>0, <1>3 DEF LaunchWired
  <2> HIDE DEF c, n
  <2> QED BY <1>0, <2>1, <2>2, <2>3 DEF OwnedOnce, Exists, InSlot, Occupied, Listed
<1>10. ASSUME NEW d \in Devices, LaunchIgnored(d) PROVE OwnedOnce'
  <2>1. ~Exists(Ports[d][1])
    <3>1. Ports[d] \in Seq(Controllers) /\ Len(Ports[d]) = 1
      BY <1>10, ControllersAssumption, PortsAssumption DEF LaunchIgnored
    <3>2. 1 \in 1..Len(Ports[d])
      BY <3>1
    <3>3. Ports[d][1] \in Controllers /\ DeviceOf[Ports[d][1]] = d
      BY <3>1, <3>2, PortsAssumption
    <3> QED BY <1>10, <3>3 DEF LaunchIgnored, Creates
  <2>2. dying' = Ports[d][1] /\ slots' = slots /\ inactive' = inactive
    BY <1>10 DEF LaunchIgnored
  <2> QED BY <2>1, <2>2 DEF OwnedOnce, Exists, InSlot, Occupied, Listed
<1>4. ASSUME NEW how, NEW why, Ends(how, why) PROVE OwnedOnce'
  <2>1. Listed' = {}
    BY <1>0, <1>4 DEF Ends, Listed
  <2> QED BY <1>0, <1>4, <2>1, ControllersAssumption DEF Ends, OwnedOnce, Occupied, InSlot
<1>5. CASE DisconnectSlot
  <2>1. at \in Slots /\ inactive' = inactive /\ dying = NoController
    BY <1>0, <1>5 DEF DisconnectSlot, Running, LoopOK
  <2>2. Listed' = Listed
    BY <1>0, <2>1 DEF Listed
  <2>3. CASE Occupied(at) /\ slots[at] \in gone
    <3>1. dying' = slots[at] /\ slots' = [slots EXCEPT ![at] = NoController]
      BY <1>0, <1>5, <2>3 DEF DisconnectSlot
    <3>2. NoController \notin Listed
      BY <1>0, <1>a
    <3> QED BY <1>0, <2>1, <2>2, <2>3, <3>1, <3>2 DEF OwnedOnce, Occupied, InSlot
  <2>4. CASE ~(Occupied(at) /\ slots[at] \in gone)
    <3>1. dying' = dying /\ slots' = slots
      BY <1>0, <1>5, <2>4 DEF DisconnectSlot
    <3> QED BY <1>0, <2>1, <2>2, <3>1 DEF OwnedOnce, Occupied, InSlot
  <2> QED BY <1>0, <2>3, <2>4
<1>6. CASE DisconnectListed
  <2>1. at \in 1..Len(inactive) /\ slots' = slots /\ dying = NoController
    BY <1>0, <1>6 DEF DisconnectListed, Running
  <2>2. CASE inactive[at] \notin gone
    BY <1>0, <1>6, <2>1, <2>2 DEF DisconnectListed, OwnedOnce, Occupied, InSlot, Listed
  <2>3. CASE inactive[at] \in gone
    <3>1. inactive' = RemoveAt(inactive, at) /\ dying' = inactive[at]
      BY <1>0, <1>6, <2>3 DEF DisconnectListed
    <3>2. /\ \A i, j \in 1..Len(inactive') : inactive'[i] = inactive'[j] => i = j
          /\ Listed' = Listed \ {inactive[at]}
      BY <2>1, <3>1, ListedLosesEntry
    <3>3. inactive[at] \in Listed
      BY <1>0, <2>1 DEF Listed
    <3> QED BY <1>0, <2>1, <3>1, <3>2, <3>3 DEF OwnedOnce, Occupied, InSlot
  <2> QED BY <1>0, <2>2, <2>3
<1>7. CASE Destroyed
  BY <1>0, <1>7 DEF Destroyed, OwnedOnce, Occupied, InSlot, Listed
<1>8. CASE ParkSlot
  <2>1. at \in Slots /\ dying' = dying /\ dying = NoController
    BY <1>0, <1>8 DEF ParkSlot, Running, LoopOK
  <2>2. CASE ~(Occupied(at) /\ slots[at] \notin active)
    <3>1. UNCHANGED <<inactive, slots>>
      BY <1>0, <1>8, <2>2 DEF ParkSlot
    <3> QED BY <1>0, <2>1, <3>1 DEF OwnedOnce, Occupied, InSlot, Listed
  <2>3. CASE Occupied(at) /\ slots[at] \notin active
    <3>1. /\ inactive' = Append(inactive, slots[at])
          /\ slots' = [slots EXCEPT ![at] = NoController]
      BY <1>0, <1>8, <2>3 DEF ParkSlot
    <3>2. slots[at] \in Controllers /\ slots[at] \notin Listed
      BY <1>0, <2>1, <2>3 DEF Occupied, OwnedOnce
    <3>3. /\ Len(inactive') = Len(inactive) + 1
          /\ \A i \in 1..Len(inactive) : inactive'[i] = inactive[i]
          /\ inactive'[Len(inactive) + 1] = slots[at]
      BY <1>0, <3>1, <3>2, AppendProperties
    <3>4. Listed' = Listed \cup {slots[at]}
      BY <1>0, <3>3 DEF Listed
    <3>5. \A i, j \in 1..Len(inactive') : inactive'[i] = inactive'[j] => i = j
      <4>1. \A i, j \in 1..Len(inactive) : inactive[i] = inactive[j] => i = j
        BY DEF OwnedOnce
      <4>2. \A i \in 1..Len(inactive) : inactive[i] # slots[at]
        BY <1>b, <3>2
      <4> QED BY <1>0, <3>3, <4>1, <4>2
    <3>6. ASSUME NEW s \in Slots PROVE slots'[s] \notin Listed'
      BY <1>0, <1>a, <2>1, <3>1, <3>2, <3>4, <3>6 DEF OwnedOnce, Occupied
    <3>7. ASSUME NEW s \in Slots, NEW t \in Slots, Occupied(s)', slots'[s] = slots'[t]
          PROVE  s = t
      BY <1>0, <2>1, <3>1, <3>7 DEF OwnedOnce, Occupied
    <3> QED BY <2>1, <3>5, <3>6, <3>7 DEF OwnedOnce, Occupied
  <2> QED BY <1>0, <2>2, <2>3
<1>9. CASE ConnectListed
  <2> DEFINE c == inactive[at]
            S == Candidates(DeviceOf[c])
  <2>1. at \in 1..Len(inactive) /\ dying' = dying /\ dying = NoController
    BY <1>0, <1>9 DEF ConnectListed, Running
  <2>2. CASE ~(c \in active /\ S # {})
    BY <1>0, <1>9, <2>1, <2>2 DEF ConnectListed, OwnedOnce, Occupied, InSlot, Listed
  <2>3. CASE c \in active /\ S # {}
    <3>1. /\ inactive' = RemoveAt(inactive, at)
          /\ slots' = [slots EXCEPT ![Min(S)] = c]
      BY <1>0, <1>9, <2>3 DEF ConnectListed
    <3>2. Min(S) \in Slots
      BY <1>0, <2>3, FreeSlotFacts
    <3>3. /\ \A i, j \in 1..Len(inactive') : inactive'[i] = inactive'[j] => i = j
          /\ Listed' = Listed \ {c}
      BY <2>1, <3>1, ListedLosesEntry
    <3>4. c \in Listed
      BY <1>0, <2>1 DEF Listed
    <3> HIDE DEF c, S
    <3> QED BY <1>0, <2>1, <3>1, <3>2, <3>3, <3>4 DEF OwnedOnce, Occupied, InSlot
  <2> QED BY <1>0, <2>2, <2>3
<1> QED BY <1>1, <1>2, <1>3, <1>4, <1>5, <1>6, <1>7, <1>8, <1>9, <1>10, PlacementSteps

(* Whatever is plugged, pulled, switched on and off, and however the        *)
(* callbacks interleave: no controller object ever has two owners.          *)
THEOREM ControllersOwnedOnce == Spec => []OwnedOnce
<1>1. Init => OwnedOnce
  BY ControllersAssumption DEF Init, OwnedOnce, Occupied, Listed, InSlot
<1>2. TypeInv /\ OwnedOnce /\ [Next]_vars => OwnedOnce'
  BY OwnedOnceStep
<1> QED BY <1>1, <1>2, InitTypeInv, NextTypeInv, PTL DEF Spec

-----------------------------------------------------------------------------
(* A controller enters a slot only where find_free_slot says: it is free,   *)
(* and it is the lowest candidate for the controller's device.              *)
LEMMA SlotSteps ==
  ASSUME TypeInv, [Next]_vars, NEW s \in Slots
  PROVE  \/ slots'[s] = slots[s]
         \/ slots'[s] = NoController
         \/ /\ Free(s)
            /\ Candidates(DeviceOf[slots'[s]]) # {}
            /\ s = Min(Candidates(DeviceOf[slots'[s]]))
<1>0. slots \in [Slots -> Controllers \cup {NoController}]
  BY DEF TypeInv, TypeOK
<1> DEFINE Kept == slots'[s] = slots[s] \/ slots'[s] = NoController
<1>1. CASE UNCHANGED <<slots, inactive, dying>>
  BY <1>1
<1>2. ASSUME NEW d \in Devices, LaunchReceiver(d) \/ LaunchIgnored(d) PROVE Kept
  BY <1>2 DEF LaunchReceiver, LaunchIgnored
<1>3. ASSUME NEW d \in Devices, LaunchWired(d), ~Kept
      PROVE  /\ Free(s)
             /\ Candidates(DeviceOf[slots'[s]]) # {}
             /\ s = Min(Candidates(DeviceOf[slots'[s]]))
  <2>1. Ports[d] \in Seq(Controllers) /\ Len(Ports[d]) = 1
    BY <1>3, ControllersAssumption, PortsAssumption DEF LaunchWired
  <2>2. 1 \in 1..Len(Ports[d])
    BY <2>1
  <2>3. DeviceOf[Ports[d][1]] = d
    BY <2>2, PortsAssumption
  <2>4. /\ slots' = [slots EXCEPT ![Min(Candidates(d))] = Ports[d][1]]
        /\ Candidates(d) # {}
    BY <1>3 DEF LaunchWired
  <2>5. s = Min(Candidates(d)) /\ slots'[s] = Ports[d][1]
    BY <1>0, <1>3, <2>4
  <2> QED BY <2>3, <2>4, <2>5, FreeSlotFacts
<1>4. ASSUME NEW how, NEW why, Ends(how, why) PROVE Kept
  BY <1>4 DEF Ends
<1>5. ASSUME DisconnectSlot \/ DisconnectListed \/ Destroyed \/ ParkSlot PROVE Kept
  BY <1>0, <1>5 DEF DisconnectSlot, DisconnectListed, Destroyed, ParkSlot
<1>6. ASSUME ConnectListed, ~Kept
      PROVE  /\ Free(s)
             /\ Candidates(DeviceOf[slots'[s]]) # {}
             /\ s = Min(Candidates(DeviceOf[slots'[s]]))
  <2> DEFINE c == inactive[at]
            S == Candidates(DeviceOf[c])
  <2>1. slots' = [slots EXCEPT ![Min(S)] = c] /\ S # {}
    BY <1>6 DEF ConnectListed
  <2>2. s = Min(S) /\ slots'[s] = c
    <3> HIDE DEF c, S
    <3> QED BY <1>0, <1>6, <2>1
  <2> QED BY <2>1, <2>2, FreeSlotFacts
<1> QED BY <1>1, <1>2, <1>3, <1>4, <1>5, <1>6, PlacementSteps

(* A slot with rules only ever holds controllers its rules match, whatever  *)
(* order controllers are plugged, parked and reconnected in.                *)
THEOREM RulesRespected == Spec => []SlotsRespectRules
<1>1. Init => SlotsRespectRules
  BY SlotsAssumption DEF Init, SlotsRespectRules, Occupied
<1>2. ASSUME TypeInv, SlotsRespectRules, [Next]_vars PROVE SlotsRespectRules'
  <2>1. ASSUME NEW s \in RuleSlots, slots'[s] # NoController
        PROVE  DeviceOf[slots'[s]] \in Matches[s]
    <3>1. s \in Slots
      BY SlotsAssumption
    <3>2. CASE slots'[s] = slots[s]
      BY <1>2, <2>1, <3>2 DEF SlotsRespectRules, Occupied
    <3>3. CASE slots'[s] # slots[s]
      <4>1. /\ Candidates(DeviceOf[slots'[s]]) # {}
            /\ s = Min(Candidates(DeviceOf[slots'[s]]))
        BY <1>2, <2>1, <3>1, <3>3, SlotSteps
      <4> QED BY <4>1, FreeSlotFacts
    <3> QED BY <3>2, <3>3
  <2> QED BY <2>1 DEF SlotsRespectRules, Occupied
<1> QED BY <1>1, <1>2, InitTypeInv, NextTypeInv, PTL DEF Spec

(* No step puts a controller where another one is.                          *)
THEOREM NoTakeover == Spec => NoSlotTakenOver
<1>1. ASSUME TypeInv, [Next]_vars
      PROVE  [\A s \in Slots : Occupied(s) /\ slots'[s] # NoController
                                 => slots'[s] = slots[s]]_vars
  BY <1>1, SlotSteps DEF Occupied, Free
<1> QED BY <1>1, InitTypeInv, NextTypeInv, PTL DEF Spec, NoSlotTakenOver

-----------------------------------------------------------------------------
(* The refinement. find_free_slot chooses among the slots the Registry       *)
(* finds fit.                                                               *)
LEMMA FitIsCandidates ==
  ASSUME NEW c \in Controllers
  PROVE  R!Fit(c) = Candidates(DeviceOf[c])
<1>1. R!Empty \cap R!MadeFor(c) = {s \in Slots : Free(s) /\ RuleMatches(s, DeviceOf[c])}
  BY SlotsAssumption DEF R!Empty, R!MadeFor, Free, RuleMatches
<1>2. R!Empty \ RuleSlots = {s \in Slots : Free(s) /\ s \notin RuleSlots}
  BY DEF R!Empty, Free
<1> QED BY <1>1, <1>2 DEF R!Fit, Candidates

(* A change of one controller's stage is what the Registry writes with      *)
(* EXCEPT.                                                                  *)
LEMMA StageChange ==
  ASSUME NEW c \in Controllers, NEW next,
         \A x \in Controllers : Stage(x)' = IF x = c THEN next ELSE Stage(x)
  PROVE  [x \in Controllers |-> Stage(x)]'
           = [[x \in Controllers |-> Stage(x)] EXCEPT ![c] = next]
BY DEF Stage

(* A controller is in one place, which tells its stage. *)
LEMMA StageFacts ==
  ASSUME TypeInv, OwnedOnce, NEW c \in Controllers
  PROVE  /\ Stage(c) = "served" <=> InSlot(c)
         /\ Stage(c) = "waiting" <=> c \in Listed
         /\ Stage(c) = "leaving" <=> c = dying
         /\ Stage(c) = "absent" <=> ~Exists(c)
BY ControllersAssumption DEF Stage, Exists, InSlot, OwnedOnce

(* The lowest candidate is what the Registry calls getting a slot. *)
LEMMA GetsSlotStep ==
  ASSUME NEW c \in Controllers, Candidates(DeviceOf[c]) # {},
         slots' = [slots EXCEPT ![Min(Candidates(DeviceOf[c]))] = c],
         \A x \in Controllers : Stage(x)' = IF x = c THEN "served" ELSE Stage(x)
  PROVE  R!GetsSlot(c)
<1> DEFINE C == Candidates(DeviceOf[c])
<1>1. C \subseteq Nat
  BY SlotsAssumption DEF Candidates, Slots
<1>2. Min(C) \in C /\ \A t \in C : Min(C) <= t
  <2> HIDE DEF C
  <2>1. C # {}
    BY DEF C
  <2> QED BY <1>1, <2>1, MinFacts
<1>3. [x \in Controllers |-> Stage(x)]'
           = [[x \in Controllers |-> Stage(x)] EXCEPT ![c] = "served"]
  BY StageChange
<1> QED BY <1>2, <1>3, FitIsCandidates DEF R!GetsSlot

(* One step of the Registry, or none, for every step that moves, creates or *)
(* destroys a controller.                                                   *)
LEMMA LaunchRefines ==
  ASSUME TypeInv, OwnedOnce, NEW d \in Devices,
         LaunchReceiver(d) \/ LaunchWired(d) \/ (LaunchIgnored(d) /\ dying = NoController)
  PROVE  R!Next
<1>0. /\ slots \in [Slots -> Controllers \cup {NoController}]
      /\ inactive \in Seq(Controllers)
      /\ NoController \notin Controllers
  BY ControllersAssumption DEF TypeInv, TypeOK
<1>1. ASSUME LaunchReceiver(d) PROVE R!ReceiverComes(d)
  <2>1. Ports[d] \in Seq(Controllers)
    BY ControllersAssumption
  <2>2. inactive' = inactive \o Ports[d]
    BY <1>1 DEF LaunchReceiver
  <2>3. Listed' = Listed \cup {x \in Controllers : DeviceOf[x] = d}
    <3>1. /\ Len(inactive') = Len(inactive) + Len(Ports[d])
          /\ \A i \in 1..Len(inactive') :
               inactive'[i] = IF i <= Len(inactive) THEN inactive[i]
                              ELSE Ports[d][i - Len(inactive)]
      BY <1>0, <2>1, <2>2, ConcatProperties
    <3>2. Len(inactive) \in Nat /\ Len(Ports[d]) \in Nat
      BY <1>0, <2>1
    <3>3. {x \in Controllers : DeviceOf[x] = d} = {Ports[d][i] : i \in 1..Len(Ports[d])}
      BY <2>1, PortsAssumption
    <3>4. ASSUME NEW i \in 1..Len(inactive')
          PROVE  inactive'[i] \in Listed \cup {Ports[d][j] : j \in 1..Len(Ports[d])}
      BY <3>1, <3>2 DEF Listed
    <3>5. ASSUME NEW i \in 1..Len(inactive)
          PROVE  inactive[i] \in Listed'
      BY <3>1, <3>2 DEF Listed
    <3>6. ASSUME NEW i \in 1..Len(Ports[d])
          PROVE  Ports[d][i] \in Listed'
      <4>1. Len(inactive) + i \in 1..Len(inactive') /\ inactive'[Len(inactive) + i] = Ports[d][i]
        BY <3>1, <3>2
      <4> QED BY <4>1 DEF Listed
    <3>7. Listed' \subseteq Listed \cup {Ports[d][j] : j \in 1..Len(Ports[d])}
      BY <3>4 DEF Listed
    <3>8. Listed \subseteq Listed'
      BY <3>5 DEF Listed
    <3> QED BY <3>3, <3>6, <3>7, <3>8
  <2>4. \A x \in Controllers : DeviceOf[x] = d => Stage(x) = "absent"
    BY <1>1, StageFacts DEF LaunchReceiver, Creates
  <2>5. UNCHANGED <<slots, active, gone, dying>>
    BY <1>1 DEF LaunchReceiver, flags
  <2>6. ASSUME NEW x \in Controllers
        PROVE  Stage(x)' = IF DeviceOf[x] = d THEN "waiting" ELSE Stage(x)
    BY <2>3, <2>4, <2>5 DEF Stage, InSlot
  <2>7. [x \in Controllers |-> Stage(x)]'
          = [x \in Controllers |-> IF x \in {y \in Controllers : DeviceOf[y] = d}
                                   THEN "waiting" ELSE [y \in Controllers |-> Stage(y)][x]]
    BY <2>6 DEF Stage
  <2> QED BY <2>4, <2>5, <2>7 DEF R!ReceiverComes
<1>a. ASSUME d \notin Wireless, Creates(d)
      PROVE  /\ Ports[d][1] \in Controllers /\ DeviceOf[Ports[d][1]] = d
             /\ Stage(Ports[d][1]) = "absent"
  <2>1. Ports[d] \in Seq(Controllers) /\ Len(Ports[d]) = 1
    BY <1>a, ControllersAssumption, PortsAssumption
  <2>2. 1 \in 1..Len(Ports[d])
    BY <2>1
  <2>3. Ports[d][1] \in Controllers /\ DeviceOf[Ports[d][1]] = d
    BY <2>1, <2>2, PortsAssumption
  <2> QED BY <1>a, <2>3, StageFacts DEF Creates
<1>2. ASSUME LaunchWired(d) PROVE R!Comes(Ports[d][1])
  <2> DEFINE c == Ports[d][1]
  <2>1. c \in Controllers /\ DeviceOf[c] = d /\ Stage(c) = "absent" /\ d \notin Wireless
    BY <1>2, <1>a DEF LaunchWired
  <2>2. /\ Candidates(d) # {}
        /\ slots' = [slots EXCEPT ![Min(Candidates(d))] = c]
        /\ active' = active \cup {c}
        /\ UNCHANGED <<inactive, gone, dying>>
    BY <1>2 DEF LaunchWired
  <2>3. Min(Candidates(d)) \in Slots /\ slots[Min(Candidates(d))] = NoController
    BY <2>2, FreeSlotFacts DEF Free
  <2>4. ASSUME NEW x \in Controllers
        PROVE  Stage(x)' = IF x = c THEN "served" ELSE Stage(x)
    <3> HIDE DEF c
    <3>1. InSlot(x)' <=> InSlot(x) \/ x = c
      BY <1>0, <2>2, <2>3 DEF InSlot
    <3> QED BY <2>2, <3>1 DEF Stage, Listed
  <2>5. R!GetsSlot(c)
    BY <2>1, <2>2, <2>4, GetsSlotStep
  <2> QED BY <2>1, <2>2, <2>5 DEF R!Comes
<1>3. ASSUME LaunchIgnored(d), dying = NoController PROVE R!Comes(Ports[d][1])
  <2> DEFINE c == Ports[d][1]
  <2>1. c \in Controllers /\ DeviceOf[c] = d /\ Stage(c) = "absent" /\ d \notin Wireless
    BY <1>3, <1>a DEF LaunchIgnored
  <2>2. Candidates(d) = {} /\ dying' = c /\ UNCHANGED <<slots, inactive, active, gone>>
    BY <1>3 DEF LaunchIgnored, flags
  <2>3. ASSUME NEW x \in Controllers
        PROVE  Stage(x)' = IF x = c THEN "leaving" ELSE Stage(x)
    <3>1. ~InSlot(c) /\ c \notin Listed
      BY <2>1, StageFacts DEF Exists
    <3> HIDE DEF c
    <3> QED BY <1>0, <1>3, <2>2, <3>1 DEF Stage, Listed, InSlot
  <2>4. [x \in Controllers |-> Stage(x)]'
          = [[x \in Controllers |-> Stage(x)] EXCEPT ![c] = "leaving"]
    BY <2>1, <2>3, StageChange
  <2> QED BY <2>1, <2>2, <2>4, FitIsCandidates DEF R!Comes
<1> QED BY <1>1, <1>2, <1>3, <1>a DEF R!Next, LaunchReceiver, LaunchWired, LaunchIgnored

LEMMA GoesRefines ==
  ASSUME TypeInv, OwnedOnce, DisconnectSlot \/ DisconnectListed
  PROVE  R!Next \/ UNCHANGED R!vars
<1>0. /\ slots \in [Slots -> Controllers \cup {NoController}]
      /\ inactive \in Seq(Controllers) /\ Len(inactive) \in Nat
      /\ NoController \notin Controllers
      /\ dying = NoController /\ at \in Nat \ {0} /\ LoopOK
      /\ UNCHANGED <<active, gone>>
  BY ControllersAssumption
     DEF TypeInv, TypeOK, DisconnectSlot, DisconnectListed, Running, flags
<1>1. ASSUME UNCHANGED <<slots, inactive, dying>> PROVE UNCHANGED R!vars
  BY <1>0, <1>1 DEF R!vars, Stage, InSlot, Listed
<1>2. ASSUME NEW c \in Controllers, c \in gone, Stage(c) \in {"waiting", "served"},
             dying' = c,
             slots' = [s \in Slots |-> IF slots[s] = c THEN NoController ELSE slots[s]],
             Listed' = Listed \ {c}
      PROVE  R!Goes(c)
  <2>1. ASSUME NEW x \in Controllers
        PROVE  Stage(x)' = IF x = c THEN "leaving" ELSE Stage(x)
    BY <1>0, <1>2 DEF Stage, InSlot
  <2>2. [x \in Controllers |-> Stage(x)]'
          = [[x \in Controllers |-> Stage(x)] EXCEPT ![c] = "leaving"]
    BY <2>1, StageChange
  <2> QED BY <1>0, <1>2, <2>2 DEF R!Goes, R!GivesUpSlot
<1>3. CASE DisconnectSlot
  <2> DEFINE c == slots[at]
  <2>1. at \in Slots /\ inactive' = inactive
    BY <1>0, <1>3 DEF DisconnectSlot, Running, LoopOK
  <2>2. CASE ~(Occupied(at) /\ c \in gone)
    BY <1>1, <1>3, <2>1, <2>2 DEF DisconnectSlot
  <2>3. CASE Occupied(at) /\ c \in gone
    <3>1. dying' = c /\ slots' = [slots EXCEPT ![at] = NoController] /\ c \in Controllers
      BY <1>0, <1>3, <2>1, <2>3 DEF DisconnectSlot, Occupied
    <3>2. Stage(c) = "served" /\ c \notin Listed
      BY <1>0, <2>1, <3>1 DEF Stage, InSlot, OwnedOnce
    <3>3. slots' = [s \in Slots |-> IF slots[s] = c THEN NoController ELSE slots[s]]
      BY <1>0, <2>1, <2>3, <3>1 DEF OwnedOnce
    <3>4. Listed' = Listed \ {c}
      BY <2>1, <3>2 DEF Listed
    <3> QED BY <1>2, <2>3, <3>1, <3>2, <3>3, <3>4 DEF R!Next
  <2> QED BY <2>2, <2>3
<1>4. CASE DisconnectListed
  <2> DEFINE c == inactive[at]
  <2>1. at \in 1..Len(inactive) /\ slots' = slots
    BY <1>0, <1>4 DEF DisconnectListed
  <2>2. CASE c \notin gone
    BY <1>1, <1>4, <2>1, <2>2 DEF DisconnectListed
  <2>3. CASE c \in gone
    <3>1. dying' = c /\ inactive' = RemoveAt(inactive, at) /\ c \in Listed /\ c \in Controllers
      BY <1>0, <1>4, <2>1, <2>3 DEF DisconnectListed, Listed
    <3>2. Stage(c) = "waiting" /\ ~InSlot(c)
      BY <1>0, <3>1 DEF Stage, InSlot, OwnedOnce
    <3>3. slots' = [s \in Slots |-> IF slots[s] = c THEN NoController ELSE slots[s]]
      BY <1>0, <2>1, <3>2 DEF InSlot
    <3>4. Listed' = Listed \ {c}
      BY <1>0, <2>1, <3>1, ListedLosesEntry
    <3> QED BY <1>2, <2>3, <3>1, <3>2, <3>3, <3>4 DEF R!Next
  <2> QED BY <2>2, <2>3
<1> QED BY <1>3, <1>4

LEMMA ParkRefines ==
  ASSUME TypeInv, OwnedOnce, ParkSlot
  PROVE  R!Next \/ UNCHANGED R!vars
<1>0. /\ slots \in [Slots -> Controllers \cup {NoController}]
      /\ inactive \in Seq(Controllers) /\ Len(inactive) \in Nat
      /\ NoController \notin Controllers
      /\ dying = NoController /\ at \in Slots
      /\ UNCHANGED <<active, gone, dying>>
  BY ControllersAssumption DEF TypeInv, TypeOK, ParkSlot, Running, LoopOK, flags
<1> DEFINE c == slots[at]
<1>1. CASE ~(Occupied(at) /\ c \notin active)
  <2>1. UNCHANGED <<slots, inactive>>
    BY <1>1 DEF ParkSlot
  <2> QED BY <1>0, <2>1 DEF R!vars, Stage, InSlot, Listed
<1>2. CASE Occupied(at) /\ c \notin active
  <2>1. /\ inactive' = Append(inactive, c) /\ slots' = [slots EXCEPT ![at] = NoController]
        /\ c \in Controllers
    BY <1>0, <1>2 DEF ParkSlot, Occupied
  <2>2. Listed' = Listed \cup {c}
    BY <1>0, <2>1, ListedGainsEntry
  <2>3. Stage(c) = "served"
    BY <1>0 DEF Stage, InSlot
  <2>4. slots' = [s \in Slots |-> IF slots[s] = c THEN NoController ELSE slots[s]]
    BY <1>0, <1>2, <2>1 DEF OwnedOnce
  <2>5. ASSUME NEW x \in Controllers
        PROVE  Stage(x)' = IF x = c THEN "waiting" ELSE Stage(x)
    <3> HIDE DEF c
    <3> QED BY <1>0, <2>1, <2>2, <2>4 DEF Stage, InSlot
  <2>6. [x \in Controllers |-> Stage(x)]'
          = [[x \in Controllers |-> Stage(x)] EXCEPT ![c] = "waiting"]
    BY <2>1, <2>5, StageChange
  <2>7. R!PutAside(c)
    BY <1>0, <1>2, <2>1, <2>3, <2>4, <2>6 DEF R!PutAside, R!GivesUpSlot
  <2> QED BY <2>1, <2>7 DEF R!Next
<1> QED BY <1>1, <1>2

LEMMA ConnectRefines ==
  ASSUME TypeInv, OwnedOnce, ConnectListed
  PROVE  R!Next \/ UNCHANGED R!vars
<1> DEFINE c == inactive[at]
           S == Candidates(DeviceOf[c])
<1>0. /\ slots \in [Slots -> Controllers \cup {NoController}]
      /\ inactive \in Seq(Controllers) /\ Len(inactive) \in Nat
      /\ NoController \notin Controllers
      /\ dying = NoController /\ at \in 1..Len(inactive)
      /\ UNCHANGED <<active, gone, dying>>
  BY ControllersAssumption DEF TypeInv, TypeOK, ConnectListed, Running
<1>1. CASE ~(c \in active /\ S # {})
  <2>1. UNCHANGED <<slots, inactive>>
    BY <1>1 DEF ConnectListed
  <2> QED BY <1>0, <2>1 DEF R!vars, Stage, InSlot, Listed
<1>2. CASE c \in active /\ S # {}
  <2>1. /\ slots' = [slots EXCEPT ![Min(S)] = c] /\ inactive' = RemoveAt(inactive, at)
        /\ c \in Controllers /\ c \in Listed
    BY <1>0, <1>2 DEF ConnectListed, Listed
  <2>2. Min(S) \in Slots /\ slots[Min(S)] = NoController
    BY <1>2, FreeSlotFacts DEF Free
  <2>3. Listed' = Listed \ {c}
    BY <1>0, <2>1, ListedLosesEntry
  <2>4. Stage(c) = "waiting"
    BY <2>1, StageFacts
  <2>5. ASSUME NEW x \in Controllers
        PROVE  Stage(x)' = IF x = c THEN "served" ELSE Stage(x)
    <3>1. InSlot(x)' <=> InSlot(x) \/ x = c
      <4> HIDE DEF c, S
      <4> QED BY <1>0, <2>1, <2>2 DEF InSlot
    <3> HIDE DEF c
    <3> QED BY <1>0, <2>3, <3>1 DEF Stage
  <2>6. R!GetsSlot(c)
    BY <1>2, <2>1, <2>5, GetsSlotStep
  <2>7. R!Served(c)
    BY <1>0, <1>2, <2>4, <2>1, <2>6 DEF R!Served
  <2> QED BY <2>1, <2>7 DEF R!Next
<1> QED BY <1>1, <1>2

LEMMA DestroyedRefines ==
  ASSUME TypeInv, OwnedOnce, Destroyed
  PROVE  R!Next
<1>1. /\ dying \in Controllers /\ dying' = NoController
      /\ active' = active \ {dying} /\ gone' = gone \ {dying}
      /\ UNCHANGED <<slots, inactive>>
      /\ NoController \notin Controllers
  BY ControllersAssumption DEF TypeInv, TypeOK, Destroyed
<1>2. Stage(dying) = "leaving" /\ ~InSlot(dying) /\ dying \notin Listed
  BY <1>1, StageFacts DEF OwnedOnce
<1>3. ASSUME NEW x \in Controllers
      PROVE  Stage(x)' = IF x = dying THEN "absent" ELSE Stage(x)
  BY <1>1, <1>2 DEF Stage, InSlot, Listed
<1>4. [x \in Controllers |-> Stage(x)]'
        = [[x \in Controllers |-> Stage(x)] EXCEPT ![dying] = "absent"]
  BY <1>1, <1>3, StageChange
<1>5. R!Forgotten(dying)
  BY <1>1, <1>2, <1>4 DEF R!Forgotten
<1> QED BY <1>1, <1>5 DEF R!Next

LEMMA EndsRefines ==
  ASSUME NEW how, NEW why, Ends(how, why)
  PROVE  R!Next
<1>1. \A x \in Controllers : Stage(x)' = "absent"
  BY ControllersAssumption DEF Ends, Stage, InSlot, Listed
<1>2. [x \in Controllers |-> Stage(x)]' = [x \in Controllers |-> "absent"]
  BY <1>1 DEF Stage
<1> QED BY <1>2 DEF Ends, R!Next, R!End

(* A read callback is what the Registry calls a controller that speaks.     *)
LEMMA UsbCallbackRefines ==
  ASSUME TypeInv, OwnedOnce, NEW c \in Controllers, UsbCallback(c)
  PROVE  R!Next \/ UNCHANGED R!vars
<1>1. CASE \E how, why : Ends(how, why)
  BY <1>1, EndsRefines
<1>2. CASE ~\E how, why : Ends(how, why)
  <2>1. /\ Reads(c)
        /\ UNCHANGED <<slots, inactive, dying>>
        /\ \/ active' = active \cup {c} /\ gone' = gone
           \/ DeviceOf[c] \in Wireless /\ active' = active \ {c} /\ gone' = gone
           \/ active' = active /\ gone' = gone \cup {c}
           \/ UNCHANGED <<active, gone>>
    BY <1>2 DEF UsbCallback, ConnectionLost, ConnectionFound, StatusWriteThrows, Report,
                Event, DeadThreadCrash, NoDevice, ResubmitFails, SetActive, SetInactive,
                SendDisconnect
  <2>2. Stage(c) \in {"waiting", "served"} /\ c \notin gone
    BY <2>1 DEF Reads, Stage
  <2>3. [x \in Controllers |-> Stage(x)]' = [x \in Controllers |-> Stage(x)]
    BY <2>1 DEF Stage, InSlot, Listed
  <2>4. CASE UNCHANGED <<active, gone>>
    BY <2>1, <2>3, <2>4 DEF R!vars
  <2>5. CASE ~UNCHANGED <<active, gone>>
    <3>1. R!Speaks(c)
      BY <2>1, <2>2, <2>3, <2>5 DEF R!Speaks
    <3> QED BY <3>1 DEF R!Next
  <2> QED BY <2>4, <2>5
<1> QED BY <1>1, <1>2

(* Every step of the daemon is a step of the Registry, or changes nothing   *)
(* the Registry sees.                                                       *)
LEMMA NextRefines ==
  ASSUME TypeInv, OwnedOnce, [Next]_vars
  PROVE  [R!Next]_(R!vars)
<1>a. ASSUME UNCHANGED <<slots, inactive, dying, flags>> PROVE UNCHANGED R!vars
  BY <1>a DEF R!vars, Stage, InSlot, Listed, flags
<1>1. CASE UNCHANGED vars
  BY <1>1, <1>a DEF vars
<1>2. ASSUME NEW d \in Devices, Plug(d) \/ Unplug(d) PROVE UNCHANGED R!vars
  BY <1>2, <1>a DEF Plug, Unplug
<1>3. ASSUME NEW d \in Devices, EnumerateDevice(d) \/ UdevAdd(d)
      PROVE  R!Next \/ UNCHANGED R!vars
  <2>1. CASE LaunchNothing
    BY <2>1, <1>a DEF LaunchNothing
  <2>2. CASE ~LaunchNothing
    BY <1>3, <2>2, LaunchRefines DEF EnumerateDevice, UdevAdd, Launch
  <2> QED BY <2>1, <2>2
<1>4. CASE EnterMainLoop
  BY <1>4, <1>a DEF EnterMainLoop
<1>5. ASSUME NEW c \in Controllers, UsbCallback(c) PROVE R!Next \/ UNCHANGED R!vars
  BY <1>5, UsbCallbackRefines
<1>6. CASE IdleStep
  <2>1. CASE DispatchIdle \/ EndOfList
    BY <1>a, <2>1 DEF DispatchIdle, EndOfList
  <2> QED BY <1>6, <2>1, GoesRefines, ParkRefines, ConnectRefines DEF IdleStep
<1>7. CASE Destroyed
  BY <1>7, DestroyedRefines
<1>8. CASE Signal
  <2>1. CASE \E how, why : Ends(how, why)
    BY <2>1, EndsRefines
  <2>2. CASE ~\E how, why : Ends(how, why)
    BY <1>8, <1>a, <2>2 DEF Signal
  <2> QED BY <2>1, <2>2
<1>9. CASE Teardown
  BY <1>9, EndsRefines DEF Teardown
<1> QED BY <1>1, <1>2, <1>3, <1>4, <1>5, <1>6, <1>7, <1>8, <1>9 DEF Next

(* The daemon with its callbacks, queues and loops keeps what the Registry  *)
(* promises: who gets which slot and when, and who may lose it.             *)
THEOREM DaemonImplementsRegistry == Spec => ImplementsRegistry
<1>1. Init => R!Init
  <2> SUFFICES ASSUME Init PROVE R!Init
    OBVIOUS
  <2>1. \A x \in Controllers : Stage(x) = "absent"
    BY ControllersAssumption DEF Init, Stage, InSlot, Listed
  <2> QED BY <2>1 DEF Init, R!Init
<1>2. Init => TypeInv /\ OwnedOnce
  BY InitTypeInv, ControllersAssumption DEF Init, OwnedOnce, Occupied, Listed, InSlot
<1>3. TypeInv /\ OwnedOnce /\ [Next]_vars => (TypeInv /\ OwnedOnce)'
  BY NextTypeInv, OwnedOnceStep
<1>4. TypeInv /\ OwnedOnce /\ [Next]_vars => [R!Next]_(R!vars)
  BY NextRefines
<1> QED BY <1>1, <1>2, <1>3, <1>4, PTL DEF Spec, ImplementsRegistry, R!Spec

-----------------------------------------------------------------------------
(* Only objects that exist are disconnected: a controller that is created    *)
(* again starts without the flag.                                           *)
GoneExist == \A c \in gone : Exists(c)

(* A disconnected controller is in a slot or in the list, with a callback    *)
(* on its way to it, or it is being destroyed.                              *)
SweepInv == TypeInv /\ OwnedOnce /\ GoneExist /\ NoDisconnectForgotten

Placed(c) == InSlot(c) \/ c \in Listed

(* What is queued stays queued until it is dispatched. *)
LEMMA QueuedStays ==
  ASSUME TypeInv, NEW callback \in Callbacks, NEW queued,
         idle' = idle \/ QueueIdle(callback),
         \E i \in 1..Len(idle) : idle[i] = queued
  PROVE  \E i \in 1..Len(idle') : idle'[i] = queued
<1>1. idle \in Seq(Callbacks) /\ Len(idle) \in Nat
  BY DEF TypeInv, TypeOK
<1>2. CASE idle' = Append(idle, callback)
  <2>1. /\ Len(idle') = Len(idle) + 1
        /\ \A i \in 1..Len(idle) : idle'[i] = idle[i]
    BY <1>1, <1>2, AppendProperties
  <2> QED BY <1>1, <2>1
<1> QED BY <1>2 DEF QueueIdle

(* Nothing that leaves the places and the flags alone, and dispatches        *)
(* nothing, makes a callback miss a controller.                             *)
LEMMA SweepStays ==
  ASSUME SweepInv, UNCHANGED <<slots, inactive, dying, gone, op, at>>,
         \/ idle' = idle
         \/ \E callback \in Callbacks : QueueIdle(callback)
  PROVE  GoneExist' /\ NoDisconnectForgotten'
<1>1. GoneExist'
  BY DEF SweepInv, GoneExist, Exists, InSlot, Listed
<1>2. ASSUME NEW c \in gone, Placed(c) PROVE WillSweep(c)'
  <2>1. WillSweep(c)
    BY <1>2 DEF SweepInv, NoDisconnectForgotten, Placed
  <2>2. CASE \E i \in 1..Len(idle) : idle[i] = "on_controller_disconnect"
    <3>1. \E i \in 1..Len(idle') : idle'[i] = "on_controller_disconnect"
      BY <2>2, QueuedStays DEF SweepInv, Callbacks
    <3> QED BY <3>1 DEF WillSweep
  <2>3. CASE ~\E i \in 1..Len(idle) : idle[i] = "on_controller_disconnect"
    BY <2>1, <2>3 DEF WillSweep, Listed
  <2> QED BY <2>2, <2>3
<1> QED BY <1>1, <1>2 DEF NoDisconnectForgotten, Placed, InSlot, Listed

LEMMA LaunchSweep ==
  ASSUME SweepInv, NEW d \in Devices,
         LaunchReceiver(d) \/ LaunchWired(d) \/ (LaunchIgnored(d) /\ dying = NoController)
  PROVE  GoneExist' /\ NoDisconnectForgotten'
<1>0. /\ slots \in [Slots -> Controllers \cup {NoController}]
      /\ inactive \in Seq(Controllers) /\ Len(inactive) \in Nat
      /\ gone \subseteq Controllers /\ NoController \notin Controllers
      /\ UNCHANGED <<gone, idle, op, at>>
      /\ \A c \in Controllers : DeviceOf[c] = d => ~Exists(c)
      /\ Ports[d] \in Seq(Controllers) /\ Len(Ports[d]) \in Nat
  BY ControllersAssumption DEF SweepInv, TypeInv, TypeOK, LaunchReceiver, LaunchWired,
     LaunchIgnored, flags, handler, Creates
<1>1. \A i \in 1..Len(Ports[d]) : Ports[d][i] \notin gone
  BY <1>0, PortsAssumption DEF SweepInv, GoneExist
<1>2. d \notin Wireless => 1 \in 1..Len(Ports[d])
  <2>1. d \notin Wireless => Len(Ports[d]) = 1
    BY PortsAssumption
  <2> QED BY <2>1
<1>3. ASSUME NEW c \in gone
      PROVE  /\ Placed(c)' => Placed(c)
             /\ Exists(c) => Exists(c)'
             /\ \A s \in Slots : slots[s] = c => slots'[s] = c
             /\ \A i \in 1..Len(inactive) : i \in 1..Len(inactive') /\ inactive'[i] = inactive[i]
             /\ c \in Listed => c \in Listed'
  <2>1. CASE LaunchReceiver(d)
    <3>1. inactive' = inactive \o Ports[d] /\ slots' = slots /\ dying' = dying
      BY <2>1 DEF LaunchReceiver
    <3>2. /\ Len(inactive') = Len(inactive) + Len(Ports[d])
          /\ \A i \in 1..Len(inactive') :
               inactive'[i] = IF i <= Len(inactive) THEN inactive[i]
                              ELSE Ports[d][i - Len(inactive)]
      BY <1>0, <3>1, ConcatProperties
    <3>3. \A i \in 1..Len(inactive) : i \in 1..Len(inactive') /\ inactive'[i] = inactive[i]
      BY <1>0, <3>2
    <3>4. c \in Listed => c \in Listed'
      BY <3>3 DEF Listed
    <3>5. c \in Listed' => c \in Listed
      <4> SUFFICES ASSUME NEW i \in 1..Len(inactive'), inactive'[i] = c
                   PROVE  c \in Listed
        BY DEF Listed
      <4>1. CASE i <= Len(inactive)
        BY <1>0, <3>2, <4>1 DEF Listed
      <4>2. CASE i > Len(inactive)
        <5>1. i - Len(inactive) \in 1..Len(Ports[d]) /\ c = Ports[d][i - Len(inactive)]
          BY <1>0, <3>2, <4>2
        <5> QED BY <1>1, <5>1
      <4> QED BY <1>0, <3>2, <4>1, <4>2
    <3> QED BY <3>1, <3>3, <3>4, <3>5 DEF Placed, InSlot, Exists
  <2>2. CASE LaunchWired(d)
    <3>1. /\ slots' = [slots EXCEPT ![Min(Candidates(d))] = Ports[d][1]]
          /\ Min(Candidates(d)) \in Slots /\ slots[Min(Candidates(d))] = NoController
          /\ inactive' = inactive /\ dying' = dying /\ Ports[d][1] # c
      BY <1>1, <1>2, <2>2, FreeSlotFacts DEF LaunchWired, Free
    <3>2. \A s \in Slots : slots'[s] = c <=> slots[s] = c
      BY <1>0, <3>1
    <3> QED BY <1>0, <3>1, <3>2 DEF Placed, InSlot, Exists, Listed
  <2>3. CASE LaunchIgnored(d) /\ dying = NoController
    BY <1>0, <2>3 DEF LaunchIgnored, Placed, InSlot, Exists, Listed
  <2> QED BY <2>1, <2>2, <2>3
<1>4. GoneExist'
  BY <1>0, <1>3 DEF SweepInv, GoneExist
<1>5. ASSUME NEW c \in gone', Placed(c)' PROVE WillSweep(c)'
  <2>1. c \in gone /\ Placed(c) /\ WillSweep(c)
    BY <1>0, <1>3, <1>5 DEF SweepInv, NoDisconnectForgotten, Placed
  <2> QED BY <1>0, <1>3, <2>1 DEF WillSweep
<1> QED BY <1>4, <1>5 DEF NoDisconnectForgotten, Placed

(* The callback that starts looks at all slots, then at the whole list.     *)
LEMMA DispatchSweep ==
  ASSUME SweepInv, DispatchIdle
  PROVE  GoneExist' /\ NoDisconnectForgotten'
<1>1. /\ idle \in Seq(Callbacks) /\ idle # <<>> /\ idle' = Tail(idle)
      /\ op = "none" /\ at' = 1
      /\ op' = IF Head(idle) = "on_controller_disconnect"
               THEN "disconnect_slots" ELSE "activate_slots"
      /\ UNCHANGED <<slots, inactive, dying, gone>>
  BY DEF SweepInv, TypeInv, TypeOK, DispatchIdle, Running, flags
<1>2. GoneExist'
  BY <1>1 DEF SweepInv, GoneExist, Exists, InSlot, Listed
<1>3. ASSUME NEW c \in gone, Placed(c) PROVE WillSweep(c)'
  <2>1. CASE Head(idle) = "on_controller_disconnect"
    <3>1. \A s \in Slots : s >= 1
      BY DEF Slots
    <3> QED BY <1>1, <1>3, <2>1, <3>1 DEF WillSweep, Placed, InSlot, Listed
  <2>2. CASE Head(idle) # "on_controller_disconnect"
    <3>1. PICK i \in 1..Len(idle) : idle[i] = "on_controller_disconnect"
      BY <1>1, <1>3 DEF SweepInv, NoDisconnectForgotten, Placed, WillSweep
    <3>2. i # 1
      BY <1>1, <2>2, <3>1
    <3>3. /\ Len(Tail(idle)) = Len(idle) - 1
          /\ \A j \in 1..(Len(idle) - 1) : Tail(idle)[j] = idle[j + 1]
      BY <1>1, HeadTailProperties
    <3>4. i - 1 \in 1..Len(idle') /\ idle'[i - 1] = "on_controller_disconnect"
      BY <1>1, <3>1, <3>2, <3>3
    <3> QED BY <3>4 DEF WillSweep
  <2> QED BY <2>1, <2>2
<1> QED BY <1>1, <1>2, <1>3 DEF NoDisconnectForgotten, Placed, InSlot, Listed

(* The slot loop has left no disconnected controller behind it, ...         *)
LEMMA DisconnectSlotSweep ==
  ASSUME SweepInv, DisconnectSlot
  PROVE  GoneExist' /\ NoDisconnectForgotten'
<1>0. /\ slots \in [Slots -> Controllers \cup {NoController}]
      /\ inactive \in Seq(Controllers) /\ Len(inactive) \in Nat
      /\ gone \subseteq Controllers /\ NoController \notin Controllers
      /\ at \in Slots /\ dying = NoController /\ op = "disconnect_slots"
      /\ UNCHANGED <<inactive, gone, idle>>
  BY ControllersAssumption
     DEF SweepInv, TypeInv, TypeOK, LoopOK, DisconnectSlot, Running, flags
<1>1. Listed' = Listed
  BY <1>0 DEF Listed
<1>2. ASSUME NEW c \in gone
      PROVE  /\ InSlot(c)' => InSlot(c)
             /\ InSlot(c) => InSlot(c)' \/ dying' = c
             /\ slots'[at] # c
             /\ \A s \in Slots : s # at => slots'[s] = slots[s]
  <2>1. CASE Occupied(at) /\ slots[at] \in gone
    BY <1>0, <1>2, <2>1 DEF DisconnectSlot, InSlot
  <2>2. CASE ~(Occupied(at) /\ slots[at] \in gone)
    BY <1>0, <1>2, <2>2 DEF DisconnectSlot, InSlot, Occupied
  <2> QED BY <2>1, <2>2
<1>3. GoneExist'
  BY <1>0, <1>1, <1>2 DEF SweepInv, GoneExist, Exists
<1>4. ASSUME NEW c \in gone', Placed(c)' PROVE WillSweep(c)'
  <2>1. c \in gone /\ WillSweep(c)
    BY <1>0, <1>1, <1>2, <1>4 DEF SweepInv, NoDisconnectForgotten, Placed
  <2>2. CASE \E i \in 1..Len(idle) : idle[i] = "on_controller_disconnect"
    BY <1>0, <2>2 DEF WillSweep
  <2>3. CASE c \in Listed
    <3>1. CASE at < NumSlots
      <4>1. op' = "disconnect_slots" /\ c \in Listed'
        BY <1>0, <1>1, <2>3, <3>1 DEF DisconnectSlot, NextSlot
      <4> QED BY <4>1 DEF WillSweep
    <3>2. CASE ~(at < NumSlots)
      <4>1. op' = "disconnect_list" /\ at' = 1
        BY <1>0, <3>2 DEF DisconnectSlot, NextSlot
      <4>2. \E i \in 1..Len(inactive') : i >= at' /\ inactive'[i] = c
        BY <1>0, <2>3, <4>1 DEF Listed
      <4> QED BY <4>1, <4>2 DEF WillSweep
    <3> QED BY <3>1, <3>2
  <2>4. CASE c \notin Listed /\ ~\E i \in 1..Len(idle) : idle[i] = "on_controller_disconnect"
    <3>1. PICK s \in Slots : s >= at /\ slots[s] = c
      BY <1>0, <2>1, <2>4 DEF WillSweep
    <3>2. s # at
      <4>1. InSlot(c)' /\ c # NoController
        BY <1>0, <1>1, <1>4, <2>1, <2>4 DEF Placed
      <4>2. PICK t \in Slots : slots'[t] = c
        BY <4>1 DEF InSlot
      <4>3. t # at /\ slots[t] = c
        BY <1>2, <2>1, <4>2
      <4> QED BY <3>1, <4>1, <4>3 DEF SweepInv, OwnedOnce, Occupied
    <3>3. at < NumSlots /\ s >= at + 1 /\ slots'[s] = c
      BY <1>0, <1>2, <2>1, <3>1, <3>2, SlotsAssumption DEF Slots
    <3>4. op' = "disconnect_slots" /\ at' = at + 1
      BY <1>0, <3>3 DEF DisconnectSlot, NextSlot
    <3> QED BY <3>3, <3>4 DEF WillSweep
  <2> QED BY <2>2, <2>3, <2>4
<1> QED BY <1>3, <1>4 DEF NoDisconnectForgotten, Placed

(* ... nor has the list loop.                                               *)
LEMMA DisconnectListedSweep ==
  ASSUME SweepInv, DisconnectListed
  PROVE  GoneExist' /\ NoDisconnectForgotten'
<1>0. /\ inactive \in Seq(Controllers) /\ Len(inactive) \in Nat
      /\ gone \subseteq Controllers
      /\ at \in 1..Len(inactive) /\ dying = NoController /\ op = "disconnect_list"
      /\ NoController \notin Controllers
      /\ UNCHANGED <<slots, gone, idle, op>>
  BY ControllersAssumption DEF SweepInv, TypeInv, TypeOK, DisconnectListed, Running, flags
<1>1. CASE inactive[at] \notin gone
  <2>1. at' = at + 1 /\ UNCHANGED <<inactive, dying>>
    BY <1>1 DEF DisconnectListed
  <2>2. ASSUME NEW c \in gone, Placed(c) PROVE WillSweep(c)'
    <3>1. WillSweep(c)
      BY <2>2 DEF SweepInv, NoDisconnectForgotten, Placed
    <3>2. CASE \E i \in 1..Len(idle) : idle[i] = "on_controller_disconnect"
      BY <1>0, <3>2 DEF WillSweep
    <3>3. CASE \E i \in 1..Len(inactive) : i >= at /\ inactive[i] = c
      <4>1. PICK i \in 1..Len(inactive) : i >= at /\ inactive[i] = c
        BY <3>3
      <4>2. i >= at + 1
        BY <1>0, <1>1, <2>2, <4>1
      <4> QED BY <1>0, <2>1, <4>1, <4>2 DEF WillSweep
    <3> QED BY <1>0, <3>1, <3>2, <3>3 DEF WillSweep
  <2> QED BY <1>0, <2>1, <2>2 DEF SweepInv, GoneExist, NoDisconnectForgotten, Placed,
            Exists, InSlot, Listed
<1>2. CASE inactive[at] \in gone
  <2>1. inactive' = RemoveAt(inactive, at) /\ dying' = inactive[at] /\ at' = at
    BY <1>2 DEF DisconnectListed
  <2>2. Listed' = Listed \ {inactive[at]}
    BY <1>0, <2>1, ListedLosesEntry DEF SweepInv
  <2>3. /\ Len(inactive') = Len(inactive) - 1
        /\ \A j \in 1..(Len(inactive) - 1) :
             inactive'[j] = IF j < at THEN inactive[j] ELSE inactive[j + 1]
    BY <1>0, <2>1, RemoveAtFacts
  <2>4. GoneExist'
    BY <1>0, <2>1, <2>2 DEF SweepInv, GoneExist, Exists, InSlot
  <2>5. ASSUME NEW c \in gone, Placed(c)' PROVE WillSweep(c)'
    <3>1. c # inactive[at] /\ WillSweep(c)
      <4>1. inactive[at] \in Listed
        BY <1>0 DEF Listed
      <4> QED BY <1>0, <2>2, <2>5, <4>1
              DEF SweepInv, OwnedOnce, NoDisconnectForgotten, Placed, InSlot
    <3>2. CASE \E i \in 1..Len(idle) : idle[i] = "on_controller_disconnect"
      BY <1>0, <3>2 DEF WillSweep
    <3>3. CASE \E i \in 1..Len(inactive) : i >= at /\ inactive[i] = c
      <4>1. PICK i \in 1..Len(inactive) : i >= at /\ inactive[i] = c
        BY <3>3
      <4>2. i > at
        BY <1>0, <3>1, <4>1
      <4>3. i - 1 \in 1..Len(inactive') /\ i - 1 >= at /\ inactive'[i - 1] = c
        BY <1>0, <2>3, <4>1, <4>2
      <4> QED BY <1>0, <2>1, <4>3 DEF WillSweep
    <3> QED BY <1>0, <3>1, <3>2, <3>3 DEF WillSweep
  <2> QED BY <1>0, <2>4, <2>5 DEF NoDisconnectForgotten, Placed
<1> QED BY <1>1, <1>2

(* Outside on_controller_disconnect it is the queue that promises the sweep, *)
(* and a controller that is parked or connected stays in a place.           *)
LEMMA ActivateSweep ==
  ASSUME SweepInv, ParkSlot \/ ConnectListed
  PROVE  GoneExist' /\ NoDisconnectForgotten'
<1>0. /\ slots \in [Slots -> Controllers \cup {NoController}]
      /\ inactive \in Seq(Controllers) /\ Len(inactive) \in Nat
      /\ gone \subseteq Controllers /\ NoController \notin Controllers
      /\ op \in {"activate_slots", "activate_list"}
      /\ ParkSlot => at \in Slots
      /\ ConnectListed => at \in 1..Len(inactive)
      /\ UNCHANGED <<gone, idle, dying>>
  BY ControllersAssumption
     DEF SweepInv, TypeInv, TypeOK, LoopOK, ParkSlot, ConnectListed, Running, flags
<1>1. ASSUME NEW c \in Controllers PROVE Placed(c)' <=> Placed(c)
  <2>1. CASE UNCHANGED <<slots, inactive>>
    BY <2>1 DEF Placed, InSlot, Listed
  <2>2. CASE ParkSlot /\ inactive' = Append(inactive, slots[at])
    <3> DEFINE x == slots[at]
    <3>1. slots' = [slots EXCEPT ![at] = NoController] /\ x \in Controllers
      BY <1>0, <2>1, <2>2 DEF ParkSlot, Occupied
    <3>2. Listed' = Listed \cup {x}
      BY <1>0, <2>2, <3>1, ListedGainsEntry
    <3> QED BY <1>0, <1>1, <2>2, <3>1, <3>2 DEF Placed, InSlot
  <2>3. CASE ConnectListed /\ inactive' = RemoveAt(inactive, at)
    <3> DEFINE x == inactive[at]
               S == Candidates(DeviceOf[x])
    <3>1. \/ UNCHANGED <<slots, inactive>>
          \/ slots' = [slots EXCEPT ![Min(S)] = x] /\ S # {}
      BY <2>3 DEF ConnectListed
    <3>2. S # {} => Min(S) \in Slots /\ slots[Min(S)] = NoController
      BY FreeSlotFacts DEF Free
    <3>3. Listed' = Listed \ {x} /\ x \in Listed
      BY <1>0, <2>3, ListedLosesEntry DEF SweepInv, Listed
    <3> HIDE DEF x, S
    <3> QED BY <1>0, <1>1, <2>1, <3>1, <3>2, <3>3 DEF Placed, InSlot
  <2> QED BY <1>0, <2>1, <2>2, <2>3 DEF ParkSlot, ConnectListed
<1>2. GoneExist'
  BY <1>0, <1>1 DEF SweepInv, GoneExist, Exists, Placed
<1>3. ASSUME NEW c \in gone', Placed(c)' PROVE WillSweep(c)'
  <2>1. \E i \in 1..Len(idle) : idle[i] = "on_controller_disconnect"
    BY <1>0, <1>1, <1>3 DEF SweepInv, NoDisconnectForgotten, Placed, WillSweep
  <2> QED BY <1>0, <2>1 DEF WillSweep
<1> QED BY <1>2, <1>3 DEF NoDisconnectForgotten, Placed

LEMMA SweepStep ==
  ASSUME SweepInv, [Next]_vars
  PROVE  GoneExist' /\ NoDisconnectForgotten'
<1>a. ASSUME NEW how, NEW why, Ends(how, why)
      PROVE  GoneExist' /\ NoDisconnectForgotten'
  BY <1>a DEF Ends, GoneExist, NoDisconnectForgotten
<1>b. ASSUME UNCHANGED <<slots, inactive, dying, gone, op, at, idle>>
      PROVE  GoneExist' /\ NoDisconnectForgotten'
  BY <1>b, SweepStays
<1>1. CASE UNCHANGED vars
  BY <1>1, <1>b DEF vars, flags, handler
<1>2. ASSUME NEW d \in Devices, Plug(d) \/ Unplug(d)
      PROVE  GoneExist' /\ NoDisconnectForgotten'
  BY <1>2, <1>b DEF Plug, Unplug, flags, handler
<1>3. ASSUME NEW d \in Devices, EnumerateDevice(d) \/ UdevAdd(d)
      PROVE  GoneExist' /\ NoDisconnectForgotten'
  <2>1. CASE LaunchNothing
    BY <2>1, <1>b DEF LaunchNothing, flags, handler
  <2> QED BY <1>3, <2>1, LaunchSweep DEF EnumerateDevice, UdevAdd, Launch
<1>4. CASE EnterMainLoop
  BY <1>4, <1>b DEF EnterMainLoop, flags, handler
<1>5. ASSUME NEW c \in Controllers, UsbCallback(c)
      PROVE  GoneExist' /\ NoDisconnectForgotten'
  <2>1. CASE \E how, why : Ends(how, why)
    BY <2>1, <1>a
  <2>2. CASE NoDevice(c) \/ ResubmitFails(c)
    <3>1. /\ Reads(c) /\ gone' = gone \cup {c} /\ UNCHANGED <<slots, inactive, dying>>
          /\ idle' = Append(idle, "on_controller_disconnect")
      BY <2>2 DEF NoDevice, ResubmitFails, SendDisconnect, QueueIdle
    <3>2. idle \in Seq(Callbacks) /\ Len(idle) \in Nat
      BY DEF SweepInv, TypeInv, TypeOK
    <3>3. Len(idle') = Len(idle) + 1 /\ idle'[Len(idle) + 1] = "on_controller_disconnect"
      BY <3>1, <3>2, AppendProperties DEF Callbacks
    <3>4. \A x : WillSweep(x)'
      BY <3>2, <3>3 DEF WillSweep
    <3>5. GoneExist'
      BY <3>1 DEF SweepInv, GoneExist, Exists, InSlot, Listed, Reads
    <3> QED BY <3>4, <3>5 DEF NoDisconnectForgotten
  <2>3. CASE ~(\E how, why : Ends(how, why)) /\ ~(NoDevice(c) \/ ResubmitFails(c))
    <3>1. /\ UNCHANGED <<slots, inactive, dying, gone, op, at>>
          /\ idle' = idle \/ \E callback \in Callbacks : QueueIdle(callback)
      BY <1>5, <2>3 DEF UsbCallback, ConnectionLost, ConnectionFound, StatusWriteThrows,
         Report, Event, DeadThreadCrash, SetActive, SetInactive, Callbacks, handler
    <3> QED BY <3>1, SweepStays
  <2> QED BY <2>1, <2>2, <2>3
<1>6. CASE EndOfList
  <2>1. /\ at \in Nat /\ Len(inactive) \in Nat /\ at > Len(inactive)
        /\ op \in {"disconnect_list", "activate_list"}
        /\ UNCHANGED <<slots, inactive, dying, gone, idle>>
    BY <1>6 DEF SweepInv, TypeInv, TypeOK, EndOfList, Running, flags
  <2>2. GoneExist'
    BY <2>1 DEF SweepInv, GoneExist, Exists, InSlot, Listed
  <2>3. ASSUME NEW c \in gone, Placed(c) PROVE WillSweep(c)'
    <3>1. \E i \in 1..Len(idle) : idle[i] = "on_controller_disconnect"
      BY <2>1, <2>3 DEF SweepInv, NoDisconnectForgotten, Placed, WillSweep
    <3> QED BY <2>1, <3>1 DEF WillSweep
  <2> QED BY <2>1, <2>2, <2>3 DEF NoDisconnectForgotten, Placed, InSlot, Listed
<1>7. CASE Destroyed
  <2>1. gone' = gone \ {dying} /\ UNCHANGED <<slots, inactive, idle, op, at>>
    BY <1>7 DEF Destroyed, handler
  <2> QED BY <2>1 DEF SweepInv, GoneExist, Exists, NoDisconnectForgotten, WillSweep,
            InSlot, Listed
<1>8. CASE Signal
  <2>1. CASE \E how, why : Ends(how, why)
    BY <2>1, <1>a
  <2>2. CASE ~\E how, why : Ends(how, why)
    BY <1>8, <1>b, <2>2 DEF Signal, flags, handler
  <2> QED BY <2>1, <2>2
<1>9. CASE Teardown
  BY <1>9, <1>a DEF Teardown
<1> QED BY <1>1, <1>2, <1>3, <1>4, <1>5, <1>6, <1>7, <1>8, <1>9,
          DispatchSweep, DisconnectSlotSweep, DisconnectListedSweep, ActivateSweep
       DEF Next, IdleStep

(* However pulling, switching, the two callbacks and the destructors        *)
(* interleave: every disconnected controller that still has a place will be *)
(* found by a callback that is queued or on its way.                        *)
THEOREM DisconnectsAreSwept == Spec => []NoDisconnectForgotten
<1>1. Init => SweepInv
  BY InitTypeInv, ControllersAssumption DEF Init, SweepInv, OwnedOnce, Occupied, Listed,
     InSlot, GoneExist, NoDisconnectForgotten
<1>2. SweepInv /\ [Next]_vars => SweepInv'
  BY SweepStep, NextTypeInv, OwnedOnceStep DEF SweepInv
<1>3. SweepInv => NoDisconnectForgotten
  BY DEF SweepInv
<1> QED BY <1>1, <1>2, <1>3, PTL DEF Spec

-----------------------------------------------------------------------------
(***************************************************************************)
(* A pad that switches off is noticed just as well.                         *)
(***************************************************************************)

(* Nothing is read and nothing destroyed while on_controller_activate runs. *)
Undisturbed ==
  /\ phase = "enumerating" => op = "none"
  /\ op \in {"activate_slots", "activate_list"} => dying = NoController

SwitchInv == TypeInv /\ OwnedOnce /\ Undisturbed /\ NoSwitchForgotten

LEMMA UndisturbedStep ==
  ASSUME SwitchInv, [Next]_vars
  PROVE  Undisturbed'
<1>1. CASE UNCHANGED <<phase, op, dying>>
  BY <1>1 DEF SwitchInv, Undisturbed
<1>2. ASSUME NEW how, NEW why, Ends(how, why), how \in {"exited", "failed"} PROVE Undisturbed'
  BY <1>2 DEF Ends, Undisturbed
<1>3. CASE UNCHANGED vars
  BY <1>3, <1>1 DEF vars, proc, handler
<1>4. ASSUME NEW d \in Devices, Plug(d) \/ Unplug(d) PROVE Undisturbed'
  BY <1>4, <1>1 DEF Plug, Unplug, proc, handler
<1>5. ASSUME NEW d \in Devices, EnumerateDevice(d) \/ UdevAdd(d) PROVE Undisturbed'
  <2>1. op = "none" /\ op' = op /\ phase' = phase
    BY <1>5 DEF EnumerateDevice, UdevAdd, Launch, LaunchNothing, LaunchReceiver, LaunchWired,
       LaunchIgnored, proc, handler, SwitchInv, Undisturbed
  <2> QED BY <2>1 DEF Undisturbed
<1>6. CASE EnterMainLoop
  BY <1>6 DEF EnterMainLoop, handler, SwitchInv, Undisturbed
<1>7. ASSUME NEW c \in Controllers, UsbCallback(c) PROVE Undisturbed'
  BY <1>7, <1>1, <1>2 DEF UsbCallback, ConnectionLost, ConnectionFound, StatusWriteThrows,
     Report, Event, DeadThreadCrash, NoDevice, ResubmitFails, proc, handler
<1>8. CASE IdleStep
  <2>1. phase = "running" /\ phase' = phase
    BY <1>8 DEF IdleStep, DispatchIdle, DisconnectSlot, DisconnectListed, ParkSlot,
       ConnectListed, EndOfList, Running, proc
  <2>2. CASE DispatchIdle \/ EndOfList
    BY <2>1, <2>2 DEF DispatchIdle, EndOfList, Running, Undisturbed
  <2>3. CASE DisconnectSlot
    <3>1. op' \in {"disconnect_slots", "disconnect_list"}
      BY <2>3 DEF DisconnectSlot, NextSlot, Running
    <3> QED BY <2>1, <3>1 DEF Undisturbed
  <2>4. CASE DisconnectListed
    BY <2>1, <2>4 DEF DisconnectListed, Running, Undisturbed
  <2>5. CASE ParkSlot \/ ConnectListed
    BY <2>1, <2>5 DEF ParkSlot, ConnectListed, Running, Undisturbed
  <2> QED BY <1>8, <2>2, <2>3, <2>4, <2>5 DEF IdleStep
<1>9. CASE Destroyed
  BY <1>9 DEF Destroyed, proc, handler, SwitchInv, Undisturbed
<1>10. CASE Signal
  BY <1>10, <1>1, <1>2 DEF Signal, handler
<1>11. CASE Teardown
  BY <1>11, <1>2 DEF Teardown
<1> QED BY <1>3, <1>4, <1>5, <1>6, <1>7, <1>8, <1>9, <1>10, <1>11 DEF Next

(* As long as no pad switches and nothing is placed, nothing is missed.     *)
LEMMA SwitchStays ==
  ASSUME SwitchInv, UNCHANGED <<slots, inactive, active, idle, op, at>>
  PROVE  NoSwitchForgotten'
BY DEF SwitchInv, NoSwitchForgotten, WillPark, InSlot, Candidates, Free, RuleMatches

LEMMA EndsSwitch ==
  ASSUME NEW how, NEW why, Ends(how, why), NoController \notin Controllers
  PROVE  NoSwitchForgotten'
BY DEF Ends, NoSwitchForgotten, InSlot

(* A new controller is on, or waits in the list.                            *)
LEMMA LaunchSwitch ==
  ASSUME SwitchInv, NEW d \in Devices, EnumerateDevice(d) \/ UdevAdd(d)
  PROVE  NoSwitchForgotten'
<1>1. Launch(d) /\ op = "none"
  BY DEF EnumerateDevice, UdevAdd, SwitchInv, Undisturbed
<1>2. op' = op /\ at' = at /\ idle' = idle
  BY <1>1 DEF Launch, LaunchNothing, LaunchReceiver, LaunchWired, LaunchIgnored, handler
<1>3. ASSUME NEW c \in Controllers \ active', InSlot(c)' PROVE InSlot(c) /\ c \notin active
  <2>1. CASE UNCHANGED <<slots, active>>
    BY <1>3, <2>1 DEF InSlot
  <2>2. CASE LaunchWired(d)
    <3>1. /\ slots' = [slots EXCEPT ![Min(Candidates(d))] = Ports[d][1]]
          /\ active' = active \cup {Ports[d][1]}
      BY <2>2 DEF LaunchWired
    <3>2. PICK s \in Slots : slots'[s] = c
      BY <1>3 DEF InSlot
    <3>3. slots \in [Slots -> Controllers \cup {NoController}] /\ c # Ports[d][1]
      BY <1>3, <3>1 DEF SwitchInv, TypeInv, TypeOK
    <3>4. slots[s] = c /\ c \notin active
      BY <1>3, <3>1, <3>2, <3>3
    <3> QED BY <3>4 DEF InSlot
  <2> QED BY <1>1, <2>1, <2>2
          DEF Launch, LaunchNothing, LaunchReceiver, LaunchIgnored, flags
<1>4. ASSUME NEW c \in Controllers \ active', InSlot(c)' PROVE WillPark(c)'
  <2>1. WillPark(c)
    BY <1>3, <1>4 DEF SwitchInv, NoSwitchForgotten
  <2> QED BY <1>1, <1>2, <2>1 DEF WillPark
<1> QED BY <1>1, <1>2, <1>4 DEF NoSwitchForgotten

(* A switch queues the callback that will see it.                           *)
LEMMA UsbSwitch ==
  ASSUME SwitchInv, NEW x \in Controllers, UsbCallback(x)
  PROVE  NoSwitchForgotten'
<1>1. CASE \E how, why : Ends(how, why)
  BY <1>1, EndsSwitch, ControllersAssumption
<1>2. CASE ~\E how, why : Ends(how, why)
  <2>1. /\ Reads(x) /\ UNCHANGED <<slots, inactive, op, at>>
        /\ \/ active' = active /\ idle' = idle
           \/ active' = active /\ QueueIdle("on_controller_disconnect")
           \/ QueueIdle("on_controller_activate")
    BY <1>2 DEF UsbCallback, ConnectionLost, ConnectionFound, StatusWriteThrows,
       Report, Event, DeadThreadCrash, NoDevice, ResubmitFails, SetActive, SetInactive,
       SendDisconnect, handler
  <2>2. op # "activate_list"
    BY <2>1 DEF SwitchInv, Undisturbed, Reads
  <2>3. idle \in Seq(Callbacks) /\ Len(idle) \in Nat
    BY DEF SwitchInv, TypeInv, TypeOK
  <2>4. ASSUME NEW c \in Controllers \ active', InSlot(c)' PROVE WillPark(c)'
    <3>1. CASE QueueIdle("on_controller_activate")
      <4>1. Len(idle') = Len(idle) + 1 /\ idle'[Len(idle) + 1] = "on_controller_activate"
        BY <2>3, <3>1, AppendProperties DEF QueueIdle, Callbacks
      <4>2. Len(idle) + 1 \in 1..Len(idle')
        BY <2>3, <4>1
      <4> QED BY <4>1, <4>2 DEF WillPark
    <3>2. CASE active' = active
      <4>1. WillPark(c)
        BY <2>1, <2>4, <3>2 DEF SwitchInv, NoSwitchForgotten, InSlot
      <4>2. CASE \E i \in 1..Len(idle) : idle[i] = "on_controller_activate"
        <5>1. idle' = idle \/ \E callback \in Callbacks : QueueIdle(callback)
          BY <2>1 DEF Callbacks
        <5>2. \E i \in 1..Len(idle') : idle'[i] = "on_controller_activate"
          BY <4>2, <5>1, QueuedStays DEF SwitchInv, Callbacks
        <5> QED BY <5>2 DEF WillPark
      <4>3. CASE op = "activate_slots" /\ \E s \in Slots : s >= at /\ slots[s] = c
        BY <2>1, <4>3 DEF WillPark
      <4> QED BY <4>1, <4>2, <4>3 DEF WillPark
    <3> QED BY <2>1, <3>1, <3>2
  <2> QED BY <2>1, <2>2, <2>4 DEF NoSwitchForgotten
<1> QED BY <1>1, <1>2

(* The callback that starts looks at all slots.                             *)
LEMMA DispatchSwitch ==
  ASSUME SwitchInv, DispatchIdle
  PROVE  NoSwitchForgotten'
<1>1. /\ idle \in Seq(Callbacks) /\ idle # <<>> /\ idle' = Tail(idle)
      /\ op = "none" /\ at' = 1
      /\ op' = IF Head(idle) = "on_controller_disconnect"
               THEN "disconnect_slots" ELSE "activate_slots"
      /\ UNCHANGED <<slots, active>>
  BY DEF SwitchInv, TypeInv, TypeOK, DispatchIdle, Running, flags
<1>2. ASSUME NEW c \in Controllers \ active, InSlot(c) PROVE WillPark(c)'
  <2>1. CASE Head(idle) # "on_controller_disconnect"
    <3>1. \A s \in Slots : s >= 1
      BY DEF Slots
    <3> QED BY <1>1, <1>2, <2>1, <3>1 DEF WillPark, InSlot
  <2>2. CASE Head(idle) = "on_controller_disconnect"
    <3>1. PICK i \in 1..Len(idle) : idle[i] = "on_controller_activate"
      BY <1>1, <1>2 DEF SwitchInv, NoSwitchForgotten, WillPark
    <3>2. i # 1
      BY <1>1, <2>2, <3>1
    <3>3. /\ Len(Tail(idle)) = Len(idle) - 1
          /\ \A j \in 1..(Len(idle) - 1) : Tail(idle)[j] = idle[j + 1]
      BY <1>1, HeadTailProperties
    <3>4. i - 1 \in 1..Len(idle') /\ idle'[i - 1] = "on_controller_activate"
      BY <1>1, <3>1, <3>2, <3>3
    <3> QED BY <3>4 DEF WillPark
  <2> QED BY <2>1, <2>2
<1> QED BY <1>1, <1>2 DEF NoSwitchForgotten, InSlot

(* The slot loop has left no pad behind that is off, ...                    *)
LEMMA ParkSwitch ==
  ASSUME SwitchInv, ParkSlot
  PROVE  NoSwitchForgotten'
<1>0. /\ slots \in [Slots -> Controllers \cup {NoController}]
      /\ NoController \notin Controllers
      /\ at \in Slots /\ op = "activate_slots" /\ UNCHANGED <<active, idle>>
  BY ControllersAssumption
     DEF SwitchInv, TypeInv, TypeOK, LoopOK, ParkSlot, Running, flags
<1>1. \/ op' = op /\ at < NumSlots /\ at' = at + 1
      \/ op' = "activate_list" /\ at' = 1 /\ ~(at < NumSlots)
  BY <1>0 DEF ParkSlot, NextSlot
<1>2. ASSUME NEW s \in Slots, NEW c \in Controllers \ active, slots'[s] = c
      PROVE  s # at /\ slots[s] = c
  <2>1. CASE Occupied(at) /\ slots[at] \notin active
    BY <1>0, <1>2, <2>1 DEF ParkSlot
  <2>2. CASE ~(Occupied(at) /\ slots[at] \notin active)
    BY <1>0, <1>2, <2>2 DEF ParkSlot, Occupied
  <2> QED BY <2>1, <2>2
<1>3. ASSUME NEW c \in Controllers \ active, InSlot(c)' PROVE WillPark(c)'
  <2>1. PICK s \in Slots : slots'[s] = c
    BY <1>3 DEF InSlot
  <2>2. s # at /\ slots[s] = c /\ WillPark(c)
    BY <1>2, <1>3, <2>1 DEF SwitchInv, NoSwitchForgotten, InSlot
  <2>3. CASE \E i \in 1..Len(idle) : idle[i] = "on_controller_activate"
    BY <1>0, <2>3 DEF WillPark
  <2>4. CASE \E t \in Slots : t >= at /\ slots[t] = c
    <3>1. s >= at
      BY <1>0, <1>3, <2>2, <2>4 DEF SwitchInv, OwnedOnce, Occupied
    <3>2. at < NumSlots /\ s >= at + 1
      BY <1>0, <2>2, <3>1, SlotsAssumption DEF Slots
    <3>3. op' = "activate_slots" /\ at' = at + 1
      BY <1>0, <1>1, <3>2
    <3> QED BY <2>1, <3>2, <3>3 DEF WillPark
  <2> QED BY <2>2, <2>3, <2>4 DEF WillPark
<1>4. op' = "activate_list" => \A i \in Nat : i >= 1 => ~(i < at')
  BY <1>0, <1>1
<1>5. ASSUME op' = "activate_list", NEW i \in 1..Len(inactive'), i < at' PROVE FALSE
  BY <1>4, <1>5
<1> QED BY <1>0, <1>3, <1>5 DEF NoSwitchForgotten

(* ... and the list loop none that is on and has a slot to go to: slots are *)
(* taken while it runs, none becomes free.                                  *)
LEMMA ConnectSwitch ==
  ASSUME SwitchInv, ConnectListed
  PROVE  NoSwitchForgotten'
<1> DEFINE x == inactive[at]
           C == Candidates(DeviceOf[x])
<1>0. /\ slots \in [Slots -> Controllers \cup {NoController}]
      /\ inactive \in Seq(Controllers) /\ Len(inactive) \in Nat
      /\ NoController \notin Controllers
      /\ at \in 1..Len(inactive) /\ op = "activate_list" /\ UNCHANGED <<active, idle, op>>
      /\ x \in Controllers
  BY ControllersAssumption
     DEF SwitchInv, TypeInv, TypeOK, ConnectListed, Running
<1>1. \/ /\ x \in active /\ C # {} /\ slots' = [slots EXCEPT ![Min(C)] = x]
         /\ inactive' = RemoveAt(inactive, at) /\ at' = at
      \/ /\ ~(x \in active /\ C # {}) /\ UNCHANGED <<slots, inactive>> /\ at' = at + 1
  BY DEF ConnectListed
<1>2. \A s \in Slots : slots'[s] = slots[s] \/ (slots'[s] = x /\ x \in active)
  <2> HIDE DEF x, C
  <2> QED BY <1>0, <1>1
<1>3. ASSUME NEW c \in Controllers \ active, InSlot(c)' PROVE WillPark(c)'
  <2>1. InSlot(c)
    BY <1>2, <1>3 DEF InSlot
  <2>2. \E i \in 1..Len(idle) : idle[i] = "on_controller_activate"
    BY <1>0, <1>3, <2>1 DEF SwitchInv, NoSwitchForgotten, WillPark
  <2> QED BY <1>0, <2>2 DEF WillPark
<1>4. \A s \in Slots : slots'[s] = NoController => slots[s] = NoController
  BY <1>0, <1>2
<1>5. ASSUME NEW i \in 1..Len(inactive'), i < at', inactive'[i] \in active
      PROVE  Candidates(DeviceOf[inactive[i]])' = {}
  <2>1. CASE i < at
    <3> DEFINE d == DeviceOf[inactive[i]]
    <3>1. inactive'[i] = inactive[i] /\ i \in 1..Len(inactive)
      <4>1. CASE inactive' = RemoveAt(inactive, at)
        <5>1. /\ Len(inactive') = Len(inactive) - 1
              /\ \A j \in 1..(Len(inactive) - 1) :
                   inactive'[j] = IF j < at THEN inactive[j] ELSE inactive[j + 1]
          BY <1>0, <4>1, RemoveAtFacts
        <5> QED BY <1>0, <1>5, <2>1, <5>1
      <4>2. CASE inactive' = inactive
        BY <1>5, <4>2
      <4> QED BY <1>1, <4>1, <4>2
    <3>2. Candidates(DeviceOf[inactive[i]]) = {}
      BY <1>0, <1>5, <2>1, <3>1 DEF SwitchInv, NoSwitchForgotten
    <3>3. \A s \in Slots : /\ ~(slots[s] = NoController /\ d \in Matches[s] /\ s \in RuleSlots)
                           /\ ~(slots[s] = NoController /\ s \notin RuleSlots)
      BY <3>2 DEF Candidates, Free, RuleMatches
    <3>4. \A s \in Slots : /\ ~(slots'[s] = NoController /\ d \in Matches[s] /\ s \in RuleSlots)
                           /\ ~(slots'[s] = NoController /\ s \notin RuleSlots)
      BY <1>4, <3>3
    <3>5. d' = d
      BY <3>1
    <3> QED BY <3>4, <3>5 DEF Candidates, Free, RuleMatches
  <2>2. CASE ~(i < at)
    <3>1. UNCHANGED <<slots, inactive>> /\ i = at /\ ~(x \in active /\ C # {})
      BY <1>0, <1>1, <1>5, <2>2
    <3>2. C = {}
      BY <1>0, <1>5, <3>1
    <3> QED BY <3>1, <3>2 DEF Candidates, Free, RuleMatches
  <2> QED BY <2>1, <2>2
<1> QED BY <1>0, <1>3, <1>5 DEF NoSwitchForgotten

LEMMA SwitchStep ==
  ASSUME SwitchInv, [Next]_vars
  PROVE  NoSwitchForgotten'
<1>1. CASE UNCHANGED vars
  BY <1>1, SwitchStays DEF vars, flags, handler
<1>2. ASSUME NEW d \in Devices, Plug(d) \/ Unplug(d) PROVE NoSwitchForgotten'
  BY <1>2, SwitchStays DEF Plug, Unplug, flags, handler
<1>3. CASE EnterMainLoop
  BY <1>3, SwitchStays DEF EnterMainLoop, flags, handler
<1>4. CASE Signal
  BY <1>4, SwitchStays, EndsSwitch, ControllersAssumption DEF Signal, flags, handler
<1>5. CASE Teardown
  BY <1>5, EndsSwitch, ControllersAssumption DEF Teardown
<1>6. CASE Destroyed
  <2>1. /\ dying # NoController /\ active' = active \ {dying}
        /\ UNCHANGED <<slots, inactive, idle, op, at>>
    BY <1>6 DEF Destroyed, handler
  <2>2. ~InSlot(dying)
    BY <2>1 DEF SwitchInv, OwnedOnce
  <2>3. ASSUME NEW c \in Controllers \ active', InSlot(c)' PROVE WillPark(c)'
    BY <2>1, <2>2, <2>3 DEF SwitchInv, NoSwitchForgotten, WillPark, InSlot
  <2>4. op # "activate_list"
    BY <2>1 DEF SwitchInv, Undisturbed
  <2> QED BY <2>1, <2>3, <2>4 DEF NoSwitchForgotten
<1>7. CASE DisconnectSlot
  <2>1. /\ op = "disconnect_slots" /\ op' \in {"disconnect_slots", "disconnect_list"}
        /\ UNCHANGED <<active, idle>>
        /\ slots' = slots \/ slots' = [slots EXCEPT ![at] = NoController]
    BY <1>7 DEF DisconnectSlot, NextSlot, Running, flags
  <2>2. ASSUME NEW c \in Controllers \ active, InSlot(c)' PROVE InSlot(c)
    BY <2>1, <2>2, ControllersAssumption DEF InSlot, SwitchInv, TypeInv, TypeOK
  <2>3. ASSUME NEW c \in Controllers \ active, InSlot(c)' PROVE WillPark(c)'
    <3>1. WillPark(c)
      BY <2>2, <2>3 DEF SwitchInv, NoSwitchForgotten
    <3> QED BY <2>1, <3>1 DEF WillPark
  <2> QED BY <2>1, <2>3 DEF NoSwitchForgotten
<1>8. CASE DisconnectListed \/ EndOfList
  <2>1. /\ op # "activate_slots" /\ op' # "activate_list" /\ UNCHANGED <<slots, active, idle>>
    BY <1>8 DEF DisconnectListed, EndOfList, Running, flags
  <2>2. ASSUME NEW c \in Controllers \ active, InSlot(c) PROVE WillPark(c)'
    BY <2>1, <2>2 DEF SwitchInv, NoSwitchForgotten, WillPark
  <2> QED BY <2>1, <2>2 DEF NoSwitchForgotten, InSlot
<1> QED BY <1>1, <1>2, <1>3, <1>4, <1>5, <1>6, <1>7, <1>8,
          LaunchSwitch, UsbSwitch, DispatchSwitch, ParkSwitch, ConnectSwitch
       DEF Next, IdleStep

(* However pads are switched and pulled while callbacks and destructors     *)
(* run: a slot that holds a pad that is off will be looked at, and a pad    *)
(* that is on does not stay in the list when it has a slot to go to.        *)
THEOREM SwitchesAreSwept == Spec => []NoSwitchForgotten
<1>1. Init => SwitchInv
  BY InitTypeInv, ControllersAssumption DEF Init, SwitchInv, OwnedOnce, Occupied, Listed,
     InSlot, Undisturbed, NoSwitchForgotten
<1>2. SwitchInv /\ [Next]_vars => SwitchInv'
  BY SwitchStep, UndisturbedStep, NextTypeInv, OwnedOnceStep DEF SwitchInv
<1>3. SwitchInv => NoSwitchForgotten
  BY DEF SwitchInv
<1> QED BY <1>1, <1>2, <1>3, PTL DEF Spec
=============================================================================
