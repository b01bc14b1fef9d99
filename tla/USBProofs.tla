------------------------------ MODULE USBProofs ------------------------------
(***************************************************************************)
(* Theorems about what is done with transfers: the book-keeping of a        *)
(* controller, for any number of them, and the conversation with a chatpad. *)
(***************************************************************************)
EXTENDS USBController, Accessories, TLAPS, FiniteSetTheorems, SequenceTheorems

-----------------------------------------------------------------------------
(***************************************************************************)
(* The transfers of a controller.                                          *)
(***************************************************************************)

(* m_transfers is what libusb has, and nothing else is allocated. *)
Tracked ==
  /\ pending = m_transfers
  /\ cancelled \subseteq pending
  /\ \A t \in Transfers : kind[t] = "free" <=> t \notin pending

OneRead == \E t \in pending : \A u \in pending : kind[u] = "read" <=> u = t

(* How far the object's life and its transfers go together. *)
LifeOK ==
  /\ life = "constructing" => pending = {}
  /\ life = "destroyed" => pending = {}
  /\ life \in {"constructed", "alive"} /\ ~m_is_disconnected => OneRead
  /\ life \in {"constructing", "constructed"} => ~m_is_disconnected

Inv == TypeOK /\ Tracked /\ LifeOK

(* Handing a transfer to libusb. *)
LEMMA SubmitStep ==
  ASSUME TypeOK, Tracked, NEW t \in Transfers, NEW k \in {"read", "write"},
         Submit(t, k)
  PROVE  /\ Tracked'
         /\ kind' \in [Transfers -> Kinds] /\ m_transfers' \subseteq Transfers
         /\ pending' \subseteq Transfers /\ cancelled' \subseteq Transfers
         /\ t \notin pending
         /\ \A u \in pending : kind'[u] = kind[u]
BY DEF Submit, TypeOK, Tracked, Kinds

(* Taking one back from it. *)
LEMMA FreeStep ==
  ASSUME TypeOK, Tracked, NEW t \in pending, Free(t)
  PROVE  /\ Tracked'
         /\ kind' \in [Transfers -> Kinds] /\ m_transfers' \subseteq Transfers
         /\ pending' \subseteq Transfers /\ cancelled' \subseteq Transfers
         /\ kind[t] # "read" /\ OneRead => OneRead'
BY DEF Free, TypeOK, Tracked, Kinds, OneRead

LEMMA CallbackStep ==
  ASSUME Inv, NEW t \in Transfers, Callback(t)
  PROVE  Inv'
<1> USE DEF Inv
<1>1. t \in pending /\ life \in {"alive", "destructing"}
  BY DEF Callback, WriteReturns, WriteFindsNoDevice, ReadFindsNoDevice,
         ReadReturnsLate, ReadReturns, ResubmitFails, CallsBack
<1>2. CASE WriteReturns(t)
  BY <1>1, <1>2, FreeStep DEF WriteReturns, CallsBack, TypeOK, LifeOK
<1>3. CASE WriteFindsNoDevice(t)
  BY <1>1, <1>3, FreeStep DEF WriteFindsNoDevice, SendDisconnect, TypeOK, LifeOK, Lives
<1>4. CASE ReadFindsNoDevice(t)
  BY <1>1, <1>4, FreeStep DEF ReadFindsNoDevice, SendDisconnect, TypeOK, LifeOK, Lives
<1>5. CASE ReadReturnsLate(t)
  BY <1>1, <1>5, FreeStep DEF ReadReturnsLate, TypeOK, LifeOK
<1>6. CASE ReadReturns(t)
  BY <1>1, <1>6 DEF ReadReturns, TypeOK, Tracked, LifeOK, OneRead
<1>7. CASE ResubmitFails(t)
  BY <1>1, <1>7, FreeStep DEF ResubmitFails, SendDisconnect, TypeOK, LifeOK, Lives
<1> QED BY <1>2, <1>3, <1>4, <1>5, <1>6, <1>7 DEF Callback

LEMMA InvStep == Inv /\ [Next]_vars => Inv'
<1> SUFFICES ASSUME Inv, [Next]_vars PROVE Inv'
  OBVIOUS
<1> USE DEF Inv
<1>1. CASE UNCHANGED vars
  BY <1>1 DEF vars, transfers, TypeOK, Tracked, LifeOK, OneRead
<1>2. CASE Unplug
  <2>1. UNCHANGED <<transfers, life, m_is_disconnected, has_cb, told>> /\ plugged' = FALSE
    BY <1>2 DEF Unplug
  <2>2. TypeOK' /\ Tracked'
    BY <2>1 DEF transfers, TypeOK, Tracked
  <2>3. LifeOK'
    BY <2>1 DEF transfers, LifeOK, OneRead
  <2> QED BY <2>2, <2>3
<1>3. ASSUME NEW t \in Transfers, Construct(t) PROVE Inv'
  <2>1. pending' = {t} /\ kind'[t] = "read"
    BY <1>3 DEF Construct, Submit, TypeOK, LifeOK
  <2> QED BY <1>3, <2>1, SubmitStep DEF Construct, TypeOK, LifeOK, OneRead, Lives
<1>4. ASSUME NEW t \in Transfers, Write(t) PROVE Inv'
  <2>1. pending' = pending \cup {t} /\ kind'[t] = "write" /\ ~m_is_disconnected
    BY <1>4 DEF Write, Submit, TypeOK
  <2>2. OneRead'
    BY <1>4, <2>1, SubmitStep DEF Write, LifeOK, OneRead
  <2> QED BY <1>4, <2>2, SubmitStep DEF Write, TypeOK, LifeOK
<1>5. CASE ConstructorThrows \/ Destroy
  BY <1>5 DEF ConstructorThrows, Destroy, Cancel, TypeOK, Tracked, LifeOK, Lives
<1>6. CASE SetCallbacks
  BY <1>6 DEF SetCallbacks, transfers, TypeOK, Tracked, LifeOK, OneRead, Lives
<1>7. CASE DestructorReturns
  BY <1>7 DEF DestructorReturns, transfers, TypeOK, Tracked, LifeOK, Lives
<1> QED BY <1>1, <1>2, <1>3, <1>4, <1>5, <1>6, <1>7, CallbackStep DEF Next

LEMMA InitInv == Init => Inv
BY DEF Init, Inv, TypeOK, Tracked, LifeOK, Lives, Kinds

(* No callback outlives the controller, and none finds its transfer freed.  *)
THEOREM NoCallbackOutlives == Spec => []NoCallbackLeft
<1>1. Inv => NoCallbackLeft
  BY DEF Inv, TypeOK, Tracked, LifeOK, NoCallbackLeft
<1> QED BY InitInv, InvStep, <1>1, PTL DEF Spec

(* A connected controller has one read in flight, never none and never two. *)
THEOREM AlwaysReading == Spec => []OneReadInFlight
<1>1. Inv => OneReadInFlight
  BY DEF Inv, LifeOK, OneRead, OneReadInFlight
<1> QED BY InitInv, InvStep, <1>1, PTL DEF Spec

-----------------------------------------------------------------------------
(***************************************************************************)
(* Keys and LEDs of the chatpad.                                           *)
(***************************************************************************)

(* What a command may say: its state, or one of the pair that keeps awake.   *)
Commands == DOMAIN NextState \cup {"1e", "1f"}
Requests == [kind : {"command"}, what : Commands] \cup [kind : {"led"}, mod : Mods, on : BOOLEAN]

Fields == {"state", "timers", "controls", "read", "keys", "down", "led", "lit",
           "heard", "held", "lost"}

Shaped(c) ==
  /\ c = [f \in Fields |-> c[f]]
  /\ c.state \in DOMAIN NextState
  /\ c.controls \in Seq(Requests)
  /\ c.led \subseteq Mods /\ c.lit \subseteq Mods
  /\ c.lost \in BOOLEAN

(* The virtual keyboard has pressed what the last report had.                *)
KeysAgree(c) == c.keys = c.held /\ c.down = c.held \ Unmapped

(* The requests in flight for the LED of one key; the last of them decides   *)
(* what it is going to show.                                                *)
LightsOf(controls, mod) ==
  {i \in 1..Len(controls) : controls[i].kind = "led" /\ controls[i].mod = mod}
Shows(lit, controls, mod, on) ==
  /\ LightsOf(controls, mod) = {} => (mod \in lit <=> on)
  /\ \A i \in LightsOf(controls, mod) :
       (\A j \in LightsOf(controls, mod) : j <= i) => (controls[i].on <=> on)

LightsAgree(c) == \A mod \in Mods : Shows(c.lit, c.controls, mod, mod \in c.led)

ChatpadOK(c) == Shaped(c) /\ KeysAgree(c) /\ (~c.lost => LightsAgree(c))

LEMMA NewChatpadOK ==
  ASSUME NEW no_init \in BOOLEAN
  PROVE  ChatpadOK(NewChatpad(no_init)) /\ ChatpadOK(NoChatpad)
<1>1. ASSUME NEW c, c = NewChatpad(no_init) \/ c = NoChatpad PROVE ChatpadOK(c)
  <2>1. /\ c.controls = <<>> /\ c.led = {} /\ c.lit = {} /\ c.lost = FALSE
        /\ c.keys = {} /\ c.held = {} /\ c.down = {}
    BY <1>1 DEF NewChatpad, NoChatpad
  <2>2. c = [f \in Fields |-> c[f]]
    BY <1>1 DEF NewChatpad, NoChatpad, Fields
  <2>3. LightsAgree(c)
    BY <2>1 DEF LightsAgree, Shows, LightsOf
  <2>4. Shaped(c)
    <3>1. <<>> \in Seq(Requests) /\ {} \subseteq Mods /\ FALSE \in BOOLEAN
      OBVIOUS
    <3>2. c.controls \in Seq(Requests) /\ c.led \subseteq Mods /\ c.lit \subseteq Mods /\ c.lost \in BOOLEAN
      BY <2>1, <3>1, Zenon
    <3>3. c.state \in DOMAIN NextState
      BY <1>1 DEF NewChatpad, NoChatpad, NextState
    <3> QED BY <2>2, <3>2, <3>3, Zenon DEF Shaped
  <2>5. KeysAgree(c)
    BY <2>1 DEF KeysAgree
  <2> QED BY <2>3, <2>4, <2>5 DEF ChatpadOK
<1> QED BY <1>1

LEMMA LightFields ==
  \A mod, on : Light(mod, on).kind = "led" /\ Light(mod, on).mod = mod /\ Light(mod, on).on = on
BY DEF Light

LEMMA CommandsFit == \A what \in Commands : Command(what) \in Requests /\ Command(what).kind = "command"
BY DEF Command, Requests

(* A command changes no LED.                                                *)
LEMMA CommandAppended ==
  ASSUME NEW controls \in Seq(Requests), NEW lit, NEW mod, NEW on, NEW request \in Requests,
         request.kind = "command", Shows(lit, controls, mod, on)
  PROVE  Shows(lit, Append(controls, request), mod, on)
<1> DEFINE after == Append(controls, request)
<1>1. /\ Len(controls) \in Nat /\ Len(after) = Len(controls) + 1
      /\ \A i \in 1..Len(controls) : after[i] = controls[i]
      /\ after[Len(controls) + 1] = request
  OBVIOUS
<1> HIDE DEF after
<1>2. LightsOf(after, mod) = LightsOf(controls, mod)
  BY <1>1 DEF LightsOf
<1>3. \A i \in LightsOf(controls, mod) : after[i] = controls[i]
  BY <1>1 DEF LightsOf
<1>4. Shows(lit, after, mod, on)
  BY <1>2, <1>3 DEF Shows
<1> QED BY <1>4 DEF after

(* The requests for a LED that is toggled settle what it is going to show;   *)
(* the others leave it alone.                                               *)
LEMMA LightsAppended ==
  ASSUME NEW controls \in Seq(Requests), NEW light \in Seq(Requests), NEW lit, NEW mod,
         NEW on \in BOOLEAN, NEW then \in BOOLEAN,
         Shows(lit, controls, mod, on),
         LightsOf(light, mod) = {} => then = on,
         \A i \in LightsOf(light, mod) : light[i].on = then
  PROVE  Shows(lit, controls \o light, mod, then)
<1> DEFINE after == controls \o light  n == Len(controls)
<1>1. /\ n \in Nat /\ Len(light) \in Nat /\ Len(after) = n + Len(light)
      /\ \A i \in 1..n : after[i] = controls[i]
      /\ \A i \in 1..Len(light) : after[n + i] = light[i]
  OBVIOUS
<1> HIDE DEF after, n
<1>2. \A i \in 1..n : i \in LightsOf(after, mod) <=> i \in LightsOf(controls, mod)
  <2>1. n = Len(controls)
    BY DEF n
  <2> QED BY <1>1, <2>1 DEF LightsOf
<1>3. \A i \in 1..Len(light) : n + i \in LightsOf(after, mod) <=> i \in LightsOf(light, mod)
  BY <1>1 DEF LightsOf
<1>4. /\ LightsOf(after, mod) \subseteq 1..(n + Len(light))
      /\ LightsOf(controls, mod) \subseteq 1..n
      /\ LightsOf(light, mod) \subseteq 1..Len(light)
  BY <1>1 DEF LightsOf, n
<1>5. CASE LightsOf(light, mod) = {}
  <2>1. LightsOf(after, mod) = LightsOf(controls, mod)
    <3>1. ASSUME NEW i \in LightsOf(after, mod) PROVE i \in 1..n
      <4>1. CASE i \notin 1..n
        <5>1. i - n \in 1..Len(light) /\ n + (i - n) = i
          BY <1>1, <1>4, <4>1
        <5> QED BY <5>1, <1>3, <1>5
      <4> QED BY <4>1
    <3> QED BY <3>1, <1>2, <1>4
  <2>2. \A i \in LightsOf(controls, mod) : after[i] = controls[i]
    BY <1>1, <1>4
  <2>3. then = on
    BY <1>5
  <2> QED BY <2>1, <2>2, <2>3 DEF Shows, after
<1>6. CASE LightsOf(light, mod) # {}
  <2>1. PICK k \in LightsOf(light, mod) : TRUE
    BY <1>6
  <2>2. n + k \in LightsOf(after, mod) /\ n + k > n
    BY <2>1, <1>1, <1>3, <1>4
  <2>3. ASSUME NEW i \in LightsOf(after, mod), \A j \in LightsOf(after, mod) : j <= i
        PROVE  after[i].on = then
    <3>1. i > n
      BY <2>2, <2>3, <1>1, <1>4
    <3>2. i - n \in 1..Len(light) /\ n + (i - n) = i
      BY <3>1, <1>1, <1>4
    <3>3. i - n \in LightsOf(light, mod) /\ after[i] = light[i - n]
      BY <3>2, <1>1, <1>3
    <3> QED BY <3>3
  <2>4. LightsOf(after, mod) # {}
    BY <2>2
  <2> QED BY <2>3, <2>4 DEF Shows, after
<1> QED BY <1>5, <1>6

(* The first request reaches the chatpad.                                   *)
LEMMA FirstTaken ==
  ASSUME NEW controls \in Seq(Requests), controls # <<>>, NEW lit, NEW then, NEW mod,
         NEW on \in BOOLEAN, Shows(lit, controls, mod, on),
         1 \in LightsOf(controls, mod) => (mod \in then <=> controls[1].on),
         1 \notin LightsOf(controls, mod) => (mod \in then <=> mod \in lit)
  PROVE  Shows(then, Tail(controls), mod, on)
<1> DEFINE rest == Tail(controls)
<1>1. /\ Len(controls) \in Nat /\ Len(controls) >= 1 /\ Len(rest) = Len(controls) - 1
      /\ \A i \in 1..Len(rest) : rest[i] = controls[i + 1]
  OBVIOUS
<1> HIDE DEF rest
<1>2. \A i \in 1..Len(rest) : i \in LightsOf(rest, mod) <=> i + 1 \in LightsOf(controls, mod)
  BY <1>1 DEF LightsOf
<1>3. LightsOf(rest, mod) \subseteq 1..Len(rest) /\ LightsOf(controls, mod) \subseteq 1..Len(controls)
  BY DEF LightsOf
<1>4. \A i \in LightsOf(controls, mod) : i # 1 => i - 1 \in LightsOf(rest, mod)
  <2>1. ASSUME NEW i \in LightsOf(controls, mod), i # 1 PROVE i - 1 \in LightsOf(rest, mod)
    <3>1. i - 1 \in 1..Len(rest) /\ (i - 1) + 1 = i
      BY <1>1, <1>3, <2>1
    <3> QED BY <3>1, <1>2
  <2> QED BY <2>1
<1>5. ASSUME LightsOf(rest, mod) = {} PROVE mod \in then <=> on
  <2>1. LightsOf(controls, mod) \subseteq {1}
    BY <1>4, <1>5
  <2>2. CASE 1 \in LightsOf(controls, mod)
    <3>1. \A j \in LightsOf(controls, mod) : j <= 1
      BY <2>1
    <3> QED BY <2>2, <3>1 DEF Shows
  <2>3. CASE 1 \notin LightsOf(controls, mod)
    BY <2>1, <2>3 DEF Shows
  <2> QED BY <2>2, <2>3
<1>6. ASSUME NEW i \in LightsOf(rest, mod), \A j \in LightsOf(rest, mod) : j <= i
      PROVE  rest[i].on <=> on
  <2>1. i \in 1..Len(rest) /\ i + 1 \in LightsOf(controls, mod) /\ rest[i] = controls[i + 1]
    BY <1>1, <1>2, <1>3
  <2>2. ASSUME NEW j \in LightsOf(controls, mod) PROVE j <= i + 1
    <3>1. CASE j # 1
      <4>1. j - 1 <= i /\ j \in Int
        BY <3>1, <1>3, <1>4, <1>6
      <4> QED BY <4>1, <2>1
    <3> QED BY <3>1, <2>1
  <2> QED BY <2>1, <2>2 DEF Shows
<1> QED BY <1>5, <1>6 DEF Shows, rest

(* SetToSeq lists a finite set.                                             *)
LEMMA Listed ==
  ASSUME NEW S, IsFiniteSet(S)
  PROVE  SetToSeq(S) \in Seq(S)
<1>1. Cardinality(S) \in Nat /\ ExistsBijection(1..Cardinality(S), S)
  BY FS_CardinalityType
<1>2. \E f \in [1..Cardinality(S) -> S] : IsInjective(f)
  BY <1>1 DEF ExistsBijection, Bijection, Injection, IsInjective
<1>3. SetToSeq(S) \in [1..Cardinality(S) -> S]
  BY <1>2 DEF SetToSeq
<1> QED BY <1>1, <1>3

(* A report: what it has more is pressed, what it lacks released, and the    *)
(* LEDs of the new modifiers are on their way to the other state.            *)
LEMMA ProcessStep ==
  ASSUME NEW c, ChatpadOK(c), NEW report
  PROVE  ChatpadOK(Process(c, report))
<1> DEFINE hit   == SetToSeq((report \ c.keys) \cap Mods)
           light == [i \in DOMAIN hit |-> Light(hit[i], hit[i] \notin c.led)]
           moved == Changed(c.keys, report) \ Unmapped
           led   == Changed(c.led, ToSet(hit))
           down  == (c.down \ moved) \cup (moved \cap report)
           d     == Process(c, report)
<1>1. hit \in Seq((report \ c.keys) \cap Mods)
  <2>1. IsFiniteSet((report \ c.keys) \cap Mods)
    BY KeysAssumption, FS_Subset
  <2> QED BY <2>1, Listed
<1>2. /\ d = [f \in Fields |-> d[f]]
      /\ d.state = c.state /\ d.keys = report /\ d.held = report /\ d.led = led /\ d.lit = c.lit /\ d.lost = c.lost
      /\ d.controls = c.controls \o light
      /\ d.down = down
  BY DEF ChatpadOK, Shaped, Fields, Process, StateOf
<1> HIDE DEF d, hit
<1>3. /\ Len(hit) \in Nat /\ DOMAIN hit = 1..Len(hit)
      /\ \A i \in 1..Len(hit) : hit[i] \in Mods
  BY <1>1
<1>4. light \in Seq(Requests) /\ Len(light) = Len(hit)
      /\ \A i \in 1..Len(hit) : light[i] = Light(hit[i], hit[i] \notin c.led)
  <2>1. \A i \in 1..Len(hit) : Light(hit[i], hit[i] \notin c.led) \in Requests
    BY <1>3 DEF Light, Requests
  <2>2. light \in [1..Len(hit) -> Requests]
    BY <1>3, <2>1
  <2> QED BY <1>3, <2>2
<1>5. \A mod : mod \in ToSet(hit) <=> \E i \in 1..Len(hit) : hit[i] = mod
  BY <1>3 DEF ToSet
<1>6. led \subseteq Mods
  <2>1. ToSet(hit) \subseteq Mods /\ c.led \subseteq Mods
    BY <1>3, <1>5 DEF ChatpadOK, Shaped
  <2> QED BY <2>1 DEF Changed
<1>7. ASSUME ~c.lost, NEW mod \in Mods
      PROVE  Shows(c.lit, c.controls \o light, mod, mod \in led)
  <2> HIDE DEF light
  <2>1. Shows(c.lit, c.controls, mod, mod \in c.led) /\ c.controls \in Seq(Requests)
    BY <1>7 DEF ChatpadOK, LightsAgree, Shaped
  <2>2. \A i \in 1..Len(hit) :
          /\ light[i].kind = "led" /\ light[i].mod = hit[i] /\ light[i].on = (hit[i] \notin c.led)
    BY <1>4, LightFields
  <2>3. \A i : i \in LightsOf(light, mod) <=> i \in 1..Len(hit) /\ hit[i] = mod
    BY <1>4, <2>2 DEF LightsOf
  <2>4. LightsOf(light, mod) = {} => (mod \in led) = (mod \in c.led)
    BY <2>3, <1>5 DEF Changed
  <2>5. \A i \in LightsOf(light, mod) : light[i].on = (mod \in led)
    <3>1. ASSUME NEW i \in LightsOf(light, mod) PROVE light[i].on = (mod \in led)
      <4>1. i \in 1..Len(hit) /\ hit[i] = mod /\ mod \in ToSet(hit)
        BY <2>3, <1>5
      <4>2. mod \in led <=> mod \notin c.led
        BY <4>1 DEF Changed
      <4>3. light[i].on = (mod \notin c.led)
        BY <4>1, <2>2
      <4>4. (mod \notin c.led) = (mod \in led)
        BY <4>2
      <4> QED BY <4>3, <4>4
    <3> QED BY <3>1
  <2> DEFINE on == mod \in c.led  then == mod \in led
  <2>6. /\ on \in BOOLEAN /\ then \in BOOLEAN
        /\ Shows(c.lit, c.controls, mod, on)
        /\ LightsOf(light, mod) = {} => then = on
        /\ \A i \in LightsOf(light, mod) : light[i].on = then
    <3>1. on \in BOOLEAN /\ then \in BOOLEAN
      OBVIOUS
    <3>2. Shows(c.lit, c.controls, mod, on)
      BY <2>1
    <3>3. LightsOf(light, mod) = {} => then = on
      BY <2>4
    <3>4. \A i \in LightsOf(light, mod) : light[i].on = then
      BY <2>5
    <3> HIDE DEF on, then
    <3> QED BY <3>1, <3>2, <3>3, <3>4
  <2>7. Shows(c.lit, c.controls \o light, mod, then)
    <3> HIDE DEF on, then
    <3> QED BY <1>4, <2>1, <2>6, LightsAppended
  <2> QED BY <2>7
<1>8. down = report \ Unmapped
  BY DEF Changed, ChatpadOK, KeysAgree
<1>9. c.controls \o light \in Seq(Requests)
  <2> HIDE DEF light
  <2> QED BY <1>4 DEF ChatpadOK, Shaped
<1> HIDE DEF light, led, down
<1>10. Shaped(d)
  BY <1>2, <1>6, <1>9 DEF ChatpadOK, Shaped
<1>11. ~d.lost => LightsAgree(d)
  BY <1>2, <1>7 DEF LightsAgree
<1>12. KeysAgree(d)
  BY <1>2, <1>8 DEF KeysAgree
<1>13. ChatpadOK(d)
  BY <1>10, <1>11, <1>12 DEF ChatpadOK
<1> QED BY <1>13 DEF d

(* A command that is sent, at once or by a timer.                            *)
LEMMA CtrlStep ==
  ASSUME NEW c, ChatpadOK(c), NEW what \in Commands
  PROVE  ChatpadOK(SendCtrl(c, Command(what)))
<1> DEFINE d == SendCtrl(c, Command(what))
<1>1. /\ d = [f \in Fields |-> d[f]]
      /\ d.state = c.state /\ d.keys = c.keys /\ d.held = c.held
      /\ d.down = c.down /\ d.led = c.led
      /\ d.lit = c.lit /\ d.lost = c.lost
      /\ d.controls = Append(c.controls, Command(what))
  BY DEF ChatpadOK, Shaped, Fields, SendCtrl
<1> HIDE DEF d
<1>2. c.controls \in Seq(Requests) /\ Command(what) \in Requests /\ Command(what).kind = "command"
  BY CommandsFit DEF ChatpadOK, Shaped
<1>3. ~c.lost => LightsAgree(d)
  BY <1>1, <1>2, CommandAppended DEF ChatpadOK, LightsAgree
<1>4. Append(c.controls, Command(what)) \in Seq(Requests)
  BY <1>2
<1>5. ChatpadOK(d)
  BY <1>1, <1>3, <1>4 DEF ChatpadOK, Shaped, KeysAgree
<1> QED BY <1>5 DEF d

(* What no key and no LED depends on.                                       *)
LEMMA Aside ==
  ASSUME NEW c, ChatpadOK(c), NEW field \in {"timers", "read", "heard"}, NEW value
  PROVE  ChatpadOK([c EXCEPT ![field] = value])
<1> DEFINE d == [c EXCEPT ![field] = value]
<1>1. /\ d = [f \in Fields |-> d[f]]
      /\ d.state = c.state /\ d.keys = c.keys /\ d.held = c.held
      /\ d.down = c.down /\ d.led = c.led
      /\ d.lit = c.lit /\ d.lost = c.lost /\ d.controls = c.controls
  BY DEF ChatpadOK, Shaped, Fields
<1> HIDE DEF d
<1>2. ChatpadOK(d)
  BY <1>1 DEF ChatpadOK, Shaped, KeysAgree, LightsAgree
<1> QED BY <1>2 DEF d

(* The answer to the request that is waiting longest.                       *)
LEMMA AnsweredStep ==
  ASSUME NEW c, ChatpadOK(c), c.controls # <<>>, NEW ok \in BOOLEAN
  PROVE  LET d == Answered(c, ok)
         IN  /\ Shaped(d) /\ KeysAgree(d) /\ d.lost = c.lost
             /\ ~c.lost /\ (Head(c.controls).kind = "led" => ok) => LightsAgree(d)
<1> DEFINE first == Head(c.controls)
           lit == IF ok /\ first.kind = "led"
                  THEN IF first.on THEN c.lit \cup {first.mod} ELSE c.lit \ {first.mod}
                  ELSE c.lit
           d == Answered(c, ok)
<1>1. /\ c.controls \in Seq(Requests) /\ first \in Requests /\ first = c.controls[1]
      /\ Tail(c.controls) \in Seq(Requests) /\ 1 \in 1..Len(c.controls)
  BY DEF ChatpadOK, Shaped
<1> HIDE DEF first
<1>2. /\ first.kind \in {"command", "led"}
      /\ first.kind = "led" => first.mod \in Mods /\ first.on \in BOOLEAN
  BY <1>1 DEF Requests
<1>3. /\ d = [f \in Fields |-> d[f]]
      /\ d.state = c.state /\ d.keys = c.keys /\ d.held = c.held
      /\ d.down = c.down /\ d.led = c.led
      /\ d.lit = lit /\ d.lost = c.lost /\ d.controls = Tail(c.controls)
  <2>1. CASE ~ok
    BY <2>1, <1>2 DEF ChatpadOK, Shaped, Fields, Answered, Received, first
  <2>2. CASE ok /\ first.kind = "command"
    BY <2>2 DEF ChatpadOK, Shaped, Fields, Answered, Received, first
  <2>3. CASE ok /\ first.kind = "led"
    BY <2>3 DEF ChatpadOK, Shaped, Fields, Answered, Received, first
  <2> QED BY <1>2, <2>1, <2>2, <2>3
<1> HIDE DEF d
<1>4. lit \subseteq Mods
  BY <1>2 DEF ChatpadOK, Shaped
<1>5. Shaped(d) /\ KeysAgree(d)
  BY <1>1, <1>3, <1>4 DEF ChatpadOK, Shaped, KeysAgree
<1>6. ASSUME ~c.lost, first.kind = "led" => ok, NEW mod \in Mods
      PROVE  Shows(lit, Tail(c.controls), mod, mod \in c.led)
  <2> DEFINE on == mod \in c.led
  <2>1. on \in BOOLEAN /\ Shows(c.lit, c.controls, mod, on)
    BY <1>6 DEF ChatpadOK, LightsAgree
  <2>2. 1 \in LightsOf(c.controls, mod) <=> first.kind = "led" /\ first.mod = mod
    BY <1>1 DEF LightsOf
  <2>3. 1 \in LightsOf(c.controls, mod) => (mod \in lit <=> c.controls[1].on)
    BY <1>1, <1>6, <2>2
  <2>4. 1 \notin LightsOf(c.controls, mod) => (mod \in lit <=> mod \in c.lit)
    BY <2>2
  <2> HIDE DEF on, lit
  <2>5. Shows(lit, Tail(c.controls), mod, on)
    BY <1>1, <2>1, <2>3, <2>4, FirstTaken
  <2> QED BY <2>5 DEF on
<1> HIDE DEF lit
<1>7. ~c.lost /\ (first.kind = "led" => ok) => LightsAgree(d)
  BY <1>3, <1>6 DEF LightsAgree
<1> QED BY <1>3, <1>5, <1>7 DEF d, first

(* A request that fails and is not repeated.                                *)
LEMMA LostStep ==
  ASSUME NEW c, Shaped(c), KeysAgree(c), NEW lost \in BOOLEAN, ~lost => LightsAgree(c)
  PROVE  ChatpadOK([c EXCEPT !.lost = lost])
<1> DEFINE d == [c EXCEPT !.lost = lost]
<1>1. /\ d = [f \in Fields |-> d[f]]
      /\ d.state = c.state /\ d.keys = c.keys /\ d.held = c.held
      /\ d.down = c.down /\ d.led = c.led
      /\ d.lit = c.lit /\ d.lost = lost /\ d.controls = c.controls
  BY DEF Shaped, Fields
<1> HIDE DEF d
<1>2. ChatpadOK(d)
  BY <1>1 DEF ChatpadOK, Shaped, KeysAgree, LightsAgree
<1> QED BY <1>2 DEF d

LEMMA StateStep ==
  ASSUME NEW c, ChatpadOK(c)
  PROVE  ChatpadOK([c EXCEPT !.state = NextState[c.state]])
<1> DEFINE d == [c EXCEPT !.state = NextState[c.state]]
<1>1. /\ d = [f \in Fields |-> d[f]]
      /\ d.keys = c.keys /\ d.held = c.held
      /\ d.down = c.down /\ d.led = c.led
      /\ d.lit = c.lit /\ d.lost = c.lost /\ d.controls = c.controls
      /\ d.state = NextState[c.state]
  BY DEF ChatpadOK, Shaped, Fields
<1> HIDE DEF d
<1>2. d.state \in DOMAIN NextState
  BY <1>1 DEF ChatpadOK, Shaped, NextState
<1>3. ChatpadOK(d)
  BY <1>1, <1>2 DEF ChatpadOK, Shaped, KeysAgree, LightsAgree
<1> QED BY <1>3 DEF d

LEMMA SendCommandStep ==
  ASSUME NEW c, ChatpadOK(c)
  PROVE  ChatpadOK(SendCommand(c))
<1>0. c.state \in Commands
  BY DEF ChatpadOK, Shaped, Commands
<1>1. ChatpadOK([c EXCEPT !.timers = c.timers + 1])
  BY Aside
<1>2. ChatpadOK(SendCtrl(c, Command(c.state)))
  BY <1>0, CtrlStep
<1> QED BY <1>1, <1>2, Zenon DEF SendCommand

LEMMA OnTimeoutStep ==
  ASSUME NEW c, ChatpadOK(c)
  PROVE  ChatpadOK(OnTimeout(c))
<1> DEFINE d == [c EXCEPT !.timers = c.timers - 1]
<1>1. ChatpadOK(d)
  BY Aside
<1> HIDE DEF d
<1>2. "1e" \in Commands /\ "1f" \in Commands
  BY DEF Commands
<1>3. ChatpadOK(SendCtrl(d, Command("1f"))) /\ ChatpadOK(SendCtrl(d, Command("1e")))
  BY <1>1, <1>2, CtrlStep
<1> QED BY <1>3, Zenon DEF OnTimeout, d

LEMMA OnControlStep ==
  ASSUME NEW c, ChatpadOK(c), c.controls # <<>>, NEW ok \in BOOLEAN
  PROVE  ChatpadOK(OnControl(c, ok))
<1> DEFINE d == Answered(c, ok)  asked == Head(c.controls).kind
<1>1. /\ Shaped(d) /\ KeysAgree(d) /\ d.lost = c.lost /\ c.lost \in BOOLEAN
      /\ ~c.lost /\ (asked = "led" => ok) => LightsAgree(d)
  BY AnsweredStep DEF ChatpadOK, Shaped
<1> HIDE DEF d, asked
<1>2. CASE asked = "led"
  <2> DEFINE lost == d.lost \/ ~ok
  <2>1. lost \in BOOLEAN /\ (~lost => LightsAgree(d))
    BY <1>1
  <2> HIDE DEF lost
  <2>2. ChatpadOK([d EXCEPT !.lost = lost])
    BY <1>1, <2>1, LostStep
  <2>3. OnControl(c, ok) = [d EXCEPT !.lost = lost]
    BY <1>2 DEF OnControl, d, asked, lost
  <2> QED BY <2>2, <2>3
<1>3. CASE asked = "command" /\ Advances(c, ok)
  <2>1. ChatpadOK(d)
    BY <1>1, <1>3 DEF ChatpadOK
  <2>2. ChatpadOK(SendCommand([d EXCEPT !.state = NextState[d.state]]))
    BY <2>1, StateStep, SendCommandStep
  <2>3. OnControl(c, ok) = SendCommand([d EXCEPT !.state = NextState[d.state]])
    BY <1>3 DEF OnControl, d, asked
  <2> QED BY <2>2, <2>3
<1>4. CASE asked # "led" /\ ~(asked = "command" /\ Advances(c, ok))
  <2>1. ChatpadOK([d EXCEPT !.lost = TRUE])
    BY <1>1, LostStep
  <2>2. OnControl(c, ok) = [d EXCEPT !.lost = TRUE]
    BY <1>4 DEF OnControl, d, asked
  <2> QED BY <2>1, <2>2
<1> QED BY <1>2, <1>3, <1>4

-----------------------------------------------------------------------------
ChatpadInv == ChatpadOK(chatpad)

(* Every step leaves the chatpad alone, ends with it, or is one of its own.  *)
LEMMA ChatpadStep == ChatpadInv /\ [AccessoriesNext]_accessories_vars => ChatpadInv'
<1> SUFFICES ASSUME ChatpadInv, [AccessoriesNext]_accessories_vars PROVE ChatpadInv'
  OBVIOUS
<1> USE DEF ChatpadInv
<1>1. CASE ConstructAccessories
  <2>1. ChatpadOK(SendCommand(chatpad))
    BY SendCommandStep
  <2> QED BY <1>1, <2>1, Zenon DEF ConstructAccessories
<1>2. CASE chatpad' = NoChatpad
  BY <1>2, NewChatpadOK
<1>3. CASE chatpad' = chatpad
  BY <1>3
<1>4. ASSUME NEW ok \in BOOLEAN, ControlReturns(ok) PROVE ChatpadInv'
  BY <1>4, OnControlStep DEF ControlReturns
<1>5. CASE TimerFires
  BY <1>5, OnTimeoutStep DEF TimerFires
<1>6. ASSUME NEW r \in Reports, ReadReport(r) PROVE ChatpadInv'
  <2> DEFINE c == Process(chatpad, r)
  <2>1. ChatpadOK(c)
    BY ProcessStep
  <2>2. \E read : chatpad' = [c EXCEPT !.read = read]
    <3> HIDE DEF c
    <3> QED BY <1>6 DEF ReadReport, c
  <2> HIDE DEF c
  <2> QED BY <2>1, <2>2, Aside
<1>7. CASE ReadFails
  BY <1>7, Aside DEF ReadFails
<1>8. ASSUME \/ ConstructThrows \/ DestroyAccessories \/ TimerThrows \/ SubmitThrows
             \/ \E ok \in BOOLEAN : ControlThrows(ok)
             \/ \E r \in Reports : ReadThrows(r)
      PROVE  ChatpadInv'
  BY <1>8, <1>2 DEF ConstructThrows, DestroyAccessories, TimerThrows, SubmitThrows,
                    ControlThrows, ReadThrows, Throws
<1>9. CASE PadUnplugged \/ ChunkReturns \/ RecordReturns \/ UNCHANGED accessories_vars
  BY <1>3, <1>9 DEF PadUnplugged, ChunkReturns, RecordReturns, accessories_vars
<1> QED BY <1>1, <1>4, <1>5, <1>6, <1>7, <1>8, <1>9 DEF AccessoriesNext

(* In whatever order reports, answers and failures come: unless a request    *)
(* was lost, the LEDs lit are those the driver takes for lit once nothing is *)
(* on its way, and the keys held on the chatpad are those that are pressed.  *)
THEOREM ChatpadFollowed == AccessoriesSpec => []ChatpadFollows
<1>1. AccessoriesInit => ChatpadInv
  BY SetupsAssumption, NewChatpadOK DEF AccessoriesInit, ChatpadInv
<1>2. ChatpadInv => ChatpadFollows
  <2> SUFFICES ASSUME ChatpadInv, chatpad.controls = <<>>, ~chatpad.lost
               PROVE  chatpad.down = chatpad.held \ Unmapped /\ chatpad.lit = chatpad.led
    BY DEF ChatpadFollows
  <2>1. \A mod \in Mods : LightsOf(chatpad.controls, mod) = {}
    BY DEF LightsOf
  <2> QED BY <2>1 DEF ChatpadInv, ChatpadOK, Shaped, KeysAgree, LightsAgree, Shows
<1> QED BY <1>1, <1>2, ChatpadStep, PTL DEF AccessoriesSpec
=============================================================================
