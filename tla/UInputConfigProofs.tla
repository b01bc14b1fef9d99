------------------------- MODULE UInputConfigProofs -------------------------
(***************************************************************************)
(* Theorems about the two halves of a configuration. First the buttons:     *)
(* shift buttons, the toggle button and the reset of what a configuration   *)
(* leaves, for any number of buttons and of configurations, any bindings,   *)
(* modifiers and order of messages.                                         *)
(***************************************************************************)
EXTENDS UInputMessageProcessor, UInputAxes, TLAPS, SequenceTheorems, FiniteSetTheorems,
        MinTheorems

Events == Configs \X Layers \X Buttons

(* The part of the type invariant that pressed events depend on. *)
OutputsOK ==
  /\ current \in Configs
  /\ calls \in Seq(Call)
  /\ held \in [Configs -> SUBSET Buttons]
  /\ down \subseteq Events

LEMMA SendsType ==
  ASSUME NEW c \in Configs, NEW type \in Types, NEW buttons
  PROVE  Sends(c, type, buttons) \in Seq(Call)
<1>1. ButtonsOf[type] \in Seq(Buttons)
  BY MessagesAssumption
<1>2. \A i \in 1..Len(ButtonsOf[type]) : ButtonsOf[type][i] \in Buttons
  BY <1>1
<1>3. \A i \in 1..Len(ButtonsOf[type]) :
        [config |-> c, button |-> ButtonsOf[type][i],
         pressed |-> ButtonsOf[type][i] \in buttons] \in Call
  BY <1>2 DEF Call
<1>4. Len(ButtonsOf[type]) \in Nat
  BY <1>1
<1> QED BY <1>3, <1>4, IsASeq DEF Sends

LEMMA NextConfigType ==
  ASSUME current \in Configs
  PROVE  NextConfig \in Configs
BY SizesAssumption DEF NextConfig, Configs

LEMMA SendType ==
  ASSUME current \in Configs, NEW raw, raw.type \in Types, Send(raw),
         raw = [type |-> raw.type, length |-> raw.length, held |-> raw.held]
  PROVE  current' \in Configs /\ calls' \in Seq(Call)
<1> DEFINE config == IF Toggles(raw) THEN NextConfig ELSE current
           msg    == [raw EXCEPT !.held = Modified[config][raw.held]]
           reset  == IF Toggles(raw) THEN ResetAllOutputs(current) ELSE <<>>
           sends  == IF msg # oldmsg THEN Sends(config, msg.type, msg.held) ELSE <<>>
<1>1. config \in Configs
  BY NextConfigType
<1>2. msg.type \in Types
  OBVIOUS
<1>3. <<>> \in Seq(Call)
  BY EmptySeq
<1>4. reset \in Seq(Call)
  BY <1>3, SendsType, MessagesAssumption DEF ResetAllOutputs, ResetType
<1>5. sends \in Seq(Call)
  <2> HIDE DEF msg, config
  <2> QED BY <1>1, <1>2, <1>3, SendsType
<1>6. current' = config /\ calls' = reset \o sends
  BY DEF Send
<1>7. reset \o sends \in Seq(Call)
  <2> HIDE DEF reset, sends
  <2> QED BY <1>4, <1>5, ConcatProperties
<1> QED BY <1>1, <1>6, <1>7

(* Whether b shifts x decides whether holding b can change what x selects.  *)
LEMMA SelectedSame ==
  ASSUME NEW c, NEW b, NEW x, NEW H, <<b, x>> \notin Bound[c]
  PROVE  /\ Selected(c, x, H \cup {b}) = Selected(c, x, H)
         /\ Selected(c, x, H \ {b}) = Selected(c, x, H)
<1>1. /\ Shifts(c, x, H \cup {b}) = Shifts(c, x, H)
      /\ Shifts(c, x, H \ {b}) = Shifts(c, x, H)
  BY DEF Shifts
<1> QED BY <1>1 DEF Selected, Layer

(* What is pressed after a step of send_button was pressed before and not   *)
(* released, or is the event just selected.                                 *)
LEMMA SendButtonStep ==
  ASSUME OutputsOK, PressedIsSelected, SendButton
  PROVE  OutputsOK' /\ PressedIsSelected'
<1> DEFINE call == Head(calls)
           c == call.config
           b == call.button
           H == IF call.pressed THEN held[c] \cup {b} ELSE held[c] \ {b}
<1>1. /\ call \in Call /\ c \in Configs /\ b \in Buttons
      /\ calls' \in Seq(Call) /\ current' \in Configs
  <2>1. calls \in Seq(Call) /\ calls # <<>>
    BY DEF SendButton, OutputsOK
  <2>2. Head(calls) \in Call /\ Tail(calls) \in Seq(Call)
    BY <2>1, HeadTailProperties
  <2> QED BY <2>2 DEF SendButton, OutputsOK, Call
<1>2. held[c] \subseteq Buttons /\ H \subseteq Buttons
  BY <1>1 DEF OutputsOK
<1>3. CASE H = held[c]
  <2>1. UNCHANGED outputs
    BY <1>3 DEF SendButton
  <2> QED BY <1>1, <2>1 DEF outputs, OutputsOK, PressedIsSelected
<1>4. CASE H # held[c]
  <2> DEFINE S == Selected(c, b, H)
             C == Cleared(c, b, H)
  <2>1. /\ held' = [held EXCEPT ![c] = H]
        /\ call.pressed => down' = (down \ C) \cup S
        /\ ~call.pressed => down' = down \ (C \cup S)
    BY <1>4 DEF SendButton, Emit
  <2>2. S \subseteq Events
    <3>1. Bound[c] \subseteq Layers \X Buttons
      BY <1>1, BindingsAssumption
    <3>2. \A l : <<l, b>> \in Bound[c] => l \in Layers
      BY <3>1
    <3>3. \A e \in S : e = <<c, Layer(c, b, H), b>> /\ <<Layer(c, b, H), b>> \in Bound[c]
      BY DEF Selected
    <3> HIDE DEF S, H, b, c
    <3>4. \A e \in S : e \in Events
      BY <1>1, <3>2, <3>3 DEF Events
    <3> QED BY <3>4
  <2>3. /\ held' \in [Configs -> SUBSET Buttons]
        /\ down' \subseteq Events
        /\ held'[c] = H
        /\ \A d \in Configs : d # c => held'[d] = held[d]
    BY <1>1, <1>2, <2>1, <2>2 DEF OutputsOK
  <2>4. ASSUME NEW e \in down' PROVE e[3] \in held'[e[1]] /\ e \in Selected(e[1], e[3], held'[e[1]])
    <3>1. e \in Events /\ e = <<e[1], e[2], e[3]>> /\ e[1] \in Configs
      BY <2>3, <2>4 DEF Events
    <3>2. CASE call.pressed /\ e \in S
      <4>1. e[1] = c /\ e[3] = b
        BY <3>2 DEF Selected
      <4>2. b \in H
        BY <3>2
      <4> QED BY <2>3, <3>2, <4>1, <4>2
    <3>3. CASE ~(call.pressed /\ e \in S)
      <4>1. e \in down /\ e \notin C /\ (~call.pressed => e \notin S)
        BY <2>1, <2>4, <3>3
      <4>2. e[3] \in held[e[1]] /\ e \in Selected(e[1], e[3], held[e[1]])
        BY <4>1 DEF PressedIsSelected
      <4>3. CASE e[1] # c
        BY <2>3, <3>1, <4>2, <4>3
      <4>4. CASE e[1] = c
        <5>1. <<e[2], e[3]>> \in Bound[c]
          BY <4>2, <4>4 DEF Selected
        <5>2. CASE e[3] = b
          <6>1. <<b, b>> \notin Bound[c]
            BY <1>1, BindingsAssumption
          <6>2. b \in held[c]
            BY <4>2, <4>4, <5>2
          <6>3. ~call.pressed /\ H = held[c] \ {b}
            BY <1>4, <6>2
          <6>4. Selected(c, b, H) = Selected(c, b, held[c])
            BY <6>1, <6>3, SelectedSame
          <6> QED BY <4>1, <4>2, <4>4, <5>2, <6>3, <6>4
        <5>3. CASE e[3] # b
          <6>1. e[3] \in H
            BY <4>2, <4>4, <5>3
          <6>2. e \in {c} \X Layers \X Buttons
            BY <3>1, <4>4 DEF Events
          <6>3. <<b, e[3]>> \notin Bound[c]
            BY <4>1, <5>1, <6>1, <6>2 DEF Cleared
          <6>4. Selected(c, e[3], H) = Selected(c, e[3], held[c])
            BY <6>3, SelectedSame
          <6> QED BY <2>3, <4>2, <4>4, <6>1, <6>4
        <5> QED BY <5>2, <5>3
      <4> QED BY <4>3, <4>4
    <3> QED BY <3>2, <3>3
  <2> QED BY <1>1, <2>3, <2>4 DEF OutputsOK, PressedIsSelected
<1> QED BY <1>3, <1>4

LEMMA OutputsStep ==
  ASSUME OutputsOK, PressedIsSelected, oldrealmsg \in Messages, pad \in PadTypes,
         [Next]_vars
  PROVE  OutputsOK' /\ PressedIsSelected'
<1> DEFINE Quiet == held' = held /\ down' = down
<1>a. ASSUME Quiet, current' \in Configs, calls' \in Seq(Call)
      PROVE  OutputsOK' /\ PressedIsSelected'
  BY <1>a DEF OutputsOK, PressedIsSelected
<1>1. CASE UNCHANGED vars
  BY <1>1 DEF vars, outputs, OutputsOK, PressedIsSelected
<1>2. ASSUME NEW buttons \in SUBSET Range(ButtonsOf[pad]), OnMessage(buttons)
      PROVE  OutputsOK' /\ PressedIsSelected'
  <2> DEFINE msg == [type |-> pad, length |-> 20, held |-> buttons]
  <2>1. Send(msg) /\ Quiet
    BY <1>2 DEF OnMessage, outputs
  <2>2. msg.type \in Types
    BY MessagesAssumption
  <2>3. current' \in Configs /\ calls' \in Seq(Call)
    BY <2>1, <2>2, SendType DEF OutputsOK
  <2> QED BY <1>a, <2>1, <2>3
<1>3. CASE OnSwitchedOff
  <2>1. Send(Blank) /\ Quiet
    BY <1>3 DEF OnSwitchedOff, outputs
  <2>2. current' \in Configs /\ calls' \in Seq(Call)
    BY <2>1, SendType, MessagesAssumption DEF OutputsOK, Blank
  <2> QED BY <1>a, <2>1, <2>2
<1>4. CASE OnTimeout
  <2>1. Send(oldrealmsg) /\ Quiet
    BY <1>4 DEF OnTimeout, outputs
  <2>2. current' \in Configs /\ calls' \in Seq(Call)
    BY <2>1, SendType DEF OutputsOK, Messages
  <2> QED BY <1>a, <2>1, <2>2
<1>5. ASSUME NEW type \in PadTypes, Reconnect(type)
      PROVE  OutputsOK' /\ PressedIsSelected'
  BY <1>a, <1>5 DEF Reconnect, outputs, OutputsOK
<1>6. ASSUME NEW c \in Configs, SetConfig(c)
      PROVE  OutputsOK' /\ PressedIsSelected'
  BY <1>a, <1>6 DEF SetConfig, outputs, OutputsOK
<1>7. CASE SendButton
  BY <1>7, SendButtonStep
<1> QED BY <1>1, <1>2, <1>3, <1>4, <1>5, <1>6, <1>7 DEF Next

(* The thread's last message is a message. *)
ThreadOK == pad \in PadTypes /\ oldrealmsg \in Messages

LEMMA ThreadStep ==
  ASSUME ThreadOK, [Next]_vars
  PROVE  ThreadOK'
<1>1. Blank \in Messages
  BY MessagesAssumption DEF Blank, Messages
<1>2. \A buttons \in SUBSET Range(ButtonsOf[pad]) :
        [type |-> pad, length |-> 20, held |-> buttons] \in Messages
  <2>1. ButtonsOf[pad] \in Seq(Buttons) /\ pad \in Types
    BY MessagesAssumption DEF ThreadOK
  <2>2. Range(ButtonsOf[pad]) \subseteq Buttons
    BY <2>1 DEF Range
  <2> QED BY <2>1, <2>2 DEF Messages
<1> QED BY <1>1, <1>2 DEF ThreadOK, Next, vars, thread, OnMessage, OnSwitchedOff,
          OnTimeout, Reconnect, SetConfig, SendButton

(* In every state, for every configuration: a pressed event is the one its  *)
(* held button selects under the shift buttons held now.                    *)
THEOREM ShiftLayersExclusive == Spec => []PressedIsSelected
<1> DEFINE Inv == OutputsOK /\ PressedIsSelected /\ ThreadOK
<1>1. Init => Inv
  <2>1. <<>> \in Seq(Call)
    BY EmptySeq
  <2>2. 0 \in Configs
    BY SizesAssumption DEF Configs
  <2>3. Blank \in Messages
    BY MessagesAssumption DEF Blank, Messages
  <2> QED BY <2>1, <2>2, <2>3 DEF Init, OutputsOK, PressedIsSelected, ThreadOK
<1>2. Inv /\ [Next]_vars => Inv'
  BY OutputsStep, ThreadStep DEF ThreadOK
<1> QED BY <1>1, <1>2, PTL DEF Spec

-----------------------------------------------------------------------------
(* What reset_all_outputs has still to do: a configuration that is not the  *)
(* current one holds no button without a release of it among the calls to   *)
(* come, and no call presses anything in it.                                *)
Release(c, b) == [config |-> c, button |-> b, pressed |-> FALSE]

LeftReleases ==
  ~mixed => \A c \in Configs : \A b \in held[c] :
              c = current \/ \E i \in 1..Len(calls) : calls[i] = Release(c, b)

OldOnlyReleases == \A i \in 1..Len(calls) : calls[i].config # current => ~calls[i].pressed

(* Buttons come from messages, and reset_all_outputs names all of them.     *)
HeldWereSent ==
  /\ \A c \in Configs : held[c] \subseteq Range(ButtonsOf[ResetType])
  /\ \A i \in 1..Len(calls) : calls[i].button \in Range(ButtonsOf[ResetType])

LeaveInv ==
  /\ OutputsOK /\ ThreadOK /\ PressedIsSelected
  /\ LeftReleases /\ OldOnlyReleases /\ HeldWereSent

(* The calls a message makes: one for each button of its type.              *)
LEMMA SendsFacts ==
  ASSUME NEW c, NEW type \in Types, NEW buttons
  PROVE  /\ Len(Sends(c, type, buttons)) = Len(ButtonsOf[type])
         /\ Len(ButtonsOf[type]) \in Nat
         /\ \A i \in 1..Len(ButtonsOf[type]) :
              /\ Sends(c, type, buttons)[i].config = c
              /\ Sends(c, type, buttons)[i].button = ButtonsOf[type][i]
              /\ Sends(c, type, buttons)[i].pressed <=> ButtonsOf[type][i] \in buttons
              /\ ButtonsOf[type][i] \in Range(ButtonsOf[type])
<1>1. ButtonsOf[type] \in Seq(Buttons)
  BY MessagesAssumption
<1>2. Len(ButtonsOf[type]) \in Nat /\ DOMAIN ButtonsOf[type] = 1..Len(ButtonsOf[type])
  BY <1>1
<1>3. Len(Sends(c, type, buttons)) = Len(ButtonsOf[type])
  BY <1>2 DEF Sends
<1>4. \A i \in 1..Len(ButtonsOf[type]) :
        /\ Sends(c, type, buttons)[i] =
             [config |-> c, button |-> ButtonsOf[type][i],
              pressed |-> ButtonsOf[type][i] \in buttons]
        /\ ButtonsOf[type][i] \in Range(ButtonsOf[type])
  BY <1>2 DEF Sends, Range
<1>5. ASSUME NEW i \in 1..Len(ButtonsOf[type])
      PROVE  /\ Sends(c, type, buttons)[i].config = c
             /\ Sends(c, type, buttons)[i].button = ButtonsOf[type][i]
             /\ Sends(c, type, buttons)[i].pressed <=> ButtonsOf[type][i] \in buttons
  <2>1. Sends(c, type, buttons)[i] =
          [config |-> c, button |-> ButtonsOf[type][i],
           pressed |-> ButtonsOf[type][i] \in buttons]
    BY <1>4
  <2>2. CASE ButtonsOf[type][i] \in buttons
    <3>1. (ButtonsOf[type][i] \in buttons) = TRUE
      BY <2>2
    <3>2. Sends(c, type, buttons)[i] =
            [config |-> c, button |-> ButtonsOf[type][i], pressed |-> TRUE]
      BY <2>1, <3>1, Zenon
    <3> QED BY <2>2, <3>2
  <2>3. CASE ButtonsOf[type][i] \notin buttons
    <3>1. (ButtonsOf[type][i] \in buttons) = FALSE
      BY <2>3
    <3>2. Sends(c, type, buttons)[i] =
            [config |-> c, button |-> ButtonsOf[type][i], pressed |-> FALSE]
      BY <2>1, <3>1, Zenon
    <3> QED BY <2>3, <3>2
  <2> QED BY <2>2, <2>3
<1> QED BY <1>2, <1>3, <1>4, <1>5

(* A button the message does not hold is released. *)
LEMMA SendsReleases ==
  ASSUME NEW c, NEW type \in Types, NEW buttons,
         NEW b \in Range(ButtonsOf[type]), b \notin buttons
  PROVE  \E i \in 1..Len(Sends(c, type, buttons)) : Sends(c, type, buttons)[i] = Release(c, b)
<1>1. ButtonsOf[type] \in Seq(Buttons)
  BY MessagesAssumption
<1>2. Len(ButtonsOf[type]) \in Nat /\ DOMAIN ButtonsOf[type] = 1..Len(ButtonsOf[type])
  BY <1>1
<1>3. PICK i \in 1..Len(ButtonsOf[type]) : ButtonsOf[type][i] = b
  BY <1>2 DEF Range
<1>4. Len(Sends(c, type, buttons)) = Len(ButtonsOf[type])
  BY <1>2 DEF Sends
<1>5. Sends(c, type, buttons)[i] =
        [config |-> c, button |-> b, pressed |-> ButtonsOf[type][i] \in buttons]
  BY <1>2, <1>3 DEF Sends
<1>6. (ButtonsOf[type][i] \in buttons) = FALSE
  BY <1>3
<1>7. Sends(c, type, buttons)[i] = [config |-> c, button |-> b, pressed |-> FALSE]
  BY <1>5, <1>6, Zenon
<1> QED BY <1>3, <1>4, <1>7 DEF Release

(* What the calls of one message, with or without a change of the           *)
(* configuration, are.                                                      *)
LEMMA SendFacts ==
  ASSUME current \in Configs, NEW raw, raw.type \in Types, Send(raw),
         raw = [type |-> raw.type, length |-> raw.length, held |-> raw.held]
  PROVE  /\ current' = IF Toggles(raw) THEN NextConfig ELSE current
         /\ current' \in Configs
         /\ oldmsg' = [type |-> raw.type, length |-> raw.length,
                       held |-> Modified[current'][raw.held]]
         /\ \A i \in 1..Len(calls') :
              /\ calls'[i].button \in Range(ButtonsOf[ResetType])
              /\ \/ calls'[i].config = current /\ ~calls'[i].pressed
                 \/ /\ calls'[i].config = current'
                    /\ calls'[i].button \in Range(ButtonsOf[raw.type])
                    /\ calls'[i].pressed => calls'[i].button \in oldmsg'.held
         /\ Toggles(raw) => \A b \in Range(ButtonsOf[ResetType]) :
              \E i \in 1..Len(calls') : calls'[i] = Release(current, b)
         /\ oldmsg' # oldmsg => \A b \in Range(ButtonsOf[raw.type]) : b \notin oldmsg'.held =>
              \E i \in 1..Len(calls') : calls'[i] = Release(current', b)
<1> DEFINE config == IF Toggles(raw) THEN NextConfig ELSE current
           msg    == [raw EXCEPT !.held = Modified[config][raw.held]]
           all    == ResetAllOutputs(current)
           new    == Sends(config, msg.type, msg.held)
           reset  == IF Toggles(raw) THEN all ELSE <<>>
           sends  == IF msg # oldmsg THEN new ELSE <<>>
<1>1. config \in Configs
  BY NextConfigType
<1>2. msg = [type |-> raw.type, length |-> raw.length, held |-> Modified[config][raw.held]]
  OBVIOUS
<1>3. current' = config /\ oldmsg' = msg /\ calls' = reset \o sends
  BY DEF Send
<1>4. /\ all \in Seq(Call) /\ Len(all) \in Nat
      /\ \A i \in 1..Len(all) :
           /\ all[i].config = current /\ ~all[i].pressed
           /\ all[i].button \in Range(ButtonsOf[ResetType])
      /\ \A b \in Range(ButtonsOf[ResetType]) : \E i \in 1..Len(all) : all[i] = Release(current, b)
  <2> DEFINE none == {}
  <2>1. ResetType \in Types /\ all = Sends(current, ResetType, none)
    BY MessagesAssumption DEF ResetAllOutputs
  <2>0. \A b : b \notin none
    OBVIOUS
  <2> HIDE DEF all, none
  <2>2. all \in Seq(Call) /\ Len(all) = Len(ButtonsOf[ResetType]) /\ Len(all) \in Nat
    <3>1. all \in Seq(Call)
      BY <2>1, SendsType
    <3>2. Len(all) = Len(ButtonsOf[ResetType])
      BY <2>1, SendsFacts
    <3> QED BY <3>1, <3>2
  <2>3. \A i \in 1..Len(all) :
           /\ all[i].config = current /\ ~all[i].pressed
           /\ all[i].button \in Range(ButtonsOf[ResetType])
    BY <2>0, <2>1, <2>2, SendsFacts
  <2>4. ASSUME NEW b \in Range(ButtonsOf[ResetType])
        PROVE  \E i \in 1..Len(all) : all[i] = Release(current, b)
    <3>1. b \notin none
      BY <2>0
    <3>2. \E i \in 1..Len(Sends(current, ResetType, none)) :
            Sends(current, ResetType, none)[i] = Release(current, b)
      BY <2>1, <3>1, SendsReleases
    <3> QED BY <2>1, <3>2
  <2> QED BY <2>2, <2>3, <2>4
<1>5. /\ new \in Seq(Call) /\ Len(new) \in Nat
      /\ \A i \in 1..Len(new) :
           /\ new[i].config = config /\ (new[i].pressed => new[i].button \in msg.held)
           /\ new[i].button \in Range(ButtonsOf[raw.type])
           /\ new[i].button \in Range(ButtonsOf[ResetType])
      /\ \A b \in Range(ButtonsOf[raw.type]) : b \notin msg.held =>
           \E i \in 1..Len(new) : new[i] = Release(config, b)
  <2>1. msg.type = raw.type
    BY <1>2
  <2>2. new = Sends(config, raw.type, msg.held)
    BY <2>1
  <2> HIDE DEF msg, config, new
  <2>3. new \in Seq(Call) /\ Len(new) = Len(ButtonsOf[raw.type]) /\ Len(new) \in Nat
    BY <1>1, <2>2, SendsType, SendsFacts
  <2>4. \A i \in 1..Len(new) :
           /\ new[i].config = config /\ (new[i].pressed => new[i].button \in msg.held)
           /\ new[i].button \in Range(ButtonsOf[raw.type])
    BY <2>2, <2>3, SendsFacts
  <2>5. \A b \in Range(ButtonsOf[raw.type]) : b \notin msg.held =>
           \E i \in 1..Len(new) : new[i] = Release(config, b)
    BY <2>2, SendsReleases
  <2>6. Range(ButtonsOf[raw.type]) \subseteq Range(ButtonsOf[ResetType])
    BY MessagesAssumption
  <2> QED BY <2>3, <2>4, <2>5, <2>6
<1> HIDE DEF config, msg, all, new
<1>6. /\ reset \in Seq(Call) /\ sends \in Seq(Call)
      /\ Len(reset) \in Nat /\ Len(sends) \in Nat
      /\ Toggles(raw) \/ Len(reset) > 0 => reset = all
      /\ msg # oldmsg \/ Len(sends) > 0 => sends = new
  <2>1. <<>> \in Seq(Call) /\ Len(<<>>) = 0
    BY EmptySeq
  <2>2. reset \in Seq(Call) /\ (Toggles(raw) \/ Len(reset) > 0 => reset = all)
    BY <1>4, <2>1
  <2>3. sends \in Seq(Call) /\ (msg # oldmsg \/ Len(sends) > 0 => sends = new)
    BY <1>5, <2>1
  <2> HIDE DEF reset, sends
  <2> QED BY <2>2, <2>3
<1>7. /\ Len(calls') = Len(reset) + Len(sends)
      /\ \A i \in 1..Len(calls') :
           calls'[i] = IF i <= Len(reset) THEN reset[i] ELSE sends[i - Len(reset)]
  <2> HIDE DEF reset, sends
  <2> QED BY <1>3, <1>6, ConcatProperties
<1> HIDE DEF reset, sends
<1>8. ASSUME NEW i \in 1..Len(calls')
      PROVE  /\ calls'[i].button \in Range(ButtonsOf[ResetType])
             /\ \/ calls'[i].config = current /\ ~calls'[i].pressed
                \/ /\ calls'[i].config = config
                   /\ calls'[i].button \in Range(ButtonsOf[raw.type])
                   /\ calls'[i].pressed => calls'[i].button \in msg.held
  <2>1. CASE i <= Len(reset)
    <3>1. i \in 1..Len(all) /\ calls'[i] = all[i]
      BY <1>6, <1>7, <2>1
    <3> QED BY <1>4, <3>1
  <2>2. CASE i > Len(reset)
    <3>1. i - Len(reset) \in 1..Len(new) /\ calls'[i] = new[i - Len(reset)]
      BY <1>6, <1>7, <2>2
    <3> QED BY <1>5, <3>1
  <2> QED BY <1>6, <1>7, <2>1, <2>2
<1>9. ASSUME Toggles(raw), NEW b \in Range(ButtonsOf[ResetType])
      PROVE  \E i \in 1..Len(calls') : calls'[i] = Release(current, b)
  <2>1. PICK i \in 1..Len(all) : all[i] = Release(current, b)
    BY <1>4
  <2>2. i \in 1..Len(calls') /\ calls'[i] = all[i]
    BY <1>4, <1>6, <1>7, <1>9
  <2> QED BY <2>1, <2>2
<1>10. ASSUME msg # oldmsg, NEW b \in Range(ButtonsOf[raw.type]), b \notin msg.held
       PROVE  \E i \in 1..Len(calls') : calls'[i] = Release(config, b)
  <2>1. PICK i \in 1..Len(new) : new[i] = Release(config, b)
    BY <1>5, <1>10
  <2>2. Len(reset) + i \in 1..Len(calls') /\ calls'[Len(reset) + i] = new[i]
    BY <1>5, <1>6, <1>7, <1>10
  <2> QED BY <2>1, <2>2
<1> QED BY <1>1, <1>2, <1>3, <1>8, <1>9, <1>10 DEF config

(* A step hands a message to the message processor while no call of         *)
(* send_button is due, replaces the thread, sets the configuration, or is   *)
(* a call of send_button.                                                   *)
LEMMA StepKinds ==
  ASSUME ThreadOK, [Next]_vars
  PROVE  \/ UNCHANGED vars
         \/ /\ Idle /\ Send(oldrealmsg') /\ UNCHANGED <<pad, outputs>>
            /\ oldrealmsg' \in Messages
            /\ \/ /\ oldrealmsg'.type = pad /\ oldrealmsg'.length = 20
                  /\ heard' = TRUE /\ mixed' = mixed
               \/ mixed' = TRUE /\ heard' = TRUE
               \/ oldrealmsg' = oldrealmsg /\ heard' = heard /\ mixed' = mixed
         \/ \E type \in PadTypes : Reconnect(type)
         \/ \E c \in Configs : SetConfig(c)
         \/ SendButton
<1>1. ThreadOK'
  BY ThreadStep
<1>2. ASSUME NEW buttons \in SUBSET Range(ButtonsOf[pad]), OnMessage(buttons)
      PROVE  /\ Idle /\ Send(oldrealmsg') /\ UNCHANGED <<pad, outputs>>
             /\ oldrealmsg'.type = pad /\ oldrealmsg'.length = 20
             /\ heard' = TRUE /\ mixed' = mixed
  BY <1>2 DEF OnMessage
<1>3. CASE OnSwitchedOff
  <2>1. Idle /\ Send(oldrealmsg') /\ UNCHANGED <<pad, outputs>> /\ heard' = TRUE /\ mixed' = TRUE
    BY <1>3 DEF OnSwitchedOff
  <2> QED BY <1>1, <2>1 DEF ThreadOK
<1>4. CASE OnTimeout
  <2>1. /\ Idle /\ Send(oldrealmsg') /\ UNCHANGED <<pad, outputs>>
        /\ oldrealmsg' = oldrealmsg /\ heard' = heard /\ mixed' = mixed
    BY <1>4 DEF OnTimeout, thread
  <2> QED BY <1>1, <2>1 DEF ThreadOK
<1> QED BY <1>1, <1>2, <1>3, <1>4 DEF Next, ThreadOK

(* One call of send_button: the call goes and the button takes its state.   *)
LEMMA SendButtonFacts ==
  ASSUME OutputsOK, SendButton
  PROVE  LET call == Head(calls)
         IN  /\ calls # <<>> /\ Len(calls) \in Nat /\ Len(calls) >= 1
             /\ call = calls[1] /\ call \in Call
             /\ Len(calls') = Len(calls) - 1
             /\ \A i \in 1..Len(calls') : calls'[i] = calls[i + 1]
             /\ \A c \in Configs : c # call.config => held'[c] = held[c]
             /\ held'[call.config] = IF call.pressed THEN held[call.config] \cup {call.button}
                                     ELSE held[call.config] \ {call.button}
             /\ UNCHANGED <<thread, oldmsg, current, mixed>>
<1> DEFINE call == Head(calls)
           c == call.config
           b == call.button
           H == IF call.pressed THEN held[c] \cup {b} ELSE held[c] \ {b}
<1>1. calls \in Seq(Call) /\ calls # <<>> /\ calls' = Tail(calls)
  BY DEF OutputsOK, SendButton
<1>2. /\ call \in Call /\ call = calls[1] /\ Len(calls) \in Nat /\ Len(calls) >= 1
      /\ Len(calls') = Len(calls) - 1
      /\ \A i \in 1..Len(calls') : calls'[i] = calls[i + 1]
  BY <1>1, HeadTailProperties, EmptySeq
<1>3. c \in Configs
  BY <1>2 DEF Call
<1>4. held \in [Configs -> SUBSET Buttons]
  BY DEF OutputsOK
<1>5. CASE H = held[c]
  <2>1. held' = held
    BY <1>5 DEF SendButton, outputs
  <2> QED BY <1>1, <1>2, <1>3, <1>5, <2>1 DEF SendButton
<1>6. CASE H # held[c]
  <2>1. held' = [held EXCEPT ![c] = H]
    BY <1>6 DEF SendButton
  <2> HIDE DEF H
  <2>2. held'[c] = H /\ \A x \in Configs : x # c => held'[x] = held[x]
    BY <1>3, <1>4, <2>1
  <2> QED BY <1>1, <1>2, <2>2 DEF SendButton, H
<1> QED BY <1>5, <1>6

LEMMA LeaveStep ==
  ASSUME LeaveInv, [Next]_vars
  PROVE  LeaveInv'
<1>0. /\ OutputsOK /\ ThreadOK /\ PressedIsSelected /\ oldrealmsg \in Messages /\ pad \in PadTypes
      /\ OutputsOK' /\ ThreadOK' /\ PressedIsSelected'
  BY OutputsStep, ThreadStep DEF LeaveInv, ThreadOK
<1>a. current \in Configs /\ current' \in Configs
  BY <1>0 DEF OutputsOK
<1>1. CASE UNCHANGED vars
  BY <1>1 DEF vars, thread, outputs, LeaveInv, OutputsOK, ThreadOK, PressedIsSelected,
     LeftReleases, OldOnlyReleases, HeldWereSent
<1>2. CASE /\ Idle /\ Send(oldrealmsg') /\ UNCHANGED <<pad, outputs>>
           /\ oldrealmsg' \in Messages /\ (mixed' = mixed \/ mixed' = TRUE)
  <2>1. calls = <<>> /\ held' = held
    BY <1>2 DEF Idle, outputs
  <2> DEFINE raw == oldrealmsg'
  <2>2. /\ raw.type \in Types
        /\ raw = [type |-> raw.type, length |-> raw.length, held |-> raw.held]
    BY <1>2 DEF Messages
  <2>3. /\ current' = IF Toggles(raw) THEN NextConfig ELSE current
        /\ \A i \in 1..Len(calls') :
             /\ calls'[i].button \in Range(ButtonsOf[ResetType])
             /\ \/ calls'[i].config = current /\ ~calls'[i].pressed
                \/ calls'[i].config = current'
        /\ Toggles(raw) => \A b \in Range(ButtonsOf[ResetType]) :
             \E i \in 1..Len(calls') : calls'[i] = Release(current, b)
    <3> HIDE DEF raw
    <3> QED BY <1>2, <1>a, <2>2, SendFacts DEF raw
  <2>4. HeldWereSent' /\ OldOnlyReleases'
    BY <2>1, <2>3 DEF LeaveInv, HeldWereSent, OldOnlyReleases
  <2>5. ASSUME ~mixed', NEW c \in Configs, NEW b \in held[c], c # current'
        PROVE  \E i \in 1..Len(calls') : calls'[i] = Release(c, b)
    <3>1. c = current
      BY <1>2, <2>1, <2>5 DEF LeaveInv, LeftReleases
    <3>2. b \in Range(ButtonsOf[ResetType])
      BY <2>5 DEF LeaveInv, HeldWereSent
    <3> QED BY <2>3, <2>5, <3>1, <3>2
  <2>6. LeftReleases'
    BY <2>1, <2>5 DEF LeftReleases
  <2> QED BY <1>0, <2>4, <2>6 DEF LeaveInv
<1>3. ASSUME NEW type \in PadTypes, Reconnect(type) PROVE LeaveInv'
  <2>1. calls' = calls /\ held' = held /\ current' = current /\ (mixed => mixed')
    BY <1>3 DEF Reconnect, outputs
  <2> QED BY <1>0, <2>1 DEF LeaveInv, LeftReleases, OldOnlyReleases, HeldWereSent
<1>4. ASSUME NEW c \in Configs, SetConfig(c) PROVE LeaveInv'
  <2>1. calls = <<>> /\ calls' = <<>> /\ held' = held /\ mixed' = TRUE
    BY <1>4 DEF SetConfig, outputs, Idle
  <2> QED BY <1>0, <2>1 DEF LeaveInv, LeftReleases, OldOnlyReleases, HeldWereSent
<1>5. CASE SendButton
  <2> DEFINE call == Head(calls)
  <2>1. /\ Len(calls) \in Nat /\ Len(calls) >= 1
        /\ call = calls[1] /\ call \in Call
        /\ Len(calls') = Len(calls) - 1
        /\ \A i \in 1..Len(calls') : calls'[i] = calls[i + 1]
        /\ \A c \in Configs : c # call.config => held'[c] = held[c]
        /\ held'[call.config] = IF call.pressed THEN held[call.config] \cup {call.button}
                                ELSE held[call.config] \ {call.button}
        /\ current' = current /\ mixed' = mixed
    BY <1>0, <1>5, SendButtonFacts
  <2> HIDE DEF call
  <2>2. \A i \in 1..Len(calls') : i + 1 \in 1..Len(calls)
    BY <2>1
  <2>3. OldOnlyReleases'
    BY <2>1, <2>2 DEF LeaveInv, OldOnlyReleases
  <2>4. HeldWereSent'
    <3>1. call.button \in Range(ButtonsOf[ResetType])
      BY <2>1 DEF LeaveInv, HeldWereSent
    <3>2. \A c \in Configs : held'[c] \subseteq Range(ButtonsOf[ResetType])
      BY <2>1, <3>1 DEF LeaveInv, HeldWereSent
    <3> QED BY <2>1, <2>2, <3>2 DEF LeaveInv, HeldWereSent
  <2>5. ASSUME ~mixed, NEW c \in Configs, NEW b \in held'[c], c # current
        PROVE  \E i \in 1..Len(calls') : calls'[i] = Release(c, b)
    <3>1. b \in held[c] /\ (c = call.config => b # call.button)
      BY <2>1, <2>5 DEF LeaveInv, OldOnlyReleases
    <3>2. PICK i \in 1..Len(calls) : calls[i] = Release(c, b)
      BY <2>5, <3>1 DEF LeaveInv, LeftReleases
    <3>3. i # 1
      BY <2>1, <3>1, <3>2 DEF Release
    <3>4. i - 1 \in 1..Len(calls') /\ calls'[i - 1] = calls[i]
      BY <2>1, <3>2, <3>3
    <3> QED BY <3>2, <3>4
  <2>6. LeftReleases'
    BY <2>1, <2>5 DEF LeftReleases
  <2> QED BY <1>0, <2>3, <2>4, <2>6 DEF LeaveInv
<1> QED BY <1>0, <1>1, <1>2, <1>3, <1>4, <1>5, StepKinds

LEMMA InitLeave == Init => LeaveInv
<1>1. <<>> \in Seq(Call) /\ Len(<<>>) = 0
  BY EmptySeq
<1>2. 0 \in Configs
  BY SizesAssumption DEF Configs
<1>3. Blank \in Messages
  BY MessagesAssumption DEF Blank, Messages
<1> QED BY <1>1, <1>2, <1>3 DEF Init, LeaveInv, OutputsOK, PressedIsSelected, ThreadOK,
     LeftReleases, OldOnlyReleases, HeldWereSent

(* While messages keep their type and SetConfig is not used, a configuration *)
(* that was left has nothing pressed, or the calls that release it are due. *)
THEOREM LeftConfigsLetGo == Spec => []OnlyCurrentPresses
<1>1. LeaveInv => OnlyCurrentPresses
  <2> SUFFICES ASSUME LeaveInv, ~mixed, NEW e \in down, e[1] # current
               PROVE  \E i \in 1..Len(calls) : calls[i].config = e[1]
    BY DEF OnlyCurrentPresses
  <2>1. e[1] \in Configs /\ e[3] \in held[e[1]]
    BY DEF LeaveInv, OutputsOK, PressedIsSelected, Events
  <2>2. PICK i \in 1..Len(calls) : calls[i] = Release(e[1], e[3])
    BY <2>1 DEF LeaveInv, LeftReleases
  <2> QED BY <2>2 DEF Release
<1>2. LeaveInv /\ [Next]_vars => LeaveInv'
  BY LeaveStep
<1> QED BY <1>1, <1>2, InitLeave, PTL DEF Spec

-----------------------------------------------------------------------------
(* The modifiers of no configuration take the toggle button away. Without    *)
(* it a held toggle button changes the configuration with every message: it *)
(* is looked up in the old message after the modifiers changed that.        *)
ToggleSurvives ==
  \A c \in Configs : \A H \in SUBSET Buttons : Toggle \in H => Toggle \in Modified[c][H]

(* The message processor has seen the toggle button its thread has.         *)
ToggleSeen == Toggle \in oldrealmsg.held => Toggle \in oldmsg.held

LEMMA CurrentStep ==
  ASSUME current \in Configs, ThreadOK, [Next]_vars
  PROVE  current' \in Configs
<1>1. ASSUME Send(oldrealmsg'), oldrealmsg' \in Messages
      PROVE  current' \in Configs
  <2> DEFINE raw == oldrealmsg'
  <2>1. /\ raw.type \in Types
        /\ raw = [type |-> raw.type, length |-> raw.length, held |-> raw.held]
    BY <1>1 DEF Messages
  <2> HIDE DEF raw
  <2> QED BY <1>1, <2>1, SendFacts DEF raw
<1> QED BY <1>1, StepKinds DEF vars, Reconnect, SetConfig, SendButton

(* A step that is handed the toggle button leaves it seen, and changes the  *)
(* configuration only when the toggle button is newly held.                 *)
LEMMA ToggleStep ==
  ASSUME ToggleSurvives, current \in Configs, ThreadOK, ToggleSeen, [Next]_vars
  PROVE  /\ ToggleSeen'
         /\ current' # current =>
              \/ UNCHANGED <<thread, oldmsg, calls>>
              \/ Toggle \in oldrealmsg'.held /\ Toggle \notin oldrealmsg.held
<1>1. CASE UNCHANGED vars
  BY <1>1 DEF vars, thread, ToggleSeen
<1>2. CASE Send(oldrealmsg') /\ oldrealmsg' \in Messages
  <2> DEFINE raw == oldrealmsg'
  <2>1. /\ raw.type \in Types /\ raw.held \in SUBSET Buttons
        /\ raw = [type |-> raw.type, length |-> raw.length, held |-> raw.held]
    BY <1>2 DEF Messages
  <2>2. /\ current' = IF Toggles(raw) THEN NextConfig ELSE current
        /\ current' \in Configs
        /\ oldmsg' = [type |-> raw.type, length |-> raw.length,
                      held |-> Modified[current'][raw.held]]
    <3> HIDE DEF raw
    <3> QED BY <1>2, <2>1, SendFacts DEF raw
  <2>3. oldmsg'.held = Modified[current'][raw.held]
    BY <2>2
  <2>4. ToggleSeen'
    BY <2>1, <2>2, <2>3 DEF ToggleSurvives, ToggleSeen
  <2>5. ASSUME current' # current PROVE Toggle \in raw.held /\ Toggle \notin oldrealmsg.held
    <3>1. Toggles(raw)
      BY <2>2, <2>5
    <3> QED BY <3>1 DEF Toggles, ToggleSeen
  <2> QED BY <2>4, <2>5
<1>3. ASSUME NEW type \in PadTypes, Reconnect(type)
      PROVE  ToggleSeen' /\ current' = current
  BY <1>3 DEF Reconnect, ToggleSeen, Blank
<1>4. ASSUME NEW c \in Configs, SetConfig(c)
      PROVE  ToggleSeen' /\ UNCHANGED <<thread, oldmsg, calls>>
  BY <1>4 DEF SetConfig, thread, ToggleSeen
<1>5. CASE SendButton
  BY <1>5 DEF SendButton, thread, ToggleSeen
<1> QED BY <1>1, <1>2, <1>3, <1>4, <1>5, StepKinds

(* With modifiers that keep the toggle button: unless SetConfig changes it, *)
(* the configuration changes once per press of that button, however often   *)
(* the message that holds it is repeated.                                   *)
THEOREM ToggledOncePerPress ==
  ASSUME ToggleSurvives
  PROVE  Spec => ToggleOncePerPress
<1> DEFINE Inv == current \in Configs /\ ThreadOK /\ ToggleSeen
           Once == current' # current =>
                     \/ UNCHANGED <<thread, oldmsg, calls>>
                     \/ Toggle \in oldrealmsg'.held /\ Toggle \notin oldrealmsg.held
<1>1. Init => Inv
  <2>1. 0 \in Configs
    BY SizesAssumption DEF Configs
  <2>2. Blank \in Messages
    BY MessagesAssumption DEF Blank, Messages
  <2> QED BY <2>1, <2>2 DEF Init, ThreadOK, ToggleSeen, Blank
<1>2. Inv /\ [Next]_vars => Inv' /\ Once
  BY CurrentStep, ThreadStep, ToggleStep
<1>3. Spec => [][Once]_vars
  <2> HIDE DEF Once, Inv
  <2> QED BY <1>1, <1>2, PTL DEF Spec
<1> QED BY <1>3 DEF ToggleOncePerPress

-----------------------------------------------------------------------------
(* The size of a finite set of which some elements go and others come.      *)
LEMMA CountChanged ==
  ASSUME NEW before, NEW after, NEW kept, NEW freed, NEW added,
         IsFiniteSet(kept), IsFiniteSet(freed), IsFiniteSet(added),
         before = kept \cup freed, kept \cap freed = {},
         after = kept \cup added, kept \cap added = {}
  PROVE  Cardinality(after) = Cardinality(before) + Cardinality(added) - Cardinality(freed)
<1>1. /\ Cardinality(kept) \in Nat /\ Cardinality(freed) \in Nat /\ Cardinality(added) \in Nat
      /\ Cardinality(kept \cap added) = 0 /\ Cardinality(kept \cap freed) = 0
  BY FS_CardinalityType, FS_EmptySet
<1>2. Cardinality(kept \cup added) = Cardinality(kept) + Cardinality(added)
  <2>1. Cardinality(kept \cup added)
          = Cardinality(kept) + Cardinality(added) - Cardinality(kept \cap added)
    BY FS_Union
  <2> QED BY <1>1, <2>1
<1>3. Cardinality(kept \cup freed) = Cardinality(kept) + Cardinality(freed)
  <2>1. Cardinality(kept \cup freed)
          = Cardinality(kept) + Cardinality(freed) - Cardinality(kept \cap freed)
    BY FS_Union
  <2> QED BY <1>1, <2>1
<1>4. Cardinality(kept \cup added) = Cardinality(kept \cup freed) + Cardinality(added) - Cardinality(freed)
  BY <1>1, <1>2, <1>3
<1> QED BY <1>4

(* The value of a key is the number of pressed events it is one of.         *)
Counted ==
  /\ IsFiniteSet(down)
  /\ \A k \in Keys : value[k] = Cardinality({e \in down : k \in KeysOf[e[1]][<<e[2], e[3]>>]})

LEMMA EmitCounts ==
  ASSUME Counted, NEW R, NEW P, IsFiniteSet(P), Emit(R, P)
  PROVE  Counted'
<1>1. down' = (down \ R) \cup P
  BY DEF Emit
<1>2. IsFiniteSet(down) /\ IsFiniteSet(down \ R) /\ IsFiniteSet(P) /\ IsFiniteSet(down')
  BY <1>1, FS_Difference, FS_Union DEF Counted
<1>3. ASSUME NEW k \in Keys
      PROVE  value'[k] = Cardinality({e \in down' : k \in KeysOf[e[1]][<<e[2], e[3]>>]})
  <2> DEFINE before == {e \in down : k \in KeysOf[e[1]][<<e[2], e[3]>>]}
             after  == {e \in down' : k \in KeysOf[e[1]][<<e[2], e[3]>>]}
             kept   == {e \in down \ R : k \in KeysOf[e[1]][<<e[2], e[3]>>]}
             freed  == {e \in R \cap down : k \in KeysOf[e[1]][<<e[2], e[3]>>]}
             added  == {e \in P \ (down \ R) : k \in KeysOf[e[1]][<<e[2], e[3]>>]}
  <2>1. value'[k] = value[k] + Cardinality(added) - Cardinality(freed)
    BY DEF Emit
  <2>2. value[k] = Cardinality(before)
    BY DEF Counted
  <2>3. IsFiniteSet(kept) /\ IsFiniteSet(freed) /\ IsFiniteSet(added)
    <3>1. kept \subseteq down \ R /\ freed \subseteq down /\ added \subseteq P
      OBVIOUS
    <3> QED BY <1>2, <3>1, FS_Subset
  <2>4. before = kept \cup freed /\ kept \cap freed = {}
    OBVIOUS
  <2>5. after = kept \cup added /\ kept \cap added = {}
    BY <1>1
  <2> HIDE DEF before, after, kept, freed, added
  <2>6. Cardinality(after) = Cardinality(before) + Cardinality(added) - Cardinality(freed)
    BY <2>3, <2>4, <2>5, CountChanged
  <2>7. value'[k] = Cardinality(after)
    BY <2>1, <2>2, <2>6
  <2> QED BY <2>7 DEF after
<1> QED BY <1>2, <1>3 DEF Counted

LEMMA CountedStep ==
  ASSUME Counted, ThreadOK, [Next]_vars
  PROVE  Counted'
<1>1. CASE UNCHANGED outputs
  BY <1>1 DEF outputs, Counted
<1>2. CASE SendButton
  <2> DEFINE call == Head(calls)
             c == call.config
             b == call.button
             H == IF call.pressed THEN held[c] \cup {b} ELSE held[c] \ {b}
             S == Selected(c, b, H)
             C == Cleared(c, b, H)
  <2>1. CASE H = held[c]
    BY <1>1, <1>2, <2>1 DEF SendButton
  <2>2. CASE H # held[c]
    <3>1. IF call.pressed THEN Emit(C, S) ELSE Emit(C \cup S, {})
      BY <1>2, <2>2 DEF SendButton
    <3>2. IsFiniteSet(S) /\ IsFiniteSet({})
      <4>1. \A x : IsFiniteSet({x})
        BY FS_Singleton
      <4>2. S = {} \/ S = {<<c, Layer(c, b, H), b>>}
        BY DEF Selected
      <4> HIDE DEF S, b, c, H
      <4> QED BY <4>1, <4>2, FS_EmptySet
    <3> HIDE DEF S, C, H
    <3> QED BY <3>1, <3>2, EmitCounts
  <2> QED BY <2>1, <2>2
<1> QED BY <1>1, <1>2, StepKinds DEF vars, Reconnect, SetConfig

-----------------------------------------------------------------------------
(* The modifiers of no configuration press a button of their own: an        *)
(* inverted button filter of the button map would.                          *)
NeutralStays == \A c \in Configs : Modified[c][{}] = {}

(* Before its first message a thread and its processor know nothing. After  *)
(* it the processor has the thread's last message as the modifiers of the   *)
(* current configuration make it.                                           *)
Unheard == ~heard => oldrealmsg = Blank /\ oldmsg = Blank

AsModified ==
  ~mixed /\ heard =>
    /\ oldrealmsg.type = pad /\ oldrealmsg.length = 20
    /\ oldmsg = [type |-> pad, length |-> 20, held |-> Modified[current][oldrealmsg.held]]

(* Buttons come from the connected controller.                              *)
PadButtons ==
  ~mixed =>
    /\ \A c \in Configs : held[c] \subseteq Range(ButtonsOf[pad])
    /\ \A i \in 1..Len(calls) : calls[i].pressed => calls[i].button \in Range(ButtonsOf[pad])

(* What the current configuration holds, the last message holds, or the     *)
(* release of it is due; and no call presses anything else.                 *)
CurrentFollows ==
  ~mixed /\ heard =>
    /\ \A b \in held[current] :
         b \in oldmsg.held \/ \E i \in 1..Len(calls) : calls[i] = Release(current, b)
    /\ \A i \in 1..Len(calls) :
         calls[i].config = current /\ calls[i].pressed => calls[i].button \in oldmsg.held

FollowInv ==
  LeaveInv /\ Unheard /\ AsModified /\ PadButtons /\ CurrentFollows /\ Counted

(* A repeated blank message makes no calls.                                 *)
LEMMA BlankAgain ==
  ASSUME NeutralStays, current \in Configs, oldmsg = Blank, Send(Blank)
  PROVE  current' = current /\ oldmsg' = Blank /\ calls' = <<>>
<1>1. ~Toggles(Blank)
  BY DEF Toggles, Blank
<1>2. [Blank EXCEPT !.held = Modified[current][Blank.held]] = Blank
  BY DEF Blank, NeutralStays
<1>3. <<>> \o <<>> = <<>>
  BY EmptySeq, ConcatProperties
<1> QED BY <1>1, <1>2, <1>3 DEF Send

(* A message of the controller's type, handed to the message processor.     *)
LEMMA HeardStep ==
  ASSUME FollowInv, Idle, Send(oldrealmsg'), UNCHANGED <<pad, outputs>>,
         oldrealmsg' \in Messages, oldrealmsg'.type = pad, oldrealmsg'.length = 20,
         heard', ~mixed
  PROVE  AsModified' /\ PadButtons' /\ CurrentFollows'
<1> DEFINE raw == oldrealmsg'
<1>1. /\ raw.type \in Types /\ raw.held \in SUBSET Buttons
      /\ raw = [type |-> raw.type, length |-> raw.length, held |-> raw.held]
  BY DEF Messages
<1>2. current \in Configs /\ calls = <<>> /\ held' = held /\ pad' = pad
  BY DEF FollowInv, LeaveInv, OutputsOK, Idle, outputs
<1>3. /\ current' = IF Toggles(raw) THEN NextConfig ELSE current
      /\ current' \in Configs
      /\ oldmsg' = [type |-> raw.type, length |-> raw.length,
                    held |-> Modified[current'][raw.held]]
      /\ \A i \in 1..Len(calls') :
           \/ calls'[i].config = current /\ ~calls'[i].pressed
           \/ /\ calls'[i].config = current'
              /\ calls'[i].button \in Range(ButtonsOf[raw.type])
              /\ calls'[i].pressed => calls'[i].button \in oldmsg'.held
      /\ Toggles(raw) => \A b \in Range(ButtonsOf[ResetType]) :
           \E i \in 1..Len(calls') : calls'[i] = Release(current, b)
      /\ oldmsg' # oldmsg => \A b \in Range(ButtonsOf[raw.type]) : b \notin oldmsg'.held =>
           \E i \in 1..Len(calls') : calls'[i] = Release(current', b)
  <2> HIDE DEF raw
  <2> QED BY <1>1, <1>2, SendFacts DEF raw
<1>4. AsModified'
  BY <1>2, <1>3 DEF AsModified
<1>5. PadButtons'
  BY <1>2, <1>3 DEF PadButtons, FollowInv
<1>6. ASSUME NEW b \in held[current']
      PROVE  b \in oldmsg'.held \/ \E i \in 1..Len(calls') : calls'[i] = Release(current', b)
  <2>1. b \in Range(ButtonsOf[ResetType]) /\ b \in Range(ButtonsOf[pad])
    BY <1>3, <1>6 DEF FollowInv, LeaveInv, HeldWereSent, PadButtons
  <2>2. current' = current
    BY <1>2, <1>3, <1>6 DEF FollowInv, LeaveInv, LeftReleases
  <2>3. CASE Toggles(raw)
    BY <1>3, <2>1, <2>2, <2>3
  <2>4. CASE oldmsg' # oldmsg
    BY <1>3, <2>1, <2>4
  <2>5. CASE oldmsg' = oldmsg
    <3>1. heard
      <4>1. oldmsg.length = 20
        BY <1>3, <2>5
      <4> QED BY <4>1 DEF FollowInv, Unheard, Blank
    <3> QED BY <1>2, <1>6, <2>2, <2>5, <3>1 DEF FollowInv, CurrentFollows
  <2> QED BY <2>3, <2>4, <2>5
<1>7. CurrentFollows'
  BY <1>2, <1>3, <1>6 DEF CurrentFollows
<1> QED BY <1>4, <1>5, <1>7

(* A call of send_button brings the current configuration closer to the     *)
(* last message.                                                            *)
LEMMA SendButtonFollows ==
  ASSUME FollowInv, SendButton
  PROVE  AsModified' /\ PadButtons' /\ CurrentFollows'
<1> DEFINE call == Head(calls)
<1>1. /\ Len(calls) \in Nat /\ Len(calls) >= 1
      /\ call = calls[1] /\ call \in Call
      /\ Len(calls') = Len(calls) - 1
      /\ \A i \in 1..Len(calls') : calls'[i] = calls[i + 1]
      /\ \A c \in Configs : c # call.config => held'[c] = held[c]
      /\ held'[call.config] = IF call.pressed THEN held[call.config] \cup {call.button}
                              ELSE held[call.config] \ {call.button}
      /\ UNCHANGED <<thread, oldmsg, current, mixed>>
  BY SendButtonFacts DEF FollowInv, LeaveInv
<1> HIDE DEF call
<1>2. /\ pad' = pad /\ heard' = heard /\ oldrealmsg' = oldrealmsg
      /\ oldmsg' = oldmsg /\ current' = current /\ mixed' = mixed /\ current \in Configs
  BY <1>1 DEF thread, FollowInv, LeaveInv, OutputsOK
<1>3. \A i \in 1..Len(calls') : i + 1 \in 1..Len(calls)
  BY <1>1
<1>4. AsModified'
  BY <1>2 DEF FollowInv, AsModified
<1>5. PadButtons'
  <2> SUFFICES ASSUME ~mixed PROVE PadButtons'
    BY <1>2 DEF PadButtons
  <2>1. call.pressed => call.button \in Range(ButtonsOf[pad])
    BY <1>1 DEF FollowInv, PadButtons
  <2>2. \A c \in Configs : held'[c] \subseteq Range(ButtonsOf[pad])
    BY <1>1, <2>1 DEF FollowInv, PadButtons
  <2> QED BY <1>1, <1>2, <1>3, <2>2 DEF FollowInv, PadButtons
<1>6. ASSUME ~mixed, heard, NEW b \in held'[current]
      PROVE  b \in oldmsg.held \/ \E i \in 1..Len(calls') : calls'[i] = Release(current, b)
  <2>1. CASE current = call.config /\ b = call.button
    <3>1. call.pressed
      BY <1>1, <1>6, <2>1
    <3> QED BY <1>1, <1>6, <2>1, <3>1 DEF FollowInv, CurrentFollows
  <2>2. CASE ~(current = call.config /\ b = call.button)
    <3>1. b \in held[current]
      BY <1>1, <1>2, <1>6, <2>2
    <3>2. SUFFICES ASSUME NEW i \in 1..Len(calls), calls[i] = Release(current, b)
                   PROVE  \E j \in 1..Len(calls') : calls'[j] = Release(current, b)
      BY <1>6, <3>1 DEF FollowInv, CurrentFollows
    <3>3. i # 1
      BY <1>1, <2>2, <3>2 DEF Release
    <3>4. i - 1 \in 1..Len(calls') /\ calls'[i - 1] = calls[i]
      BY <1>1, <3>3
    <3> QED BY <3>2, <3>4
  <2> QED BY <2>1, <2>2
<1>7. CurrentFollows'
  BY <1>1, <1>2, <1>3, <1>6 DEF FollowInv, CurrentFollows
<1> QED BY <1>4, <1>5, <1>7

LEMMA FollowStep ==
  ASSUME NeutralStays, FollowInv, [Next]_vars
  PROVE  FollowInv'
<1>0. ThreadOK /\ current \in Configs /\ LeaveInv' /\ Counted'
  BY LeaveStep, CountedStep DEF FollowInv, LeaveInv, OutputsOK
<1>1. CASE UNCHANGED vars
  BY <1>0, <1>1 DEF vars, thread, outputs, FollowInv, Unheard, AsModified, PadButtons, CurrentFollows
<1>2. CASE /\ Idle /\ Send(oldrealmsg') /\ UNCHANGED <<pad, outputs>>
           /\ oldrealmsg' \in Messages
           /\ \/ /\ oldrealmsg'.type = pad /\ oldrealmsg'.length = 20
                 /\ heard' = TRUE /\ mixed' = mixed
              \/ mixed' = TRUE /\ heard' = TRUE
              \/ oldrealmsg' = oldrealmsg /\ heard' = heard /\ mixed' = mixed
  <2>1. CASE mixed' /\ heard'
    BY <1>0, <2>1 DEF FollowInv, Unheard, AsModified, PadButtons, CurrentFollows
  <2>2. CASE heard' /\ ~mixed'
    <3>1. oldrealmsg'.type = pad /\ oldrealmsg'.length = 20 /\ ~mixed
      <4>1. CASE oldrealmsg'.type = pad /\ oldrealmsg'.length = 20 /\ mixed' = mixed
        BY <2>2, <4>1
      <4>2. CASE oldrealmsg' = oldrealmsg /\ heard' = heard /\ mixed' = mixed
        <5>1. ~mixed /\ heard
          BY <2>2, <4>2
        <5>2. oldrealmsg.type = pad /\ oldrealmsg.length = 20
          BY <5>1 DEF FollowInv, AsModified
        <5> QED BY <4>2, <5>1, <5>2
      <4>3. CASE mixed' = TRUE
        BY <2>2, <4>3
      <4> QED BY <1>2, <4>1, <4>2, <4>3
    <3>2. AsModified' /\ PadButtons' /\ CurrentFollows'
      BY <1>2, <2>2, <3>1, HeardStep
    <3> QED BY <1>0, <2>2, <3>2 DEF FollowInv, Unheard
  <2>3. CASE ~heard'
    <3>1. ~heard /\ oldrealmsg' = oldrealmsg /\ oldrealmsg = Blank /\ oldmsg = Blank /\ mixed' = mixed
      BY <1>2, <2>3 DEF FollowInv, Unheard
    <3>2. current' = current /\ oldmsg' = Blank /\ calls' = <<>> /\ Len(calls') = 0
      <4>1. Send(Blank)
        BY <1>2, <3>1
      <4>2. current' = current /\ oldmsg' = Blank /\ calls' = <<>>
        BY <1>0, <3>1, <4>1, BlankAgain
      <4> QED BY <4>2, EmptySeq
    <3>3. held' = held /\ pad' = pad
      BY <1>2 DEF outputs
    <3> QED BY <1>0, <2>3, <3>1, <3>2, <3>3
            DEF FollowInv, Unheard, AsModified, PadButtons, CurrentFollows
  <2> QED BY <2>1, <2>2, <2>3
<1>3. ASSUME NEW type \in PadTypes, Reconnect(type) PROVE FollowInv'
  BY <1>0, <1>3 DEF Reconnect, outputs, FollowInv, Unheard, AsModified, PadButtons, CurrentFollows
<1>4. ASSUME NEW c \in Configs, SetConfig(c) PROVE FollowInv'
  BY <1>0, <1>4 DEF SetConfig, thread, FollowInv, Unheard, AsModified, PadButtons, CurrentFollows
<1>5. CASE SendButton
  <2>1. Unheard'
    BY <1>5 DEF SendButton, thread, FollowInv, Unheard
  <2> QED BY <1>0, <1>5, <2>1, SendButtonFollows DEF FollowInv
<1> QED BY <1>0, <1>1, <1>2, <1>3, <1>4, <1>5, StepKinds

(* With modifiers that press nothing themselves: a processed report without *)
(* a held button, from a controller of the same type as all before it,      *)
(* leaves no key pressed, whatever was pressed in whatever configuration.   *)
THEOREM NeutralMeansReleased ==
  ASSUME NeutralStays
  PROVE  Spec => []NeutralReleasesAll
<1>1. Init => FollowInv
  <2> SUFFICES ASSUME Init PROVE FollowInv
    OBVIOUS
  <2>1. Len(<<>>) = 0
    BY EmptySeq
  <2>2. Unheard /\ AsModified /\ PadButtons /\ CurrentFollows
    BY <2>1 DEF Init, Unheard, AsModified, PadButtons, CurrentFollows
  <2>3. Counted
    <3>1. down = {} /\ IsFiniteSet({}) /\ Cardinality({}) = 0
      BY FS_EmptySet DEF Init
    <3>2. ASSUME NEW k \in Keys
          PROVE  value[k] = Cardinality({e \in down : k \in KeysOf[e[1]][<<e[2], e[3]>>]})
      <4>1. {e \in down : k \in KeysOf[e[1]][<<e[2], e[3]>>]} = {}
        BY <3>1
      <4>2. value[k] = 0
        BY DEF Init
      <4> QED BY <3>1, <4>1, <4>2
    <3> QED BY <3>1, <3>2 DEF Counted
  <2> QED BY <2>2, <2>3, InitLeave DEF FollowInv
<1>2. FollowInv /\ [Next]_vars => FollowInv'
  BY FollowStep
<1>3. FollowInv => NeutralReleasesAll
  <2> SUFFICES ASSUME FollowInv, ~mixed, Idle, heard, oldrealmsg.held = {}, NEW k \in Keys
               PROVE  value[k] = 0
    BY DEF NeutralReleasesAll
  <2>1. current \in Configs /\ Len(calls) = 0
    BY EmptySeq DEF FollowInv, LeaveInv, OutputsOK, Idle
  <2>2. oldmsg.held = {}
    BY <2>1 DEF FollowInv, AsModified, NeutralStays
  <2>3. held[current] = {}
    BY <2>1, <2>2 DEF FollowInv, CurrentFollows
  <2>4. \A c \in Configs : held[c] = {}
    BY <2>1, <2>3 DEF FollowInv, LeaveInv, LeftReleases
  <2>5. down = {}
    BY <2>4 DEF FollowInv, LeaveInv, OutputsOK, Events, PressedIsSelected
  <2>6. value[k] = Cardinality({})
    <3>1. {e \in down : k \in KeysOf[e[1]][<<e[2], e[3]>>]} = {}
      BY <2>5
    <3> QED BY <3>1 DEF FollowInv, Counted
  <2> QED BY <2>6, FS_EmptySet
<1> QED BY <1>1, <1>2, <1>3, PTL DEF Spec

-----------------------------------------------------------------------------
(***************************************************************************)
(* The axis half: an axis gets stuck for one of the three Reasons only, for *)
(* any number of buttons, axes, values and message types and any bindings.  *)
(***************************************************************************)

(* The two loops of send_axis agree unless an ordinary button covers the    *)
(* shift button.                                                            *)
LEMMA LoopsAgree ==
  ASSUME NEW a, NEW H, H \subseteq Buttons,
         ShiftsOf(a, H) = {} \/ <<Min(H), a>> \in BoundAxes
  PROVE  LastEvent(a, H) = CurrentEvent(a, H)
<1>1. H \subseteq Nat /\ ShiftsOf(a, H) \subseteq H
  BY DEF Buttons, ShiftsOf
<1>2. H # {} => Min(H) \in H /\ \A y \in H : Min(H) <= y
  BY <1>1, MinFacts
<1>3. CASE ShiftsOf(a, H) = {}
  <2>1. H # {} => <<Min(H), a>> \notin BoundAxes
    BY <1>2, <1>3 DEF ShiftsOf
  <2> QED BY <1>3, <2>1 DEF LastEvent, CurrentEvent
<1>4. CASE ShiftsOf(a, H) # {}
  <2> DEFINE S == ShiftsOf(a, H)
  <2>1. S \subseteq Nat /\ S # {} /\ H # {}
    BY <1>1, <1>4
  <2>2. Min(S) \in S /\ \A y \in S : Min(S) <= y
    <3> HIDE DEF S
    <3> QED BY <2>1, MinFacts
  <2>3. Min(H) \in S
    BY <1>2, <1>4, <2>1 DEF ShiftsOf
  <2>4. Min(S) = Min(H)
    <3>1. Min(S) <= Min(H)
      BY <2>2, <2>3
    <3>2. Min(H) <= Min(S)
      BY <1>1, <1>2, <2>1, <2>2
    <3>3. Min(H) \in Nat /\ Min(S) \in Nat
      BY <2>1, <2>2, <2>3
    <3> HIDE DEF S
    <3> QED BY <3>1, <3>2, <3>3
  <2> QED BY <1>4, <2>1, <2>4 DEF LastEvent, CurrentEvent
<1> QED BY <1>3, <1>4

(* SendAxes keeps the type of everything, ...                               *)
LEMMA SendAxesType ==
  ASSUME TypeOK, NEW type \in Types, NEW buttons \in SUBSET Buttons, NEW last,
         NEW position \in [Axes -> Values], SendAxes(type, buttons, last, position)
  PROVE  /\ button_state' \subseteq Buttons /\ axis_state' \in [Axes -> Values]
         /\ sent' \in [BoundAxes -> Values]
         /\ lost' \in [Axes -> SUBSET {"unsent", "covered", "hasty"}]
<1>1. ASSUME NEW e \in BoundAxes
      PROVE  sent[e] \in Values /\ SentTo(e, buttons, last, position) \in Values
  <2>1. e[2] \in Axes
    BY AxesAssumption
  <2>2. /\ position[e[2]] \in Values /\ 0 \in Values
        /\ sent[e] \in Values
    BY <2>1, AxesAssumption DEF TypeOK
  <2> QED BY <2>2 DEF SentTo
<1>2. sent' \in [BoundAxes -> Values]
  BY <1>1 DEF SendAxes
<1>3. axis_state' \in [Axes -> Values]
  BY DEF SendAxes, TypeOK
<1>4. lost' \in [Axes -> SUBSET {"unsent", "covered", "hasty"}]
  <2>1. \A a \in Axes : Reasons(a, type, last) \subseteq {"unsent", "covered", "hasty"}
    BY DEF Reasons
  <2>2. \A a \in Axes : lost[a] \subseteq {"unsent", "covered", "hasty"}
    BY DEF TypeOK
  <2> QED BY <2>1, <2>2 DEF SendAxes
<1> QED BY <1>2, <1>3, <1>4 DEF SendAxes

(* ... and an event right unless it records a reason.                       *)
LEMMA SendAxesStep ==
  ASSUME TypeOK, NEW e \in BoundAxes, lost[e[2]] = {} => sent[e] = Right(e),
         NEW type \in Types, NEW buttons, NEW last \in SUBSET Buttons, NEW position,
         SendAxes(type, buttons, last, position), lost'[e[2]] = {}
  PROVE  sent'[e] = Right(e)'
<1> DEFINE a   == e[2]
           old == CurrentEvent(a, button_state)
           new == CurrentEvent(a, buttons)
<1>1. /\ button_state' = buttons
      /\ sent'[e] = IF a \in AxesOf[type] THEN SentTo(e, buttons, last, position) ELSE sent[e]
  BY DEF SendAxes
<1>2. a \in Axes
  BY AxesAssumption
<1>3. /\ axis_state'[a] = IF a \in AxesOf[type] THEN position[a] ELSE axis_state[a]
      /\ lost'[a] = IF Moves(a, buttons) THEN lost[a] \cup Reasons(a, type, last) ELSE lost[a]
  BY <1>2 DEF SendAxes
<1>4. lost[a] = {} /\ (Moves(a, buttons) => Reasons(a, type, last) = {})
  BY <1>3
<1>5. sent[e] = IF e = old THEN axis_state[a] ELSE 0
  BY <1>4 DEF Right
<1>6. Right(e)' = IF e = new THEN axis_state'[a] ELSE 0
  BY <1>1 DEF Right
<1>7. CASE ~Moves(a, buttons)
  <2>1. axis_state[a] = 0 \/ old = new
    BY <1>7 DEF Moves
  <2>2. sent[e] = IF e = new THEN axis_state[a] ELSE 0
    BY <1>5, <2>1
  <2>3. SentTo(e, buttons, last, position) = IF e = new THEN position[a] ELSE 0
    BY <2>2 DEF SentTo
  <2> HIDE DEF a, new
  <2> QED BY <1>1, <1>3, <1>6, <2>2, <2>3
<1>8. CASE Moves(a, buttons)
  <2>1. /\ ~("unsent" \in Reasons(a, type, last)) /\ ~("covered" \in Reasons(a, type, last))
        /\ ~("hasty" \in Reasons(a, type, last))
    BY <1>4, <1>8
  <2>2. a \in AxesOf[type]
    BY <2>1 DEF Reasons
  <2>3. ShiftsOf(a, last) = {} \/ <<Min(last), a>> \in BoundAxes
    BY <2>1 DEF Reasons
  <2>4. CurrentEvent(a, last) = old
    BY <2>1 DEF Reasons
  <2>5. LastEvent(a, last) = old /\ old # new
    BY <1>8, <2>3, <2>4, LoopsAgree DEF Moves
  <2>6. SentTo(e, buttons, last, position) = IF e = new THEN position[a] ELSE 0
    BY <1>5, <2>5 DEF SentTo
  <2> HIDE DEF a, new
  <2> QED BY <1>1, <1>3, <1>6, <2>2, <2>6
<1> QED BY <1>7, <1>8

(* No virtual axis is left deflected that its axis has left, unless the     *)
(* axis was deflected when its event changed and send_axis was not called   *)
(* for it, or had an ordinary button in the way of the shift button, or was *)
(* called by a reset right after that change: for every configuration.      *)
THEOREM AxesStickForThreeReasons == AxesSpec => []NoAxisStuck
<1> DEFINE Inv == TypeOK /\ NoAxisStuck
<1>1. AxesInit => Inv
  <2>1. ASSUME AxesInit PROVE Inv
    <3>1. ASSUME NEW e \in BoundAxes PROVE sent[e] = Right(e)
      <4>1. e[2] \in Axes
        BY AxesAssumption
      <4> QED BY <2>1, <4>1 DEF AxesInit, Right
    <3>2. TypeOK
      BY <2>1, AxesAssumption DEF AxesInit, TypeOK
    <3> QED BY <3>1, <3>2 DEF NoAxisStuck
  <2> QED BY <2>1
<1>2. ASSUME Inv, [AxesNext]_axes_vars PROVE Inv'
  <2>1. CASE UNCHANGED axes_vars
    BY <1>2, <2>1 DEF axes_vars, TypeOK, NoAxisStuck, Right
  <2>2. ASSUME NEW type \in Types, NEW buttons \in SUBSET Buttons,
               NEW last \in SUBSET Buttons, last_button_state' \in SUBSET Buttons,
               NEW position \in [Axes -> Values], SendAxes(type, buttons, last, position)
        PROVE  Inv'
    <3>1. TypeOK'
      BY <1>2, <2>2, SendAxesType DEF TypeOK
    <3>2. ASSUME NEW e \in BoundAxes, lost'[e[2]] = {} PROVE sent'[e] = Right(e)'
      <4>1. lost[e[2]] = {} => sent[e] = Right(e)
        BY <1>2 DEF NoAxisStuck
      <4> QED BY <1>2, <2>2, <3>2, <4>1, SendAxesStep
    <3> QED BY <3>1, <3>2 DEF NoAxisStuck
  <2>3. ASSUME NEW type \in Types, NEW buttons \in SUBSET Buttons,
               NEW position \in [Axes -> Values], SendGenericMsg(type, buttons, position)
        PROVE  Inv'
    <3>1. button_state \in SUBSET Buttons
      BY <1>2 DEF TypeOK
    <3>2. last_button_state' = button_state /\ SendAxes(type, buttons, button_state, position)
      BY <2>3 DEF SendGenericMsg
    <3> HIDE DEF Inv
    <3> QED BY <2>2, <3>1, <3>2
  <2>4. CASE ResetAxes
    <3>1. last_button_state \in SUBSET Buttons
      BY <1>2 DEF TypeOK
    <3>2. /\ SendAxes(ResetType, {}, last_button_state, [a \in Axes |-> 0])
          /\ last_button_state' = last_button_state
      BY <2>4 DEF ResetAxes
    <3>3. [a \in Axes |-> 0] \in [Axes -> Values] /\ ResetType \in Types
      BY AxesAssumption
    <3> HIDE DEF Inv
    <3> QED BY <2>2, <3>1, <3>2, <3>3
  <2> QED BY <1>2, <2>1, <2>3, <2>4 DEF AxesNext
<1> QED BY <1>1, <1>2, PTL DEF AxesSpec
=============================================================================
