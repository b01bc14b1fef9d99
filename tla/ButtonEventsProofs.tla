------------------------- MODULE ButtonEventsProofs -------------------------
(***************************************************************************)
(* Theorems about button events, for any number of events with any filters, *)
(* thresholds, cycles and macros, any bindings and any time between calls.   *)
(***************************************************************************)
EXTENDS ButtonEvents, TLAPS, SequenceTheorems, FiniteSetTheorems, MinTheorems

(* What a filter passes on is a truth value. *)
LEMMA FilterType ==
  ASSUME NEW f, f.kind \in FilterKinds, NEW s, NEW v
  PROVE  Filter(f, s, v).value \in BOOLEAN
BY DEF Filter, FilterKinds, Clicks, AutofireFilter, ClickFilter, DelayFilter, ToggleFilter

LEMMA FiltersType ==
  ASSUME NEW e \in Events
  PROVE  /\ Len(Filters[e]) \in Nat
         /\ \A i \in 1..Len(Filters[e]) : Filters[e][i].kind \in FilterKinds
<1> DEFINE K == [kind : FilterKinds, rate : 0..(MaxTime - 1), delay : 0..(MaxTime - 1)]
<1>1. Filters[e] \in Seq(K)
  BY FiltersAssumption
<1>2. \A f \in K : f.kind \in FilterKinds
  OBVIOUS
<1> HIDE DEF K
<1>3. Len(Filters[e]) \in Nat /\ \A i \in 1..Len(Filters[e]) : Filters[e][i] \in K
  BY <1>1
<1> QED BY <1>2, <1>3

(* The filters of an event are applied in order, each to what the one       *)
(* before it passes on.                                                     *)
LEMMA FilteredUnfolds ==
  ASSUME NEW e \in Events, NEW S, NEW v \in BOOLEAN
  PROVE  \A i \in 0..Len(Filters[e]) :
           Filtered(Filters[e], S, v)[i] =
             IF i = 0 THEN v
             ELSE Filter(Filters[e][i], S[i], Filtered(Filters[e], S, v)[i - 1]).value
<1> DEFINE F == Filters[e]
           n == Len(F)
           step == [p \in (1..n) \X BOOLEAN |-> Filter(F[p[1]], S[p[1]], p[2]).value]
           Def(g) == [i \in 0..n |-> IF i = 0 THEN v ELSE Filter(F[i], S[i], g[i - 1]).value]
<1>1. n \in Nat /\ \A i \in 1..n : F[i].kind \in FilterKinds
  BY FiltersType
<1>2. step \in [(1..n) \X BOOLEAN -> BOOLEAN]
  <2>1. ASSUME NEW p \in (1..n) \X BOOLEAN
        PROVE  Filter(F[p[1]], S[p[1]], p[2]).value \in BOOLEAN
    <3>1. F[p[1]].kind \in FilterKinds
      BY <1>1
    <3> QED BY <3>1, FilterType
  <2> QED BY <2>1
<1>3. PICK g \in [0..n -> BOOLEAN] :
        \A i \in 0..n : g[i] = IF i = 0 THEN v ELSE step[<<i, g[i - 1]>>]
  <2> DEFINE B == BOOLEAN
  <2>1. v \in B /\ step \in [(1..n) \X B -> B] /\ n \in Nat
    BY <1>1, <1>2
  <2> HIDE DEF step, n, B
  <2>2. \E g : Recursion(g, n, B, v, step)
    BY <2>1, RecursionExists
  <2> QED BY <2>2 DEF B, Recursion
<1>4. ASSUME NEW i \in 0..n
      PROVE  g[i] = IF i = 0 THEN v ELSE Filter(F[i], S[i], g[i - 1]).value
  <2>1. CASE i = 0
    BY <1>3, <2>1
  <2>2. CASE i # 0
    <3>1. i \in 1..n /\ i - 1 \in 0..n
      BY <1>1, <2>2
    <3>2. g[i - 1] \in BOOLEAN /\ g[i] = step[<<i, g[i - 1]>>]
      BY <1>3, <2>2, <3>1
    <3>3. <<i, g[i - 1]>> \in (1..n) \X BOOLEAN
      BY <3>1, <3>2
    <3>4. step[<<i, g[i - 1]>>] = Filter(F[i], S[i], g[i - 1]).value
      BY <3>3
    <3> QED BY <2>2, <3>2, <3>4
  <2> QED BY <2>1, <2>2
<1>5. g = Def(g)
  <2> HIDE DEF step, n, F
  <2> QED BY <1>3, <1>4
<1>6. Filtered(F, S, v) = CHOOSE h : h = Def(h)
  BY DEF Filtered
<1>7. Filtered(F, S, v) = Def(Filtered(F, S, v))
  <2> HIDE DEF Def
  <2> QED BY <1>5, <1>6
<1> HIDE DEF n, F
<1>8. ASSUME NEW h, h = Def(h), NEW i \in 0..n
      PROVE  h[i] = IF i = 0 THEN v ELSE Filter(F[i], S[i], h[i - 1]).value
  BY <1>8
<1>9. \A i \in 0..n : Filtered(F, S, v)[i] =
        IF i = 0 THEN v ELSE Filter(F[i], S[i], Filtered(F, S, v)[i - 1]).value
  <2> HIDE DEF Def
  <2> QED BY <1>7, <1>8
<1> QED BY <1>9 DEF F, n

(* So all of them together pass a truth value on.                           *)
LEMMA StateType ==
  ASSUME NEW e \in Events, NEW S, NEW v \in BOOLEAN
  PROVE  Filtered(Filters[e], S, v)[Len(Filters[e])] \in BOOLEAN
<1> DEFINE n == Len(Filters[e])
<1>1. n \in Nat /\ \A i \in 1..n : Filters[e][i].kind \in FilterKinds
  BY FiltersType
<1>2. n \in 0..n
  BY <1>1
<1>3. Filtered(Filters[e], S, v)[n] =
        IF n = 0 THEN v
        ELSE Filter(Filters[e][n], S[n], Filtered(Filters[e], S, v)[n - 1]).value
  BY <1>2, FilteredUnfolds
<1>4. n # 0 => Filters[e][n].kind \in FilterKinds
  BY <1>1
<1> HIDE DEF n
<1>5. Filtered(Filters[e], S, v)[n] \in BOOLEAN
  BY <1>3, <1>4, FilterType
<1> QED BY <1>5 DEF n

-----------------------------------------------------------------------------
(* The calls of one update, or of one reset, event by event. *)
CallsBuilt(h, op, d, E) ==
  \A i \in 0..NumEvents :
    h[i] = IF i = 0 THEN <<>>
           ELSE IF i \in E THEN Append(h[i - 1], [op |-> op, event |-> i, delta |-> d])
           ELSE h[i - 1]

LEMMA CallsForBuilt ==
  ASSUME NEW op, NEW d, NEW E
  PROVE  \E h : CallsBuilt(h, op, d, E) /\ CallsFor(op, d, E) = h[NumEvents]
<1> DEFINE n == NumEvents
           V == Seq([op : {op}, event : E, delta : {d}])
           one(i) == [op |-> op, event |-> i, delta |-> d]
           step == [p \in (1..n) \X V |-> IF p[1] \in E THEN Append(p[2], one(p[1])) ELSE p[2]]
           Def(g) == [i \in 0..n |-> IF i = 0 THEN <<>>
                                     ELSE IF i \in E THEN Append(g[i - 1], one(i)) ELSE g[i - 1]]
<1>1. n \in Nat /\ <<>> \in V
  BY NumEventsAssumption, EmptySeq
<1>2. \A q \in V : \A i \in E : Append(q, one(i)) \in V
  <2>1. ASSUME NEW K, NEW q \in Seq(K), NEW c \in K PROVE Append(q, c) \in Seq(K)
    BY <2>1
  <2>2. \A i \in E : one(i) \in [op : {op}, event : E, delta : {d}]
    OBVIOUS
  <2> HIDE DEF one
  <2> QED BY <2>1, <2>2
<1> HIDE DEF one
<1>3. step \in [(1..n) \X V -> V]
  <2> HIDE DEF V, n
  <2>1. ASSUME NEW p \in (1..n) \X V
        PROVE  (IF p[1] \in E THEN Append(p[2], one(p[1])) ELSE p[2]) \in V
    BY <1>2
  <2> QED BY <2>1
<1> HIDE DEF V, n
<1>4. PICK g : Recursion(g, n, V, <<>>, step)
  <2> HIDE DEF step
  <2> QED BY <1>1, <1>3, RecursionExists
<1>5. ASSUME NEW i \in 0..n
      PROVE  g[i] = IF i = 0 THEN <<>> ELSE IF i \in E THEN Append(g[i - 1], one(i)) ELSE g[i - 1]
  <2>1. CASE i = 0
    BY <1>4, <2>1 DEF Recursion
  <2>2. CASE i # 0
    <3>1. i \in 1..n /\ i - 1 \in 0..n
      BY <1>1, <2>2
    <3>2. g[i - 1] \in V /\ g[i] = step[<<i, g[i - 1]>>]
      <4> HIDE DEF step
      <4> QED BY <1>4, <2>2, <3>1 DEF Recursion
    <3>3. <<i, g[i - 1]>> \in (1..n) \X V
      BY <3>1, <3>2
    <3> QED BY <2>2, <3>2, <3>3
  <2> QED BY <2>1, <2>2
<1>6. g = Def(g)
  BY <1>4, <1>5 DEF Recursion
<1>7. CallsFor(op, d, E) = (CHOOSE h : h = Def(h))[n]
  BY DEF CallsFor, one, n
<1>8. PICK h : h = Def(h) /\ CallsFor(op, d, E) = h[n]
  <2> HIDE DEF Def
  <2> QED BY <1>6, <1>7
<1>9. CallsBuilt(h, op, d, E)
  BY <1>8 DEF CallsBuilt, one, n
<1> QED BY <1>8, <1>9 DEF n

LEMMA BuiltFromNone ==
  ASSUME NEW op, NEW d, NEW E, NEW h, CallsBuilt(h, op, d, E)
  PROVE  h[0] = <<>>
<1>1. 0 \in 0..NumEvents
  BY NumEventsAssumption
<1>2. \A i \in 0..NumEvents : i = 0 => h[i] = <<>>
  BY ZenonT(30) DEF CallsBuilt
<1> QED BY <1>1, <1>2

(* They are of the events they are for ...                                  *)
LEMMA CallsForType ==
  ASSUME NEW op, NEW d, NEW E
  PROVE  CallsFor(op, d, E) \in Seq([op : {op}, event : E, delta : {d}])
<1> DEFINE n == NumEvents
           C == [op : {op}, event : E, delta : {d}]
           V == Seq(C)
<1>1. n \in Nat /\ <<>> \in V
  BY NumEventsAssumption, EmptySeq
<1>2. \A q \in V : \A i \in E : Append(q, [op |-> op, event |-> i, delta |-> d]) \in V
  <2>1. \A i \in E : [op |-> op, event |-> i, delta |-> d] \in C
    OBVIOUS
  <2> HIDE DEF C
  <2> QED BY <2>1
<1>3. PICK h : CallsBuilt(h, op, d, E) /\ CallsFor(op, d, E) = h[n]
  BY CallsForBuilt
<1> HIDE DEF V, n
<1>4. h[0] \in V /\ \A i \in 1..n : h[i - 1] \in V => h[i] \in V
  <2>1. h[0] = <<>>
    BY <1>3, BuiltFromNone
  <2>2. ASSUME NEW i \in 1..n, h[i - 1] \in V PROVE h[i] \in V
    <3>1. i \in 0..n /\ i # 0
      BY <1>1
    <3>2. h[i] = IF i \in E THEN Append(h[i - 1], [op |-> op, event |-> i, delta |-> d])
                 ELSE h[i - 1]
      BY <1>3, <3>1 DEF CallsBuilt, n
    <3> QED BY <1>2, <2>2, <3>2
  <2> QED BY <1>1, <2>1, <2>2
<1>5. h[0] \in V /\ n \in Nat
  BY <1>1, <1>4
<1>6. \A i \in 1..n : h[i - 1] \in V => h[i] \in V
  BY <1>4
<1>7. \A i \in 0..n : h[i] \in V
  BY <1>5, <1>6, RecursionType
<1>8. n \in 0..n
  BY <1>1
<1> QED BY <1>3, <1>7, <1>8 DEF V

(* ... and of all of them.                                                  *)
LEMMA CallsForAll ==
  ASSUME NEW op, NEW d, NEW E
  PROVE  \A e \in E \cap Events :
           \E j \in DOMAIN CallsFor(op, d, E) : CallsFor(op, d, E)[j].event = e
<1> DEFINE n == NumEvents
           C == [op : {op}, event : E, delta : {d}]
           Has(q, e) == \E j \in DOMAIN q : q[j].event = e
<1>1. n \in Nat
  BY NumEventsAssumption
<1>2. PICK h : CallsBuilt(h, op, d, E) /\ CallsFor(op, d, E) = h[n]
  BY CallsForBuilt
<1> DEFINE G == {i \in 0..n : h[i] \in Seq(C) /\ \A e \in E \cap (1..i) : Has(h[i], e)}
<1>3. 0 \in G
  <2>1. h[0] = <<>> /\ 0 \in 0..n
    BY <1>1, <1>2, BuiltFromNone
  <2>2. E \cap (1..0) = {}
    OBVIOUS
  <2> HIDE DEF C, Has
  <2> QED BY <2>1, <2>2, EmptySeq
<1>4. ASSUME NEW i \in 1..n, i - 1 \in G PROVE i \in G
  <2> DEFINE c == [op |-> op, event |-> i, delta |-> d]
  <2>1. /\ i \in 0..n /\ i # 0 /\ h[i - 1] \in Seq(C)
        /\ \A e \in E \cap (1..(i - 1)) : Has(h[i - 1], e)
    BY <1>1, <1>4
  <2>2. h[i] = IF i \in E THEN Append(h[i - 1], c) ELSE h[i - 1]
    BY <1>2, <2>1 DEF CallsBuilt
  <2>3. \A e \in E \cap (1..i) : e = i \/ e \in E \cap (1..(i - 1))
    OBVIOUS
  <2>4. CASE i \in E
    <3>1. c \in C /\ c.event = i
      BY <2>4
    <3> HIDE DEF c, C
    <3>2. h[i] \in Seq(C) /\ Len(h[i]) = Len(h[i - 1]) + 1 /\ h[i][Len(h[i])] = c
          /\ \A j \in 1..Len(h[i - 1]) : h[i][j] = h[i - 1][j]
      BY <2>1, <2>2, <2>4, <3>1
    <3>3. DOMAIN h[i] = 1..Len(h[i]) /\ DOMAIN h[i - 1] = 1..Len(h[i - 1]) /\ Len(h[i - 1]) \in Nat
      BY <2>1, <3>2
    <3>4. Has(h[i], i)
      BY <3>1, <3>2, <3>3
    <3>5. ASSUME NEW e \in E \cap (1..(i - 1)) PROVE Has(h[i], e)
      <4>1. PICK j \in DOMAIN h[i - 1] : h[i - 1][j].event = e
        BY <2>1
      <4>2. j \in DOMAIN h[i] /\ h[i][j] = h[i - 1][j]
        BY <3>2, <3>3, <4>1
      <4> QED BY <4>1, <4>2
    <3> HIDE DEF Has
    <3> QED BY <2>1, <2>3, <3>2, <3>4, <3>5
  <2>5. CASE i \notin E
    BY <2>1, <2>2, <2>3, <2>5
  <2> QED BY <2>4, <2>5
<1>5. 0..n \subseteq G
  <2> HIDE DEF G
  <2> QED BY <1>1, <1>3, <1>4, UpTo
<1>6. n \in G
  <2> HIDE DEF G
  <2> QED BY <1>1, <1>5
<1> QED BY <1>2, <1>6 DEF Events

-----------------------------------------------------------------------------
CallsOf(E) == [op : {"update", "resend", "release"}, event : E, delta : Nat]

Positions(s) == 0..(Cycle[s].length - 1)

TypeInv ==
  /\ bound \subseteq Events
  /\ calls \in Seq(CallsOf(bound))
  /\ raw \in [Events -> BOOLEAN] /\ sent \in [Events -> BOOLEAN]
  /\ hold \in [Events -> Nat]
  /\ cycle \in [Cycles -> [current : Int, last : Int]]
  /\ \A s \in Cycles : /\ cycle[s].current \in Positions(s) \cup {Unset}
                       /\ cycle[s].last \in Positions(s)
  /\ repeating \in [RelCodes -> Nat]

(* The hold counter of a key that is off is 0. *)
IdleHold == \A e \in Events : Handler[e].kind = "key" /\ ~sent[e] => hold[e] = 0

(* What overlapped records: at most one of the events that share is on.     *)
OneOfShared ==
  ~overlapped => \A e, f \in bound : e # f /\ sent[e] /\ sent[f] => ~Share(e, f)

(* While the button of a cycle is on, nobody has moved the cursor.           *)
CursorUnset ==
  ~overlapped => \A e \in bound :
    Handler[e].kind = "cycle" /\ Handler[e].press /\ sent[e] =>
      cycle[Handler[e].cycle].current = Unset

KeysInv == TypeInv /\ IdleHold /\ KeysFollowState
SharedInv == KeysInv /\ OneOfShared /\ CursorUnset /\ SharedFollowState

(* What a step does to the events: nothing, an update of one of them, or    *)
(* the state of a button for one of them.                                   *)
UpdatesHandler(e, d) ==
  /\ KeyUpdate(e, d) \/ MacroUpdate(e, d)
       \/ (Handler[e].kind \in {"cycle", "rel"} /\ UNCHANGED handlers)
  /\ UNCHANGED <<raw, sent, overlapped>>

LEMMA StepKinds ==
  ASSUME TypeInv, [Next]_vars
  PROVE  /\ bound' = bound /\ calls' \in Seq(CallsOf(bound))
         /\ \/ UNCHANGED <<event, overlapped>>
            \/ \E e \in bound, d \in Nat : UpdatesHandler(e, d)
            \/ \E e \in bound, v \in BOOLEAN : Send(e, v)
<1>0. calls \in Seq(CallsOf(bound)) /\ bound \subseteq Events /\ raw \in [Events -> BOOLEAN]
  BY DEF TypeInv
<1>1. ASSUME NEW op \in {"update", "release"}, NEW d \in Nat, NEW E \in SUBSET bound
      PROVE  CallsFor(op, d, E) \in Seq(CallsOf(bound))
  <2>1. [op : {op}, event : E, delta : {d}] \subseteq CallsOf(bound)
    BY DEF CallsOf
  <2> DEFINE K == [op : {op}, event : E, delta : {d}]
             L == CallsOf(bound)
  <2>2. CallsFor(op, d, E) \in Seq(K)
    BY CallsForType
  <2> HIDE DEF K, L
  <2>3. \A q \in Seq(K) : K \subseteq L => q \in Seq(L)
    OBVIOUS
  <2> QED BY <2>1, <2>2, <2>3 DEF K, L
<1>2. CASE UNCHANGED vars
  BY <1>0, <1>2 DEF vars
<1>3. ASSUME NEW d \in Deltas, Update(d)
      PROVE  /\ bound' = bound /\ calls' \in Seq(CallsOf(bound))
             /\ UNCHANGED <<event, overlapped>>
  <2>1. d \in Nat
    BY DeltasAssumption
  <2> QED BY <1>1, <1>3, <2>1 DEF Update
<1>4. ASSUME NEW e \in Events, ButtonDown(e)
      PROVE  bound' = bound /\ calls' \in Seq(CallsOf(bound)) /\ e \in bound /\ Send(e, TRUE)
  BY <1>0, <1>4 DEF ButtonDown
<1>5. ASSUME NEW e \in Events, ButtonUp(e)
      PROVE  bound' = bound /\ calls' \in Seq(CallsOf(bound)) /\ e \in bound /\ Send(e, FALSE)
  BY <1>0, <1>5 DEF ButtonUp
<1>6. CASE Leave
  BY <1>1, <1>6 DEF Leave
<1>7. CASE Return
  BY <1>0, <1>7 DEF Return
<1>8. CASE Perform
  <2> DEFINE call == Head(calls)
  <2>1. /\ call \in CallsOf(bound) /\ Tail(calls) \in Seq(CallsOf(bound))
        /\ call.event \in bound /\ call.delta \in Nat
    <3>1. calls # <<>>
      BY <1>8 DEF Perform, Idle
    <3> DEFINE L == CallsOf(bound)
    <3>2. call \in L /\ Tail(calls) \in Seq(L)
      <4> HIDE DEF L
      <4>1. calls \in Seq(L)
        BY <1>0 DEF L
      <4> QED BY <3>1, <4>1, HeadTailProperties
    <3> QED BY <3>2 DEF CallsOf
  <2>2. CASE call.op = "update" /\ UpdateEvent(call.event, call.delta)
    <3>1. UpdatesHandler(call.event, call.delta) /\ bound' = bound
      BY <2>2 DEF UpdateEvent, UpdatesHandler
    <3>2. calls' = <<[op |-> "resend", event |-> call.event, delta |-> 0]>> \o Tail(calls)
      BY <2>2 DEF UpdateEvent
    <3>3. [op |-> "resend", event |-> call.event, delta |-> 0] \in CallsOf(bound)
      BY <2>1 DEF CallsOf
    <3>4. calls' \in Seq(CallsOf(bound))
      <4> DEFINE L == CallsOf(bound)
                 x == [op |-> "resend", event |-> call.event, delta |-> 0]
      <4>1. x \in L /\ Tail(calls) \in Seq(L)
        BY <2>1, <3>3
      <4> HIDE DEF L, x
      <4>2. <<x>> \in Seq(L)
        BY <4>1
      <4>3. <<x>> \o Tail(calls) \in Seq(L)
        BY <4>1, <4>2, ConcatProperties
      <4> QED BY <3>2, <4>3 DEF L, x
    <3> QED BY <2>1, <3>1, <3>4
  <2>3. CASE /\ Send(call.event, call.op = "resend" /\ raw[call.event])
             /\ calls' = Tail(calls) /\ bound' = bound
    <3>1. (call.op = "resend" /\ raw[call.event]) \in BOOLEAN
      OBVIOUS
    <3> QED BY <2>1, <2>3, <3>1
  <2> QED BY <1>8, <2>2, <2>3 DEF Perform
<1> QED BY <1>2, <1>3, <1>4, <1>5, <1>6, <1>7, <1>8 DEF Next

(* A button's state reaches the handler when the filters make it a new one. *)
LEMMA SendKinds ==
  ASSUME TypeInv, NEW e \in bound, NEW v \in BOOLEAN, Send(e, v)
  PROVE  \E state \in BOOLEAN :
           /\ raw' = [raw EXCEPT ![e] = v] /\ sent' = [sent EXCEPT ![e] = state]
           /\ \/ state = sent[e] /\ UNCHANGED handlers
              \/ state # sent[e] /\ HandlerSend(e, state)
           /\ ~overlapped' => /\ ~overlapped
                              /\ \A f \in bound \ {e} : state /\ sent[f] => ~Share(e, f)
<1> DEFINE state == Filtered(Filters[e], filters[e], v)[Len(Filters[e])]
<1>1. e \in Events
  BY DEF TypeInv
<1>2. state \in BOOLEAN
  BY <1>1, StateType
<1>3. /\ raw' = [raw EXCEPT ![e] = v] /\ sent' = [sent EXCEPT ![e] = state]
      /\ IF state = sent[e] THEN UNCHANGED handlers ELSE HandlerSend(e, state)
      /\ overlapped' = (overlapped \/ \E f \in bound \ {e} : state /\ sent[f] /\ Share(e, f))
  BY DEF Send
<1> HIDE DEF state
<1>4. ~overlapped' => /\ ~overlapped
                      /\ \A f \in bound \ {e} : state /\ sent[f] => ~Share(e, f)
  BY <1>3
<1> QED BY <1>2, <1>3, <1>4

LEMMA HandlerType ==
  ASSUME NEW e \in Events
  PROVE  /\ Handler[e].kind = "key" => Handler[e].threshold \in Nat
         /\ Handler[e].kind = "cycle" =>
              /\ Handler[e].cycle \in Cycles /\ Handler[e].press \in BOOLEAN
              /\ Handler[e].direction \in {"forward", "backward", "none"}
         /\ Handler[e].kind = "rel" =>
              Handler[e].code \in RelCodes /\ Handler[e].repeats \in BOOLEAN
BY HandlersAssumption

(* Where the cursor of a cycle goes, and the key that is sent next.         *)
LEMMA CycleFacts ==
  ASSUME TypeInv, NEW s \in Cycles, NEW direction \in {"forward", "backward", "none"}
  PROVE  /\ Moved(s, direction) \in Positions(s) \cup {Unset}
         /\ Unset \notin Positions(s) /\ Cycle[s].length \in Nat
<1>1. Cycle[s].length \in Nat \ {0} /\ Cycle[s].wrap \in BOOLEAN
  BY CyclesAssumption
<1>a. Unset \notin Positions(s) /\ Cycle[s].length \in Nat
  BY <1>1 DEF Positions, Unset
<1> SUFFICES Moved(s, direction) \in Positions(s) \cup {Unset}
  BY <1>a
<1> DEFINE last == Cycle[s].length - 1
           key  == Cursor(s)
<1>2. key \in 0..last /\ last \in Nat
  BY <1>1 DEF TypeInv, Cursor, Positions, Unset
<1>3. Moved(s, direction) =
        CASE direction = "forward" /\ key < last -> key + 1
          [] direction = "forward" /\ key = last -> IF Cycle[s].wrap THEN 0 ELSE last
          [] direction = "backward" /\ key > 0 -> key - 1
          [] direction = "backward" /\ key = 0 -> IF Cycle[s].wrap THEN last ELSE 0
          [] direction = "none" -> cycle[s].current
  BY DEF Moved
<1>4. cycle[s].current \in Positions(s) \cup {Unset}
  BY DEF TypeInv
<1> HIDE DEF key
<1>5. CASE direction = "forward"
  <2>1. Moved(s, direction) = IF key < last THEN key + 1 ELSE IF Cycle[s].wrap THEN 0 ELSE last
    BY <1>2, <1>3, <1>5
  <2>2. Moved(s, direction) \in 0..last
    BY <1>2, <2>1
  <2> QED BY <2>2 DEF Positions
<1>6. CASE direction = "backward"
  <2>1. Moved(s, direction) = IF key > 0 THEN key - 1 ELSE IF Cycle[s].wrap THEN last ELSE 0
    BY <1>2, <1>3, <1>6
  <2>2. Moved(s, direction) \in 0..last
    BY <1>2, <2>1
  <2> QED BY <2>2 DEF Positions
<1>7. CASE direction = "none"
  BY <1>3, <1>4, <1>7
<1> QED BY <1>5, <1>6, <1>7

(* The keys of a key button as its state, its threshold and its hold        *)
(* counter make them.                                                       *)
KeysOK(e, on, held, groups) ==
  LET threshold == Handler[e].threshold
  IN  /\ <<"codes", e>> \in groups <=> on /\ threshold = 0
      /\ <<"secondary", e>> \in groups <=> on /\ threshold > 0 /\ held >= threshold

LEMMA KeysFollowStateIs ==
  KeysFollowState <=> \A e \in Events : Handler[e].kind = "key" => KeysOK(e, sent[e], hold[e], down)
BY DEF KeysFollowState, KeysOK

(* A key handler that is told a new state. *)
LEMMA KeySendKeys ==
  ASSUME KeysInv, NEW e \in Events, NEW v \in BOOLEAN, v # sent[e], KeySend(e, v)
  PROVE  /\ hold' \in [Events -> Nat] /\ \A f \in Events \ {e} : hold'[f] = hold[f]
         /\ ~v => hold'[e] = 0
         /\ KeysOK(e, v, hold'[e], down')
         /\ \A g : g # <<"codes", e>> /\ g # <<"secondary", e>> => (g \in down' <=> g \in down)
<1> DEFINE threshold == Handler[e].threshold
<1>1. Handler[e].kind = "key" /\ threshold \in Nat
  BY HandlerType DEF KeySend
<1>2. hold \in [Events -> Nat] /\ sent \in [Events -> BOOLEAN]
  BY DEF KeysInv, TypeInv
<1>3. hold' = [hold EXCEPT ![e] = IF v THEN hold[e] ELSE 0]
  BY DEF KeySend
<1>4. hold' \in [Events -> Nat] /\ hold'[e] = (IF v THEN hold[e] ELSE 0)
      /\ \A f \in Events \ {e} : hold'[f] = hold[f]
  BY <1>2, <1>3
<1>5. KeysOK(e, sent[e], hold[e], down)
  BY <1>1, KeysFollowStateIs DEF KeysInv
<1>6. v => hold[e] = 0
  BY <1>1, <1>2 DEF KeysInv, IdleHold
<1>7. CASE threshold = 0 /\ v /\ Press(<<"codes", e>>)
  BY <1>1, <1>2, <1>4, <1>5, <1>7 DEF KeysOK, Press
<1>8. CASE threshold = 0 /\ ~v /\ Lift(<<"codes", e>>)
  BY <1>1, <1>2, <1>4, <1>5, <1>8 DEF KeysOK, Lift
<1>9. CASE threshold > 0 /\ v /\ UNCHANGED outputs
  BY <1>1, <1>2, <1>4, <1>5, <1>6, <1>9 DEF KeysOK, outputs
<1>10. CASE threshold > 0 /\ ~v /\ hold[e] < threshold /\ Click(<<"codes", e>>)
  BY <1>1, <1>2, <1>4, <1>5, <1>10 DEF KeysOK, Click
<1>11. CASE threshold > 0 /\ ~v /\ hold[e] >= threshold /\ Lift(<<"secondary", e>>)
  BY <1>1, <1>2, <1>4, <1>5, <1>11 DEF KeysOK, Lift
<1> QED BY <1>1, <1>7, <1>8, <1>9, <1>10, <1>11 DEF KeySend, Emit

(* A key handler that is told that time went by. *)
LEMMA KeyUpdateKeys ==
  ASSUME KeysInv, NEW e \in Events, NEW d \in Nat, KeyUpdate(e, d)
  PROVE  /\ hold' \in [Events -> Nat] /\ \A f \in Events \ {e} : hold'[f] = hold[f]
         /\ ~sent[e] => hold'[e] = hold[e]
         /\ KeysOK(e, sent[e], hold'[e], down')
         /\ \A g : g # <<"codes", e>> /\ g # <<"secondary", e>> => (g \in down' <=> g \in down)
<1> DEFINE threshold == Handler[e].threshold
           counts == sent[e] /\ hold[e] < threshold
<1>1. Handler[e].kind = "key" /\ threshold \in Nat
  BY HandlerType DEF KeyUpdate
<1>2. hold \in [Events -> Nat] /\ sent \in [Events -> BOOLEAN]
  BY DEF KeysInv, TypeInv
<1>3. hold' = [hold EXCEPT ![e] = IF counts THEN hold[e] + d ELSE hold[e]]
  BY DEF KeyUpdate
<1>4. hold' \in [Events -> Nat] /\ hold'[e] = (IF counts THEN hold[e] + d ELSE hold[e])
      /\ \A f \in Events \ {e} : hold'[f] = hold[f]
  BY <1>2, <1>3
<1>5. KeysOK(e, sent[e], hold[e], down)
  BY <1>1, KeysFollowStateIs DEF KeysInv
<1>6. CASE counts /\ hold[e] + d >= threshold
  <2>1. Press(<<"secondary", e>>)
    BY <1>6 DEF KeyUpdate
  <2> QED BY <1>1, <1>2, <1>4, <1>5, <1>6, <2>1 DEF KeysOK, Press
<1>7. CASE ~(counts /\ hold[e] + d >= threshold)
  <2>1. down' = down
    BY <1>7 DEF KeyUpdate, outputs
  <2> QED BY <1>1, <1>2, <1>4, <1>5, <1>7, <2>1 DEF KeysOK
<1> QED BY <1>6, <1>7

CycleOK(s, c) ==
  /\ c \in [current : Int, last : Int]
  /\ c.current \in Positions(s) \cup {Unset} /\ c.last \in Positions(s)

(* A button of a cycle presses the key it then notes as the last one, and   *)
(* releases the last one unless the cursor was moved.                       *)
LEMMA CycleSendFacts ==
  ASSUME TypeInv, NEW e \in Events, NEW v \in BOOLEAN, CycleSend(e, v)
  PROVE  LET s == Handler[e].cycle
         IN  /\ Handler[e].kind = "cycle" /\ s \in Cycles /\ UNCHANGED <<hold, macro, repeating>>
             /\ cycle' \in [Cycles -> [current : Int, last : Int]]
             /\ CycleOK(s, cycle'[s])
             /\ \A t \in Cycles \ {s} : cycle'[t] = cycle[t]
             /\ ~Handler[e].press => /\ down' = down /\ cycle'[s].last = cycle[s].last
                                     /\ ~v => cycle'[s].current = cycle[s].current
             /\ Handler[e].press =>
                  /\ cycle'[s].current = Unset
                  /\ v => down' = down \cup {<<s, cycle'[s].last>>}
                  /\ ~v => down' = down \ {<<s, cycle'[s].last>>}
                  /\ ~v /\ cycle[s].current = Unset => cycle'[s].last = cycle[s].last
<1> DEFINE s == Handler[e].cycle
           stays   == ~v \/ (Handler[e].press /\ cycle[s].current # Unset)
           current == IF stays THEN cycle[s].current ELSE Moved(s, Handler[e].direction)
           key     == IF current = Unset THEN cycle[s].last ELSE current
<1>1. /\ Handler[e].kind = "cycle" /\ s \in Cycles /\ Handler[e].press \in BOOLEAN
      /\ Handler[e].direction \in {"forward", "backward", "none"}
      /\ UNCHANGED <<hold, macro, repeating>>
  BY HandlerType DEF CycleSend
<1>2. /\ cycle \in [Cycles -> [current : Int, last : Int]]
      /\ cycle[s] \in [current : Int, last : Int]
      /\ cycle[s].current \in Positions(s) \cup {Unset} /\ cycle[s].last \in Positions(s)
  BY <1>1 DEF TypeInv
<1>3. Moved(s, Handler[e].direction) \in Positions(s) \cup {Unset} /\ Positions(s) \subseteq Int
  BY <1>1, CycleFacts DEF Positions
<1>4. current \in Positions(s) \cup {Unset} /\ key \in Positions(s) /\ Unset \in Int
  <2>1. current \in Positions(s) \cup {Unset}
    BY <1>2, <1>3
  <2> HIDE DEF current
  <2> QED BY <1>2, <2>1 DEF Unset
<1>5. IF Handler[e].press
      THEN Emit(<<s, key>>, v) /\ cycle' = [cycle EXCEPT ![s] = Sent(s, key)]
      ELSE cycle' = [cycle EXCEPT ![s].current = current] /\ UNCHANGED outputs
  BY DEF CycleSend
<1>6. ~v => current = cycle[s].current
  OBVIOUS
<1>7. current = Unset => key = cycle[s].last
  OBVIOUS
<1> HIDE DEF s, key, current
<1>8. CASE Handler[e].press
  <2>1. Sent(s, key) = [current |-> Unset, last |-> key] /\ Sent(s, key) \in [current : Int, last : Int]
    BY <1>3, <1>4 DEF Sent
  <2>2. /\ cycle' \in [Cycles -> [current : Int, last : Int]]
        /\ cycle'[s] = Sent(s, key) /\ \A t \in Cycles \ {s} : cycle'[t] = cycle[t]
    <3> HIDE DEF Sent
    <3> QED BY <1>1, <1>2, <1>5, <1>8, <2>1
  <2>3. cycle'[s].current = Unset /\ cycle'[s].last = key
    BY <2>1, <2>2
  <2>4. /\ v => down' = down \cup {<<s, key>>}
        /\ ~v => down' = down \ {<<s, key>>}
    BY <1>5, <1>8 DEF Emit, Press, Lift
  <2>5. CycleOK(s, cycle'[s])
    BY <1>4, <2>1, <2>2, <2>3 DEF CycleOK
  <2> QED BY <1>1, <1>6, <1>7, <1>8, <2>2, <2>3, <2>4, <2>5 DEF s
<1>9. CASE ~Handler[e].press
  <2>1. down' = down /\ cycle' = [cycle EXCEPT ![s].current = current]
    BY <1>5, <1>9 DEF outputs
  <2>2. cycle' = [cycle EXCEPT ![s] = [cycle[s] EXCEPT !.current = current]]
    BY <2>1
  <2>3. /\ [cycle[s] EXCEPT !.current = current] \in [current : Int, last : Int]
        /\ [cycle[s] EXCEPT !.current = current].current = current
        /\ [cycle[s] EXCEPT !.current = current].last = cycle[s].last
    BY <1>2, <1>3, <1>4
  <2>4. /\ cycle' \in [Cycles -> [current : Int, last : Int]]
        /\ cycle'[s] = [cycle[s] EXCEPT !.current = current]
        /\ \A t \in Cycles \ {s} : cycle'[t] = cycle[t]
    <3> DEFINE new == [cycle[s] EXCEPT !.current = current]
    <3>1. new \in [current : Int, last : Int] /\ cycle' = [cycle EXCEPT ![s] = new]
      BY <2>2, <2>3
    <3> HIDE DEF new
    <3>2. /\ cycle' \in [Cycles -> [current : Int, last : Int]]
          /\ cycle'[s] = new /\ \A t \in Cycles \ {s} : cycle'[t] = cycle[t]
      BY <1>1, <1>2, <3>1
    <3> QED BY <3>2 DEF new
  <2>5. cycle'[s].current = current /\ cycle'[s].last = cycle[s].last
    BY <2>3, <2>4
  <2>6. CycleOK(s, cycle'[s])
    BY <1>2, <1>4, <2>3, <2>4, <2>5 DEF CycleOK
  <2> QED BY <1>1, <1>6, <1>9, <2>1, <2>4, <2>5, <2>6 DEF s
<1> QED BY <1>1, <1>8, <1>9

(* What HandlerSend of one event leaves as it is.                           *)
LEMMA SendFrame ==
  ASSUME KeysInv, NEW e \in Events, NEW v \in BOOLEAN, v # sent[e], HandlerSend(e, v)
  PROVE  /\ hold' \in [Events -> Nat] /\ \A f \in Events \ {e} : hold'[f] = hold[f]
         /\ Handler[e].kind = "key" => KeysOK(e, v, hold'[e], down') /\ (~v => hold'[e] = 0)
         /\ \A g : g[1] \in {"codes", "secondary"} /\ g[2] # e => (g \in down' <=> g \in down)
         /\ Handler[e].kind = "cycle" => CycleSend(e, v)
         /\ Handler[e].kind # "cycle" =>
              /\ cycle' = cycle
              /\ \A g : g[1] \in Cycles => (g \in down' <=> g \in down)
         /\ Handler[e].kind = "rel" => RelSend(e, v)
         /\ Handler[e].kind # "rel" => repeating' = repeating
<1>1. hold \in [Events -> Nat] /\ TypeInv
  BY DEF KeysInv, TypeInv
<1>2. "codes" \notin Cycles /\ "secondary" \notin Cycles
  BY GroupsAssumption
<1>3. CASE KeySend(e, v)
  <2>1. Handler[e].kind = "key" /\ cycle' = cycle /\ repeating' = repeating
    BY <1>3 DEF KeySend
  <2>2. \A g : g # <<"codes", e>> /\ g # <<"secondary", e>> => (g \in down' <=> g \in down)
    BY <1>3, KeySendKeys
  <2>3. \A g : g[1] \in {"codes", "secondary"} /\ g[2] # e => (g \in down' <=> g \in down)
    BY <2>2
  <2>4. \A g : g[1] \in Cycles => (g \in down' <=> g \in down)
    BY <1>2, <2>2
  <2> QED BY <1>3, <2>1, <2>3, <2>4, KeySendKeys
<1>4. CASE CycleSend(e, v)
  <2> DEFINE s == Handler[e].cycle
  <2>1. /\ Handler[e].kind = "cycle" /\ s \in Cycles /\ hold' = hold /\ repeating' = repeating
        /\ \A g : g # <<s, cycle'[s].last>> => (g \in down' <=> g \in down)
    BY <1>1, <1>4, CycleSendFacts, HandlerType
  <2>2. \A g : g[1] \in {"codes", "secondary"} => g # <<s, cycle'[s].last>>
    BY <1>2, <2>1
  <2> QED BY <1>1, <1>4, <2>1, <2>2
<1>5. CASE MacroSend(e, v)
  BY <1>1, <1>5 DEF MacroSend, outputs
<1>6. CASE RelSend(e, v)
  BY <1>1, <1>6 DEF RelSend, outputs
<1> QED BY <1>3, <1>4, <1>5, <1>6 DEF HandlerSend

(* What an update of one event leaves as it is.                             *)
LEMMA UpdateFrame ==
  ASSUME KeysInv, NEW e \in Events, NEW d \in Nat, UpdatesHandler(e, d)
  PROVE  /\ UNCHANGED <<raw, sent, overlapped, cycle, repeating>>
         /\ hold' \in [Events -> Nat] /\ \A f \in Events \ {e} : hold'[f] = hold[f]
         /\ Handler[e].kind = "key" =>
              KeysOK(e, sent[e], hold'[e], down') /\ (~sent[e] => hold'[e] = hold[e])
         /\ \A g : g[1] \in {"codes", "secondary"} /\ g[2] # e => (g \in down' <=> g \in down)
         /\ \A g : g[1] \in Cycles => (g \in down' <=> g \in down)
<1>1. hold \in [Events -> Nat]
  BY DEF KeysInv, TypeInv
<1>2. "codes" \notin Cycles /\ "secondary" \notin Cycles
  BY GroupsAssumption
<1>3. CASE KeyUpdate(e, d)
  <2>1. UNCHANGED <<raw, sent, overlapped, cycle, repeating>>
    BY <1>3 DEF KeyUpdate, UpdatesHandler
  <2>2. \A g : g # <<"codes", e>> /\ g # <<"secondary", e>> => (g \in down' <=> g \in down)
    BY <1>3, KeyUpdateKeys
  <2>3. \A g : g[1] \in {"codes", "secondary"} /\ g[2] # e => (g \in down' <=> g \in down)
    BY <2>2
  <2>4. \A g : g[1] \in Cycles => (g \in down' <=> g \in down)
    BY <1>2, <2>2
  <2> QED BY <1>3, <2>1, <2>3, <2>4, KeyUpdateKeys
<1>4. CASE Handler[e].kind # "key" /\ UNCHANGED <<hold, cycle, repeating, down>>
  BY <1>1, <1>4 DEF UpdatesHandler
<1>5. MacroUpdate(e, d) => Handler[e].kind # "key" /\ UNCHANGED <<hold, cycle, repeating, down>>
  BY DEF MacroUpdate
<1>6. Handler[e].kind \in {"cycle", "rel"} /\ UNCHANGED handlers
        => Handler[e].kind # "key" /\ UNCHANGED <<hold, cycle, repeating, down>>
  BY DEF handlers, outputs
<1> QED BY <1>3, <1>4, <1>5, <1>6 DEF UpdatesHandler

(* The keys of every event follow, when those of one event do.              *)
LEMMA KeysAfter ==
  ASSUME KeysInv, NEW e \in Events, NEW on \in BOOLEAN, sent' = [sent EXCEPT ![e] = on],
         hold' \in [Events -> Nat], \A f \in Events \ {e} : hold'[f] = hold[f],
         Handler[e].kind = "key" => KeysOK(e, on, hold'[e], down') /\ (~on => hold'[e] = 0),
         \A g : g[1] \in {"codes", "secondary"} /\ g[2] # e => (g \in down' <=> g \in down)
  PROVE  sent' \in [Events -> BOOLEAN] /\ IdleHold' /\ KeysFollowState'
<1>1. sent \in [Events -> BOOLEAN]
  BY DEF KeysInv, TypeInv
<1>2. sent' \in [Events -> BOOLEAN] /\ sent'[e] = on /\ \A f \in Events \ {e} : sent'[f] = sent[f]
  BY <1>1
<1>3. IdleHold'
  BY <1>2 DEF KeysInv, IdleHold
<1>4. ASSUME NEW f \in Events, Handler[f].kind = "key"
      PROVE  KeysOK(f, sent'[f], hold'[f], down')
  <2>1. CASE f = e
    BY <1>2, <1>4, <2>1
  <2>2. CASE f # e
    <3>1. KeysOK(f, sent[f], hold[f], down)
      BY <1>4, KeysFollowStateIs DEF KeysInv
    <3>2. /\ <<"codes", f>> \in down' <=> <<"codes", f>> \in down
          /\ <<"secondary", f>> \in down' <=> <<"secondary", f>> \in down
      BY <2>2
    <3>3. sent'[f] = sent[f] /\ hold'[f] = hold[f]
      BY <1>2, <2>2
    <3> QED BY <3>1, <3>2, <3>3 DEF KeysOK
  <2> QED BY <2>1, <2>2
<1>5. KeysFollowState'
  BY <1>4 DEF KeysFollowState, KeysOK
<1> QED BY <1>2, <1>3, <1>5

LEMMA SendKeys ==
  ASSUME KeysInv, NEW e \in bound, NEW v \in BOOLEAN, Send(e, v),
         bound' = bound, calls' \in Seq(CallsOf(bound))
  PROVE  KeysInv'
<1>0. TypeInv /\ e \in Events
  BY DEF KeysInv, TypeInv
<1>1. PICK state \in BOOLEAN :
        /\ raw' = [raw EXCEPT ![e] = v] /\ sent' = [sent EXCEPT ![e] = state]
        /\ \/ state = sent[e] /\ UNCHANGED handlers
           \/ state # sent[e] /\ HandlerSend(e, state)
  BY <1>0, SendKinds
<1>2. raw' \in [Events -> BOOLEAN]
  BY <1>0, <1>1 DEF TypeInv
<1>3. CASE state = sent[e] /\ UNCHANGED handlers
  <2>1. sent' = sent
    BY <1>0, <1>1, <1>3 DEF TypeInv
  <2>2. UNCHANGED <<hold, cycle, repeating, down>>
    BY <1>3 DEF handlers, outputs
  <2> QED BY <1>2, <2>1, <2>2 DEF KeysInv, TypeInv, IdleHold, KeysFollowState
<1>4. CASE state # sent[e] /\ HandlerSend(e, state)
  <2>1. sent' \in [Events -> BOOLEAN] /\ IdleHold' /\ KeysFollowState' /\ hold' \in [Events -> Nat]
    BY <1>0, <1>1, <1>4, SendFrame, KeysAfter
  <2>2. /\ cycle' \in [Cycles -> [current : Int, last : Int]]
        /\ \A s \in Cycles : /\ cycle'[s].current \in Positions(s) \cup {Unset}
                             /\ cycle'[s].last \in Positions(s)
    <3>1. CASE Handler[e].kind = "cycle"
      <4>1. CycleSend(e, state)
        BY <1>0, <1>4, <3>1, SendFrame
      <4>2. /\ cycle' \in [Cycles -> [current : Int, last : Int]]
            /\ CycleOK(Handler[e].cycle, cycle'[Handler[e].cycle])
            /\ \A t \in Cycles \ {Handler[e].cycle} : cycle'[t] = cycle[t]
        BY <1>0, <4>1, CycleSendFacts
      <4> QED BY <1>0, <4>2 DEF CycleOK, TypeInv
    <3>2. CASE Handler[e].kind # "cycle"
      <4>1. cycle' = cycle
        BY <1>0, <1>4, <3>2, SendFrame
      <4> QED BY <1>0, <4>1 DEF TypeInv
    <3> QED BY <3>1, <3>2
  <2>3. repeating' \in [RelCodes -> Nat]
    <3>1. CASE Handler[e].kind = "rel"
      <4>1. RelSend(e, state)
        BY <1>0, <1>4, <3>1, SendFrame
      <4>2. Repeats(e, state) \in Nat
        BY <1>0 DEF Repeats, Events, None
      <4> QED BY <1>0, <4>1, <4>2 DEF RelSend, TypeInv
    <3>2. CASE Handler[e].kind # "rel"
      BY <1>0, <1>4, <3>2, SendFrame DEF TypeInv
    <3> QED BY <3>1, <3>2
  <2> QED BY <1>0, <1>2, <2>1, <2>2, <2>3 DEF KeysInv, TypeInv
<1> QED BY <1>1, <1>3, <1>4

LEMMA KeysStep ==
  ASSUME KeysInv, [Next]_vars
  PROVE  KeysInv'
<1>1. TypeInv /\ bound' = bound /\ calls' \in Seq(CallsOf(bound))
  BY StepKinds DEF KeysInv
<1>2. CASE UNCHANGED <<event, overlapped>>
  <2>1. UNCHANGED <<raw, sent, hold, cycle, repeating, down>>
    BY <1>2 DEF event, handlers, outputs
  <2> QED BY <1>1, <2>1 DEF KeysInv, TypeInv, IdleHold, KeysFollowState
<1>3. ASSUME NEW e \in bound, NEW d \in Nat, UpdatesHandler(e, d) PROVE KeysInv'
  <2>1. e \in Events /\ sent[e] \in BOOLEAN /\ sent' = [sent EXCEPT ![e] = sent[e]]
        /\ UNCHANGED <<raw, cycle, repeating>>
    <3>1. e \in Events /\ sent \in [Events -> BOOLEAN]
      BY <1>1 DEF TypeInv
    <3>2. sent' = sent /\ UNCHANGED <<raw, cycle, repeating>>
      BY <1>3, <3>1, UpdateFrame
    <3> QED BY <3>1, <3>2
  <2>2. Handler[e].kind = "key" => (~sent[e] => hold[e] = 0)
    BY <2>1 DEF KeysInv, IdleHold
  <2>3. sent' \in [Events -> BOOLEAN] /\ IdleHold' /\ KeysFollowState' /\ hold' \in [Events -> Nat]
    <3>1. /\ hold' \in [Events -> Nat] /\ \A f \in Events \ {e} : hold'[f] = hold[f]
          /\ Handler[e].kind = "key" =>
               KeysOK(e, sent[e], hold'[e], down') /\ (~sent[e] => hold'[e] = 0)
          /\ \A g : g[1] \in {"codes", "secondary"} /\ g[2] # e => (g \in down' <=> g \in down)
      BY <1>3, <2>1, <2>2, UpdateFrame
    <3> QED BY <2>1, <3>1, KeysAfter
  <2> QED BY <1>1, <2>1, <2>3 DEF KeysInv, TypeInv
<1>4. ASSUME NEW e \in bound, NEW v \in BOOLEAN, Send(e, v) PROVE KeysInv'
  BY <1>1, <1>4, SendKeys
<1> QED BY <1>1, <1>2, <1>3, <1>4, StepKinds

LEMMA InitKeys == Init => KeysInv
<1> SUFFICES ASSUME Init PROVE KeysInv
  OBVIOUS
<1>1. bound \subseteq Events
  BY NumEventsAssumption DEF Init
<1>2. calls \in Seq(CallsOf(bound))
  BY EmptySeq DEF Init
<1>3. \A s \in Cycles : 0 \in Positions(s)
  BY CyclesAssumption DEF Positions
<1>4. TypeInv
  BY <1>1, <1>2, <1>3 DEF Init, TypeInv, None
<1>5. IdleHold /\ KeysFollowState
  BY DEF Init, IdleHold, KeysFollowState
<1> QED BY <1>4, <1>5 DEF KeysInv

(* In every state, whatever the filters made of the button and however the  *)
(* updates fell: a key button holds its first keys, or past its hold        *)
(* threshold its second ones, exactly while it is on.                       *)
THEOREM KeysFollow == Spec => []KeysFollowState
<1>1. KeysInv /\ [Next]_vars => KeysInv'
  BY KeysStep
<1>2. KeysInv => KeysFollowState
  BY DEF KeysInv
<1> QED BY <1>1, <1>2, InitKeys, PTL DEF Spec

-----------------------------------------------------------------------------
(* The buttons of a cycle, and those that repeat on an axis, that are on.    *)
OnCycle(s) == {x \in bound : /\ Handler[x].kind = "cycle" /\ Handler[x].cycle = s
                             /\ Handler[x].press /\ sent[x]}
OnAxis(c) == {e \in bound : /\ Handler[e].kind = "rel" /\ Handler[e].code = c
                            /\ Handler[e].repeats /\ sent[e]}

CycleFollows(s) == {i \in Positions(s) : <<s, i>> \in down} = {cycle[s].last : e \in OnCycle(s)}
AxisFollows(c) == {repeating[c]} \ {None} = OnAxis(c)

LEMMA SharedFollowStateIs ==
  SharedFollowState <=>
    (~overlapped => (\A s \in Cycles : CycleFollows(s)) /\ (\A c \in RelCodes : AxisFollows(c)))
BY DEF SharedFollowState, CycleFollows, AxisFollows, OnCycle, OnAxis, Positions

LEMMA ShareSymmetric == \A e, f : Share(e, f) <=> Share(f, e)
BY DEF Share

(* Where nothing of a cycle or of an axis changes, it goes on to follow.    *)
LEMMA CycleStays ==
  ASSUME TypeInv, NEW s \in Cycles, CycleFollows(s), OnCycle(s)' = OnCycle(s),
         cycle'[s].last = cycle[s].last, \A i : <<s, i>> \in down' <=> <<s, i>> \in down
  PROVE  CycleFollows(s)'
BY DEF CycleFollows

LEMMA AxisStays ==
  ASSUME NEW c \in RelCodes, AxisFollows(c), OnAxis(c)' = OnAxis(c), repeating'[c] = repeating[c]
  PROVE  AxisFollows(c)'
BY DEF AxisFollows

(* One event of bound is sent a new state while no others share with it.    *)
LEMMA SharedSend ==
  ASSUME SharedInv, ~overlapped, NEW e \in bound, NEW state \in BOOLEAN, state # sent[e],
         HandlerSend(e, state), sent' = [sent EXCEPT ![e] = state], bound' = bound,
         \A f \in bound \ {e} : state /\ sent[f] => ~Share(e, f)
  PROVE  /\ \A s \in Cycles : CycleFollows(s)'
         /\ \A c \in RelCodes : AxisFollows(c)'
         /\ \A x \in bound :
              Handler[x].kind = "cycle" /\ Handler[x].press /\ sent'[x] =>
                cycle'[Handler[x].cycle].current = Unset
<1>0. /\ TypeInv /\ KeysInv /\ e \in Events /\ bound \subseteq Events
      /\ sent \in [Events -> BOOLEAN] /\ sent[e] \in BOOLEAN
  BY DEF SharedInv, KeysInv, TypeInv
<1>1. sent'[e] = state /\ \A f \in bound \ {e} : sent'[f] = sent[f]
  BY <1>0
<1>2. \A f \in bound \ {e} : sent[f] => ~Share(e, f)
  BY <1>0, ShareSymmetric DEF SharedInv, OneOfShared
<1>3. /\ \A s \in Cycles : CycleFollows(s)
      /\ \A c \in RelCodes : AxisFollows(c)
  BY SharedFollowStateIs DEF SharedInv
<1>4. ASSUME NEW s \in Cycles PROVE CycleFollows(s)'
  <2>1. CASE Handler[e].kind # "cycle"
    <3>1. cycle' = cycle /\ \A i : <<s, i>> \in down' <=> <<s, i>> \in down
      BY <1>0, <2>1, SendFrame
    <3>2. OnCycle(s)' = OnCycle(s)
      BY <1>1, <2>1 DEF OnCycle
    <3> QED BY <1>0, <1>3, <3>1, <3>2, CycleStays
  <2>2. CASE Handler[e].kind = "cycle" /\ (Handler[e].cycle # s \/ ~Handler[e].press)
    <3>1. CycleSend(e, state)
      BY <1>0, <2>2, SendFrame
    <3>2. cycle'[s].last = cycle[s].last /\ \A i : <<s, i>> \in down' <=> <<s, i>> \in down
      BY <1>0, <2>2, <3>1, CycleSendFacts, HandlerType
    <3>3. OnCycle(s)' = OnCycle(s)
      BY <1>1, <2>2 DEF OnCycle
    <3> QED BY <1>0, <1>3, <3>2, <3>3, CycleStays
  <2>3. CASE Handler[e].kind = "cycle" /\ Handler[e].cycle = s /\ Handler[e].press
    <3>1. CycleSend(e, state)
      BY <1>0, <2>3, SendFrame
    <3>2. \A x \in bound \ {e} : x \notin OnCycle(s) /\ x \notin OnCycle(s)'
      <4>1. \A x \in bound \ {e} : Handler[x].kind = "cycle" /\ Handler[x].cycle = s => ~sent[x]
        BY <1>2, <2>3 DEF Share
      <4> QED BY <1>1, <4>1 DEF OnCycle
    <3>3. OnCycle(s) \subseteq bound /\ OnCycle(s)' \subseteq bound
      BY DEF OnCycle
    <3>4. {i \in Positions(s) : <<s, i>> \in down} = {cycle[s].last : x \in OnCycle(s)}
      BY <1>3 DEF CycleFollows
    <3>5. cycle'[s].last \in Positions(s)
      BY <1>0, <2>3, <3>1, CycleSendFacts DEF CycleOK
    <3>6. CASE state
      <4>1. OnCycle(s) = {} /\ OnCycle(s)' = {e}
        BY <1>0, <1>1, <2>3, <3>2, <3>3, <3>6 DEF OnCycle
      <4>2. down' = down \cup {<<s, cycle'[s].last>>}
        BY <1>0, <2>3, <3>1, <3>6, CycleSendFacts
      <4>3. {i \in Positions(s) : <<s, i>> \in down} = {}
        BY <3>4, <4>1
      <4>4. {i \in Positions(s) : <<s, i>> \in down'} = {cycle'[s].last}
        BY <3>5, <4>2, <4>3
      <4>5. {cycle'[s].last : x \in OnCycle(s)'} = {cycle'[s].last}
        BY <4>1
      <4> QED BY <4>4, <4>5 DEF CycleFollows
    <3>7. CASE ~state
      <4>1. OnCycle(s) = {e} /\ OnCycle(s)' = {} /\ sent[e]
        BY <1>0, <1>1, <2>3, <3>2, <3>3, <3>7 DEF OnCycle
      <4>2. cycle[s].current = Unset
        BY <2>3, <4>1 DEF SharedInv, CursorUnset
      <4>3. cycle'[s].last = cycle[s].last /\ down' = down \ {<<s, cycle[s].last>>}
        BY <1>0, <2>3, <3>1, <3>7, <4>2, CycleSendFacts
      <4>4. {i \in Positions(s) : <<s, i>> \in down} = {cycle[s].last}
        BY <3>4, <4>1
      <4>5. {i \in Positions(s) : <<s, i>> \in down'} = {}
        BY <4>3, <4>4
      <4>6. {cycle'[s].last : x \in OnCycle(s)'} = {}
        BY <4>1
      <4> QED BY <4>5, <4>6 DEF CycleFollows
    <3> QED BY <3>6, <3>7
  <2> QED BY <2>1, <2>2, <2>3
<1>5. ASSUME NEW c \in RelCodes PROVE AxisFollows(c)'
  <2>1. CASE Handler[e].kind # "rel"
    <3>1. repeating' = repeating
      BY <1>0, <2>1, SendFrame
    <3>2. OnAxis(c)' = OnAxis(c)
      BY <1>1, <2>1 DEF OnAxis
    <3> QED BY <1>3, <3>1, <3>2, AxisStays
  <2>2. CASE Handler[e].kind = "rel" /\ (Handler[e].code # c \/ ~Handler[e].repeats)
    <3>1. RelSend(e, state) /\ repeating \in [RelCodes -> Nat]
      BY <1>0, <2>2, SendFrame DEF TypeInv
    <3>2. repeating'[c] = repeating[c]
      BY <2>2, <3>1 DEF RelSend
    <3>3. OnAxis(c)' = OnAxis(c)
      BY <1>1, <2>2 DEF OnAxis
    <3> QED BY <1>3, <3>2, <3>3, AxisStays
  <2>3. CASE Handler[e].kind = "rel" /\ Handler[e].code = c /\ Handler[e].repeats
    <3>1. RelSend(e, state) /\ repeating \in [RelCodes -> Nat]
      BY <1>0, <2>3, SendFrame DEF TypeInv
    <3>2. repeating'[c] = IF state THEN e ELSE None
      BY <2>3, <3>1 DEF RelSend, Repeats
    <3>3. \A x \in bound \ {e} : x \notin OnAxis(c)'
      <4>1. \A x \in bound \ {e} : Handler[x].kind = "rel" /\ Handler[x].code = c => ~sent[x]
        BY <1>2, <2>3 DEF Share
      <4> QED BY <1>1, <4>1 DEF OnAxis
    <3>4. OnAxis(c)' = IF state THEN {e} ELSE {}
      BY <1>1, <2>3, <3>3 DEF OnAxis
    <3>5. e # None
      BY <1>0 DEF Events, None
    <3> QED BY <3>2, <3>4, <3>5 DEF AxisFollows
  <2> QED BY <2>1, <2>2, <2>3
<1>6. ASSUME NEW x \in bound, Handler[x].kind = "cycle", Handler[x].press, sent'[x]
      PROVE  cycle'[Handler[x].cycle].current = Unset
  <2>1. CASE x = e
    <3>1. CycleSend(e, state)
      BY <1>0, <1>6, <2>1, SendFrame
    <3> QED BY <1>0, <1>6, <2>1, <3>1, CycleSendFacts
  <2>2. CASE x # e
    <3>1. sent[x] /\ cycle[Handler[x].cycle].current = Unset /\ Handler[x].cycle \in Cycles
      BY <1>0, <1>1, <1>6, <2>2, HandlerType DEF SharedInv, CursorUnset
    <3>2. CASE Handler[e].kind # "cycle"
      BY <1>0, <3>1, <3>2, SendFrame
    <3>3. CASE Handler[e].kind = "cycle"
      <4>1. Handler[e].cycle # Handler[x].cycle
        BY <1>2, <1>6, <2>2, <3>1, <3>3 DEF Share
      <4>2. CycleSend(e, state)
        BY <1>0, <3>3, SendFrame
      <4>3. cycle'[Handler[x].cycle] = cycle[Handler[x].cycle]
        BY <1>0, <3>1, <4>1, <4>2, CycleSendFacts
      <4> QED BY <3>1, <4>3
    <3> QED BY <3>2, <3>3
  <2> QED BY <2>1, <2>2
<1> QED BY <1>4, <1>5, <1>6

(* A step that tells no handler a new state.                                *)
LEMMA SharedStays ==
  ASSUME SharedInv, KeysInv', bound' = bound, ~overlapped' => ~overlapped,
         UNCHANGED <<sent, cycle, repeating>>,
         \A g : g[1] \in Cycles => (g \in down' <=> g \in down)
  PROVE  SharedInv'
<1>1. \A s \in Cycles : OnCycle(s)' = OnCycle(s)
  BY DEF OnCycle
<1>2. \A c \in RelCodes : OnAxis(c)' = OnAxis(c)
  BY DEF OnAxis
<1>3. \A s \in Cycles : CycleFollows(s) => CycleFollows(s)'
  <2>1. \A s \in Cycles : \A i : <<s, i>> \in down' <=> <<s, i>> \in down
    OBVIOUS
  <2> QED BY <1>1, <2>1, CycleStays DEF SharedInv, KeysInv
<1>4. \A c \in RelCodes : AxisFollows(c) => AxisFollows(c)'
  BY <1>2, AxisStays
<1>5. SharedFollowState'
  <2>1. ~overlapped' =>
          (\A s \in Cycles : CycleFollows(s)') /\ (\A c \in RelCodes : AxisFollows(c)')
    BY <1>3, <1>4, SharedFollowStateIs DEF SharedInv
  <2> QED BY <2>1 DEF SharedFollowState, CycleFollows, AxisFollows, OnCycle, OnAxis, Positions
<1>6. OneOfShared' /\ CursorUnset'
  BY DEF SharedInv, OneOfShared, CursorUnset
<1> QED BY <1>5, <1>6 DEF SharedInv

LEMMA SharedStep ==
  ASSUME SharedInv, [Next]_vars
  PROVE  SharedInv'
<1>1. KeysInv /\ TypeInv /\ KeysInv' /\ bound' = bound /\ bound \subseteq Events
  BY KeysStep, StepKinds DEF SharedInv, KeysInv, TypeInv
<1>2. CASE UNCHANGED <<event, overlapped>>
  BY <1>1, <1>2, SharedStays DEF event, handlers, outputs
<1>3. ASSUME NEW e \in bound, NEW d \in Nat, UpdatesHandler(e, d) PROVE SharedInv'
  <2>1. /\ UNCHANGED <<sent, overlapped, cycle, repeating>>
        /\ \A g : g[1] \in Cycles => (g \in down' <=> g \in down)
    BY <1>1, <1>3, UpdateFrame
  <2> QED BY <1>1, <2>1, SharedStays
<1>4. ASSUME NEW e \in bound, NEW v \in BOOLEAN, Send(e, v) PROVE SharedInv'
  <2>1. PICK state \in BOOLEAN :
          /\ sent' = [sent EXCEPT ![e] = state]
          /\ \/ state = sent[e] /\ UNCHANGED handlers
             \/ state # sent[e] /\ HandlerSend(e, state)
          /\ ~overlapped' => /\ ~overlapped
                             /\ \A f \in bound \ {e} : state /\ sent[f] => ~Share(e, f)
    BY <1>1, <1>4, SendKinds
  <2>2. e \in Events /\ sent \in [Events -> BOOLEAN]
    BY <1>1 DEF TypeInv
  <2>3. CASE state = sent[e] /\ UNCHANGED handlers
    <3>1. sent' = sent
      BY <2>1, <2>2, <2>3
    <3>2. UNCHANGED <<cycle, repeating, down>>
      BY <2>3 DEF handlers, outputs
    <3> QED BY <1>1, <2>1, <3>1, <3>2, SharedStays
  <2>4. CASE overlapped'
    BY <1>1, <2>4 DEF SharedInv, OneOfShared, CursorUnset, SharedFollowState
  <2>5. CASE state # sent[e] /\ HandlerSend(e, state) /\ ~overlapped'
    <3>1. /\ \A s \in Cycles : CycleFollows(s)'
          /\ \A c \in RelCodes : AxisFollows(c)'
          /\ \A x \in bound :
               Handler[x].kind = "cycle" /\ Handler[x].press /\ sent'[x] =>
                 cycle'[Handler[x].cycle].current = Unset
      BY <1>1, <2>1, <2>5, SharedSend
    <3>2. SharedFollowState'
      BY <3>1 DEF SharedFollowState, CycleFollows, AxisFollows, OnCycle, OnAxis, Positions
    <3>3. CursorUnset'
      BY <1>1, <3>1 DEF CursorUnset
    <3>4. OneOfShared'
      <4>1. sent'[e] = state /\ \A f \in bound \ {e} : sent'[f] = sent[f]
        BY <1>1, <2>1, <2>2
      <4>2. ASSUME NEW f \in bound, NEW g \in bound, f # g, sent'[f], sent'[g] PROVE ~Share(f, g)
        <5>1. CASE f # e /\ g # e
          BY <2>1, <2>5, <4>1, <4>2, <5>1 DEF SharedInv, OneOfShared
        <5>2. CASE f = e
          BY <2>1, <2>5, <4>1, <4>2, <5>2
        <5>3. CASE g = e
          BY <2>1, <2>5, <4>1, <4>2, <5>3, ShareSymmetric
        <5> QED BY <5>1, <5>2, <5>3
      <4> QED BY <1>1, <4>2 DEF OneOfShared
    <3> QED BY <1>1, <3>2, <3>3, <3>4 DEF SharedInv
  <2> QED BY <2>1, <2>3, <2>4, <2>5
<1> QED BY <1>2, <1>3, <1>4, StepKinds, <1>1

LEMMA InitShared == Init => SharedInv
<1> SUFFICES ASSUME Init PROVE SharedInv
  OBVIOUS
<1>1. bound \subseteq Events
  BY NumEventsAssumption DEF Init
<1>2. OneOfShared /\ CursorUnset
  BY <1>1 DEF Init, OneOfShared, CursorUnset
<1>3. SharedFollowState
  <2>1. \A e \in bound : ~sent[e]
    BY <1>1 DEF Init
  <2>2. \A s \in Cycles : OnCycle(s) = {}
    BY <2>1 DEF OnCycle
  <2>3. \A c \in RelCodes : OnAxis(c) = {} /\ repeating[c] = None
    BY <2>1 DEF OnAxis, Init
  <2>4. \A s \in Cycles : CycleFollows(s)
    BY <2>2 DEF CycleFollows, Init
  <2>5. \A c \in RelCodes : AxisFollows(c)
    BY <2>3 DEF AxisFollows
  <2> QED BY <2>4, <2>5, SharedFollowStateIs
<1> QED BY <1>2, <1>3, InitKeys DEF SharedInv

(* As long as no two buttons that share a sequence or an axis are on        *)
(* together, exactly the one that is on holds a key of the sequence, the    *)
(* one sent last, and exactly it is repeated: a release never finds the     *)
(* cursor moved away from the key its press went to.                        *)
THEOREM SharedFollow == Spec => []SharedFollowState
<1>1. Init => SharedInv
  BY InitShared
<1>2. SharedInv /\ [Next]_vars => SharedInv'
  BY SharedStep
<1>3. SharedInv => SharedFollowState
  BY DEF SharedInv
<1> QED BY <1>1, <1>2, <1>3, PTL DEF Spec

-----------------------------------------------------------------------------
(* Letting go. The click filters of a button that is up have seen it go up; *)
(* of an event with one such filter nothing comes out any more, once an     *)
(* update has sent its state again.                                         *)
FilterShape ==
  /\ filters = [e \in Events |-> filters[e]]
  /\ \A e \in Events : \A i \in 1..Len(Filters[e]) :
       DOMAIN filters[e][i] = {"value", "on", "time"}

Unclicked ==
  \A e \in Events : Momentary(e) /\ ~raw[e] =>
    \A i \in 1..Len(Filters[e]) : Filters[e][i].kind \in Clicks => filters[e][i].value = FALSE

OnlyBoundOn == \A e \in Events : sent[e] => e \in bound

ReleasesSpent ==
  \A i \in DOMAIN calls : calls[i].op = "release" => calls[i].event \in spent

Settled == \A e \in bound : Momentary(e) /\ Quiet(e) => ~sent[e]

SettledInv == FilterShape /\ Unclicked /\ OnlyBoundOn /\ ReleasesSpent /\ Settled

(* The groups that are down are those of bound handlers, and what is pressed *)
(* is pressed by one of them or by a macro that is still to release it.      *)
KnownGroup(g) ==
  \/ \E e \in Events : Handler[e].kind = "key" /\ g \in {<<"codes", e>>, <<"secondary", e>>}
  \/ \E s \in Cycles : \E i \in Positions(s) : g = <<s, i>>

GroupsKnown == \A g \in down : KnownGroup(g)

MacroShape ==
  /\ macro \in [Events -> [running : BOOLEAN, next : Nat \ {0}, countdown : Int]]
  /\ \A e \in Events : Handler[e].kind = "macro" => macro[e].next <= Len(Handler[e].events)

Sends(e, i, k) == Handler[e].events[i].op = "send" /\ Handler[e].events[i].key = k

(* The events of a macro before the nth leave a key pressed.                *)
LeavesDown(e, k, n) ==
  \E i \in 1..(n - 1) : /\ Sends(e, i, k) /\ Handler[e].events[i].value = 1
                        /\ \A j \in (i + 1)..(n - 1) : ~Sends(e, j, k)

PressedByGroup(k) == \E g \in down : k \in KeysOf[g]
PressedByMacro(k) ==
  \E e \in bound : /\ Handler[e].kind = "macro" /\ macro[e].running /\ k \in Keys
                   /\ LeavesDown(e, k, macro[e].next)

PressedBySome == \A k \in pressed : PressedByGroup(k) \/ PressedByMacro(k)

HeldInv == GroupsKnown /\ MacroShape /\ PressedBySome

LetGoInv == SharedInv /\ SettledInv /\ HeldInv

(* A hypothesis on the configuration: a macro releases what it presses.     *)
MacrosRelease ==
  \A e \in Events : Handler[e].kind = "macro" =>
    \A k \in Keys : ~LeavesDown(e, k, Len(Handler[e].events) + 1)

LEMMA MomentaryKinds ==
  ASSUME NEW e \in Events, Momentary(e)
  PROVE  /\ \A i \in 1..Len(Filters[e]) : Filters[e][i].kind \in {"autofire", "delay"} \cup Clicks
         /\ \A i, j \in 1..Len(Filters[e]) :
              Filters[e][i].kind \in Clicks /\ Filters[e][j].kind \in Clicks => i = j
         /\ DOMAIN Filters[e] = 1..Len(Filters[e])
<1> DEFINE n == Len(Filters[e])
           C == {i \in DOMAIN Filters[e] : Filters[e][i].kind \in Clicks}
<1>1. n \in Nat /\ DOMAIN Filters[e] = 1..n
  <2> DEFINE K == [kind : FilterKinds, rate : 0..(MaxTime - 1), delay : 0..(MaxTime - 1)]
  <2>1. Filters[e] \in Seq(K)
    BY FiltersAssumption
  <2> HIDE DEF K
  <2> QED BY <2>1
<1>2. \A i \in 1..n : Filters[e][i].kind \in {"autofire", "delay"} \cup Clicks
  BY <1>1 DEF Momentary, Kinds
<1>3. IsFiniteSet(C) /\ Cardinality(C) <= 1 /\ C \subseteq 1..n
  <2>1. Cardinality(C) <= 1 /\ C \subseteq 1..n
    BY <1>1 DEF Momentary
  <2> HIDE DEF C, n
  <2>2. IsFiniteSet(1..n)
    BY <1>1, FS_Interval
  <2> QED BY <2>1, <2>2, FS_Subset
<1>4. ASSUME NEW i \in C, NEW j \in C, i # j PROVE FALSE
  <2> DEFINE T == {i} \cup {j}
  <2> HIDE DEF C
  <2>1. IsFiniteSet({i}) /\ Cardinality({i}) = 1 /\ j \notin {i}
    BY <1>4, FS_Singleton
  <2>2. Cardinality(T) = IF j \in {i} THEN Cardinality({i}) ELSE Cardinality({i}) + 1
    BY <2>1, FS_AddElement
  <2>3. Cardinality(T) = 2
    BY <2>1, <2>2
  <2>4. T \in SUBSET C
    OBVIOUS
  <2> HIDE DEF T
  <2>5. Cardinality(T) <= Cardinality(C) /\ Cardinality(C) \in Nat
    BY <1>3, <2>4, FS_Subset, FS_CardinalityType
  <2> QED BY <1>3, <2>3, <2>5
<1> QED BY <1>1, <1>2, <1>4

(* A button that is up: nothing comes out of the filters before a click     *)
(* filter, and nothing at all if that has seen it up before.                *)
LEMMA UpPassesNothing ==
  ASSUME NEW e \in Events, Momentary(e), NEW S, NEW m \in 0..Len(Filters[e]),
         \A i \in 1..m : Filters[e][i].kind \in Clicks => S[i].value = FALSE
  PROVE  \A i \in 0..m : Filtered(Filters[e], S, FALSE)[i] = FALSE
<1> DEFINE out == Filtered(Filters[e], S, FALSE)
           G == {i \in 0..m : out[i] = FALSE}
<1>1. Len(Filters[e]) \in Nat /\ m \in Nat
  BY FiltersType
<1>2. \A i \in 0..Len(Filters[e]) :
        out[i] = IF i = 0 THEN FALSE ELSE Filter(Filters[e][i], S[i], out[i - 1]).value
  BY FilteredUnfolds
<1>a. out[0] = FALSE
  <2>1. 0 \in 0..Len(Filters[e])
    BY <1>1
  <2> HIDE DEF out
  <2> QED BY <1>2, <2>1, Zenon
<1>3. \A i \in 1..m : Filters[e][i].kind \in {"autofire", "delay"} \cup Clicks
  BY <1>1, MomentaryKinds
<1> HIDE DEF out
<1>4. 0 \in G
  BY <1>1, <1>a
<1>5. ASSUME NEW i \in 1..m, i - 1 \in G PROVE i \in G
  <2>1. i \in 0..Len(Filters[e]) /\ i # 0 /\ i \in 0..m /\ out[i - 1] = FALSE
    BY <1>1, <1>5
  <2>2. out[i] = Filter(Filters[e][i], S[i], FALSE).value
    BY <1>2, <2>1
  <2>3. CASE Filters[e][i].kind = "autofire"
    BY <2>1, <2>2, <2>3 DEF Filter, AutofireFilter, Clicks
  <2>4. CASE Filters[e][i].kind = "delay"
    BY <2>1, <2>2, <2>4 DEF Filter, DelayFilter, Clicks
  <2>5. CASE Filters[e][i].kind \in Clicks
    <3>1. S[i].value = FALSE
      BY <2>5
    <3> QED BY <2>1, <2>2, <2>5, <3>1 DEF Filter, ClickFilter, Clicks
  <2> QED BY <1>3, <2>3, <2>4, <2>5
<1>6. 0..m \subseteq G
  <2> HIDE DEF G
  <2> QED BY <1>1, <1>4, <1>5, UpTo
<1> QED BY <1>6 DEF out

(* What a filter remembers. *)
LEMMA FilterKeeps ==
  ASSUME NEW f, f.kind \in FilterKinds, NEW s, DOMAIN s = {"value", "on", "time"}, NEW v
  PROVE  /\ DOMAIN Filter(f, s, v).state = {"value", "on", "time"}
         /\ f.kind \in Clicks => Filter(f, s, v).state.value = v
<1>1. CASE f.kind = "autofire"
  BY <1>1 DEF Filter, AutofireFilter, Clicks
<1>2. CASE f.kind \in Clicks
  BY <1>2 DEF Filter, ClickFilter, Clicks
<1>3. CASE f.kind = "delay"
  BY <1>3 DEF Filter, DelayFilter, Clicks
<1>4. CASE f.kind = "toggle"
  BY <1>4 DEF Filter, ToggleFilter, Clicks
<1>5. CASE f.kind = "invert"
  BY <1>5 DEF Filter, Clicks
<1> QED BY <1>1, <1>2, <1>3, <1>4, <1>5 DEF FilterKinds

LEMMA PassedKeeps ==
  ASSUME NEW f, NEW s, DOMAIN s = {"value", "on", "time"}, NEW d
  PROVE  DOMAIN Passed(f, s, d) = {"value", "on", "time"} /\ Passed(f, s, d).value = s.value
<1> DEFINE t == Min({s.time + d, MaxTime})
           o == s.on \/ s.time + d > f.delay
<1>1. CASE f.kind = "autofire" /\ s.value
  <2>1. Passed(f, s, d) = [s EXCEPT !.time = t, !.on = o]
    BY <1>1 DEF Passed
  <2> HIDE DEF t, o
  <2> QED BY <2>1
<1>2. CASE f.kind = "delay"
  <2>1. Passed(f, s, d) = [s EXCEPT !.time = t]
    BY <1>2 DEF Passed
  <2> HIDE DEF t
  <2> QED BY <2>1
<1>3. CASE f.kind # "delay" /\ ~(f.kind = "autofire" /\ s.value)
  BY <1>3 DEF Passed
<1> QED BY <1>1, <1>2, <1>3

(* The filters after a button went up or down, and what comes out of them   *)
(* when it goes up that was up.                                             *)
LEMMA SendSettles ==
  ASSUME TypeInv, FilterShape, Unclicked, NEW e \in bound, NEW v \in BOOLEAN, Send(e, v)
  PROVE  /\ FilterShape' /\ Unclicked'
         /\ raw'[e] = v /\ \A f \in Events \ {e} : raw'[f] = raw[f] /\ sent'[f] = sent[f]
         /\ Momentary(e) /\ ~v /\ ~raw[e] => ~sent'[e]
<1> DEFINE F == Filters[e]
           n == Len(F)
           S == filters[e]
           out == Filtered(F, S, v)
           after == [i \in DOMAIN F |-> Filter(F[i], S[i], out[i - 1]).state]
<1>1. /\ e \in Events /\ raw \in [Events -> BOOLEAN] /\ sent \in [Events -> BOOLEAN]
      /\ n \in Nat /\ DOMAIN F = 1..n /\ \A i \in 1..n : F[i].kind \in FilterKinds
  <2>1. e \in Events /\ raw \in [Events -> BOOLEAN] /\ sent \in [Events -> BOOLEAN]
    BY DEF TypeInv
  <2> DEFINE K == [kind : FilterKinds, rate : 0..(MaxTime - 1), delay : 0..(MaxTime - 1)]
  <2>2. F \in Seq(K)
    BY <2>1, FiltersAssumption
  <2>3. DOMAIN F = 1..n
    <3> HIDE DEF K
    <3> QED BY <2>2
  <2> QED BY <2>1, <2>3, FiltersType
<1>2. /\ raw' = [raw EXCEPT ![e] = v] /\ sent' = [sent EXCEPT ![e] = out[n]]
      /\ filters' = [filters EXCEPT ![e] = after]
  BY DEF Send, FiltersAfter
<1>3. \A i \in 1..n : DOMAIN S[i] = {"value", "on", "time"}
  BY <1>1 DEF FilterShape
<1>4. \A i \in 1..n : /\ DOMAIN after[i] = {"value", "on", "time"}
                      /\ F[i].kind \in Clicks => after[i].value = out[i - 1]
  <2> SUFFICES ASSUME NEW i \in 1..n
               PROVE  /\ DOMAIN after[i] = {"value", "on", "time"}
                      /\ F[i].kind \in Clicks => after[i].value = out[i - 1]
    OBVIOUS
  <2> HIDE DEF out, n, S
  <2>1. after[i] = Filter(F[i], S[i], out[i - 1]).state
    BY <1>1
  <2>2. F[i].kind \in FilterKinds /\ DOMAIN S[i] = {"value", "on", "time"}
    BY <1>1, <1>3
  <2> DEFINE f == F[i]
             s == S[i]
             x == out[i - 1]
             t == after[i]
  <2>3. t = Filter(f, s, x).state /\ f.kind \in FilterKinds /\ DOMAIN s = {"value", "on", "time"}
    BY <2>1, <2>2
  <2> HIDE DEF f, s, x, t
  <2>4. /\ DOMAIN t = {"value", "on", "time"}
        /\ f.kind \in Clicks => t.value = x
    BY <2>3, FilterKeeps
  <2> QED BY <2>4 DEF f, s, x, t
<1>5. ASSUME Momentary(e), ~v PROVE \A i \in 1..n : F[i].kind \in Clicks => out[i - 1] = FALSE
  <2> SUFFICES ASSUME NEW i \in 1..n, F[i].kind \in Clicks PROVE out[i - 1] = FALSE
    OBVIOUS
  <2>1. i - 1 \in 0..n /\ \A j \in 1..(i - 1) : j \in 1..n /\ j # i
    BY <1>1
  <2>2. \A j \in 1..(i - 1) : F[j].kind \notin Clicks
    BY <1>1, <1>5, <2>1, MomentaryKinds
  <2>3. \A j \in 0..(i - 1) : Filtered(F, S, FALSE)[j] = FALSE
    <3> HIDE DEF S
    <3> QED BY <1>1, <1>5, <2>1, <2>2, UpPassesNothing
  <2>4. i - 1 \in 0..(i - 1) /\ v = FALSE
    BY <1>1, <1>5
  <2> QED BY <2>3, <2>4
<1>6. ASSUME Momentary(e), ~v, ~raw[e] PROVE out[n] = FALSE
  <2>1. \A i \in 1..n : F[i].kind \in Clicks => S[i].value = FALSE
    BY <1>1, <1>6 DEF Unclicked
  <2>2. \A j \in 0..n : Filtered(F, S, FALSE)[j] = FALSE
    <3>1. n \in 0..Len(Filters[e])
      BY <1>1
    <3> HIDE DEF S
    <3> QED BY <1>1, <1>6, <2>1, <3>1, UpPassesNothing
  <2>3. n \in 0..n /\ v = FALSE
    BY <1>1, <1>6
  <2> QED BY <2>2, <2>3
<1> HIDE DEF out, after
<1>7. /\ filters' = [f \in Events |-> filters'[f]] /\ filters'[e] = after
      /\ \A f \in Events \ {e} : filters'[f] = filters[f]
  <2>1. filters = [f \in Events |-> filters[f]]
    BY DEF FilterShape
  <2> QED BY <1>1, <1>2, <2>1
<1>8. /\ raw'[e] = v /\ sent'[e] = out[n]
      /\ \A f \in Events \ {e} : raw'[f] = raw[f] /\ sent'[f] = sent[f]
  BY <1>1, <1>2
<1>9. FilterShape'
  BY <1>4, <1>7 DEF FilterShape
<1>10. Unclicked'
  <2> SUFFICES ASSUME NEW f \in Events, Momentary(f), ~raw'[f], NEW i \in 1..Len(Filters[f]),
                      Filters[f][i].kind \in Clicks
               PROVE  filters'[f][i].value = FALSE
    BY DEF Unclicked, Momentary, Kinds
  <2>1. CASE f = e
    BY <1>4, <1>5, <1>7, <1>8, <2>1
  <2>2. CASE f # e
    BY <1>7, <1>8, <2>2 DEF Unclicked
  <2> QED BY <2>1, <2>2
<1> QED BY <1>6, <1>8, <1>9, <1>10

LEMMA UpdateSettles ==
  ASSUME TypeInv, FilterShape, Unclicked, NEW e \in bound, NEW d, UpdateEvent(e, d)
  PROVE  FilterShape' /\ Unclicked' /\ UNCHANGED <<raw, sent>>
<1> DEFINE F == Filters[e]
           n == Len(F)
           S == filters[e]
           after == [i \in DOMAIN F |-> Passed(F[i], S[i], d)]
<1>1. /\ e \in Events /\ n \in Nat /\ DOMAIN F = 1..n
      /\ filters = [f \in Events |-> filters[f]]
      /\ \A i \in 1..n : DOMAIN S[i] = {"value", "on", "time"}
  <2>1. e \in Events
    BY DEF TypeInv
  <2> DEFINE K == [kind : FilterKinds, rate : 0..(MaxTime - 1), delay : 0..(MaxTime - 1)]
  <2>2. F \in Seq(K)
    BY <2>1, FiltersAssumption
  <2>3. DOMAIN F = 1..n /\ n \in Nat
    <3> HIDE DEF K
    <3> QED BY <2>2
  <2> QED BY <2>1, <2>3 DEF FilterShape
<1>2. filters' = [filters EXCEPT ![e] = after] /\ UNCHANGED <<raw, sent>>
  BY DEF UpdateEvent, UpdatedFilters
<1>3. \A i \in 1..n : DOMAIN after[i] = {"value", "on", "time"} /\ after[i].value = S[i].value
  <2> SUFFICES ASSUME NEW i \in 1..n
               PROVE  DOMAIN after[i] = {"value", "on", "time"} /\ after[i].value = S[i].value
    OBVIOUS
  <2>1. after[i] = Passed(F[i], S[i], d)
    BY <1>1
  <2> DEFINE f == F[i]
             s == S[i]
             t == after[i]
  <2>2. t = Passed(f, s, d) /\ DOMAIN s = {"value", "on", "time"}
    BY <1>1, <2>1
  <2> HIDE DEF f, s, t
  <2>3. DOMAIN t = {"value", "on", "time"} /\ t.value = s.value
    BY <2>2, PassedKeeps
  <2> QED BY <2>3 DEF s, t
<1> HIDE DEF after
<1>4. /\ filters' = [f \in Events |-> filters'[f]] /\ filters'[e] = after
      /\ \A f \in Events \ {e} : filters'[f] = filters[f]
  BY <1>1, <1>2
<1>5. FilterShape'
  <2>1. ASSUME NEW f \in Events, NEW i \in 1..Len(Filters[f])
        PROVE  DOMAIN filters'[f][i] = {"value", "on", "time"}
    <3>1. CASE f = e
      BY <1>3, <1>4, <3>1
    <3>2. CASE f # e
      BY <1>4, <3>2 DEF FilterShape
    <3> QED BY <3>1, <3>2
  <2> QED BY <1>4, <2>1 DEF FilterShape
<1>6. Unclicked'
  <2> SUFFICES ASSUME NEW f \in Events, Momentary(f), ~raw[f], NEW i \in 1..Len(Filters[f]),
                      Filters[f][i].kind \in Clicks
               PROVE  filters'[f][i].value = FALSE
    BY <1>2 DEF Unclicked, Momentary, Kinds
  <2>1. filters[f][i].value = FALSE
    BY DEF Unclicked
  <2> QED BY <1>3, <1>4, <2>1
<1> QED BY <1>2, <1>5, <1>6

LEMMA TailElements ==
  ASSUME NEW C, NEW q \in Seq(C), q # <<>>
  PROVE  /\ Head(q) \in C /\ Tail(q) \in Seq(C)
         /\ \A i \in DOMAIN q : q[i] = Head(q) \/ \E j \in DOMAIN Tail(q) : Tail(q)[j] = q[i]
         /\ \A j \in DOMAIN Tail(q) : \E i \in DOMAIN q : Tail(q)[j] = q[i]
<1>1. /\ Head(q) \in C /\ Tail(q) \in Seq(C) /\ Len(Tail(q)) = Len(q) - 1
      /\ \A i \in 1..Len(Tail(q)) : Tail(q)[i] = q[i + 1]
  BY HeadTailProperties
<1>2. /\ Head(q) = q[1] /\ DOMAIN q = 1..Len(q) /\ DOMAIN Tail(q) = 1..(Len(q) - 1)
      /\ Len(q) \in Nat
  BY <1>1
<1>3. ASSUME NEW i \in DOMAIN q, i # 1 PROVE \E j \in DOMAIN Tail(q) : Tail(q)[j] = q[i]
  <2>1. i - 1 \in DOMAIN Tail(q) /\ (i - 1) + 1 = i
    BY <1>2, <1>3
  <2>2. Tail(q)[i - 1] = q[i]
    BY <1>1, <1>2, <2>1
  <2> QED BY <2>1, <2>2
<1>4. \A j \in DOMAIN Tail(q) : j + 1 \in DOMAIN q /\ Tail(q)[j] = q[j + 1]
  BY <1>1, <1>2
<1> QED BY <1>1, <1>2, <1>3, <1>4

Prepends(x, q, s) == s = <<x>> \o q

LEMMA ConsElements ==
  ASSUME NEW C, NEW q \in Seq(C), NEW x \in C, NEW s, Prepends(x, q, s)
  PROVE  /\ \A i \in DOMAIN s : s[i] = x \/ \E j \in DOMAIN q : s[i] = q[j]
         /\ \A j \in DOMAIN q : \E i \in DOMAIN s : s[i] = q[j]
         /\ \E i \in DOMAIN s : s[i] = x
<1>1. <<x>> \in Seq(C) /\ Len(<<x>>) = 1
  OBVIOUS
<1>2. /\ s \in Seq(C) /\ Len(s) = 1 + Len(q)
      /\ \A i \in 1..(1 + Len(q)) : s[i] = IF i <= 1 THEN x ELSE q[i - 1]
  BY <1>1, ConcatProperties DEF Prepends
<1>3. DOMAIN s = 1..(1 + Len(q)) /\ DOMAIN q = 1..Len(q) /\ Len(q) \in Nat
  BY <1>2
<1>4. \A i \in DOMAIN s : i = 1 \/ i - 1 \in DOMAIN q
  BY <1>3
<1>5. \A j \in DOMAIN q : j + 1 \in DOMAIN s /\ s[j + 1] = q[j]
  BY <1>2, <1>3
<1>6. 1 \in DOMAIN s /\ s[1] = x
  BY <1>2, <1>3
<1>7. \A i \in DOMAIN s : i # 1 => s[i] = q[i - 1]
  BY <1>2, <1>3
<1> QED BY <1>4, <1>5, <1>6, <1>7

Waiting(e) == \E i \in DOMAIN calls : calls[i].event = e

(* A step that brings no event to rest that was not.                        *)
LEMMA SettledStays ==
  ASSUME SettledInv, bound' = bound, UNCHANGED event,
         \A i \in DOMAIN calls' : calls'[i].op = "release" => calls'[i].event \in spent',
         \A e \in bound : Quiet(e)' => Quiet(e)
  PROVE  SettledInv'
<1>1. UNCHANGED <<filters, raw, sent>>
  BY DEF event
<1>2. FilterShape' /\ Unclicked' /\ OnlyBoundOn'
  BY <1>1 DEF SettledInv, FilterShape, Unclicked, OnlyBoundOn, Momentary, Kinds
<1>3. ReleasesSpent'
  BY DEF ReleasesSpent
<1>4. Settled'
  BY <1>1 DEF SettledInv, Settled, Momentary, Kinds
<1> QED BY <1>2, <1>3, <1>4 DEF SettledInv

(* A button that goes up or down, or whose state is sent once more.         *)
LEMMA SettledSent ==
  ASSUME KeysInv, SettledInv, NEW e \in bound, NEW v \in BOOLEAN, Send(e, v), bound' = bound,
         \A i \in DOMAIN calls' : calls'[i].op = "release" => calls'[i].event \in spent',
         \A f \in bound \ {e} : Quiet(f)' /\ raw'[f] = raw[f] => Quiet(f),
         Quiet(e)' => ~v /\ ~raw[e]
  PROVE  SettledInv'
<1>1. TypeInv /\ FilterShape /\ Unclicked /\ e \in Events /\ bound \subseteq Events
  BY DEF KeysInv, SettledInv, TypeInv
<1>2. /\ FilterShape' /\ Unclicked'
      /\ raw'[e] = v /\ \A f \in Events \ {e} : raw'[f] = raw[f] /\ sent'[f] = sent[f]
      /\ Momentary(e) /\ ~v /\ ~raw[e] => ~sent'[e]
  BY <1>1, SendSettles
<1>3. OnlyBoundOn'
  BY <1>2 DEF SettledInv, OnlyBoundOn
<1>4. ReleasesSpent'
  BY DEF ReleasesSpent
<1>5. Settled'
  <2> SUFFICES ASSUME NEW f \in bound, Momentary(f), Quiet(f)' PROVE ~sent'[f]
    BY DEF Settled, Momentary, Kinds
  <2>1. CASE f = e
    BY <1>2, <2>1
  <2>2. CASE f # e
    BY <1>1, <1>2, <2>2 DEF SettledInv, Settled
  <2> QED BY <2>1, <2>2
<1> QED BY <1>2, <1>3, <1>4, <1>5 DEF SettledInv

LEMMA SettledStep ==
  ASSUME KeysInv, SettledInv, [Next]_vars
  PROVE  SettledInv'
<1>0. /\ TypeInv /\ bound' = bound /\ bound \subseteq Events /\ raw \in [Events -> BOOLEAN]
      /\ calls \in Seq(CallsOf(bound))
  BY StepKinds DEF KeysInv, TypeInv
<1>a. \A i \in DOMAIN calls : calls[i].op = "release" => calls[i].event \in spent
  BY DEF SettledInv, ReleasesSpent
<1>1. CASE UNCHANGED vars \/ Return
  BY <1>0, <1>1, <1>a, SettledStays DEF vars, Return, Quiet, event
<1>2. ASSUME NEW d \in Deltas, Update(d) PROVE SettledInv'
  <2>1. calls' = CallsFor("update", d, bound) /\ UNCHANGED event
    BY <1>2 DEF Update
  <2>2. calls' \in Seq([op : {"update"}, event : bound, delta : {d}])
    BY <2>1, CallsForType
  <2>3. \A i \in DOMAIN calls' : calls'[i].op = "update"
    <3> DEFINE C == [op : {"update"}, event : bound, delta : {d}]
    <3>1. \A c \in C : c.op = "update"
      OBVIOUS
    <3>2. calls' \in Seq(C)
      BY <2>2
    <3> HIDE DEF C
    <3>3. \A i \in DOMAIN calls' : calls'[i] \in C
      BY <3>2
    <3> QED BY <3>1, <3>3
  <2>4. \A e \in bound : \E i \in DOMAIN calls' : calls'[i].event = e
    BY <1>0, <2>1, CallsForAll
  <2>5. \A e \in bound : ~Quiet(e)'
    BY <2>4 DEF Quiet
  <2> QED BY <1>0, <2>1, <2>3, <2>5, SettledStays
<1>3. ASSUME NEW e \in Events, ButtonDown(e) PROVE SettledInv'
  <2>1. e \in bound /\ Send(e, TRUE) /\ UNCHANGED <<calls, spent>>
    BY <1>3 DEF ButtonDown
  <2>2. raw'[e] = TRUE
    BY <1>0, <2>1, SendSettles DEF SettledInv
  <2>3. ~Quiet(e)'
    BY <2>2 DEF Quiet
  <2>4. \A f \in bound \ {e} : Quiet(f)' /\ raw'[f] = raw[f] => Quiet(f)
    BY <2>1 DEF Quiet
  <2> QED BY <1>0, <1>a, <2>1, <2>3, <2>4, SettledSent
<1>4. ASSUME NEW e \in Events, ButtonUp(e) PROVE SettledInv'
  <2>1. e \in bound /\ Send(e, FALSE) /\ calls' = calls /\ spent' = spent \cup {e}
    BY <1>4 DEF ButtonUp
  <2>2. ~Quiet(e)'
    BY <2>1 DEF Quiet
  <2>3. \A f \in bound \ {e} : Quiet(f)' /\ raw'[f] = raw[f] => Quiet(f)
    BY <2>1 DEF Quiet
  <2> QED BY <1>0, <1>a, <2>1, <2>2, <2>3, SettledSent
<1>5. CASE Leave
  <2> DEFINE E == {e \in bound : Reset(e)}
  <2>1. calls' = CallsFor("release", 0, E) /\ spent' = bound /\ UNCHANGED event
    BY <1>5 DEF Leave
  <2>2. \A i \in DOMAIN calls' : calls'[i].event \in spent'
    <3> DEFINE C == [op : {"release"}, event : E, delta : {0}]
    <3>1. \A c \in C : c.event \in bound
      OBVIOUS
    <3>2. calls' \in Seq(C)
      BY <2>1, CallsForType
    <3> HIDE DEF C
    <3>3. \A i \in DOMAIN calls' : calls'[i] \in C
      BY <3>2
    <3> QED BY <2>1, <3>1, <3>3
  <2>3. \A e \in bound : ~Quiet(e)'
    BY <2>1 DEF Quiet
  <2> QED BY <1>0, <2>1, <2>2, <2>3, SettledStays
<1>6. CASE Perform
  <2> DEFINE call == Head(calls)
             L == CallsOf(bound)
  <2>1. /\ calls # <<>> /\ call \in L /\ Tail(calls) \in Seq(L)
        /\ \A i \in DOMAIN calls :
             calls[i] = call \/ \E j \in DOMAIN Tail(calls) : Tail(calls)[j] = calls[i]
        /\ \A j \in DOMAIN Tail(calls) : \E i \in DOMAIN calls : Tail(calls)[j] = calls[i]
    <3>1. calls # <<>>
      BY <1>6 DEF Perform, Idle
    <3> HIDE DEF L
    <3>2. calls \in Seq(L)
      BY <1>0 DEF L
    <3> QED BY <3>1, <3>2, TailElements
  <2>2. call.event \in bound /\ call.op \in {"update", "resend", "release"}
    BY <2>1 DEF CallsOf
  <2>3. call.op = "release" => call.event \in spent
    <3>1. \E i \in DOMAIN calls : calls[i] = call
      BY <1>0, <2>1
    <3> QED BY <1>a, <3>1
  <2>4. CASE call.op = "update" /\ UpdateEvent(call.event, call.delta)
    <3> DEFINE x == [op |-> "resend", event |-> call.event, delta |-> 0]
    <3>1. calls' = <<x>> \o Tail(calls) /\ spent' = spent
      BY <2>4 DEF UpdateEvent
    <3>2. x \in L /\ x.op # "release" /\ x.event = call.event
      BY <2>2 DEF CallsOf
    <3>3. /\ \A i \in DOMAIN calls' :
               calls'[i] = x \/ \E j \in DOMAIN Tail(calls) : calls'[i] = Tail(calls)[j]
          /\ \A j \in DOMAIN Tail(calls) : \E i \in DOMAIN calls' : calls'[i] = Tail(calls)[j]
          /\ \E i \in DOMAIN calls' : calls'[i] = x
      <4> DEFINE q == Tail(calls)
      <4>1. x \in L /\ q \in Seq(L) /\ calls' = <<x>> \o q
        BY <2>1, <3>1, <3>2
      <4> HIDE DEF L, x, q
      <4>2. /\ \A i \in DOMAIN calls' : calls'[i] = x \/ \E j \in DOMAIN q : calls'[i] = q[j]
            /\ \A j \in DOMAIN q : \E i \in DOMAIN calls' : calls'[i] = q[j]
            /\ \E i \in DOMAIN calls' : calls'[i] = x
        <5>1. \E M, r, y, s : M = L /\ r = q /\ y = x /\ s = calls'
          OBVIOUS
        <5>2. PICK M, r, y, s : M = L /\ r = q /\ y = x /\ s = calls'
          BY <5>1
        <5>3. y \in M /\ r \in Seq(M) /\ Prepends(y, r, s)
          BY <4>1, <5>2 DEF Prepends
        <5>4. /\ \A i \in DOMAIN s : s[i] = y \/ \E j \in DOMAIN r : s[i] = r[j]
              /\ \A j \in DOMAIN r : \E i \in DOMAIN s : s[i] = r[j]
              /\ \E i \in DOMAIN s : s[i] = y
          BY <5>3, ConsElements
        <5> QED BY <5>2, <5>4
      <4> QED BY <4>2 DEF q
    <3>4. FilterShape' /\ Unclicked' /\ UNCHANGED <<raw, sent>>
      BY <1>0, <2>2, <2>4, UpdateSettles DEF SettledInv
    <3> HIDE DEF x
    <3>5. ReleasesSpent'
      BY <1>a, <2>1, <3>1, <3>2, <3>3 DEF ReleasesSpent
    <3>6. Settled'
      <4> SUFFICES ASSUME NEW f \in bound, Momentary(f), Quiet(f)' PROVE ~sent'[f]
        BY <1>0 DEF Settled, Momentary, Kinds
      <4>1. f # call.event
        BY <3>2, <3>3 DEF Quiet
      <4>2. ~raw[f] /\ f \notin spent /\ \A i \in DOMAIN calls' : calls'[i].event # f
        BY <3>1, <3>4 DEF Quiet
      <4>3. \A j \in DOMAIN Tail(calls) : Tail(calls)[j].event # f
        BY <3>3, <4>2
      <4>4. \A i \in DOMAIN calls : calls[i].event # f
        BY <2>1, <4>1, <4>3
      <4>5. Quiet(f)
        BY <4>2, <4>4 DEF Quiet
      <4> QED BY <3>4, <4>5 DEF SettledInv, Settled
    <3> QED BY <1>0, <3>4, <3>5, <3>6 DEF SettledInv, OnlyBoundOn
  <2>5. CASE /\ call.op \in {"resend", "release"}
             /\ Send(call.event, call.op = "resend" /\ raw[call.event])
             /\ calls' = Tail(calls) /\ spent' = spent
    <3>0. PICK e \in bound, v \in BOOLEAN :
            e = call.event /\ (v <=> call.op = "resend" /\ raw[call.event])
      BY <2>2
    <3>1. Send(e, v)
      BY <2>5, <3>0
    <3>2. \A i \in DOMAIN calls' : calls'[i].op = "release" => calls'[i].event \in spent'
      BY <1>a, <2>1, <2>5
    <3>3. \A f \in bound \ {e} : Quiet(f)' /\ raw'[f] = raw[f] => Quiet(f)
      BY <2>1, <2>5, <3>0 DEF Quiet
    <3>4. raw'[e] = v
      BY <1>0, <3>1, SendSettles DEF SettledInv
    <3>5. ASSUME Quiet(e)' PROVE ~v /\ ~raw[e]
      <4>1. ~raw'[e] /\ e \notin spent'
        BY <3>5 DEF Quiet
      <4>2. call.op = "resend"
        BY <2>3, <2>5, <3>0, <4>1
      <4> QED BY <3>0, <3>4, <4>1, <4>2
    <3> QED BY <1>0, <3>1, <3>2, <3>3, <3>5, SettledSent
  <2> QED BY <1>6, <2>4, <2>5 DEF Perform
<1> QED BY <1>1, <1>2, <1>3, <1>4, <1>5, <1>6 DEF Next

(* Groups pressed, lifted and clicked leave every other key with its holder. *)
LEMMA OutputKeeps ==
  ASSUME GroupsKnown, PressedBySome, bound' = bound, macro' = macro,
         NEW g, KnownGroup(g), Press(g) \/ Lift(g) \/ Click(g)
  PROVE  GroupsKnown' /\ PressedBySome'
<1>1. GroupsKnown'
  BY DEF GroupsKnown, Press, Lift, Click
<1>2. ASSUME NEW k \in pressed' PROVE PressedByGroup(k)' \/ PressedByMacro(k)'
  <2>1. PressedByMacro(k) => PressedByMacro(k)'
    BY DEF PressedByMacro
  <2>2. k \in pressed => PressedByGroup(k) \/ PressedByMacro(k)
    BY DEF PressedBySome
  <2>3. CASE Press(g)
    <3>1. k \in pressed \/ k \in KeysOf[g]
      BY <2>3 DEF Press
    <3>2. g \in down' /\ \A h \in down : h \in down'
      BY <2>3 DEF Press
    <3> QED BY <2>1, <2>2, <3>1, <3>2 DEF PressedByGroup
  <2>4. CASE Lift(g)
    <3>1. k \in pressed /\ ~(k \in KeysOf[g] /\ Holders(k) = {g})
      BY <2>4 DEF Lift
    <3>2. ASSUME NEW h \in down, k \in KeysOf[h] PROVE PressedByGroup(k)'
      <4>1. CASE h # g
        BY <2>4, <3>2, <4>1 DEF PressedByGroup, Lift
      <4>2. CASE h = g
        <5>1. k \in KeysOf[g] /\ Holders(k) # {g} /\ g \in Holders(k)
          BY <3>1, <3>2, <4>2 DEF Holders
        <5>2. PICK j \in Holders(k) : j # g
          BY <5>1
        <5> QED BY <2>4, <5>2 DEF Holders, PressedByGroup, Lift
      <4> QED BY <4>1, <4>2
    <3> QED BY <2>1, <2>2, <3>1, <3>2 DEF PressedByGroup
  <2>5. CASE Click(g)
    BY <2>1, <2>2, <2>5 DEF Click, PressedByGroup
  <2> QED BY <2>3, <2>4, <2>5
<1> QED BY <1>1, <1>2 DEF PressedBySome

LEMMA OutputStays ==
  ASSUME HeldInv, bound' = bound, UNCHANGED <<macro, outputs>>
  PROVE  HeldInv'
BY DEF HeldInv, GroupsKnown, MacroShape, PressedBySome, PressedByGroup, PressedByMacro, outputs

(* The group a cycle's button presses or lifts is one of the cycle. *)
LEMMA CycleSendGroup ==
  ASSUME TypeInv, NEW e \in Events, NEW v \in BOOLEAN, CycleSend(e, v)
  PROVE  /\ macro' = macro
         /\ UNCHANGED outputs \/ \E g : KnownGroup(g) /\ (Press(g) \/ Lift(g))
<1> DEFINE s == Handler[e].cycle
           stays   == ~v \/ (Handler[e].press /\ cycle[s].current # Unset)
           current == IF stays THEN cycle[s].current ELSE Moved(s, Handler[e].direction)
           key     == IF current = Unset THEN cycle[s].last ELSE current
<1>1. /\ s \in Cycles /\ macro' = macro /\ cycle'[s].last \in Positions(s)
      /\ cycle \in [Cycles -> [current : Int, last : Int]]
  BY CycleSendFacts DEF CycleOK, TypeInv
<1>2. IF Handler[e].press
      THEN Emit(<<s, key>>, v) /\ cycle' = [cycle EXCEPT ![s] = Sent(s, key)]
      ELSE cycle' = [cycle EXCEPT ![s].current = current] /\ UNCHANGED outputs
  BY DEF CycleSend
<1> HIDE DEF s, key, current
<1>3. CASE Handler[e].press
  <2>1. cycle'[s] = Sent(s, key)
    <3> HIDE DEF Sent
    <3> QED BY <1>1, <1>2, <1>3
  <2>2. key \in Positions(s)
    BY <1>1, <2>1 DEF Sent
  <2>3. KnownGroup(<<s, key>>)
    BY <1>1, <2>2 DEF KnownGroup
  <2> QED BY <1>1, <1>2, <1>3, <2>3 DEF Emit
<1>4. CASE ~Handler[e].press
  BY <1>1, <1>2, <1>4
<1> QED BY <1>3, <1>4

LEMMA HeldSend ==
  ASSUME TypeInv, HeldInv, bound' = bound, NEW e \in bound, NEW v \in BOOLEAN, HandlerSend(e, v)
  PROVE  HeldInv'
<1>1. e \in Events /\ GroupsKnown /\ MacroShape /\ PressedBySome
  BY DEF TypeInv, HeldInv
<1>2. ASSUME macro' = macro, NEW g, KnownGroup(g), Press(g) \/ Lift(g) \/ Click(g)
      PROVE  HeldInv'
  <2>1. MacroShape'
    BY <1>1, <1>2 DEF MacroShape
  <2> QED BY <1>1, <1>2, <2>1, OutputKeeps DEF HeldInv
<1>3. CASE KeySend(e, v)
  <2>1. Handler[e].kind = "key" /\ macro' = macro
    BY <1>3 DEF KeySend
  <2>2. KnownGroup(<<"codes", e>>) /\ KnownGroup(<<"secondary", e>>)
    BY <1>1, <2>1 DEF KnownGroup
  <2>3. \/ UNCHANGED outputs
        \/ Press(<<"codes", e>>) \/ Lift(<<"codes", e>>) \/ Click(<<"codes", e>>)
        \/ Lift(<<"secondary", e>>)
    BY <1>3 DEF KeySend, Emit
  <2> QED BY <1>2, <2>1, <2>2, <2>3, OutputStays
<1>4. CASE CycleSend(e, v)
  BY <1>1, <1>2, <1>4, CycleSendGroup, OutputStays
<1>5. CASE RelSend(e, v)
  BY <1>5, OutputStays DEF RelSend
<1>6. CASE MacroSend(e, v)
  <2> DEFINE started == [Rest EXCEPT !.running = TRUE]
  <2>1. Handler[e].kind = "macro" /\ UNCHANGED outputs
    BY <1>6 DEF MacroSend
  <2>2. macro' = IF Starts(e, v) THEN [macro EXCEPT ![e] = started] ELSE macro
    BY <1>6 DEF MacroSend
  <2>3. CASE ~Starts(e, v)
    BY <2>1, <2>2, <2>3, OutputStays
  <2>4. CASE Starts(e, v)
    <3>1. Rest \in [running : BOOLEAN, next : Nat \ {0}, countdown : Int] /\ Rest.next = 1
      BY DEF Rest
    <3>2. ~macro[e].running /\ 1 <= Len(Handler[e].events)
      <4>1. Handler[e].events \in Seq(Range(Handler[e].events)) \ {<<>>}
        BY <1>1, <2>1, HandlersAssumption
      <4> QED BY <2>4, <4>1 DEF Starts
    <3>3. started \in [running : BOOLEAN, next : Nat \ {0}, countdown : Int] /\ started.next = 1
      BY <3>1
    <3> HIDE DEF started
    <3>4. /\ macro' \in [Events -> [running : BOOLEAN, next : Nat \ {0}, countdown : Int]]
          /\ macro'[e] = started /\ \A f \in Events \ {e} : macro'[f] = macro[f]
      BY <1>1, <2>2, <2>4, <3>3 DEF MacroShape
    <3>5. MacroShape'
      BY <1>1, <3>2, <3>3, <3>4 DEF MacroShape
    <3>6. \A k : PressedByMacro(k) => PressedByMacro(k)'
      <4> SUFFICES ASSUME NEW k, PressedByMacro(k) PROVE PressedByMacro(k)'
        OBVIOUS
      <4>1. PICK f \in bound : /\ Handler[f].kind = "macro" /\ macro[f].running /\ k \in Keys
                               /\ LeavesDown(f, k, macro[f].next)
        BY DEF PressedByMacro
      <4>2. f \in Events \ {e}
        BY <3>2, <4>1 DEF TypeInv
      <4>3. macro'[f] = macro[f]
        BY <3>4, <4>2
      <4> QED BY <4>1, <4>3 DEF PressedByMacro
    <3>7. GroupsKnown' /\ PressedBySome'
      BY <1>1, <2>1, <3>6 DEF GroupsKnown, PressedBySome, PressedByGroup, outputs
    <3> QED BY <3>5, <3>7 DEF HeldInv
  <2> QED BY <2>3, <2>4
<1> QED BY <1>3, <1>4, <1>5, <1>6 DEF HandlerSend

(* What a macro has pressed once the events n to hi are sent, it presses as *)
(* the last of them for the key says, or as before.                         *)
LEMMA PlayedLeaves ==
  ASSUME NEW e \in Events, NEW n \in Nat \ {0}, NEW hi \in Nat, n <= hi + 1,
         NEW k \in Played(e, n..hi)
  PROVE  /\ k \in Keys
         /\ \/ LeavesDown(e, k, hi + 1)
            \/ k \in pressed /\ (LeavesDown(e, k, n) => LeavesDown(e, k, hi + 1))
<1> DEFINE T == {i \in n..hi : Handler[e].events[i].op = "send" /\ Handler[e].events[i].key = k}
<1>1. k \in Keys /\ IF T = {} THEN k \in pressed ELSE Handler[e].events[Max(T)].value = 1
  BY DEF Played
<1>2. T \in SUBSET Int /\ hi \in Int /\ \A i \in T : i <= hi
  OBVIOUS
<1>3. \A i \in n..hi : i \in T <=> Sends(e, i, k)
  BY DEF Sends
<1>4. T \subseteq n..hi
  OBVIOUS
<1> HIDE DEF T
<1>5. CASE T = {}
  <2> SUFFICES ASSUME LeavesDown(e, k, n) PROVE LeavesDown(e, k, hi + 1)
    BY <1>1, <1>5
  <2>1. PICK i \in 1..(n - 1) : /\ Sends(e, i, k) /\ Handler[e].events[i].value = 1
                                /\ \A j \in (i + 1)..(n - 1) : ~Sends(e, j, k)
    BY DEF LeavesDown
  <2>2. i \in 1..((hi + 1) - 1)
    OBVIOUS
  <2>3. ASSUME NEW j \in (i + 1)..((hi + 1) - 1) PROVE ~Sends(e, j, k)
    <3>1. j \in (i + 1)..(n - 1) \/ j \in n..hi
      OBVIOUS
    <3> QED BY <1>3, <1>5, <2>1, <3>1
  <2> QED BY <2>1, <2>2, <2>3 DEF LeavesDown
<1>6. CASE T # {}
  <2>a. Max(T) \in T /\ \A j \in T : j <= Max(T)
    BY <1>2, <1>6, MaxFacts
  <2>1. PICK i \in T : i = Max(T) /\ \A j \in T : j <= i
    BY <2>a
  <2>2. /\ i \in 1..((hi + 1) - 1) /\ i \in n..hi
        /\ Sends(e, i, k) /\ Handler[e].events[i].value = 1
    BY <1>1, <1>3, <1>4, <1>6, <2>1
  <2>3. ASSUME NEW j \in (i + 1)..((hi + 1) - 1) PROVE ~Sends(e, j, k)
    <3>1. j \in n..hi /\ ~(j <= i)
      BY <2>2
    <3> QED BY <1>3, <2>1, <3>1
  <2>4. LeavesDown(e, k, hi + 1)
    BY <2>2, <2>3 DEF LeavesDown
  <2> QED BY <1>1, <2>4
<1> QED BY <1>5, <1>6

LEMMA HeldMacro ==
  ASSUME MacrosRelease, TypeInv, HeldInv, bound' = bound, NEW e \in bound, NEW d \in Nat,
         MacroUpdate(e, d)
  PROVE  HeldInv'
<1> DEFINE m     == macro[e]
           last  == Len(Handler[e].events)
           waits == {i \in m.next..last : /\ Handler[e].events[i].op = "wait"
                                          /\ Handler[e].events[i].msec > 0}
           runs  == m.running /\ Remains(m, d) <= 0
           step  == CASE ~m.running -> m
                      [] m.running /\ ~runs -> [m EXCEPT !.countdown = Remains(m, d)]
                      [] runs /\ Finished(e, waits) -> Rest
                      [] OTHER -> [m EXCEPT !.next = Min(waits) + 1,
                                     !.countdown = Handler[e].events[Min(waits)].msec]
           hi == IF waits = {} THEN last ELSE Min(waits)
           M == [running : BOOLEAN, next : Nat \ {0}, countdown : Int]
<1>1. /\ Handler[e].kind = "macro" /\ macro' = [macro EXCEPT ![e] = step]
      /\ pressed' = (IF ~runs THEN pressed ELSE Played(e, m.next..hi))
      /\ down' = down
  BY DEF MacroUpdate
<1>2. /\ e \in Events /\ GroupsKnown /\ PressedBySome /\ macro \in [Events -> M] /\ m \in M
      /\ \A f \in Events : Handler[f].kind = "macro" => macro[f].next <= Len(Handler[f].events)
      /\ bound \subseteq Events
  BY DEF TypeInv, HeldInv, MacroShape
<1>3. /\ last \in Nat \ {0} /\ DOMAIN Handler[e].events = 1..last
      /\ \A i \in 1..last : Handler[e].events[i].op = "wait" => Handler[e].events[i].msec \in Int
  <2> DEFINE R == Range(Handler[e].events)
  <2>1. /\ Handler[e].events \in Seq(R) \ {<<>>}
        /\ \A ev \in R : ev.op = "send" \/ (ev.op = "wait" /\ ev.msec \in Int)
    BY <1>1, <1>2, HandlersAssumption
  <2>2. \A i \in DOMAIN Handler[e].events : Handler[e].events[i] \in R
    BY DEF Range
  <2> HIDE DEF R
  <2>3. last \in Nat \ {0} /\ DOMAIN Handler[e].events = 1..last
    BY <2>1
  <2> QED BY <2>1, <2>2, <2>3
<1>4. waits \subseteq m.next..last /\ waits \subseteq Nat /\ m.next \in Nat \ {0} /\ m.next <= last
  <2>1. m.next \in Nat \ {0} /\ m.next <= last
    BY <1>1, <1>2
  <2>2. waits \subseteq m.next..last
    OBVIOUS
  <2> HIDE DEF m, last, waits
  <2> QED BY <1>3, <2>1, <2>2
<1>5. waits # {} => /\ Min(waits) \in waits /\ Min(waits) \in 1..last /\ m.next <= Min(waits)
                    /\ Handler[e].events[Min(waits)].msec \in Int
  <2> SUFFICES ASSUME waits # {} PROVE /\ Min(waits) \in waits /\ Min(waits) \in 1..last
                                       /\ m.next <= Min(waits)
                                       /\ Handler[e].events[Min(waits)].msec \in Int
    OBVIOUS
  <2>1. PICK w \in waits : w = Min(waits)
    <3> HIDE DEF waits
    <3> QED BY <1>4, MinFacts
  <2>2. w \in 1..last /\ m.next <= w /\ Handler[e].events[w].op = "wait"
    BY <1>3, <1>4
  <2> HIDE DEF waits
  <2> QED BY <1>3, <2>1, <2>2
<1>6. hi \in Nat /\ hi <= last /\ m.next <= hi + 1 /\ m.next <= hi
  BY <1>3, <1>4, <1>5
<1>7. Finished(e, waits) <=> hi = last
  BY <1>3, <1>5 DEF Finished
<1> HIDE DEF waits
<1>8. /\ ~m.running => step = m
      /\ m.running /\ ~runs => step = [m EXCEPT !.countdown = Remains(m, d)]
      /\ runs /\ hi = last => step = Rest
      /\ runs /\ hi # last => /\ waits # {} /\ hi = Min(waits)
                              /\ step = [m EXCEPT !.next = Min(waits) + 1,
                                           !.countdown = Handler[e].events[Min(waits)].msec]
  BY <1>7
<1> HIDE DEF step, hi
<1>9. /\ step \in M /\ step.next <= last
      /\ ~runs => step.running = m.running /\ step.next = m.next
      /\ runs /\ hi # last => step.running /\ step.next = hi + 1
  <2>1. CASE ~m.running
    BY <1>2, <1>4, <1>8, <2>1
  <2>2. CASE m.running /\ ~runs
    <3>1. Remains(m, d) \in Int
      BY <1>2 DEF Remains
    <3> HIDE DEF Remains, runs
    <3> QED BY <1>2, <1>4, <1>8, <2>2, <3>1
  <2>3. CASE runs /\ hi = last
    <3>1. Rest \in M /\ Rest.next = 1
      BY DEF Rest
    <3> HIDE DEF runs
    <3> QED BY <1>3, <1>8, <2>3, <3>1
  <2>4. CASE runs /\ hi # last
    <3>1. hi + 1 \in Nat \ {0} /\ hi + 1 <= last /\ Handler[e].events[hi].msec \in Int
      BY <1>3, <1>5, <1>6, <1>8, <2>4
    <3>2. step = [m EXCEPT !.next = hi + 1, !.countdown = Handler[e].events[hi].msec]
      BY <1>8, <2>4
    <3> QED BY <1>2, <2>4, <3>1, <3>2
  <2>5. runs => m.running
    OBVIOUS
  <2> HIDE DEF runs, m, M
  <2> QED BY <2>1, <2>2, <2>3, <2>4, <2>5
<1>10. macro' \in [Events -> M] /\ macro'[e] = step /\ \A f \in Events \ {e} : macro'[f] = macro[f]
  <2> HIDE DEF M
  <2> QED BY <1>1, <1>2, <1>9
<1>11. MacroShape'
  BY <1>1, <1>2, <1>9, <1>10 DEF MacroShape
<1>12. GroupsKnown'
  BY <1>1, <1>2 DEF GroupsKnown
<1>13. ASSUME NEW k, k \in pressed' PROVE PressedByGroup(k)' \/ PressedByMacro(k)'
  <2>1. PressedByGroup(k) => PressedByGroup(k)'
    BY <1>1 DEF PressedByGroup
  <2>2. ASSUME PressedByMacro(k) PROVE \/ PressedByMacro(k)'
                                       \/ m.running /\ k \in Keys /\ LeavesDown(e, k, m.next)
    <3>1. PICK f \in bound : /\ Handler[f].kind = "macro" /\ macro[f].running /\ k \in Keys
                             /\ LeavesDown(f, k, macro[f].next)
      BY <2>2 DEF PressedByMacro
    <3>2. CASE f = e
      BY <3>1, <3>2
    <3>3. CASE f # e
      <4>1. macro'[f] = macro[f]
        BY <1>2, <1>10, <3>3
      <4> QED BY <3>1, <4>1 DEF PressedByMacro
    <3> QED BY <3>2, <3>3
  <2>3. ASSUME k \in Keys, step.running, LeavesDown(e, k, step.next) PROVE PressedByMacro(k)'
    BY <1>1, <1>10, <2>3 DEF PressedByMacro
  <2>4. CASE ~runs
    <3>1. PressedByGroup(k) \/ PressedByMacro(k)
      BY <1>1, <1>2, <1>13, <2>4 DEF PressedBySome
    <3> QED BY <1>9, <2>1, <2>2, <2>3, <2>4, <3>1
  <2>5. CASE runs
    <3>1. k \in Played(e, m.next..hi)
      BY <1>1, <1>13, <2>5
    <3>2. /\ k \in Keys
          /\ \/ LeavesDown(e, k, hi + 1)
             \/ k \in pressed /\ (LeavesDown(e, k, m.next) => LeavesDown(e, k, hi + 1))
      BY <1>2, <1>4, <1>6, <3>1, PlayedLeaves
    <3>3. LeavesDown(e, k, hi + 1) => hi # last
      BY <1>1, <1>2, <3>2 DEF MacrosRelease
    <3>4. LeavesDown(e, k, hi + 1) => PressedByMacro(k)'
      BY <1>9, <2>3, <2>5, <3>2, <3>3
    <3>5. k \in pressed => PressedByGroup(k) \/ PressedByMacro(k)
      BY <1>2 DEF PressedBySome
    <3> QED BY <2>1, <2>2, <3>2, <3>4, <3>5
  <2> QED BY <2>4, <2>5
<1> QED BY <1>11, <1>12, <1>13 DEF HeldInv, PressedBySome

LEMMA LetGoStep ==
  ASSUME MacrosRelease, LetGoInv, [Next]_vars
  PROVE  LetGoInv'
<1>1. TypeInv /\ KeysInv /\ SharedInv /\ SettledInv /\ HeldInv
  BY DEF LetGoInv, SharedInv, KeysInv
<1>2. bound' = bound /\ bound \subseteq Events
  BY <1>1, StepKinds DEF TypeInv
<1>3. HeldInv'
  <2>1. CASE UNCHANGED <<event, overlapped>>
    BY <1>1, <1>2, <2>1, OutputStays DEF event, handlers
  <2>2. ASSUME NEW e \in bound, NEW d \in Nat, UpdatesHandler(e, d) PROVE HeldInv'
    <3>1. CASE KeyUpdate(e, d)
      <4>1. Handler[e].kind = "key" /\ macro' = macro
        BY <3>1 DEF KeyUpdate
      <4>2. UNCHANGED outputs \/ Press(<<"secondary", e>>)
        BY <3>1 DEF KeyUpdate
      <4>3. KnownGroup(<<"secondary", e>>)
        BY <1>2, <4>1 DEF KnownGroup
      <4>4. CASE UNCHANGED outputs
        BY <1>1, <1>2, <4>1, <4>4, OutputStays
      <4>5. CASE Press(<<"secondary", e>>)
        <5>1. GroupsKnown' /\ PressedBySome'
          BY <1>1, <1>2, <4>1, <4>3, <4>5, OutputKeeps DEF HeldInv
        <5>2. MacroShape'
          BY <1>1, <4>1 DEF HeldInv, MacroShape
        <5> QED BY <5>1, <5>2 DEF HeldInv
      <4> QED BY <4>2, <4>4, <4>5
    <3>2. CASE MacroUpdate(e, d)
      BY <1>1, <1>2, <3>2, HeldMacro
    <3>3. CASE UNCHANGED handlers
      BY <1>1, <1>2, <3>3, OutputStays DEF handlers
    <3> QED BY <2>2, <3>1, <3>2, <3>3 DEF UpdatesHandler
  <2>3. ASSUME NEW e \in bound, NEW v \in BOOLEAN, Send(e, v) PROVE HeldInv'
    <3>1. \E state \in BOOLEAN : UNCHANGED handlers \/ HandlerSend(e, state)
      BY <1>1, <2>3, SendKinds
    <3>2. CASE UNCHANGED handlers
      BY <1>1, <1>2, <3>2, OutputStays DEF handlers
    <3> QED BY <1>1, <1>2, <3>1, <3>2, HeldSend
  <2> QED BY <1>1, <2>1, <2>2, <2>3, StepKinds
<1> QED BY <1>1, <1>3, SharedStep, SettledStep DEF LetGoInv

LEMMA InitLetGo == Init => SettledInv /\ HeldInv
<1> SUFFICES ASSUME Init PROVE SettledInv /\ HeldInv
  OBVIOUS
<1>1. /\ bound \subseteq Events /\ down = {} /\ pressed = {} /\ calls = <<>> /\ spent = bound
      /\ sent = [e \in Events |-> FALSE] /\ macro = [e \in Events |-> Rest]
      /\ filters = [e \in Events |-> [i \in DOMAIN Filters[e] |-> NewFilter]]
  BY NumEventsAssumption DEF Init
<1>2. \A e \in Events : \A i \in 1..Len(Filters[e]) : filters[e][i] = NewFilter
  <2> SUFFICES ASSUME NEW e \in Events PROVE \A i \in 1..Len(Filters[e]) : filters[e][i] = NewFilter
    OBVIOUS
  <2> DEFINE K == [kind : FilterKinds, rate : 0..(MaxTime - 1), delay : 0..(MaxTime - 1)]
  <2>1. Filters[e] \in Seq(K)
    BY FiltersAssumption
  <2>2. DOMAIN Filters[e] = 1..Len(Filters[e])
    <3> HIDE DEF K
    <3> QED BY <2>1
  <2> QED BY <1>1, <2>2
<1>3. FilterShape
  <2>1. DOMAIN NewFilter = {"value", "on", "time"}
    BY DEF NewFilter
  <2>2. filters = [e \in Events |-> filters[e]]
    BY <1>1
  <2> QED BY <1>2, <2>1, <2>2 DEF FilterShape
<1>4. Unclicked
  BY <1>2 DEF Unclicked, NewFilter
<1>5. OnlyBoundOn /\ ReleasesSpent /\ Settled
  BY <1>1 DEF OnlyBoundOn, ReleasesSpent, Settled
<1>6. GroupsKnown /\ PressedBySome
  BY <1>1 DEF GroupsKnown, PressedBySome
<1>7. MacroShape
  <2>1. Rest \in [running : BOOLEAN, next : Nat \ {0}, countdown : Int] /\ Rest.next = 1
    BY DEF Rest
  <2>2. \A e \in Events : Handler[e].kind = "macro" => 1 <= Len(Handler[e].events)
    <3> SUFFICES ASSUME NEW e \in Events, Handler[e].kind = "macro"
                 PROVE  1 <= Len(Handler[e].events)
      OBVIOUS
    <3>1. Handler[e].events \in Seq(Range(Handler[e].events)) \ {<<>>}
      BY HandlersAssumption
    <3> DEFINE R == Range(Handler[e].events)
    <3> HIDE DEF R
    <3> QED BY <3>1 DEF R
  <2> HIDE DEF Rest
  <2> QED BY <1>1, <2>1, <2>2 DEF MacroShape
<1> QED BY <1>3, <1>4, <1>5, <1>6, <1>7 DEF SettledInv, HeldInv

(* When every button is up, one update later and with no macro running, no  *)
(* key is pressed and no axis moves: whatever filters, thresholds, cycles   *)
(* and macros went through, each pressed key has a holder that is off by    *)
(* then. The hypothesis is on the configuration: each macro releases what   *)
(* it presses.                                                              *)
THEOREM LettingGo == ASSUME MacrosRelease PROVE Spec => []LetGoReleasesAll
<1>1. Init => LetGoInv
  BY InitLetGo, InitShared DEF LetGoInv
<1>2. LetGoInv /\ [Next]_vars => LetGoInv'
  BY LetGoStep
<1>3. LetGoInv => LetGoReleasesAll
  <2> SUFFICES ASSUME LetGoInv, ~overlapped,
                      \A e \in bound : Momentary(e) /\ Quiet(e) /\ ~macro[e].running
               PROVE  pressed = {} /\ \A c \in RelCodes : repeating[c] = None
    BY DEF LetGoReleasesAll
  <2>1. SharedFollowState /\ KeysFollowState /\ SettledInv /\ HeldInv /\ bound \subseteq Events
    BY DEF LetGoInv, SharedInv, KeysInv, TypeInv
  <2>2. \A e \in Events : ~sent[e]
    BY <2>1 DEF SettledInv, Settled, OnlyBoundOn
  <2>3. \A e \in bound : ~sent[e]
    BY <2>1, <2>2
  <2>4. ASSUME NEW g \in down PROVE FALSE
    <3>1. CASE \E e \in Events : Handler[e].kind = "key" /\ g \in {<<"codes", e>>, <<"secondary", e>>}
      BY <2>1, <2>2, <2>4, <3>1 DEF KeysFollowState
    <3>2. ASSUME NEW s \in Cycles, NEW i \in Positions(s), g = <<s, i>> PROVE FALSE
      <4>1. {j \in Positions(s) : <<s, j>> \in down} = {}
        BY <2>1, <2>3 DEF SharedFollowState, Positions
      <4> QED BY <2>4, <3>2, <4>1
    <3> QED BY <2>1, <3>1, <3>2 DEF HeldInv, GroupsKnown, KnownGroup
  <2>5. pressed = {}
    BY <2>1, <2>4 DEF HeldInv, PressedBySome, PressedByGroup, PressedByMacro
  <2>6. ASSUME NEW c \in RelCodes PROVE repeating[c] = None
    BY <2>1, <2>3 DEF SharedFollowState
  <2> QED BY <2>5, <2>6
<1> QED BY <1>1, <1>2, <1>3, PTL DEF Spec
=============================================================================
