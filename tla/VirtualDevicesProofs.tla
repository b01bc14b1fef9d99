------------------------- MODULE VirtualDevicesProofs -------------------------
(***************************************************************************)
(* Proofs about VirtualDevices: the force feedback effects of the driver,   *)
(* or of a pad with force feedback of its own, follow those of the          *)
(* applications; axes in the middle let go of what they held; and repeated  *)
(* motion keeps its pace.                                                   *)
(***************************************************************************)
EXTENDS VirtualDevices, TLAPS, SequenceTheorems, MinTheorems

(* What the events of the uinput device's queue are. *)
KernelEvents ==
  [op : {"upload", "erase"}] \cup [op : {"play", "stop"}, id : Ids]
    \cup [op : {"gain"}, gain : Gains]

ShapeOK ==
  /\ setup \in Setups
  /\ DOMAIN ff = {"effects", "gain", "motors"}
  /\ DOMAIN pad = {"effects", "ids", "playing", "gain"}
  /\ DOMAIN kernel = {"owned", "effects", "playing", "gain", "request", "events", "plays"}
  /\ kernel.events \in Seq(KernelEvents)
  /\ kernel.playing \subseteq Ids /\ pad.playing \subseteq Ids
  /\ faults \in Nat

-----------------------------------------------------------------------------
(* Requests. Until one fails there is at most one event of a request in the *)
(* queue, and the kernel waits for its answer; what an application owns are  *)
(* the kernel's effects but for the one it erases.                          *)
Asks(e) == e.op \in {"upload", "erase"}

RequestQueued ==
  LET q == kernel.events
  IN  /\ \A i \in DOMAIN q : Asks(q[i]) => q[i].op = kernel.request.kind
      /\ \A i, j \in DOMAIN q : Asks(q[i]) /\ Asks(q[j]) => i = j

UploadLegal ==
  kernel.request.kind = "upload" =>
    LET r == kernel.request
    IN  /\ r.id \in Ids /\ r.effect \in Effects
        /\ r.effect.type \in Announced(setup.features)
        /\ r.id \in kernel.owned
             \/ (Free(kernel.owned) # {} /\ r.id = Min(Free(kernel.owned)))

OwnedAreEffects ==
  kernel.owned = IF kernel.request.kind = "erase"
                 THEN DOMAIN kernel.effects \ {kernel.request.id} ELSE DOMAIN kernel.effects

EraseLegal ==
  kernel.request.kind = "erase" =>
    /\ kernel.request.id \in DOMAIN kernel.effects
    /\ kernel.request.id \notin kernel.playing

-----------------------------------------------------------------------------
(* What is still in the queue. A sequence of events turns an effect: its    *)
(* last play or stop says whether it plays, and without one it stays.       *)
PlayOrStop(e, id) == e.op \in {"play", "stop"} /\ e.id = id

LeavesPlaying(q, before, after) ==
  \A id \in Ids :
    /\ \A i \in DOMAIN q :
         PlayOrStop(q[i], id) /\ (\A j \in DOMAIN q : PlayOrStop(q[j], id) => j <= i)
           => (id \in after <=> q[i].op = "play")
    /\ (\A i \in DOMAIN q : ~PlayOrStop(q[i], id)) => (id \in before <=> id \in after)

LeavesGain(q, before, after) ==
  /\ \A i \in DOMAIN q :
       q[i].op = "gain" /\ (\A j \in DOMAIN q : q[j].op = "gain" => j <= i)
         => q[i].gain = after
  /\ (\A i \in DOMAIN q : q[i].op # "gain") => before = after

(* Effects are turned while they are there, and not after they are erased.  *)
TurnsKnown ==
  LET q == kernel.events
  IN  /\ \A i \in DOMAIN q : \A id \in Ids : PlayOrStop(q[i], id) => id \in DOMAIN kernel.effects
      /\ \A i, j \in DOMAIN q : q[i].op = "erase" /\ i < j => ~PlayOrStop(q[j], kernel.request.id)

-----------------------------------------------------------------------------
(* A pad with force feedback of its own, and the emulation. *)
PadFollows ==
  /\ pad.effects = kernel.effects /\ pad.ids = DOMAIN kernel.effects
  /\ LeavesPlaying(kernel.events, pad.playing, kernel.playing)
  /\ "gain" \in setup.features => LeavesGain(kernel.events, pad.gain, kernel.gain)

Described == {"delay", "length", "start", "end"}
EffectFields == Described \cup {"envelope", "playing", "count", "now"}

EffectOK(f) ==
  /\ DOMAIN f = EffectFields
  /\ f.delay \in Nat /\ f.length \in Nat /\ f.count \in Nat

Describes(f, e) == \A field \in Described : f[field] = NewEffect(e)[field]

HandlerFollows ==
  /\ DOMAIN ff.effects = DOMAIN kernel.effects
  /\ \A id \in DOMAIN ff.effects :
       EffectOK(ff.effects[id]) /\ Describes(ff.effects[id], kernel.effects[id])
  /\ LeavesGain(kernel.events, ff.gain, kernel.gain)

Following ==
  /\ RequestQueued /\ UploadLegal /\ OwnedAreEffects /\ EraseLegal /\ TurnsKnown
  /\ IF Native THEN PadFollows ELSE HandlerFollows

KernelInv == ShapeOK /\ (setup.ff # "off" /\ faults = 0 => Following)

-----------------------------------------------------------------------------
(* Lemmas about the queue: what one event does to who plays and to the gain, *)
(* at its end where the kernel puts it and at its head where it is read.    *)

TurnedBy(e, playing) ==
  IF e.op = "play" THEN playing \cup {e.id}
  ELSE IF e.op = "stop" THEN playing \ {e.id} ELSE playing

GainBy(e, gain) == IF e.op = "gain" THEN e.gain ELSE gain

LEMMA EventKinds ==
  ASSUME NEW e \in KernelEvents
  PROVE  /\ e.op \in {"upload", "erase", "play", "stop", "gain"}
         /\ e.op \in {"play", "stop"} => e.id \in Ids
         /\ e.op = "gain" => e.gain \in Gains
BY DEF KernelEvents

(* The indices of a sequence that has grown, and of its tail.               *)
LEMMA AppendAt ==
  ASSUME NEW q \in Seq(KernelEvents), NEW e \in KernelEvents
  PROVE  /\ Append(q, e) \in Seq(KernelEvents)
         /\ DOMAIN Append(q, e) = 1..(Len(q) + 1) /\ DOMAIN q = 1..Len(q)
         /\ Len(q) \in Nat
         /\ \A i \in 1..Len(q) : Append(q, e)[i] = q[i] /\ q[i] \in KernelEvents
         /\ Append(q, e)[Len(q) + 1] = e
OBVIOUS

LEMMA TailAt ==
  ASSUME NEW q \in Seq(KernelEvents), q # <<>>
  PROVE  /\ Tail(q) \in Seq(KernelEvents) /\ Head(q) \in KernelEvents
         /\ DOMAIN Tail(q) = 1..(Len(q) - 1) /\ DOMAIN q = 1..Len(q)
         /\ Len(q) \in Nat \ {0} /\ Head(q) = q[1]
         /\ \A i \in 1..(Len(q) - 1) : Tail(q)[i] = q[i + 1] /\ q[i + 1] \in KernelEvents
OBVIOUS

LEMMA PlayingAppended ==
  ASSUME NEW q \in Seq(KernelEvents), NEW e \in KernelEvents,
         NEW before, NEW after, LeavesPlaying(q, before, after)
  PROVE  LeavesPlaying(Append(q, e), before, TurnedBy(e, after))
<1> DEFINE r == Append(q, e)
           last == TurnedBy(e, after)
<1>1. /\ DOMAIN r = 1..(Len(q) + 1) /\ DOMAIN q = 1..Len(q) /\ Len(q) \in Nat
      /\ \A i \in 1..Len(q) : r[i] = q[i]
      /\ r[Len(q) + 1] = e
  BY AppendAt
<1>2. SUFFICES ASSUME NEW id \in Ids
               PROVE  /\ \A i \in DOMAIN r :
                           PlayOrStop(r[i], id) /\ (\A j \in DOMAIN r : PlayOrStop(r[j], id) => j <= i)
                             => (id \in last <=> r[i].op = "play")
                      /\ (\A i \in DOMAIN r : ~PlayOrStop(r[i], id)) => (id \in before <=> id \in last)
  BY DEF LeavesPlaying
<1>3. /\ PlayOrStop(e, id) => (id \in last <=> e.op = "play")
      /\ ~PlayOrStop(e, id) => (id \in last <=> id \in after)
  BY EventKinds DEF PlayOrStop, TurnedBy
<1>4. /\ \A i \in DOMAIN q :
           PlayOrStop(q[i], id) /\ (\A j \in DOMAIN q : PlayOrStop(q[j], id) => j <= i)
             => (id \in after <=> q[i].op = "play")
      /\ (\A i \in DOMAIN q : ~PlayOrStop(q[i], id)) => (id \in before <=> id \in after)
  BY DEF LeavesPlaying
<1> HIDE DEF r, last
<1>5. CASE PlayOrStop(e, id)
  BY <1>1, <1>3, <1>5
<1>6. CASE ~PlayOrStop(e, id)
  BY <1>1, <1>3, <1>4, <1>6
<1> QED BY <1>5, <1>6

LEMMA PlayingRead ==
  ASSUME NEW q \in Seq(KernelEvents), q # <<>>,
         NEW before, NEW after, LeavesPlaying(q, before, after)
  PROVE  LeavesPlaying(Tail(q), TurnedBy(Head(q), before), after)
<1> DEFINE r == Tail(q)
           e == Head(q)
           now == TurnedBy(e, before)
<1>1. /\ DOMAIN r = 1..(Len(q) - 1) /\ DOMAIN q = 1..Len(q) /\ Len(q) \in Nat \ {0}
      /\ \A i \in 1..(Len(q) - 1) : r[i] = q[i + 1]
      /\ e = q[1] /\ e \in KernelEvents
  BY TailAt
<1>2. SUFFICES ASSUME NEW id \in Ids
               PROVE  /\ \A i \in DOMAIN r :
                           PlayOrStop(r[i], id) /\ (\A j \in DOMAIN r : PlayOrStop(r[j], id) => j <= i)
                             => (id \in after <=> r[i].op = "play")
                      /\ (\A i \in DOMAIN r : ~PlayOrStop(r[i], id)) => (id \in now <=> id \in after)
  BY DEF LeavesPlaying
<1>3. /\ PlayOrStop(e, id) => (id \in now <=> e.op = "play")
      /\ ~PlayOrStop(e, id) => (id \in now <=> id \in before)
  BY <1>1, EventKinds DEF PlayOrStop, TurnedBy
<1>4. /\ \A i \in DOMAIN q :
           PlayOrStop(q[i], id) /\ (\A j \in DOMAIN q : PlayOrStop(q[j], id) => j <= i)
             => (id \in after <=> q[i].op = "play")
      /\ (\A i \in DOMAIN q : ~PlayOrStop(q[i], id)) => (id \in before <=> id \in after)
  BY DEF LeavesPlaying
<1> HIDE DEF r, e, now
<1>a. \A j \in DOMAIN q : j # 1 => j - 1 \in DOMAIN r /\ q[j] = r[j - 1]
  BY <1>1
<1>5. ASSUME NEW i \in DOMAIN r, PlayOrStop(r[i], id),
             \A j \in DOMAIN r : PlayOrStop(r[j], id) => j <= i
      PROVE  id \in after <=> r[i].op = "play"
  <2>1. i + 1 \in DOMAIN q /\ q[i + 1] = r[i] /\ i \in Nat
    BY <1>1
  <2>2. \A j \in DOMAIN q : PlayOrStop(q[j], id) => j <= i + 1
    BY <1>1, <1>5, <1>a, <2>1
  <2> QED BY <1>4, <1>5, <2>1, <2>2
<1>6. ASSUME \A i \in DOMAIN r : ~PlayOrStop(r[i], id)
      PROVE  id \in now <=> id \in after
  <2>1. \A j \in DOMAIN q : PlayOrStop(q[j], id) => j = 1
    BY <1>1, <1>6, <1>a
  <2>2. 1 \in DOMAIN q
    BY <1>1
  <2>3. CASE PlayOrStop(e, id)
    <3>1. \A j \in DOMAIN q : PlayOrStop(q[j], id) => j <= 1
      BY <2>1
    <3> QED BY <1>1, <1>3, <1>4, <2>2, <2>3, <3>1
  <2>4. CASE ~PlayOrStop(e, id)
    BY <1>1, <1>3, <1>4, <2>1, <2>4
  <2> QED BY <2>3, <2>4
<1> QED BY <1>5, <1>6

LEMMA GainAppended ==
  ASSUME NEW q \in Seq(KernelEvents), NEW e \in KernelEvents,
         NEW before, NEW after, LeavesGain(q, before, after)
  PROVE  LeavesGain(Append(q, e), before, GainBy(e, after))
<1> DEFINE r == Append(q, e)
<1>1. /\ DOMAIN r = 1..(Len(q) + 1) /\ DOMAIN q = 1..Len(q) /\ Len(q) \in Nat
      /\ \A i \in 1..Len(q) : r[i] = q[i]
      /\ r[Len(q) + 1] = e
  BY AppendAt
<1> HIDE DEF r
<1>2. CASE e.op = "gain"
  BY <1>1, <1>2 DEF LeavesGain, GainBy, r
<1>3. CASE e.op # "gain"
  <2>1. LeavesGain(r, before, after)
    BY <1>1, <1>3 DEF LeavesGain
  <2> QED BY <1>3, <2>1 DEF GainBy, r
<1> QED BY <1>2, <1>3

LEMMA GainRead ==
  ASSUME NEW q \in Seq(KernelEvents), q # <<>>,
         NEW before, NEW after, LeavesGain(q, before, after)
  PROVE  LeavesGain(Tail(q), GainBy(Head(q), before), after)
<1> DEFINE r == Tail(q)
           e == Head(q)
           now == GainBy(e, before)
<1>1. /\ DOMAIN r = 1..(Len(q) - 1) /\ DOMAIN q = 1..Len(q) /\ Len(q) \in Nat \ {0}
      /\ \A i \in 1..(Len(q) - 1) : r[i] = q[i + 1]
      /\ e = q[1]
  BY TailAt
<1>2. now = IF q[1].op = "gain" THEN q[1].gain ELSE before
  BY <1>1 DEF GainBy
<1> SUFFICES LeavesGain(r, now, after)
  OBVIOUS
<1> HIDE DEF r, e, now
<1>a. \A j \in DOMAIN q : j # 1 => j - 1 \in DOMAIN r /\ q[j] = r[j - 1]
  BY <1>1
<1>3. ASSUME NEW i \in DOMAIN r, r[i].op = "gain",
             \A j \in DOMAIN r : r[j].op = "gain" => j <= i
      PROVE  r[i].gain = after
  <2>1. i + 1 \in DOMAIN q /\ q[i + 1] = r[i] /\ i \in Nat
    BY <1>1
  <2>2. \A j \in DOMAIN q : q[j].op = "gain" => j <= i + 1
    BY <1>1, <1>3, <1>a, <2>1
  <2> QED BY <1>3, <2>1, <2>2 DEF LeavesGain
<1>4. ASSUME \A i \in DOMAIN r : r[i].op # "gain"
      PROVE  now = after
  <2>1. \A j \in DOMAIN q : q[j].op = "gain" => j = 1
    BY <1>1, <1>4, <1>a
  <2>2. 1 \in DOMAIN q
    BY <1>1
  <2>3. CASE q[1].op = "gain"
    <3>1. \A j \in DOMAIN q : q[j].op = "gain" => j <= 1
      BY <2>1
    <3> QED BY <1>2, <2>2, <2>3, <3>1 DEF LeavesGain
  <2>4. CASE q[1].op # "gain"
    BY <1>2, <2>1, <2>4 DEF LeavesGain
  <2> QED BY <2>3, <2>4
<1> QED BY <1>3, <1>4 DEF LeavesGain
-----------------------------------------------------------------------------
(* The initial state, and the steps that leave the queue alone.             *)

LEMMA InitKernel == Init => KernelInv
<1> SUFFICES ASSUME Init PROVE KernelInv
  OBVIOUS
<1>1. /\ setup \in Setups /\ faults = 0
      /\ ff = [effects |-> <<>>, gain |-> setup.gain, motors |-> Silent]
      /\ pad = [effects |-> <<>>, ids |-> {}, playing |-> {}, gain |-> setup.gain]
      /\ kernel = [owned |-> {}, effects |-> <<>>, playing |-> {}, gain |-> setup.gain,
                   request |-> NoRequest, events |-> <<>>, plays |-> 0]
  BY DEF Init
<1>2. ShapeOK
  BY <1>1 DEF ShapeOK
<1>3. kernel.events = <<>> /\ kernel.request.kind = "none"
  BY <1>1 DEF NoRequest
<1>4. RequestQueued /\ TurnsKnown
  BY <1>3 DEF RequestQueued, TurnsKnown
<1>5. UploadLegal /\ OwnedAreEffects /\ EraseLegal
  BY <1>1, <1>3 DEF UploadLegal, OwnedAreEffects, EraseLegal
<1>6. PadFollows
  BY <1>1 DEF PadFollows, LeavesPlaying, LeavesGain
<1>7. HandlerFollows
  BY <1>1 DEF HandlerFollows, LeavesGain
<1> QED BY <1>2, <1>4, <1>5, <1>6, <1>7 DEF KernelInv, Following

LEMMA RumbleUnchanged == KernelInv /\ UNCHANGED <<setup, rumble>> => KernelInv'
BY DEF KernelInv, ShapeOK, rumble, Following, RequestQueued, UploadLegal, OwnedAreEffects,
       EraseLegal, TurnsKnown, PadFollows, HandlerFollows, Native

(* The emulation of an effect never touches what describes it. *)
LEMMA UpdatedKeeps ==
  ASSUME NEW f, EffectOK(f), NEW d \in Nat
  PROVE  /\ EffectOK(EffectUpdated(f, d))
         /\ \A field \in Described : EffectUpdated(f, d)[field] = f[field]
<1> DEFINE count == f.count + d
           t == count - f.delay
           g == EffectUpdated(f, d)
<1>1. /\ count \in Nat /\ t \in Int /\ f.length \in Nat
      /\ DOMAIN f = EffectFields
  BY DEF EffectOK
<1>2. EffectOK(Stopped(f)) /\ \A field \in Described : Stopped(f)[field] = f[field]
  BY DEF EffectOK, Stopped, EffectFields, Described
<1>3. \A now : LET h == [f EXCEPT !.count = count, !.now = now]
               IN  EffectOK(h) /\ \A field \in Described : h[field] = f[field]
  BY <1>1 DEF EffectOK, EffectFields, Described
<1>4. \A now : LET h == [f EXCEPT !.now = now]
               IN  EffectOK(h) /\ \A field \in Described : h[field] = f[field]
  BY <1>1 DEF EffectOK, EffectFields, Described
<1>5. LET h == [f EXCEPT !.count = count]
      IN  EffectOK(h) /\ \A field \in Described : h[field] = f[field]
  BY <1>1 DEF EffectOK, EffectFields, Described
<1>6. CASE ~f.playing
  <2>1. g = Stopped(f)
    BY <1>6 DEF EffectUpdated
  <2> QED BY <1>2, <2>1
<1>7. CASE f.playing /\ f.length = 0
  <2>1. g = [f EXCEPT !.now = [s \in Sides |-> IF f.start[s] # 0 THEN f.start[s] ELSE f.end[s]]]
    BY <1>7 DEF EffectUpdated
  <2> QED BY <1>4, <2>1
<1>8. CASE f.playing /\ f.length > 0 /\ t <= 0
  <2>1. g = [f EXCEPT !.count = count]
    BY <1>1, <1>8 DEF EffectUpdated
  <2> QED BY <1>5, <2>1
<1>9. CASE f.playing /\ f.length > 0 /\ t > 0
  <2> DEFINE level(s) == Enveloped(f, Between(f.start[s], f.end[s], t, f.length), t)
  <2>1. \/ g = Stopped(f)
        \/ g = [f EXCEPT !.count = count, !.now = [s \in Sides |-> level(s)]]
    BY <1>1, <1>9 DEF EffectUpdated
  <2> HIDE DEF level, count, t
  <2> QED BY <1>2, <1>3, <2>1
<1>10. f.length = 0 \/ (f.length > 0 /\ t <= 0) \/ (f.length > 0 /\ t > 0)
  BY <1>1
<1> HIDE DEF count, t
<1> QED BY <1>6, <1>7, <1>8, <1>9, <1>10

LEMMA TimeoutFollows ==
  ASSUME KernelInv, NEW d \in Ticks, Timeout(d)
  PROVE  KernelInv'
<1>1. UNCHANGED <<setup, kernel, pad, faults>>
  BY DEF Timeout
<1>2. CASE setup.ff # "emulated"
  <2>1. ff' = ff
    BY <1>2 DEF Timeout
  <2> QED BY <1>1, <2>1, RumbleUnchanged DEF rumble
<1>3. CASE setup.ff = "emulated"
  <2>1. ff' = HandlerUpdated(ff, d) /\ d \in Nat
    BY <1>3, DevicesAssumption DEF Timeout
  <2>2. DOMAIN ff = {"effects", "gain", "motors"}
    BY DEF KernelInv, ShapeOK
  <2>3. \E m : HandlerUpdated(ff, d) = [ff EXCEPT !.effects = EffectsUpdated(ff.effects, d), !.motors = m]
    BY DEF HandlerUpdated
  <2>4. /\ DOMAIN ff' = DOMAIN ff /\ ff'.gain = ff.gain
        /\ ff'.effects = EffectsUpdated(ff.effects, d)
    BY <2>1, <2>2, <2>3
  <2>5. DOMAIN ff'.effects = DOMAIN ff.effects
    BY <2>4 DEF EffectsUpdated
  <2>6. ASSUME NEW id \in DOMAIN ff.effects, EffectOK(ff.effects[id]),
               Describes(ff.effects[id], kernel.effects[id])
        PROVE  EffectOK(ff'.effects[id]) /\ Describes(ff'.effects[id], kernel.effects[id])
    <3>1. ff'.effects[id] = EffectUpdated(ff.effects[id], d)
      BY <2>4 DEF EffectsUpdated
    <3> QED BY <2>1, <2>6, <3>1, UpdatedKeeps DEF Describes
  <2>7. HandlerFollows => HandlerFollows'
    BY <1>1, <2>4, <2>5, <2>6 DEF HandlerFollows
  <2>8. ~Native /\ ~Native'
    BY <1>1, <1>3 DEF Native
  <2>9. ShapeOK'
    BY <1>1, <2>4 DEF KernelInv, ShapeOK
  <2>10. Following => Following'
    <3>1. /\ RequestQueued => RequestQueued'
          /\ UploadLegal => UploadLegal'
          /\ OwnedAreEffects => OwnedAreEffects'
          /\ EraseLegal => EraseLegal'
          /\ TurnsKnown => TurnsKnown'
      BY <1>1 DEF RequestQueued, UploadLegal, OwnedAreEffects, EraseLegal, TurnsKnown
    <3> QED BY <2>7, <2>8, <3>1 DEF Following
  <2> QED BY <1>1, <2>9, <2>10 DEF KernelInv
<1> QED BY <1>2, <1>3
-----------------------------------------------------------------------------
(* Applications. Each puts its event at the end of the queue.               *)

(* What a step of the kernel leaves alone in the pad and the handler.       *)
LEMMA QueueGrows ==
  ASSUME ShapeOK, Following, NEW e \in KernelEvents,
         UNCHANGED <<setup, ff, pad>>,
         kernel'.events = Append(kernel.events, e),
         kernel'.effects = kernel.effects,
         kernel'.playing = TurnedBy(e, kernel.playing),
         kernel'.gain = GainBy(e, kernel.gain)
  PROVE  IF Native' THEN PadFollows' ELSE HandlerFollows'
<1>1. kernel.events \in Seq(KernelEvents) /\ Native' = Native
  BY DEF ShapeOK, Native
<1>2. CASE Native
  <2>1. PadFollows
    BY <1>2 DEF Following
  <2>2. LeavesPlaying(kernel'.events, pad.playing, kernel'.playing)
    BY <1>1, <2>1, PlayingAppended DEF PadFollows
  <2>3. "gain" \in setup.features => LeavesGain(kernel'.events, pad.gain, kernel'.gain)
    BY <1>1, <2>1, GainAppended DEF PadFollows
  <2> QED BY <1>1, <1>2, <2>1, <2>2, <2>3 DEF PadFollows
<1>3. CASE ~Native
  <2>1. HandlerFollows
    BY <1>3 DEF Following
  <2>2. LeavesGain(kernel'.events, ff.gain, kernel'.gain)
    BY <1>1, <2>1, GainAppended DEF HandlerFollows
  <2> QED BY <1>1, <1>3, <2>1, <2>2 DEF HandlerFollows
<1> QED BY <1>2, <1>3

LEMMA UploadsFollows ==
  ASSUME KernelInv, NEW id \in Ids, NEW e \in Effects, Uploads(id, e)
  PROVE  KernelInv'
<1> DEFINE a == [op |-> "upload"]
           q == kernel.events
<1>1. /\ UNCHANGED <<setup, ff, pad, faults>>
      /\ kernel.request = NoRequest /\ setup.ff # "off"
      /\ e.type \in Announced(setup.features)
      /\ id \in kernel.owned \/ (Free(kernel.owned) # {} /\ id = Min(Free(kernel.owned)))
      /\ kernel' = [kernel EXCEPT !.request = [kind |-> "upload", id |-> id, effect |-> e],
                                  !.events = q \o <<a>>, !.plays = @ + 1]
  BY DEF Uploads, Room, Queue
<1>2. ShapeOK /\ a \in KernelEvents /\ q \in Seq(KernelEvents)
  BY DEF KernelInv, ShapeOK, KernelEvents
<1>3. q \o <<a>> = Append(q, a)
  BY <1>2
<1>4. /\ DOMAIN kernel' = DOMAIN kernel
      /\ kernel'.events = Append(q, a)
      /\ kernel'.request = [kind |-> "upload", id |-> id, effect |-> e]
      /\ kernel'.owned = kernel.owned /\ kernel'.effects = kernel.effects
      /\ kernel'.playing = kernel.playing /\ kernel'.gain = kernel.gain
  BY <1>1, <1>2, <1>3 DEF ShapeOK
<1>5. ShapeOK'
  BY <1>1, <1>2, <1>4, AppendAt DEF ShapeOK
<1>6. SUFFICES ASSUME faults = 0, Following PROVE Following'
  BY <1>1, <1>5 DEF KernelInv
<1>7. /\ DOMAIN Append(q, a) = 1..(Len(q) + 1) /\ DOMAIN q = 1..Len(q) /\ Len(q) \in Nat
      /\ \A i \in 1..Len(q) : Append(q, a)[i] = q[i]
      /\ Append(q, a)[Len(q) + 1] = a
  BY <1>2, AppendAt
<1>8. RequestQueued'
  <2>1. \A i \in DOMAIN q : ~Asks(q[i])
    BY <1>1, <1>6 DEF Following, RequestQueued, NoRequest, Asks
  <2> QED BY <1>4, <1>7, <2>1 DEF RequestQueued
<1>9. UploadLegal' /\ OwnedAreEffects' /\ EraseLegal'
  BY <1>1, <1>4, <1>6 DEF Following, UploadLegal, OwnedAreEffects, EraseLegal, NoRequest
<1>10. TurnsKnown'
  <2>1. a.op = "upload"
    OBVIOUS
  <2>2. \A i \in DOMAIN q : ~Asks(q[i])
    BY <1>1, <1>6 DEF Following, RequestQueued, NoRequest, Asks
  <2> HIDE DEF a
  <2> QED BY <1>4, <1>6, <1>7, <2>1, <2>2 DEF Following, TurnsKnown, PlayOrStop, Asks
<1>11. TurnedBy(a, kernel.playing) = kernel.playing /\ GainBy(a, kernel.gain) = kernel.gain
  BY DEF TurnedBy, GainBy
<1>12. IF Native' THEN PadFollows' ELSE HandlerFollows'
  <2> HIDE DEF a
  <2> QED BY <1>1, <1>2, <1>4, <1>6, <1>11, QueueGrows
<1> QED BY <1>8, <1>9, <1>10, <1>12 DEF Following

(* Play, stop and the gain: an event that asks for no answer.               *)
LEMMA TellsFollows ==
  ASSUME KernelInv, NEW a \in KernelEvents, ~Asks(a),
         \A id \in Ids : PlayOrStop(a, id) => id \in kernel.owned,
         UNCHANGED <<setup, ff, pad, faults>>, setup.ff # "off",
         DOMAIN kernel' = DOMAIN kernel,
         kernel'.events = Append(kernel.events, a),
         kernel'.request = kernel.request,
         kernel'.owned = kernel.owned, kernel'.effects = kernel.effects,
         kernel'.playing = TurnedBy(a, kernel.playing),
         kernel'.gain = GainBy(a, kernel.gain)
  PROVE  KernelInv'
<1> DEFINE q == kernel.events
<1>1. ShapeOK /\ q \in Seq(KernelEvents)
  BY DEF KernelInv, ShapeOK
<1>2. /\ a.op \in {"play", "stop", "gain"}
      /\ a.op \in {"play", "stop"} => a.id \in Ids
  BY EventKinds DEF Asks
<1>3. ShapeOK'
  BY <1>1, <1>2, AppendAt DEF ShapeOK, TurnedBy
<1>4. SUFFICES ASSUME faults = 0, Following PROVE Following'
  BY <1>3 DEF KernelInv
<1>5. /\ DOMAIN Append(q, a) = 1..(Len(q) + 1) /\ DOMAIN q = 1..Len(q) /\ Len(q) \in Nat
      /\ \A i \in 1..Len(q) : Append(q, a)[i] = q[i]
      /\ Append(q, a)[Len(q) + 1] = a
  BY <1>1, AppendAt
<1>6. RequestQueued'
  BY <1>4, <1>5 DEF Following, RequestQueued
<1>7. UploadLegal' /\ OwnedAreEffects'
  BY <1>4 DEF Following, UploadLegal, OwnedAreEffects
<1>8. a.op \in {"play", "stop"} => /\ a.id \in DOMAIN kernel.effects
                                   /\ kernel.request.kind = "erase" => a.id # kernel.request.id
  BY <1>2, <1>4 DEF Following, OwnedAreEffects, PlayOrStop
<1>9. EraseLegal'
  BY <1>2, <1>4, <1>8 DEF Following, EraseLegal, TurnedBy
<1>10. TurnsKnown'
  <2>1. \A i \in DOMAIN q : q[i].op = "erase" => kernel.request.kind = "erase"
    BY <1>4 DEF Following, RequestQueued, Asks
  <2> QED BY <1>2, <1>4, <1>5, <1>8, <2>1 DEF Following, TurnsKnown, PlayOrStop
<1>11. IF Native' THEN PadFollows' ELSE HandlerFollows'
  BY <1>1, <1>4, QueueGrows
<1> QED BY <1>6, <1>7, <1>9, <1>10, <1>11 DEF Following

LEMMA PlaysFollows ==
  ASSUME KernelInv, NEW id \in Ids, Plays(id) \/ Stops(id)
  PROVE  KernelInv'
<1>0. DOMAIN kernel = {"owned", "effects", "playing", "gain", "request", "events", "plays"}
      /\ kernel.events \in Seq(KernelEvents)
  BY DEF KernelInv, ShapeOK
<1>1. CASE Plays(id)
  <2> DEFINE a == [op |-> "play", id |-> id]
  <2>1. /\ UNCHANGED <<setup, ff, pad, faults>> /\ setup.ff # "off" /\ id \in kernel.owned
        /\ kernel' = [kernel EXCEPT !.events = kernel.events \o <<a>>,
                                    !.playing = @ \cup {id}, !.plays = @ + 1]
    BY <1>1 DEF Plays, Room, Queue
  <2>2. a \in KernelEvents /\ ~Asks(a) /\ \A i \in Ids : PlayOrStop(a, i) => i \in kernel.owned
    BY <2>1 DEF KernelEvents, Asks, PlayOrStop
  <2>3. TurnedBy(a, kernel.playing) = kernel.playing \cup {id} /\ GainBy(a, kernel.gain) = kernel.gain
    BY DEF TurnedBy, GainBy
  <2>4. kernel.events \o <<a>> = Append(kernel.events, a)
    BY <1>0, <2>2
  <2> HIDE DEF a
  <2>5. /\ DOMAIN kernel' = DOMAIN kernel /\ kernel'.events = Append(kernel.events, a)
        /\ kernel'.request = kernel.request /\ kernel'.owned = kernel.owned
        /\ kernel'.effects = kernel.effects /\ kernel'.playing = kernel.playing \cup {id}
        /\ kernel'.gain = kernel.gain
    BY <1>0, <2>1, <2>4
  <2> QED BY <2>1, <2>2, <2>3, <2>5, TellsFollows
<1>2. CASE Stops(id)
  <2> DEFINE a == [op |-> "stop", id |-> id]
  <2>1. /\ UNCHANGED <<setup, ff, pad, faults>> /\ setup.ff # "off" /\ id \in kernel.owned
        /\ kernel' = [kernel EXCEPT !.events = kernel.events \o <<a>>, !.playing = @ \ {id}]
    BY <1>2 DEF Stops, Room, Queue
  <2>2. a \in KernelEvents /\ ~Asks(a) /\ \A i \in Ids : PlayOrStop(a, i) => i \in kernel.owned
    BY <2>1 DEF KernelEvents, Asks, PlayOrStop
  <2>3. TurnedBy(a, kernel.playing) = kernel.playing \ {id} /\ GainBy(a, kernel.gain) = kernel.gain
    BY DEF TurnedBy, GainBy
  <2>4. kernel.events \o <<a>> = Append(kernel.events, a)
    BY <1>0, <2>2
  <2> HIDE DEF a
  <2>5. /\ DOMAIN kernel' = DOMAIN kernel /\ kernel'.events = Append(kernel.events, a)
        /\ kernel'.request = kernel.request /\ kernel'.owned = kernel.owned
        /\ kernel'.effects = kernel.effects /\ kernel'.playing = kernel.playing \ {id}
        /\ kernel'.gain = kernel.gain
    BY <1>0, <2>1, <2>4
  <2> QED BY <2>1, <2>2, <2>3, <2>5, TellsFollows
<1> QED BY <1>1, <1>2

LEMMA SetsGainFollows ==
  ASSUME KernelInv, NEW gain \in Gains, SetsGain(gain)
  PROVE  KernelInv'
<1> DEFINE a == [op |-> "gain", gain |-> gain]
<1>0. DOMAIN kernel = {"owned", "effects", "playing", "gain", "request", "events", "plays"}
      /\ kernel.events \in Seq(KernelEvents)
  BY DEF KernelInv, ShapeOK
<1>1. /\ UNCHANGED <<setup, ff, pad, faults>> /\ setup.ff # "off"
      /\ kernel' = [kernel EXCEPT !.events = kernel.events \o <<a>>, !.gain = gain]
  BY DEF SetsGain, Room, Queue
<1>2. a \in KernelEvents /\ ~Asks(a) /\ \A i \in Ids : ~PlayOrStop(a, i)
  BY DEF KernelEvents, Asks, PlayOrStop
<1>3. TurnedBy(a, kernel.playing) = kernel.playing /\ GainBy(a, kernel.gain) = gain
  BY DEF TurnedBy, GainBy
<1>4. kernel.events \o <<a>> = Append(kernel.events, a)
  BY <1>0, <1>2
<1> HIDE DEF a
<1>5. /\ DOMAIN kernel' = DOMAIN kernel /\ kernel'.events = Append(kernel.events, a)
      /\ kernel'.request = kernel.request /\ kernel'.owned = kernel.owned
      /\ kernel'.effects = kernel.effects /\ kernel'.playing = kernel.playing
      /\ kernel'.gain = gain
  BY <1>0, <1>1, <1>4
<1> QED BY <1>1, <1>2, <1>3, <1>5, TellsFollows
LEMMA ErasesFollows ==
  ASSUME KernelInv, NEW id \in Ids, Erases(id)
  PROVE  KernelInv'
<1> DEFINE a == [op |-> "stop", id |-> id]
           b == [op |-> "erase"]
           q == kernel.events
           r == Append(Append(q, a), b)
<1>1. /\ UNCHANGED <<setup, ff, pad, faults>> /\ setup.ff # "off"
      /\ kernel.request = NoRequest /\ id \in kernel.owned
      /\ kernel' = [kernel EXCEPT !.request = [kind |-> "erase", id |-> id],
                                  !.owned = @ \ {id}, !.playing = @ \ {id},
                                  !.events = q \o <<a, b>>]
  BY DEF Erases, Room, Queue
<1>2. ShapeOK /\ a \in KernelEvents /\ b \in KernelEvents /\ q \in Seq(KernelEvents)
  BY DEF KernelInv, ShapeOK, KernelEvents
<1>3. q \o <<a, b>> = r
  BY <1>2
<1>4. /\ DOMAIN kernel' = DOMAIN kernel
      /\ kernel'.events = r
      /\ kernel'.request = [kind |-> "erase", id |-> id]
      /\ kernel'.owned = kernel.owned \ {id} /\ kernel'.effects = kernel.effects
      /\ kernel'.playing = kernel.playing \ {id} /\ kernel'.gain = kernel.gain
  BY <1>1, <1>2, <1>3 DEF ShapeOK
<1>5. Append(q, a) \in Seq(KernelEvents) /\ r \in Seq(KernelEvents)
  BY <1>2, AppendAt
<1>6. /\ DOMAIN r = 1..(Len(q) + 2) /\ DOMAIN q = 1..Len(q) /\ Len(q) \in Nat
      /\ \A i \in 1..Len(q) : r[i] = q[i]
      /\ r[Len(q) + 1] = a /\ r[Len(q) + 2] = b
  BY <1>2, <1>5
<1>7. a.op = "stop" /\ a.id = id /\ b.op = "erase"
  OBVIOUS
<1>8. TurnedBy(a, kernel.playing) = kernel.playing \ {id} /\ GainBy(a, kernel.gain) = kernel.gain
  BY DEF TurnedBy, GainBy
<1>9. /\ TurnedBy(b, kernel.playing \ {id}) = kernel.playing \ {id}
      /\ GainBy(b, kernel.gain) = kernel.gain
  BY DEF TurnedBy, GainBy
<1> HIDE DEF a, b
<1>10. ShapeOK'
  BY <1>1, <1>2, <1>4, <1>5 DEF ShapeOK
<1>11. SUFFICES ASSUME faults = 0, Following PROVE Following'
  BY <1>1, <1>10 DEF KernelInv
<1>12. \A i \in DOMAIN q : ~Asks(q[i])
  BY <1>1, <1>11 DEF Following, RequestQueued, NoRequest, Asks
<1> HIDE DEF r
<1>13. RequestQueued'
  <2>1. \A i \in DOMAIN r : Asks(r[i]) => i = Len(q) + 2
    BY <1>6, <1>7, <1>12 DEF Asks
  <2> QED BY <1>4, <1>6, <1>7, <2>1 DEF RequestQueued
<1>14. kernel.owned = DOMAIN kernel.effects
  BY <1>1, <1>11 DEF Following, OwnedAreEffects, NoRequest
<1>15. UploadLegal' /\ OwnedAreEffects' /\ EraseLegal'
  BY <1>1, <1>4, <1>14 DEF UploadLegal, OwnedAreEffects, EraseLegal
<1>16. TurnsKnown'
  <2>1. \A i \in DOMAIN r : i \in DOMAIN q \/ i = Len(q) + 1 \/ i = Len(q) + 2
    BY <1>6
  <2>2. ASSUME NEW i \in DOMAIN r, NEW k \in Ids, PlayOrStop(r[i], k)
        PROVE  k \in DOMAIN kernel.effects
    <3>1. CASE i \in DOMAIN q
      BY <1>6, <1>11, <2>2, <3>1 DEF Following, TurnsKnown
    <3>2. CASE i = Len(q) + 1
      BY <1>1, <1>6, <1>7, <1>14, <2>2, <3>2 DEF PlayOrStop
    <3>3. CASE i = Len(q) + 2
      BY <1>6, <1>7, <2>2, <3>3 DEF PlayOrStop
    <3> QED BY <2>1, <3>1, <3>2, <3>3
  <2>3. ASSUME NEW i \in DOMAIN r, NEW j \in DOMAIN r, r[i].op = "erase", i < j
        PROVE  FALSE
    <3>1. i \notin DOMAIN q
      BY <1>6, <1>12, <2>3 DEF Asks
    <3> QED BY <1>6, <1>7, <2>3, <3>1
  <2> QED BY <1>4, <2>2, <2>3 DEF TurnsKnown
<1>17. Native' = Native
  BY <1>1 DEF Native
<1>18. ASSUME Native PROVE PadFollows'
  <2>1. PadFollows
    BY <1>11, <1>18 DEF Following
  <2>2. LeavesPlaying(Append(q, a), pad.playing, kernel.playing \ {id})
    <3>1. LeavesPlaying(q, pad.playing, kernel.playing)
      BY <2>1 DEF PadFollows
    <3> HIDE DEF q
    <3>2. LeavesPlaying(Append(q, a), pad.playing, TurnedBy(a, kernel.playing))
      BY <1>2, <3>1, PlayingAppended
    <3> QED BY <1>8, <3>2
  <2>3. LeavesPlaying(r, pad.playing, kernel.playing \ {id})
    BY <1>2, <1>5, <1>9, <2>2, PlayingAppended DEF r
  <2>4. "gain" \in setup.features => LeavesGain(Append(q, a), pad.gain, kernel.gain)
    BY <1>2, <1>8, <2>1, GainAppended DEF PadFollows
  <2>5. "gain" \in setup.features => LeavesGain(r, pad.gain, kernel.gain)
    BY <1>2, <1>5, <1>9, <2>4, GainAppended DEF r
  <2> QED BY <1>1, <1>4, <2>1, <2>3, <2>5 DEF PadFollows
<1>19. ASSUME ~Native PROVE HandlerFollows'
  <2>1. HandlerFollows
    BY <1>11, <1>19 DEF Following
  <2>2. LeavesGain(Append(q, a), ff.gain, kernel.gain)
    BY <1>2, <1>8, <2>1, GainAppended DEF HandlerFollows
  <2>3. LeavesGain(r, ff.gain, kernel.gain)
    BY <1>2, <1>5, <1>9, <2>2, GainAppended DEF r
  <2> QED BY <1>1, <1>4, <2>1, <2>3 DEF HandlerFollows
<1> QED BY <1>13, <1>15, <1>16, <1>17, <1>18, <1>19 DEF Following

LEMMA GivesUpFollows == KernelInv /\ GivesUp => KernelInv'
<1> SUFFICES ASSUME KernelInv, GivesUp PROVE KernelInv'
  OBVIOUS
<1>1. UNCHANGED <<setup, ff, pad>> /\ faults' = faults + 1 /\ ShapeOK
  BY DEF GivesUp, KernelInv
<1>2. \E o : kernel' = [kernel EXCEPT !.request = NoRequest, !.owned = o]
  BY DEF GivesUp
<1>3. /\ DOMAIN kernel' = DOMAIN kernel /\ kernel'.events = kernel.events
      /\ kernel'.playing = kernel.playing
  BY <1>1, <1>2 DEF ShapeOK
<1>4. ShapeOK' /\ faults' # 0
  BY <1>1, <1>3 DEF ShapeOK
<1> QED BY <1>4 DEF KernelInv

-----------------------------------------------------------------------------
(* The driver, which takes the first event of the queue.                    *)

(* What becomes of the requests when the event that was read is none.       *)
LEMMA QueueShrinks ==
  ASSUME ShapeOK, Following, kernel.events # <<>>, ~Asks(First), kernel' = Read,
         UNCHANGED setup
  PROVE  RequestQueued' /\ UploadLegal' /\ OwnedAreEffects' /\ EraseLegal' /\ TurnsKnown'
<1> DEFINE q == kernel.events
<1>1. /\ kernel'.events = Tail(q) /\ kernel'.request = kernel.request
      /\ kernel'.owned = kernel.owned /\ kernel'.effects = kernel.effects
      /\ kernel'.playing = kernel.playing
  BY DEF ShapeOK, Read
<1>2. /\ DOMAIN Tail(q) = 1..(Len(q) - 1) /\ DOMAIN q = 1..Len(q) /\ Len(q) \in Nat \ {0}
      /\ \A i \in 1..(Len(q) - 1) : Tail(q)[i] = q[i + 1]
  BY TailAt DEF ShapeOK
<1>3. \A i \in DOMAIN Tail(q) : i \in Int /\ i + 1 \in DOMAIN q /\ Tail(q)[i] = q[i + 1]
  BY <1>2
<1>4. RequestQueued'
  BY <1>1, <1>3 DEF Following, RequestQueued
<1>5. UploadLegal' /\ OwnedAreEffects' /\ EraseLegal'
  BY <1>1 DEF Following, UploadLegal, OwnedAreEffects, EraseLegal
<1>6. TurnsKnown'
  BY <1>1, <1>3 DEF Following, TurnsKnown
<1> QED BY <1>4, <1>5, <1>6

LEMMA ReadPlayFollows == KernelInv /\ ReadPlay => KernelInv'
<1> SUFFICES ASSUME KernelInv, ReadPlay PROVE KernelInv'
  OBVIOUS
<1> DEFINE q == kernel.events
<1>1. /\ UNCHANGED <<setup, faults>> /\ q # <<>> /\ First.op \in {"play", "stop"}
      /\ kernel' = Read /\ ShapeOK
  BY DEF ReadPlay, KernelInv
<1>2. q \in Seq(KernelEvents) /\ First \in KernelEvents /\ First.id \in Ids /\ Tail(q) \in Seq(KernelEvents)
  BY <1>1, EventKinds, TailAt DEF ShapeOK, First
<1>3. /\ DOMAIN kernel' = DOMAIN kernel
      /\ kernel'.events = Tail(q) /\ kernel'.playing = kernel.playing
      /\ kernel'.effects = kernel.effects /\ kernel'.gain = kernel.gain
  BY <1>1 DEF ShapeOK, Read
<1>4. Native' = Native
  BY <1>1 DEF Native
<1>5. CASE Native
  <2>1. pad' = PadTurned(pad, First.id, First.op = "play") /\ ff' = ff
    BY <1>5 DEF ReadPlay
  <2>2. ShapeOK'
    BY <1>1, <1>2, <1>3, <2>1 DEF ShapeOK, PadTurned
  <2>3. SUFFICES ASSUME setup.ff # "off", faults = 0, Following PROVE PadFollows'
    BY <1>1, <1>4, <1>5, <2>2, QueueShrinks DEF KernelInv, Following, Asks
  <2>4. PadFollows /\ First.id \in DOMAIN kernel.effects
    <3>1. 1 \in DOMAIN q /\ q[1] = First
      BY <1>1, <1>2 DEF First
    <3>2. PlayOrStop(q[1], First.id)
      BY <1>1, <3>1 DEF PlayOrStop
    <3> QED BY <1>2, <1>5, <2>3, <3>1, <3>2 DEF Following, TurnsKnown
  <2>5. /\ pad'.effects = pad.effects /\ pad'.ids = pad.ids /\ pad'.gain = pad.gain
        /\ pad'.playing = TurnedBy(First, pad.playing)
    BY <1>1, <2>1, <2>4 DEF ShapeOK, PadTurned, PadFollows, TurnedBy
  <2>6. LeavesPlaying(Tail(q), pad'.playing, kernel.playing)
    BY <1>1, <1>2, <2>4, <2>5, PlayingRead DEF PadFollows, First
  <2>7. "gain" \in setup.features => LeavesGain(Tail(q), pad.gain, kernel.gain)
    <3>1. GainBy(First, pad.gain) = pad.gain
      BY <1>1 DEF GainBy
    <3> QED BY <1>1, <1>2, <2>4, <3>1, GainRead DEF PadFollows, First
  <2> QED BY <1>1, <1>3, <2>4, <2>5, <2>6, <2>7 DEF PadFollows
<1>6. CASE ~Native
  <2>1. ff' = [ff EXCEPT !.effects = Turned(@, First.id, First.op = "play")] /\ pad' = pad
    BY <1>6 DEF ReadPlay
  <2>2. /\ DOMAIN ff' = DOMAIN ff /\ ff'.gain = ff.gain
        /\ ff'.effects = Turned(ff.effects, First.id, First.op = "play")
    BY <1>1, <2>1 DEF ShapeOK
  <2>3. ShapeOK'
    BY <1>1, <1>2, <1>3, <2>1, <2>2 DEF ShapeOK
  <2>4. SUFFICES ASSUME setup.ff # "off", faults = 0, Following PROVE HandlerFollows'
    BY <1>1, <1>4, <1>6, <2>3, QueueShrinks DEF KernelInv, Following, Asks
  <2>5. HandlerFollows
    BY <1>6, <2>4 DEF Following
  <2>6. DOMAIN ff'.effects = DOMAIN ff.effects
    BY <2>2 DEF Turned
  <2>7. ASSUME NEW id \in DOMAIN ff.effects
        PROVE  EffectOK(ff'.effects[id]) /\ Describes(ff'.effects[id], kernel.effects[id])
    <3> DEFINE f == ff.effects[id]
    <3>1. EffectOK(f) /\ Describes(f, kernel.effects[id])
      BY <2>5 DEF HandlerFollows
    <3>2. ff'.effects[id] \in {f, Playing(f), Stopped(f)}
      BY <2>2 DEF Turned
    <3> HIDE DEF f
    <3>3. EffectOK(Playing(f)) /\ \A field \in Described : Playing(f)[field] = f[field]
      BY <3>1 DEF EffectOK, Playing, EffectFields, Described
    <3>4. EffectOK(Stopped(f)) /\ \A field \in Described : Stopped(f)[field] = f[field]
      BY <3>1 DEF EffectOK, Stopped, EffectFields, Described
    <3> QED BY <3>1, <3>2, <3>3, <3>4 DEF Describes
  <2>8. LeavesGain(Tail(q), ff.gain, kernel.gain)
    <3>1. GainBy(First, ff.gain) = ff.gain
      BY <1>1 DEF GainBy
    <3> QED BY <1>1, <1>2, <2>5, <3>1, GainRead DEF HandlerFollows, First
  <2> QED BY <1>3, <2>2, <2>5, <2>6, <2>7, <2>8 DEF HandlerFollows
<1> QED BY <1>5, <1>6

LEMMA ReadGainFollows == KernelInv /\ ReadGain => KernelInv'
<1> SUFFICES ASSUME KernelInv, ReadGain PROVE KernelInv'
  OBVIOUS
<1> DEFINE q == kernel.events
<1>1. /\ UNCHANGED <<setup, faults>> /\ q # <<>> /\ First.op = "gain"
      /\ kernel' = Read /\ ShapeOK
  BY DEF ReadGain, KernelInv
<1>2. q \in Seq(KernelEvents) /\ Tail(q) \in Seq(KernelEvents)
  BY <1>1, TailAt DEF ShapeOK
<1>3. /\ DOMAIN kernel' = DOMAIN kernel
      /\ kernel'.events = Tail(q) /\ kernel'.playing = kernel.playing
      /\ kernel'.effects = kernel.effects /\ kernel'.gain = kernel.gain
  BY <1>1 DEF ShapeOK, Read
<1>4. Native' = Native
  BY <1>1 DEF Native
<1>5. CASE Native
  <2>1. pad' = PadGain(pad, First.gain, setup.features) /\ ff' = ff
    BY <1>5 DEF ReadGain
  <2>2. /\ DOMAIN pad' = DOMAIN pad
        /\ pad'.effects = pad.effects /\ pad'.ids = pad.ids /\ pad'.playing = pad.playing
        /\ "gain" \in setup.features => pad'.gain = GainBy(First, pad.gain)
    BY <1>1, <2>1 DEF ShapeOK, PadGain, GainBy
  <2>3. ShapeOK'
    BY <1>1, <1>2, <1>3, <2>1, <2>2 DEF ShapeOK
  <2>4. SUFFICES ASSUME setup.ff # "off", faults = 0, Following PROVE PadFollows'
    BY <1>1, <1>4, <1>5, <2>3, QueueShrinks DEF KernelInv, Following, Asks
  <2>5. PadFollows
    BY <1>5, <2>4 DEF Following
  <2>6. LeavesPlaying(Tail(q), pad.playing, kernel.playing)
    <3>1. TurnedBy(First, pad.playing) = pad.playing
      BY <1>1 DEF TurnedBy
    <3> QED BY <1>1, <1>2, <2>5, <3>1, PlayingRead DEF PadFollows, First
  <2>7. "gain" \in setup.features => LeavesGain(Tail(q), pad'.gain, kernel.gain)
    BY <1>1, <1>2, <2>2, <2>5, GainRead DEF PadFollows, First
  <2> QED BY <1>1, <1>3, <2>2, <2>5, <2>6, <2>7 DEF PadFollows
<1>6. CASE ~Native
  <2>1. ff' = [ff EXCEPT !.gain = First.gain] /\ pad' = pad
    BY <1>6 DEF ReadGain
  <2>2. /\ DOMAIN ff' = DOMAIN ff /\ ff'.effects = ff.effects
        /\ ff'.gain = GainBy(First, ff.gain)
    BY <1>1, <2>1 DEF ShapeOK, GainBy
  <2>3. ShapeOK'
    BY <1>1, <1>2, <1>3, <2>1, <2>2 DEF ShapeOK
  <2>4. SUFFICES ASSUME setup.ff # "off", faults = 0, Following PROVE HandlerFollows'
    BY <1>1, <1>4, <1>6, <2>3, QueueShrinks DEF KernelInv, Following, Asks
  <2>5. HandlerFollows
    BY <1>6, <2>4 DEF Following
  <2>6. LeavesGain(Tail(q), ff'.gain, kernel.gain)
    BY <1>1, <1>2, <2>2, <2>5, GainRead DEF HandlerFollows, First
  <2> QED BY <1>3, <2>2, <2>5, <2>6 DEF HandlerFollows
<1> QED BY <1>5, <1>6
(* An answered request was the only one, and turns of an erased effect were  *)
(* before it.                                                               *)
LEMMA QueueAnswered ==
  ASSUME ShapeOK, Following, kernel.events # <<>>, Asks(First)
  PROVE  LET r == Tail(kernel.events)
         IN  /\ kernel.request.kind = First.op
             /\ \A i \in DOMAIN r : ~Asks(r[i])
             /\ \A i \in DOMAIN r : \A id \in Ids :
                  PlayOrStop(r[i], id) =>
                    /\ id \in DOMAIN kernel.effects
                    /\ First.op = "erase" => id # kernel.request.id
<1> DEFINE q == kernel.events
           r == Tail(q)
<1>1. /\ DOMAIN r = 1..(Len(q) - 1) /\ DOMAIN q = 1..Len(q) /\ Len(q) \in Nat \ {0}
      /\ \A i \in 1..(Len(q) - 1) : r[i] = q[i + 1]
      /\ First = q[1]
  BY TailAt DEF ShapeOK, First
<1>2. \A i \in DOMAIN r : i \in Nat \ {0} /\ i + 1 \in DOMAIN q /\ r[i] = q[i + 1]
  BY <1>1
<1>3. 1 \in DOMAIN q
  BY <1>1
<1>4. kernel.request.kind = First.op
  BY <1>1, <1>3 DEF Following, RequestQueued
<1> HIDE DEF r, q
<1>5. \A i \in DOMAIN r : ~Asks(r[i])
  <2>1. SUFFICES ASSUME NEW i \in DOMAIN r, Asks(r[i]) PROVE FALSE
    OBVIOUS
  <2>2. i + 1 = 1
    BY <1>1, <1>2, <1>3, <2>1 DEF Following, RequestQueued, q
  <2> QED BY <1>2, <2>2
<1>6. ASSUME NEW i \in DOMAIN r, NEW id \in Ids, PlayOrStop(r[i], id)
      PROVE  /\ id \in DOMAIN kernel.effects
             /\ First.op = "erase" => id # kernel.request.id
  <2>1. i + 1 \in DOMAIN q /\ 1 < i + 1 /\ PlayOrStop(q[i + 1], id)
    BY <1>2, <1>6
  <2> QED BY <1>1, <1>3, <2>1 DEF Following, TurnsKnown, q
<1> QED BY <1>4, <1>5, <1>6 DEF r, q

(* Reading the event of a request neither turns an effect nor sets the gain. *)
LEMMA AnswerTurnsNothing ==
  ASSUME ShapeOK, kernel.events # <<>>, Asks(First)
  PROVE  LET r == Tail(kernel.events)
         IN  /\ \A before, after : LeavesPlaying(kernel.events, before, after)
                                     => LeavesPlaying(r, before, after)
             /\ \A before, after : LeavesGain(kernel.events, before, after)
                                     => LeavesGain(r, before, after)
<1>1. \A before : TurnedBy(First, before) = before /\ GainBy(First, before) = before
  BY DEF TurnedBy, GainBy, Asks
<1> QED BY <1>1, PlayingRead, GainRead DEF ShapeOK, First

LEMMA ReadUploadFollows ==
  ASSUME KernelInv, NEW refused \in BOOLEAN, ReadUpload(refused)
  PROVE  KernelInv'
<1> DEFINE q == kernel.events
           id == IF Waits("upload") THEN kernel.request.id ELSE 0
           e == IF Waits("upload") THEN kernel.request.effect ELSE ZeroEffect
           grown == [i \in DOMAIN kernel.effects \cup {id} |->
                       IF i = id THEN e ELSE kernel.effects[i]]
<1>1. /\ ShapeOK /\ UNCHANGED setup /\ q # <<>> /\ First.op = "upload"
      /\ faults' = IF refused THEN faults + 1 ELSE faults
      /\ kernel' = IF Waits("upload")
                   THEN [Read EXCEPT !.request = NoRequest, !.owned = @ \cup {id},
                           !.effects = [i \in DOMAIN @ \cup {id} |-> IF i = id THEN e ELSE @[i]]]
                   ELSE Read
      /\ IF Native THEN pad' = (IF refused THEN pad ELSE PadUploaded(pad, id, e)) /\ ff' = ff
         ELSE ff' = [ff EXCEPT !.effects = Uploaded(@, id, e)] /\ pad' = pad
  BY DEF ReadUpload, KernelInv
<1>2. /\ q \in Seq(KernelEvents) /\ Tail(q) \in Seq(KernelEvents)
      /\ DOMAIN Read = DOMAIN kernel /\ Read.events = Tail(q)
      /\ Read.effects = kernel.effects /\ Read.owned = kernel.owned
      /\ Read.playing = kernel.playing /\ Read.gain = kernel.gain
  BY <1>1, TailAt DEF ShapeOK, Read
<1>3. /\ DOMAIN kernel' = DOMAIN kernel
      /\ kernel'.events = Tail(q) /\ kernel'.playing = kernel.playing /\ kernel'.gain = kernel.gain
      /\ Waits("upload") => /\ kernel'.request = NoRequest
                            /\ kernel'.owned = kernel.owned \cup {id}
                            /\ kernel'.effects = grown
  <2>1. CASE Waits("upload")
    <3> HIDE DEF id, e
    <3> QED BY <1>1, <1>2, <2>1 DEF ShapeOK
  <2>2. CASE ~Waits("upload")
    BY <1>1, <1>2, <2>2
  <2> QED BY <2>1, <2>2
<1> HIDE DEF id, e
<1>4. /\ DOMAIN pad' = DOMAIN pad /\ pad'.playing = pad.playing /\ pad'.gain = pad.gain
      /\ DOMAIN ff' = DOMAIN ff /\ ff'.gain = ff.gain
  BY <1>1 DEF ShapeOK, PadUploaded
<1>5. ShapeOK'
  BY <1>1, <1>2, <1>3, <1>4 DEF ShapeOK
<1>6. SUFFICES ASSUME setup.ff # "off", faults = 0, ~refused, Following PROVE Following'
  BY <1>1, <1>5 DEF KernelInv, ShapeOK
<1>7. Asks(First)
  BY <1>1 DEF Asks
<1>8. /\ Waits("upload")
      /\ \A i \in DOMAIN Tail(q) : ~Asks(Tail(q)[i])
      /\ \A i \in DOMAIN Tail(q) : \A k \in Ids :
           PlayOrStop(Tail(q)[i], k) => k \in DOMAIN kernel.effects
  BY <1>1, <1>6, <1>7, QueueAnswered DEF Waits
<1>9. id = kernel.request.id /\ e = kernel.request.effect /\ kernel.request.kind = "upload"
  BY <1>8 DEF id, e, Waits
<1>10. /\ id \in Ids /\ e \in Effects /\ e.type \in Announced(setup.features)
       /\ kernel.owned = DOMAIN kernel.effects
       /\ id \in DOMAIN kernel.effects
            \/ (Free(DOMAIN kernel.effects) # {} /\ id = Min(Free(DOMAIN kernel.effects)))
  BY <1>6, <1>9 DEF Following, UploadLegal, OwnedAreEffects
<1>11. RequestQueued' /\ TurnsKnown' /\ EraseLegal' /\ UploadLegal' /\ OwnedAreEffects'
  <2>1. RequestQueued'
    BY <1>3, <1>8 DEF RequestQueued
  <2>2. DOMAIN kernel'.effects = DOMAIN kernel.effects \cup {id}
    BY <1>3, <1>8
  <2>3. TurnsKnown'
    BY <1>3, <1>8, <2>2 DEF TurnsKnown, Asks
  <2> HIDE DEF grown
  <2>4. kernel'.request.kind = "none" /\ kernel'.owned = DOMAIN kernel'.effects
    BY <1>3, <1>8, <1>10, <2>2 DEF NoRequest
  <2>5. EraseLegal' /\ UploadLegal' /\ OwnedAreEffects'
    BY <2>4 DEF EraseLegal, UploadLegal, OwnedAreEffects
  <2> QED BY <2>1, <2>3, <2>5
<1>12. CASE Native
  <2>1. PadFollows /\ pad' = PadUploaded(pad, id, e)
    BY <1>1, <1>6, <1>12 DEF Following
  <2>2. e.type # "none"
    BY <1>1, <1>10, DevicesAssumption DEF Announced, ZeroEffect, ShapeOK
  <2>3. pad.effects = kernel.effects /\ pad.ids = DOMAIN kernel.effects
    BY <2>1 DEF PadFollows
  <2>4. PadAccepts(pad, id, e)
    BY <1>10, <2>2, <2>3 DEF PadAccepts
  <2>5. (IF id \in pad.ids THEN id ELSE Min(Free(DOMAIN pad.effects))) = id
    BY <1>10, <2>3
  <2>6. pad' = [pad EXCEPT !.effects = grown, !.ids = DOMAIN kernel.effects \cup {id}]
    BY <2>1, <2>3, <2>4, <2>5 DEF PadUploaded
  <2>7. pad'.effects = grown /\ pad'.ids = DOMAIN grown
    BY <1>1, <2>6 DEF ShapeOK
  <2>8. /\ LeavesPlaying(Tail(q), pad.playing, kernel.playing)
        /\ "gain" \in setup.features => LeavesGain(Tail(q), pad.gain, kernel.gain)
    BY <1>1, <1>7, <2>1, AnswerTurnsNothing DEF PadFollows
  <2> HIDE DEF grown
  <2>9. PadFollows'
    BY <1>1, <1>3, <1>4, <1>8, <2>7, <2>8 DEF PadFollows
  <2> QED BY <1>1, <1>11, <1>12, <2>9 DEF Following, Native
<1>13. CASE ~Native
  <2>1. HandlerFollows /\ ff' = [ff EXCEPT !.effects = Uploaded(@, id, e)]
    BY <1>1, <1>6, <1>13 DEF Following
  <2>2. ff'.effects = Uploaded(ff.effects, id, e)
    BY <1>1, <2>1 DEF ShapeOK
  <2>3. DOMAIN ff.effects = DOMAIN kernel.effects
    BY <2>1 DEF HandlerFollows
  <2>4. DOMAIN ff'.effects = DOMAIN ff.effects \cup {id}
    BY <2>2 DEF Uploaded
  <2>5. EffectOK(NewEffect(e)) /\ DOMAIN NewEffect(e) = EffectFields
    BY <1>10, DevicesAssumption DEF EffectOK, NewEffect, EffectFields, Described
  <2>6. ASSUME NEW i \in DOMAIN ff'.effects
        PROVE  EffectOK(ff'.effects[i]) /\ Describes(ff'.effects[i], grown[i])
    <3>1. CASE i # id
      <4>1. ff'.effects[i] = ff.effects[i] /\ grown[i] = kernel.effects[i] /\ i \in DOMAIN ff.effects
        BY <2>2, <2>3, <2>4, <2>6, <3>1 DEF Uploaded
      <4> QED BY <2>1, <4>1 DEF HandlerFollows
    <3>2. CASE i = id /\ id \notin DOMAIN ff.effects
      <4>1. ff'.effects[i] = NewEffect(e) /\ grown[i] = e
        BY <2>2, <3>2 DEF Uploaded
      <4> QED BY <2>5, <4>1 DEF Describes
    <3>3. CASE i = id /\ id \in DOMAIN ff.effects
      <4> DEFINE old == ff.effects[id]
                 new == NewEffect(e)
      <4>1. /\ ff'.effects[i] = [new EXCEPT !.playing = old.playing, !.count = old.count,
                                            !.now = old.now]
            /\ grown[i] = e
        BY <2>2, <3>3 DEF Uploaded
      <4>2. old.count \in Nat
        BY <2>1, <3>3 DEF HandlerFollows, EffectOK
      <4> HIDE DEF old, new
      <4>3. EffectOK(new) /\ DOMAIN new = EffectFields
        BY <2>5 DEF new
      <4>4. EffectOK(ff'.effects[i])
        BY <4>1, <4>2, <4>3 DEF EffectOK, EffectFields, Described
      <4>5. \A field \in Described : ff'.effects[i][field] = new[field]
        BY <4>1, <4>3 DEF EffectFields, Described
      <4> QED BY <4>1, <4>4, <4>5 DEF Describes, new
    <3> QED BY <3>1, <3>2, <3>3
  <2>7. LeavesGain(Tail(q), ff.gain, kernel.gain)
    BY <1>1, <1>7, <2>1, AnswerTurnsNothing DEF HandlerFollows
  <2>8. DOMAIN ff'.effects = DOMAIN grown
    BY <2>3, <2>4
  <2> HIDE DEF grown
  <2>9. HandlerFollows'
    BY <1>3, <1>4, <1>8, <2>6, <2>7, <2>8 DEF HandlerFollows
  <2> QED BY <1>1, <1>11, <1>13, <2>9 DEF Following, Native
<1> QED BY <1>12, <1>13

LEMMA ReadEraseFollows == KernelInv /\ ReadErase => KernelInv'
<1> SUFFICES ASSUME KernelInv, ReadErase PROVE KernelInv'
  OBVIOUS
<1> DEFINE q == kernel.events
           id == IF Waits("erase") THEN kernel.request.id ELSE 0
<1>1. /\ ShapeOK /\ UNCHANGED <<setup, faults>> /\ q # <<>> /\ First.op = "erase"
      /\ kernel' = IF Waits("erase")
                   THEN [Read EXCEPT !.request = NoRequest, !.effects = Without(@, id)]
                   ELSE Read
      /\ IF Native THEN pad' = PadErased(pad, id) /\ ff' = ff
         ELSE ff' = [ff EXCEPT !.effects = Without(@, id)] /\ pad' = pad
  BY DEF ReadErase, KernelInv
<1>2. /\ q \in Seq(KernelEvents) /\ Tail(q) \in Seq(KernelEvents)
      /\ DOMAIN Read = DOMAIN kernel /\ Read.events = Tail(q)
      /\ Read.effects = kernel.effects /\ Read.owned = kernel.owned
      /\ Read.playing = kernel.playing /\ Read.gain = kernel.gain
  BY <1>1, TailAt DEF ShapeOK, Read
<1> HIDE DEF id
<1>3. /\ DOMAIN kernel' = DOMAIN kernel /\ kernel'.owned = kernel.owned
      /\ kernel'.events = Tail(q) /\ kernel'.playing = kernel.playing /\ kernel'.gain = kernel.gain
      /\ Waits("erase") => /\ kernel'.request = NoRequest
                           /\ kernel'.effects = Without(kernel.effects, id)
  BY <1>1, <1>2 DEF ShapeOK
<1>4. /\ DOMAIN pad' = DOMAIN pad /\ pad'.playing \subseteq pad.playing /\ pad'.gain = pad.gain
      /\ DOMAIN ff' = DOMAIN ff /\ ff'.gain = ff.gain
  BY <1>1 DEF ShapeOK, PadErased
<1>5. ShapeOK'
  BY <1>1, <1>2, <1>3, <1>4 DEF ShapeOK
<1>6. SUFFICES ASSUME setup.ff # "off", faults = 0, Following PROVE Following'
  BY <1>1, <1>5 DEF KernelInv
<1>7. Asks(First)
  BY <1>1 DEF Asks
<1>8. /\ Waits("erase") /\ id = kernel.request.id
      /\ \A i \in DOMAIN Tail(q) : ~Asks(Tail(q)[i])
      /\ \A i \in DOMAIN Tail(q) : \A k \in Ids :
           PlayOrStop(Tail(q)[i], k) => k \in DOMAIN kernel.effects /\ k # id
  BY <1>1, <1>6, <1>7, QueueAnswered DEF Waits, id
<1>9. /\ id \in DOMAIN kernel.effects /\ id \notin kernel.playing
      /\ kernel.owned = DOMAIN kernel.effects \ {id}
  BY <1>6, <1>8 DEF Following, EraseLegal, OwnedAreEffects, Waits
<1>10. DOMAIN kernel'.effects = DOMAIN kernel.effects \ {id}
  BY <1>3, <1>8 DEF Without
<1>11. RequestQueued' /\ TurnsKnown' /\ EraseLegal' /\ UploadLegal' /\ OwnedAreEffects'
  <2>1. RequestQueued'
    BY <1>3, <1>8 DEF RequestQueued
  <2>2. TurnsKnown'
    BY <1>3, <1>8, <1>10 DEF TurnsKnown, Asks
  <2>3. EraseLegal' /\ UploadLegal' /\ OwnedAreEffects'
    BY <1>3, <1>8, <1>9, <1>10 DEF EraseLegal, UploadLegal, OwnedAreEffects, NoRequest
  <2> QED BY <2>1, <2>2, <2>3
<1>12. CASE Native
  <2>1. PadFollows /\ pad' = PadErased(pad, id)
    BY <1>1, <1>6, <1>12 DEF Following
  <2>2. pad.effects = kernel.effects /\ pad.ids = DOMAIN kernel.effects
    BY <2>1 DEF PadFollows
  <2>3. pad' = [pad EXCEPT !.effects = Without(@, id), !.playing = @ \ {id}, !.ids = @ \ {id}]
    BY <1>9, <2>1, <2>2 DEF PadErased
  <2>4. /\ pad'.effects = Without(kernel.effects, id) /\ pad'.ids = DOMAIN kernel.effects \ {id}
        /\ pad'.playing = pad.playing \ {id}
    BY <1>1, <2>2, <2>3 DEF ShapeOK
  <2>5. /\ LeavesPlaying(Tail(q), pad.playing, kernel.playing)
        /\ "gain" \in setup.features => LeavesGain(Tail(q), pad.gain, kernel.gain)
    BY <1>1, <1>7, <2>1, AnswerTurnsNothing DEF PadFollows
  <2>6. pad'.playing = pad.playing
    <3>1. id \in pad.playing => FALSE
      <4>1. SUFFICES ASSUME id \in pad.playing PROVE FALSE
        OBVIOUS
      <4>2. id \in Ids
        BY <1>1, <4>1 DEF ShapeOK
      <4> QED BY <1>8, <1>9, <2>5, <4>1, <4>2 DEF LeavesPlaying
    <3> QED BY <2>4, <3>1
  <2>7. PadFollows'
    BY <1>1, <1>3, <1>4, <1>8, <1>10, <2>4, <2>5, <2>6 DEF PadFollows
  <2> QED BY <1>1, <1>11, <1>12, <2>7 DEF Following, Native
<1>13. CASE ~Native
  <2>1. HandlerFollows /\ ff' = [ff EXCEPT !.effects = Without(@, id)]
    BY <1>1, <1>6, <1>13 DEF Following
  <2>2. ff'.effects = Without(ff.effects, id)
    BY <1>1, <2>1 DEF ShapeOK
  <2>3. LeavesGain(Tail(q), ff.gain, kernel.gain)
    BY <1>1, <1>7, <2>1, AnswerTurnsNothing DEF HandlerFollows
  <2>4. HandlerFollows'
    BY <1>3, <1>4, <1>8, <1>10, <2>1, <2>2, <2>3 DEF HandlerFollows, Without
  <2> QED BY <1>1, <1>11, <1>13, <2>4 DEF Following, Native
<1> QED BY <1>12, <1>13

LEMMA KernelStep == KernelInv /\ [Next]_vars => KernelInv'
<1> SUFFICES ASSUME KernelInv, [Next]_vars PROVE KernelInv'
  OBVIOUS
<1>1. CASE \E new \in Moved, d \in Deltas : Message(new, d)
  BY <1>1, RumbleUnchanged DEF Message
<1>2. CASE \E d \in Ticks : Timeout(d)
  BY <1>2, TimeoutFollows
<1>3. CASE Applications
  BY <1>3, UploadsFollows, ErasesFollows, PlaysFollows, SetsGainFollows, GivesUpFollows
     DEF Applications
<1>4. CASE OnReadData
  BY <1>4, ReadPlayFollows, ReadGainFollows, ReadUploadFollows, ReadEraseFollows DEF OnReadData
<1>5. CASE UNCHANGED vars
  BY <1>5, RumbleUnchanged DEF vars
<1> QED BY <1>1, <1>2, <1>3, <1>4, <1>5 DEF Next

(* Once the queue is empty and nothing has failed, the driver or the pad    *)
(* has the effects the applications have, with the same ids and the same     *)
(* gain, and a pad plays what was played last: for any effects and any       *)
(* order of uploads, erasures, plays and timer callbacks (linux_uinput.cpp,  *)
(* force_feedback_handler.cpp, evdev_controller.cpp).                       *)
THEOREM EffectsKept == Spec => []EffectsFollowKernel
<1>1. Init => KernelInv
  BY InitKernel
<1>2. KernelInv /\ [Next]_vars => KernelInv'
  BY KernelStep
<1>3. KernelInv => EffectsFollowKernel
  <2> SUFFICES ASSUME KernelInv, setup.ff # "off", kernel.events = <<>>, faults = 0
               PROVE  IF Native
                      THEN /\ pad.effects = kernel.effects /\ pad.ids = DOMAIN kernel.effects
                           /\ pad.playing = kernel.playing
                           /\ "gain" \in setup.features => pad.gain = kernel.gain
                      ELSE /\ ff.gain = kernel.gain
                           /\ DOMAIN ff.effects = DOMAIN kernel.effects
                           /\ \A id \in DOMAIN ff.effects :
                                Describes(ff.effects[id], kernel.effects[id])
    BY DEF EffectsFollowKernel, Describes, Described
  <2>1. Following /\ ShapeOK /\ DOMAIN kernel.events = {}
    BY DEF KernelInv
  <2>2. ASSUME Native
        PROVE  /\ pad.effects = kernel.effects /\ pad.ids = DOMAIN kernel.effects
               /\ pad.playing = kernel.playing
               /\ "gain" \in setup.features => pad.gain = kernel.gain
    <3>1. PadFollows
      BY <2>1, <2>2 DEF Following
    <3>2. \A id \in Ids : id \in pad.playing <=> id \in kernel.playing
      BY <2>1, <3>1 DEF PadFollows, LeavesPlaying
    <3>3. pad.playing = kernel.playing
      BY <2>1, <3>2 DEF ShapeOK
    <3> QED BY <2>1, <3>1, <3>3 DEF PadFollows, LeavesGain
  <2>3. ASSUME ~Native
        PROVE  /\ ff.gain = kernel.gain
               /\ DOMAIN ff.effects = DOMAIN kernel.effects
               /\ \A id \in DOMAIN ff.effects : Describes(ff.effects[id], kernel.effects[id])
    <3>1. HandlerFollows
      BY <2>1, <2>3 DEF Following
    <3> QED BY <2>1, <3>1 DEF HandlerFollows, LeavesGain
  <2> QED BY <2>2, <2>3
<1> QED BY <1>1, <1>2, <1>3, PTL DEF Spec
-----------------------------------------------------------------------------
(* The axes. A key that is down and a motion that is repeated each have an   *)
(* axis that is deflected: it was not sent 0 last.                          *)
AxisFields == {"raw", "sent", "filters", "old", "stick", "rest", "timer"}

KeysHeld(A, S, on) ==
  /\ \A i \in DOMAIN A : A[i].kind = "key" => S[i].old = S[i].sent
  /\ \A p \in on : \E i \in DOMAIN A :
       /\ A[i].kind = "key" /\ p = <<i, Zone(A[i], S[i].sent)>>
       /\ Zone(A[i], S[i].sent) # 0

Repeats(a) == a.kind = "rel" /\ a.repeat # -1

MotionsDriven(A, S, repeats, extra) ==
  \A key \in DOMAIN repeats : \E i \in DOMAIN A :
    /\ Repeats(A[i]) /\ S[i].sent # 0
    /\ RepeatKey(Target(A[i], extra)) = key

Driven(A, S, o, extra) ==
  /\ DOMAIN S = DOMAIN A /\ \A i \in DOMAIN A : DOMAIN S[i] = AxisFields
  /\ DOMAIN o = {"repeats", "on", "abs"}
  /\ KeysHeld(A, S, o.on) /\ MotionsDriven(A, S, o.repeats, extra)

DrivenInv == setup \in Setups /\ Driven(setup.axes, axes, out, setup.extra_devices)

LEMMA AxisFacts ==
  ASSUME NEW s \in Setups, NEW i \in DOMAIN s.axes
  PROVE  LET a == s.axes[i]
         IN  /\ a.kind \in {"abs", "key", "rel", "rel-repeat"}
             /\ a.max \in Nat \ {0}
             /\ a.kind = "key" => a.threshold \in Nat \ {0}
             /\ a.kind = "rel" => a.value[1] \in Int /\ a.value[2] \in Nat \ {0}
                                 /\ (a.repeat = -1 \/ a.repeat \in Nat \ {0})
BY DevicesAssumption

(* A fraction of 0 is Zero, whatever its denominator. *)
LEMMA FloatOfZero ==
  ASSUME NEW d \in Nat \ {0}
  PROVE  Float(0, d) = Zero
<1>1. Magnitude(0) = 0 /\ Magnitude(d) = d /\ Magnitude(1) = 1
  BY DEF Magnitude
<1>2. 0 \div d = 0 /\ d \div d = 1
  OBVIOUS
<1>3. Quotient(0, d) = 0 /\ Quotient(d, d) = 1
  BY <1>1, <1>2 DEF Quotient
<1>4. Float(0, d) = <<1 * Quotient(0, d), 1 * Quotient(d, d)>>
  BY <1>1 DEF Float
<1> QED BY <1>3, <1>4 DEF Zero

(* A stick in the middle asks for no motion and no key.                     *)
LEMMA CentreAsksNothing ==
  ASSUME NEW s \in Setups, NEW i \in DOMAIN s.axes
  PROVE  LET a == s.axes[i]
         IN  /\ a.kind = "key" => Zone(a, 0) = 0
             /\ a.kind = "rel" => Times(a.value, Stick(a, 0)) = Zero
<1> DEFINE a == s.axes[i]
<1>1. ASSUME a.kind = "key" PROVE Zone(a, 0) = 0
  BY <1>1, AxisFacts DEF Zone
<1>2. ASSUME a.kind = "rel" PROVE Times(a.value, Stick(a, 0)) = Zero
  <2>1. Stick(a, 0) = Zero
    BY AxisFacts, FloatOfZero DEF Stick
  <2>2. a.value[1] * 0 = 0 /\ a.value[2] * 1 = a.value[2] /\ a.value[2] \in Nat \ {0}
    BY <1>2, AxisFacts
  <2>3. Times(a.value, Zero) = Float(0, a.value[2])
    BY <2>2 DEF Times, Zero
  <2> QED BY <2>1, <2>2, <2>3, FloatOfZero
<1> QED BY <1>1, <1>2

(* The handler of one axis: what it presses and repeats is its own.         *)
LEMMA HandledDriven ==
  ASSUME NEW s \in Setups, NEW i \in DOMAIN s.axes, NEW S, NEW o, NEW v, NEW extra,
         NEW t, DOMAIN t = AxisFields, t.sent = v, t.old = S[i].old,
         Driven(s.axes, S, o, extra)
  PROVE  LET r == Handled(i, s.axes[i], t, v, o, extra)
         IN  Driven(s.axes, [S EXCEPT ![i] = r.axis], r.out, extra)
<1> DEFINE A == s.axes
           a == s.axes[i]
           r == Handled(i, a, t, v, o, extra)
           T == [S EXCEPT ![i] = r.axis]
<1>1. /\ DOMAIN S = DOMAIN A /\ \A k \in DOMAIN A : DOMAIN S[k] = AxisFields
      /\ DOMAIN o = {"repeats", "on", "abs"}
      /\ KeysHeld(A, S, o.on) /\ MotionsDriven(A, S, o.repeats, extra)
  BY DEF Driven
<1>2. a.kind \in {"abs", "key", "rel", "rel-repeat"}
  BY AxisFacts
<1>3. ASSUME DOMAIN r.axis = AxisFields
      PROVE  /\ DOMAIN T = DOMAIN A /\ \A k \in DOMAIN A : DOMAIN T[k] = AxisFields
             /\ T[i] = r.axis /\ \A k \in DOMAIN A : k # i => T[k] = S[k]
  BY <1>1, <1>3
<1>4. CASE a.kind = "abs"
  <2>1. /\ r.axis = t /\ DOMAIN r.out = DOMAIN o
        /\ r.out.on = o.on /\ r.out.repeats = o.repeats
    BY <1>1, <1>4 DEF Handled
  <2> HIDE DEF r, T
  <2>2. KeysHeld(A, T, o.on)
    BY <1>1, <1>3, <1>4, <2>1 DEF KeysHeld
  <2>3. MotionsDriven(A, T, o.repeats, extra)
    BY <1>1, <1>3, <1>4, <2>1 DEF MotionsDriven, Repeats
  <2> QED BY <1>1, <1>3, <2>1, <2>2, <2>3 DEF Driven, r, T
<1>5. CASE a.kind = "rel-repeat"
  <2> DEFINE x == Stick(a, v)
             y == IF v = 0 THEN Zero ELSE t.timer
             n == [t EXCEPT !.stick = x, !.timer = y]
  <2>1. r = [axis |-> n, out |-> o]
    BY <1>5 DEF Handled, AxisFields
  <2>2. DOMAIN r.axis = AxisFields /\ r.out = o /\ r.axis.sent = v /\ r.axis.old = t.old
    <3>1. DOMAIN n = AxisFields /\ n.sent = t.sent /\ n.old = t.old
      <4> HIDE DEF x, y
      <4> QED BY DEF AxisFields
    <3> HIDE DEF n
    <3> QED BY <2>1, <3>1
  <2> HIDE DEF r, T
  <2>3. KeysHeld(A, T, o.on)
    BY <1>1, <1>3, <1>5, <2>2 DEF KeysHeld
  <2>4. MotionsDriven(A, T, o.repeats, extra)
    BY <1>1, <1>3, <1>5, <2>2 DEF MotionsDriven, Repeats
  <2> QED BY <1>1, <1>3, <2>2, <2>3, <2>4 DEF Driven, r, T
<1>6. CASE a.kind = "key"
  <2> DEFINE was == Zone(a, S[i].sent)
             is == Zone(a, v)
             on == KeysMoved(i, was, is, o.on)
  <2>1. S[i].old = S[i].sent
    BY <1>1, <1>6 DEF KeysHeld
  <2>2. r = [axis |-> [t EXCEPT !.old = v], out |-> [o EXCEPT !.on = on]]
    BY <1>1, <1>6, <2>1 DEF Handled
  <2>3. /\ DOMAIN r.axis = AxisFields /\ r.axis.sent = v /\ r.axis.old = v
        /\ DOMAIN r.out = DOMAIN o /\ r.out.on = on /\ r.out.repeats = o.repeats
    <3> HIDE DEF on
    <3> QED BY <1>1, <2>2 DEF AxisFields
  <2>4. \A p \in on : (p \in o.on /\ p # <<i, was>>) \/ (p = <<i, is>> /\ is # 0)
    <3>1. \A p \in o.on : p = <<i, was>> => was # 0
      BY <1>1 DEF KeysHeld
    <3> HIDE DEF was, is
    <3> QED BY <3>1 DEF KeysMoved
  <2>5. \A p \in o.on : \E k \in DOMAIN A :
          /\ A[k].kind = "key" /\ p = <<k, Zone(A[k], S[k].sent)>>
          /\ Zone(A[k], S[k].sent) # 0
    BY <1>1 DEF KeysHeld
  <2> HIDE DEF r, T, on
  <2>6. ASSUME NEW p \in on
        PROVE  \E k \in DOMAIN A : /\ A[k].kind = "key" /\ p = <<k, Zone(A[k], T[k].sent)>>
                                   /\ Zone(A[k], T[k].sent) # 0
    <3>1. CASE p = <<i, is>> /\ is # 0
      BY <1>3, <1>6, <2>3, <3>1
    <3>2. CASE p \in o.on /\ p # <<i, was>>
      <4>1. PICK k \in DOMAIN A : /\ A[k].kind = "key" /\ p = <<k, Zone(A[k], S[k].sent)>>
                                  /\ Zone(A[k], S[k].sent) # 0
        BY <2>5, <3>2
      <4>2. k # i
        BY <3>2, <4>1
      <4> QED BY <1>3, <2>3, <4>1, <4>2
    <3> QED BY <2>4, <3>1, <3>2
  <2>7. KeysHeld(A, T, on)
    <3>1. \A k \in DOMAIN A : A[k].kind = "key" => T[k].old = T[k].sent
      BY <1>1, <1>3, <2>3 DEF KeysHeld
    <3> QED BY <2>6, <3>1 DEF KeysHeld
  <2>8. MotionsDriven(A, T, o.repeats, extra)
    BY <1>1, <1>3, <1>6, <2>3 DEF MotionsDriven, Repeats
  <2> QED BY <1>1, <1>3, <2>3, <2>7, <2>8 DEF Driven, r, T
<1>7. CASE a.kind = "rel"
  <2> DEFINE repeats == r.out.repeats
             key == RepeatKey(Target(a, extra))
  <2>1. r = [axis |-> [t EXCEPT !.stick = Stick(a, v)], out |-> RelSent(a, v, o, extra)]
    BY <1>7 DEF Handled
  <2>2. DOMAIN r.axis = AxisFields /\ r.axis.sent = v /\ r.axis.old = t.old
    BY <2>1 DEF AxisFields
  <2>3. CASE a.repeat = -1
    <3>1. r.out = o
      BY <2>1, <2>3 DEF RelSent
    <3> HIDE DEF r, T
    <3>2. KeysHeld(A, T, o.on)
      BY <1>1, <1>3, <1>7, <2>2 DEF KeysHeld
    <3>3. MotionsDriven(A, T, o.repeats, extra)
      BY <1>1, <1>3, <1>7, <2>2, <2>3 DEF MotionsDriven, Repeats
    <3> QED BY <1>1, <1>3, <2>2, <3>1, <3>2, <3>3 DEF Driven, r, T
  <2>4. CASE a.repeat # -1
    <3> DEFINE speed == Times(a.value, Stick(a, v))
               interval == IF speed = Zero THEN -1 ELSE a.repeat
    <3>1. r.out = [o EXCEPT !.repeats = SendRelRepetitive(@, Target(a, extra), speed, interval)]
      BY <2>1, <2>4 DEF RelSent
    <3>2. /\ DOMAIN r.out = DOMAIN o /\ r.out.on = o.on
          /\ repeats = SendRelRepetitive(o.repeats, Target(a, extra), speed, interval)
      <4> HIDE DEF speed, interval
      <4> QED BY <1>1, <3>1
    <3>3. CASE v = 0
      <4>1. speed = Zero
        BY <1>7, <3>3, CentreAsksNothing
      <4>2. repeats = Removed(o.repeats, key)
        BY <3>2, <4>1 DEF SendRelRepetitive
      <4>3. DOMAIN repeats = DOMAIN o.repeats \ {key}
        BY <4>2 DEF Removed
      <4> HIDE DEF r, T, repeats, speed, interval
      <4>4. MotionsDriven(A, T, repeats, extra)
        BY <1>1, <1>3, <2>2, <4>3 DEF MotionsDriven
      <4>5. KeysHeld(A, T, o.on)
        BY <1>1, <1>3, <1>7, <2>2 DEF KeysHeld
      <4> QED BY <1>1, <1>3, <2>2, <3>2, <4>4, <4>5 DEF Driven, r, T, repeats
    <3>4. CASE v # 0
      <4>1. DOMAIN repeats \subseteq DOMAIN o.repeats \cup {key}
        BY <3>2 DEF SendRelRepetitive, Removed
      <4> HIDE DEF r, T, repeats, speed, interval
      <4>2. MotionsDriven(A, T, repeats, extra)
        BY <1>1, <1>3, <1>7, <2>2, <2>4, <3>4, <4>1 DEF MotionsDriven, Repeats
      <4>3. KeysHeld(A, T, o.on)
        BY <1>1, <1>3, <1>7, <2>2 DEF KeysHeld
      <4> QED BY <1>1, <1>3, <2>2, <3>2, <4>2, <4>3 DEF Driven, r, T, repeats
    <3> QED BY <3>3, <3>4
  <2> QED BY <2>3, <2>4
<1> QED BY <1>2, <1>4, <1>5, <1>6, <1>7
LEMMA SentDriven ==
  ASSUME NEW s \in Setups, NEW i \in DOMAIN s.axes, NEW S, NEW o, NEW v, NEW extra,
         NEW t, DOMAIN t = AxisFields, t.sent = S[i].sent, t.old = S[i].old,
         Driven(s.axes, S, o, extra)
  PROVE  LET r == AxisSent(i, s.axes[i], t, v, o, extra)
         IN  Driven(s.axes, [S EXCEPT ![i] = r.axis], r.out, extra)
<1> DEFINE a == s.axes[i]
           value == AxisValues(a.filters, t.filters, v, a.min, a.max)[Len(a.filters)]
           after == AxisFiltersAfter(a.filters, t.filters, v, a.min, a.max)
           next == [t EXCEPT !.raw = v, !.sent = value, !.filters = after]
           r == AxisSent(i, a, t, v, o, extra)
<1>1. r = IF value = t.sent THEN [axis |-> next, out |-> o]
          ELSE Handled(i, a, next, value, o, extra)
  BY DEF AxisSent, AxisFields
<1>2. DOMAIN next = AxisFields /\ next.sent = value /\ next.old = S[i].old
  <2> HIDE DEF value, after
  <2> QED BY DEF AxisFields
<1> HIDE DEF value, next, r
<1>3. CASE value # t.sent
  <2>1. r = Handled(i, a, next, value, o, extra)
    BY <1>1, <1>3
  <2>2. LET h == Handled(i, a, next, value, o, extra)
        IN  Driven(s.axes, [S EXCEPT ![i] = h.axis], h.out, extra)
    BY <1>2, HandledDriven
  <2> QED BY <2>1, <2>2 DEF r
<1>4. CASE value = t.sent
  <2> DEFINE A == s.axes
             T == [S EXCEPT ![i] = next]
  <2>1. r.axis = next /\ r.out = o
    BY <1>1, <1>4
  <2>2. /\ DOMAIN T = DOMAIN A /\ \A k \in DOMAIN A : DOMAIN T[k] = AxisFields
        /\ \A k \in DOMAIN A : T[k].sent = S[k].sent /\ T[k].old = S[k].old
    BY <1>2, <1>4 DEF Driven
  <2> HIDE DEF T
  <2>3. KeysHeld(A, T, o.on)
    BY <2>2 DEF Driven, KeysHeld
  <2>4. MotionsDriven(A, T, o.repeats, extra)
    BY <2>2 DEF Driven, MotionsDriven
  <2>5. Driven(A, T, o, extra)
    BY <2>2, <2>3, <2>4 DEF Driven
  <2> QED BY <2>1, <2>5 DEF T, r
<1> QED BY <1>3, <1>4

LEMMA UpdatedDriven ==
  ASSUME NEW s \in Setups, NEW i \in DOMAIN s.axes, NEW S, NEW o, NEW d, NEW extra,
         Driven(s.axes, S, o, extra)
  PROVE  LET r == AxisUpdated(i, s.axes[i], S[i], d, o, extra)
         IN  Driven(s.axes, [S EXCEPT ![i] = r.axis], r.out, extra)
<1> DEFINE a == s.axes[i]
           passed == [S[i] EXCEPT !.filters = UpdatedAxisFilters(a.filters, @, d)]
           t == AxisTicked(a, passed, d)
<1>1. DOMAIN S[i] = AxisFields
  BY DEF Driven
<1>2. DOMAIN passed = AxisFields /\ passed.sent = S[i].sent /\ passed.old = S[i].old
  BY <1>1 DEF AxisFields
<1> HIDE DEF passed
<1>3. \/ t = passed
      \/ \E x : t = [passed EXCEPT !.rest = x]
      \/ \E x : t = [passed EXCEPT !.timer = x]
  BY DEF AxisTicked, RelMoved, Ticked
<1>4. DOMAIN t = AxisFields /\ t.sent = S[i].sent /\ t.old = S[i].old
  <2> HIDE DEF t
  <2> QED BY <1>2, <1>3 DEF AxisFields
<1>5. AxisUpdated(i, a, S[i], d, o, extra) = AxisSent(i, a, t, S[i].raw, o, extra)
  BY DEF AxisUpdated, passed
<1> HIDE DEF t
<1> QED BY <1>4, <1>5, SentDriven

-----------------------------------------------------------------------------
(* The loops over the axes, for an update and for a message, and the loop    *)
(* over a motion. Each is a recursive function, and first it has to be       *)
(* shown that there is one.                                                 *)

UpdateOf(i, now, d) ==
  LET r == AxisUpdated(i, setup.axes[i], now.axes[i], d, now.out, setup.extra_devices)
  IN  [axes |-> [now.axes EXCEPT ![i] = r.axis], out |-> r.out]

SendOf(i, now, new) ==
  IF new[i] = position[i] THEN now
  ELSE LET r == AxisSent(i, setup.axes[i], now.axes[i], new[i], now.out, setup.extra_devices)
       IN  [axes |-> [now.axes EXCEPT ![i] = r.axis], out |-> r.out]

LoopOf(loop, i, now, x) ==
  IF loop = "update" THEN UpdateOf(i, now, x)
  ELSE IF loop = "send" THEN SendOf(i, now, x) ELSE RepeatOnce(now)

Runs(f, loop, n, start, x) ==
  f = [i \in 0..n |-> IF i = 0 THEN start ELSE LoopOf(loop, i, f[i - 1], x)]

LEMMA LoopExists ==
  ASSUME NEW loop, NEW n \in Nat, NEW start, NEW x
  PROVE  \E f : Runs(f, loop, n, start, x)
<1> DEFINE Solves(f, m) == Runs(f, loop, m, start, x)
           G == {m \in 0..n : \E f : Solves(f, m)}
<1>1. 0 \in G
  <2> DEFINE f == [i \in 0..0 |-> start]
  <2>1. Solves(f, 0)
    BY DEF Runs
  <2> HIDE DEF f, Solves
  <2> QED BY <2>1
<1>2. ASSUME NEW m \in 1..n, m - 1 \in G PROVE m \in G
  <2>1. PICK f : Solves(f, m - 1)
    BY <1>2
  <2> DEFINE h == [i \in 0..m |-> IF i = m THEN LoopOf(loop, m, f[m - 1], x) ELSE f[i]]
  <2>2. ASSUME NEW i \in 0..m
        PROVE  h[i] = IF i = 0 THEN start ELSE LoopOf(loop, i, h[i - 1], x)
    <3>1. CASE i = m
      <4>1. m - 1 \in 0..m /\ m - 1 # m /\ i # 0
        BY <3>1
      <4>2. h[m - 1] = f[m - 1] /\ h[m] = LoopOf(loop, m, f[m - 1], x)
        BY <4>1
      <4> QED BY <3>1, <4>1, <4>2
    <3>2. CASE i # m
      <4>1. i \in 0..(m - 1) /\ h[i] = f[i]
        BY <3>2
      <4>2. i # 0 => i - 1 \in 0..m /\ i - 1 # m
        BY <3>2
      <4>3. i # 0 => h[i - 1] = f[i - 1]
        BY <4>2
      <4> HIDE DEF h
      <4>4. f[i] = IF i = 0 THEN start ELSE LoopOf(loop, i, f[i - 1], x)
        BY <2>1, <4>1 DEF Runs
      <4> QED BY <4>1, <4>3, <4>4
    <3> QED BY <3>1, <3>2
  <2>3. Solves(h, m)
    <3>1. h = [i \in 0..m |-> h[i]]
      OBVIOUS
    <3> HIDE DEF h
    <3> QED BY <2>2, <3>1 DEF Runs
  <2> HIDE DEF h, Solves
  <2> QED BY <2>3
<1>3. 0..n \subseteq G
  <2> HIDE DEF G
  <2> QED BY <1>1, <1>2, UpTo
<1>4. n \in G
  BY <1>3
<1> QED BY <1>4

LEMMA LoopDriven ==
  ASSUME NEW loop \in {"update", "send"}, NEW start, NEW x, NEW f, setup \in Setups,
         Driven(setup.axes, start.axes, start.out, setup.extra_devices),
         Runs(f, loop, Len(setup.axes), start, x)
  PROVE  LET r == f[Len(setup.axes)]
         IN  Driven(setup.axes, r.axes, r.out, setup.extra_devices)
<1> DEFINE n == Len(setup.axes)
           A == setup.axes
           extra == setup.extra_devices
           G == {i \in 0..n : Driven(A, f[i].axes, f[i].out, extra)}
<1>1. n \in Nat /\ DOMAIN A = 1..n
  <2>1. A \in Seq(Range(A))
    BY DevicesAssumption
  <2> DEFINE R == Range(A)
  <2> HIDE DEF R
  <2> QED BY <2>1 DEF R
<1> HIDE DEF n
<1>2. 0 \in G
  <2>1. f[0] = start
    BY <1>1 DEF n, Runs
  <2> QED BY <1>1, <2>1
<1>3. ASSUME NEW i \in 1..n, i - 1 \in G PROVE i \in G
  <2> DEFINE now == f[i - 1]
  <2>1. Driven(A, now.axes, now.out, extra) /\ i \in DOMAIN A /\ i \in 0..n
    BY <1>1, <1>3
  <2>2. f[i] = LoopOf(loop, i, now, x)
    BY <1>1, <1>3 DEF n, Runs
  <2> HIDE DEF now
  <2>3. CASE loop = "update"
    <3> DEFINE r == AxisUpdated(i, A[i], now.axes[i], x, now.out, extra)
    <3>1. f[i] = [axes |-> [now.axes EXCEPT ![i] = r.axis], out |-> r.out]
      BY <2>2, <2>3 DEF LoopOf, UpdateOf
    <3>2. Driven(A, [now.axes EXCEPT ![i] = r.axis], r.out, extra)
      BY <2>1, UpdatedDriven
    <3> HIDE DEF r
    <3> QED BY <2>1, <3>1, <3>2
  <2>4. CASE loop # "update" /\ x[i] = position[i]
    BY <2>1, <2>2, <2>4 DEF LoopOf, SendOf
  <2>5. CASE loop # "update" /\ x[i] # position[i]
    <3> DEFINE r == AxisSent(i, A[i], now.axes[i], x[i], now.out, extra)
    <3>1. f[i] = [axes |-> [now.axes EXCEPT ![i] = r.axis], out |-> r.out]
      BY <2>2, <2>5 DEF LoopOf, SendOf
    <3>2. DOMAIN now.axes[i] = AxisFields
      BY <2>1 DEF Driven
    <3>3. Driven(A, [now.axes EXCEPT ![i] = r.axis], r.out, extra)
      BY <2>1, <3>2, SentDriven
    <3> HIDE DEF r
    <3> QED BY <2>1, <3>1, <3>3
  <2> QED BY <2>3, <2>4, <2>5
<1>4. 0..n \subseteq G
  <2> HIDE DEF G
  <2> QED BY <1>1, <1>2, <1>3, UpTo
<1>5. n \in G
  <2> HIDE DEF G
  <2> QED BY <1>1, <1>4
<1> QED BY <1>5 DEF n

LEMMA MessageDriven ==
  ASSUME DrivenInv, NEW new, NEW d, Message(new, d)
  PROVE  DrivenInv'
<1> DEFINE n == Len(setup.axes)
           start == [axes |-> axes, out |-> out]
           between == AxesUpdated(d)
           result == AxesSent(between, new)
<1>1. setup \in Setups /\ Driven(setup.axes, start.axes, start.out, setup.extra_devices)
  BY DEF DrivenInv
<1>2. n \in Nat
  <2>1. setup.axes \in Seq(Range(setup.axes))
    BY <1>1, DevicesAssumption
  <2> DEFINE R == Range(setup.axes)
  <2> HIDE DEF R
  <2> QED BY <2>1 DEF R
<1>3. Driven(setup.axes, between.axes, between.out, setup.extra_devices)
  <2>1. between = (CHOOSE f : Runs(f, "update", n, start, d))[n]
    BY DEF AxesUpdated, LoopOf, UpdateOf, Runs
  <2>2. \E f : Runs(f, "update", n, start, d)
    <3> HIDE DEF n, start
    <3> QED BY <1>2, LoopExists
  <2>3. PICK f : Runs(f, "update", n, start, d) /\ between = f[n]
    <3> HIDE DEF between
    <3> QED BY <2>1, <2>2
  <2> HIDE DEF start, between
  <2> QED BY <1>1, <2>3, LoopDriven
<1> HIDE DEF between
<1>4. Driven(setup.axes, result.axes, result.out, setup.extra_devices)
  <2>1. result = (CHOOSE f : Runs(f, "send", n, between, new))[n]
    BY DEF AxesSent, LoopOf, SendOf, Runs
  <2>2. \E f : Runs(f, "send", n, between, new)
    <3> HIDE DEF n
    <3> QED BY <1>2, LoopExists
  <2>3. PICK f : Runs(f, "send", n, between, new) /\ result = f[n]
    <3> HIDE DEF result
    <3> QED BY <2>1, <2>2
  <2> HIDE DEF result
  <2> QED BY <1>1, <1>3, <2>3, LoopDriven
<1>5. axes' = result.axes /\ out' = result.out /\ setup' = setup
  BY DEF Message, between
<1> HIDE DEF result
<1> QED BY <1>1, <1>4, <1>5 DEF DrivenInv

LEMMA DrivenInit == Init => DrivenInv
<1> SUFFICES ASSUME Init PROVE DrivenInv
  OBVIOUS
<1> DEFINE A == setup.axes
<1>1. /\ setup \in Setups /\ axes = [i \in DOMAIN A |-> NewAxis(A[i])] /\ out = NewOutput
  BY DEF Init, Axes
<1>2. \A i \in DOMAIN A : DOMAIN axes[i] = AxisFields /\ axes[i].old = axes[i].sent
  BY <1>1 DEF NewAxis, AxisFields
<1>3. DOMAIN out = {"repeats", "on", "abs"} /\ out.on = {} /\ DOMAIN out.repeats = {}
  BY <1>1 DEF NewOutput
<1>4. KeysHeld(A, axes, out.on) /\ MotionsDriven(A, axes, out.repeats, setup.extra_devices)
  BY <1>2, <1>3 DEF KeysHeld, MotionsDriven
<1> QED BY <1>1, <1>2, <1>3, <1>4 DEF DrivenInv, Driven

(* The timer moves what is repeated, and takes up or drops no motion.       *)
LEMMA TimeoutDriven ==
  ASSUME DrivenInv, NEW d, Timeout(d)
  PROVE  DrivenInv'
<1> DEFINE moved == [key \in DOMAIN out.repeats |-> Repeated(out.repeats[key], d)]
<1>1. /\ DOMAIN out = {"repeats", "on", "abs"}
      /\ out' = [out EXCEPT !.repeats = moved]
      /\ axes' = axes /\ setup' = setup
  BY DEF Timeout, DrivenInv, Driven
<1>2. DOMAIN moved = DOMAIN out.repeats
  OBVIOUS
<1> HIDE DEF moved
<1>3. DOMAIN out' = DOMAIN out /\ out'.on = out.on /\ DOMAIN out'.repeats = DOMAIN out.repeats
  BY <1>1, <1>2
<1>4. MotionsDriven(setup.axes, axes, out'.repeats, setup.extra_devices)
  BY <1>3 DEF DrivenInv, Driven, MotionsDriven
<1> QED BY <1>1, <1>3, <1>4 DEF DrivenInv, Driven

LEMMA DrivenStep == DrivenInv /\ [Next]_vars => DrivenInv'
<1> SUFFICES ASSUME DrivenInv, [Next]_vars PROVE DrivenInv'
  OBVIOUS
<1>1. CASE \E new \in Moved, d \in Deltas : Message(new, d)
  BY <1>1, MessageDriven
<1>2. CASE \E d \in Ticks : Timeout(d)
  BY <1>2, TimeoutDriven
<1>3. ASSUME UNCHANGED <<setup, motion>> PROVE DrivenInv'
  BY <1>3 DEF DrivenInv, motion
<1>4. CASE Applications
  BY <1>3, <1>4 DEF Applications, Uploads, Erases, Plays, Stops, SetsGain, GivesUp
<1>5. CASE OnReadData
  BY <1>3, <1>5 DEF OnReadData, ReadPlay, ReadGain, ReadUpload, ReadErase
<1>6. CASE UNCHANGED vars
  BY <1>3, <1>6 DEF vars
<1> QED BY <1>1, <1>2, <1>4, <1>5, <1>6 DEF Next

(* Axes that are all back in the middle have let go of every key and of     *)
(* every repeated motion, whatever is bound, shared between axes or          *)
(* filtered, and however far an axis went from one message to the next       *)
(* (key_axis_event_handler.cpp, rel_axis_event_handler.cpp,                  *)
(* UInput::send_rel_repetitive).                                            *)
THEOREM RestLetsGo == Spec => []RestIsStill
<1>1. DrivenInv => RestIsStill
  <2> SUFFICES ASSUME DrivenInv, \A i \in Axes : axes[i].sent = 0
               PROVE  out.on = {} /\ DOMAIN out.repeats = {}
    BY DEF RestIsStill
  <2>1. /\ setup \in Setups /\ KeysHeld(setup.axes, axes, out.on)
        /\ MotionsDriven(setup.axes, axes, out.repeats, setup.extra_devices)
    BY DEF DrivenInv, Driven
  <2>2. ASSUME NEW p \in out.on PROVE FALSE
    <3>1. PICK i \in DOMAIN setup.axes :
            setup.axes[i].kind = "key" /\ Zone(setup.axes[i], axes[i].sent) # 0
      BY <2>1 DEF KeysHeld
    <3>2. axes[i].sent = 0
      BY DEF Axes
    <3> QED BY <2>1, <3>1, <3>2, CentreAsksNothing
  <2>3. DOMAIN out.repeats = {}
    BY <2>1 DEF MotionsDriven, Axes
  <2> QED BY <2>2, <2>3
<1> QED BY <1>1, DrivenInit, DrivenStep, PTL DEF Spec

-----------------------------------------------------------------------------
(* Fractions. Two with a common denominator are compared, added and cut as  *)
(* their numerators, whatever lowest terms they are in.                     *)
Fractions == Int \X (Nat \ {0})

(* The fraction f is n of d.                                                *)
Amounts(f, n, d) == f \in Fractions /\ f[1] * d = n * f[2]

LEMMA Cancel ==
  ASSUME NEW x \in Int, NEW y \in Int, NEW k \in Int, k # 0, x * k = y * k
  PROVE  x = y
OBVIOUS

(* Division cuts towards 0.                                                 *)
Cut(q, n, d) ==
  /\ n >= 0 => q >= 0 /\ q * d <= n /\ n < q * d + d
  /\ n <= 0 => q <= 0 /\ n <= q * d /\ q * d - d < n

LEMMA QuotientCuts ==
  ASSUME NEW n \in Int, NEW d \in Nat \ {0}
  PROVE  Quotient(n, d) \in Int /\ Cut(Quotient(n, d), n, d)
<1> DEFINE m == Magnitude(n)  q == m \div d
<1>1. m \in Nat /\ (n >= 0 => m = n) /\ (n <= 0 => m = -n) /\ Magnitude(d) = d
  BY DEF Magnitude
<1> HIDE DEF m
<1>2. q \in Nat /\ q * d <= m /\ m < q * d + d
  BY <1>1
<1>3. Quotient(n, d) = IF n < 0 THEN -q ELSE q
  BY <1>1 DEF Quotient, m
<1> HIDE DEF q
<1>4. (-q) * d = -(q * d) /\ q * d \in Int
  BY <1>2
<1>5. n = 0 => q = 0
  BY <1>1, <1>2
<1>6. CASE n < 0
  BY <1>1, <1>2, <1>3, <1>4, <1>6 DEF Cut
<1>7. CASE n > 0
  BY <1>1, <1>2, <1>3, <1>4, <1>7 DEF Cut
<1>8. CASE n = 0
  BY <1>1, <1>2, <1>3, <1>4, <1>5, <1>8 DEF Cut
<1> QED BY <1>6, <1>7, <1>8

(* ... to one number only.                                                  *)
LEMMA CutOnce ==
  ASSUME NEW n \in Int, NEW d \in Nat \ {0}, NEW x \in Int, NEW y \in Int,
         Cut(x, n, d), Cut(y, n, d)
  PROVE  x = y
<1>1. ASSUME NEW u \in Int, NEW w \in Int, u < w PROVE u * d + d <= w * d
  <2>1. w = u + (w - u) /\ w - u >= 1
    BY <1>1
  <2>2. (w - u) * d >= d
    BY <2>1
  <2> QED BY <2>2
<1>2. x * d \in Int /\ y * d \in Int
  OBVIOUS
<1>3. x < y \/ y < x \/ x = y
  OBVIOUS
<1>4. n >= 0 \/ n <= 0
  OBVIOUS
<1> QED BY <1>1, <1>2, <1>3, <1>4 DEF Cut

(* A float is the quotient it is made of.                                   *)
LEMMA FloatAmounts ==
  ASSUME NEW n \in Int, NEW d \in Nat \ {0}
  PROVE  Amounts(Float(n, d), n, d)
<1> DEFINE m == Magnitude(n)
           T == {k \in 1..Magnitude(d) : m % k = 0 /\ d % k = 0}
           g == IF n = 0 THEN Magnitude(d) ELSE Max(T)
<1>1. Magnitude(d) = d /\ ~ (d < 0) /\ m \in Nat /\ (n >= 0 => m = n) /\ (n < 0 => m = -n)
  BY DEF Magnitude
<1>2. Float(n, d) = <<1 * Quotient(n, g), 1 * Quotient(d, g)>>
  <2> HIDE DEF g
  <2>1. Float(n, d) = <<(IF d < 0 THEN -1 ELSE 1) * Quotient(n, g),
                        (IF d < 0 THEN -1 ELSE 1) * Quotient(d, g)>>
    BY DEF Float, g
  <2> QED BY <1>1, <2>1
<1>3. n # 0 => Max(T) \in T
  <2>1. m % 1 = 0 /\ d % 1 = 0 /\ 1 \in 1..Magnitude(d)
    BY <1>1
  <2>2. 1 \in T /\ T \in SUBSET Int /\ \A y \in T : y <= d
    BY <1>1, <2>1
  <2>3. d \in Int
    OBVIOUS
  <2> HIDE DEF T
  <2>4. Max(T) \in T
    BY <2>2, <2>3, MaxFacts
  <2> QED BY <2>4
<1>4. g \in Nat /\ g # 0 /\ m % g = 0 /\ d % g = 0
  <2>1. CASE n = 0
    <3>1. d % d = 0 /\ 0 % d = 0
      OBVIOUS
    <3>2. g = d /\ m = 0
      BY <1>1, <2>1
    <3> HIDE DEF g, m
    <3> QED BY <3>1, <3>2
  <2>2. CASE n # 0
    <3>1. g = Max(T) /\ Max(T) \in T
      BY <1>3, <2>2
    <3> HIDE DEF g
    <3>2. g \in 1..Magnitude(d) /\ m % g = 0 /\ d % g = 0
      BY <3>1
    <3> QED BY <1>1, <3>2
  <2> QED BY <2>1, <2>2
<1> HIDE DEF g, T
<1> DEFINE a == m \div g  b == d \div g
<1>5. a \in Nat /\ m = a * g /\ b \in Nat /\ d = b * g
  BY <1>1, <1>4
<1>6. Magnitude(g) = g
  BY <1>4 DEF Magnitude
<1>7. Quotient(n, g) = IF n < 0 THEN -a ELSE a
  BY <1>4, <1>6 DEF Quotient, m
<1>8. Quotient(d, g) = b
  BY <1>1, <1>4, <1>6 DEF Quotient
<1> HIDE DEF a, b, m
<1>9. b # 0
  <2>1. 0 * g = 0
    BY <1>4
  <2> QED BY <1>5, <2>1
<1> DEFINE p == IF n < 0 THEN -a ELSE a
<1>10. p \in Int /\ n = p * g
  <2>1. (-a) * g = -(a * g)
    BY <1>4, <1>5
  <2> QED BY <1>1, <1>5, <2>1
<1> HIDE DEF p
<1>11. Float(n, d) = <<p, b>>
  BY <1>2, <1>5, <1>7, <1>8, <1>10 DEF p
<1>12. p * (b * g) = (p * g) * b
  BY <1>4, <1>5, <1>10
<1>13. p * d = n * b
  BY <1>5, <1>10, <1>12
<1> QED BY <1>5, <1>9, <1>10, <1>11, <1>13 DEF Amounts, Fractions

LEMMA PlusAmounts ==
  ASSUME NEW f, NEW g, NEW n \in Int, NEW k \in Int, NEW d \in Nat \ {0},
         Amounts(f, n, d), Amounts(g, k, d)
  PROVE  Amounts(Plus(f, g), n + k, d)
<1> DEFINE a == f[1]  b == f[2]  p == g[1]  q == g[2]
           h == Plus(f, g)  x == h[1]  y == h[2]  m == b * q
<1>1. /\ a \in Int /\ p \in Int /\ b \in Nat \ {0} /\ q \in Nat \ {0}
      /\ a * d = n * b /\ p * d = k * q
  BY DEF Amounts, Fractions
<1>2. h = Float(a * q + p * b, b * q)
  BY DEF Plus
<1> HIDE DEF h, a, b, p, q
<1>3. m \in Nat \ {0} /\ a * q + p * b \in Int
  BY <1>1
<1>4. h \in Fractions /\ x * m = (a * q + p * b) * y
  BY <1>2, <1>3, FloatAmounts DEF Amounts
<1>5. x \in Int /\ y \in Nat \ {0}
  BY <1>4 DEF Fractions
<1> HIDE DEF x, y
<1>6. (x * d) * m = (x * m) * d
  BY <1>1, <1>3, <1>5
<1>7. ((a * q + p * b) * y) * d = y * ((a * d) * q + (p * d) * b)
  BY <1>1, <1>5
<1>8. (n * b) * q + (k * q) * b = (n + k) * m
  BY <1>1
<1>9. y * ((n + k) * m) = ((n + k) * y) * m
  BY <1>3, <1>5
<1>10. (x * d) * m = ((n + k) * y) * m
  BY <1>1, <1>4, <1>6, <1>7, <1>8, <1>9
<1>11. x * d \in Int /\ (n + k) * y \in Int /\ m \in Int
  BY <1>3, <1>5
<1> HIDE DEF m
<1>12. x * d = (n + k) * y
  BY <1>3, <1>10, <1>11, Cancel
<1> QED BY <1>4, <1>12 DEF Amounts, x, y, h

LEMMA MinusAmounts ==
  ASSUME NEW f, NEW g, NEW n \in Int, NEW k \in Int, NEW d \in Nat \ {0},
         Amounts(f, n, d), Amounts(g, k, d)
  PROVE  Amounts(Minus(f, g), n - k, d)
<1> DEFINE h == <<-g[1], g[2]>>
<1>1. Amounts(h, -k, d)
  <2>1. g[1] \in Int /\ g[2] \in Nat \ {0} /\ g[1] * d = k * g[2]
    BY DEF Amounts, Fractions
  <2>2. (-g[1]) * d = -(g[1] * d) /\ (-k) * g[2] = -(k * g[2])
    BY <2>1
  <2> QED BY <2>1, <2>2 DEF Amounts, Fractions
<1> HIDE DEF h
<1>2. Amounts(Plus(f, h), n + (-k), d)
  BY <1>1, PlusAmounts
<1> QED BY <1>2 DEF Minus, h

LEMMA TimesAmounts ==
  ASSUME NEW f \in Fractions, NEW g \in Fractions
  PROVE  Times(f, g) \in Fractions
<1>1. f[1] * g[1] \in Int /\ f[2] * g[2] \in Nat \ {0}
  BY DEF Fractions
<1> QED BY <1>1, FloatAmounts DEF Times, Amounts

(* What is cut off is that of the quotient.                                 *)
LEMMA TruncatedAmounts ==
  ASSUME NEW f, NEW n \in Int, NEW d \in Nat \ {0}, Amounts(f, n, d)
  PROVE  Truncated(f) \in Int /\ Cut(Truncated(f), n, d)
<1> DEFINE a == f[1]  b == f[2]  q == Quotient(a, b)
<1>1. a \in Int /\ b \in Nat \ {0} /\ a * d = n * b
  BY DEF Amounts, Fractions
<1>2. Truncated(f) = q
  BY DEF Truncated
<1> HIDE DEF a, b
<1>3. q \in Int /\ Cut(q, a, b)
  BY <1>1, QuotientCuts
<1> HIDE DEF q
<1>4. n >= 0 => a >= 0
  <2>1. n >= 0 => n * b >= 0
    BY <1>1
  <2>2. a < 0 => a * d < 0
    BY <1>1
  <2> QED BY <1>1, <2>1, <2>2
<1>5. n <= 0 => a <= 0
  <2>1. n <= 0 => n * b <= 0
    BY <1>1
  <2>2. a > 0 => a * d > 0
    BY <1>1
  <2> QED BY <1>1, <2>1, <2>2
<1>6. ASSUME NEW x \in Int, NEW y \in Int, x * b <= y * b PROVE x <= y
  <2>1. y < x => (x - y) * b > 0
    BY <1>1
  <2> QED BY <1>1, <1>6, <2>1
<1>7. ASSUME NEW x \in Int, NEW y \in Int, x * b < y * b PROVE x < y
  <2>1. y <= x => (x - y) * b >= 0
    BY <1>1
  <2> QED BY <1>1, <1>7, <2>1
<1>8. ASSUME n >= 0 PROVE q >= 0 /\ q * d <= n /\ n < q * d + d
  <2>1. q >= 0 /\ q * b <= a /\ a < q * b + b
    BY <1>3, <1>4, <1>8 DEF Cut
  <2>2. (q * b) * d <= a * d /\ a * d < (q * b + b) * d
    BY <1>1, <1>3, <2>1
  <2>3. (q * b) * d = (q * d) * b /\ (q * b + b) * d = (q * d + d) * b
    BY <1>1, <1>3
  <2>4. q * d \in Int /\ q * d + d \in Int
    BY <1>3
  <2> QED BY <1>1, <1>6, <1>7, <2>1, <2>2, <2>3, <2>4
<1>9. ASSUME n <= 0 PROVE q <= 0 /\ n <= q * d /\ q * d - d < n
  <2>1. q <= 0 /\ a <= q * b /\ q * b - b < a
    BY <1>3, <1>5, <1>9 DEF Cut
  <2>2. a * d <= (q * b) * d /\ (q * b - b) * d < a * d
    BY <1>1, <1>3, <2>1
  <2>3. (q * b) * d = (q * d) * b /\ (q * b - b) * d = (q * d - d) * b
    BY <1>1, <1>3
  <2>4. q * d \in Int /\ q * d - d \in Int
    BY <1>3
  <2> QED BY <1>1, <1>6, <1>7, <2>1, <2>2, <2>3, <2>4
<1> QED BY <1>2, <1>3, <1>8, <1>9 DEF Cut

(* Whatever is multiplied out on both sides compares as before.             *)
LEMMA Compared ==
  ASSUME NEW f, NEW n \in Int, NEW d \in Nat \ {0}, Amounts(f, n, d), NEW k \in Int
  PROVE  /\ f[1] < k * f[2] <=> n < k * d
         /\ f[1] > k * f[2] <=> n > k * d
<1> DEFINE a == f[1]  b == f[2]
<1>1. a \in Int /\ b \in Nat \ {0} /\ a * d = n * b
  BY DEF Amounts, Fractions
<1> HIDE DEF a, b
<1>2. ASSUME NEW x \in Int, NEW y \in Int, NEW c \in Nat \ {0}
      PROVE  x < y <=> x * c < y * c
  <2>1. x < y => (y - x) * c > 0
    OBVIOUS
  <2>2. y <= x => (x - y) * c >= 0
    OBVIOUS
  <2> QED BY <2>1, <2>2
<1>3. (k * b) * d = (k * d) * b /\ k * b \in Int /\ k * d \in Int
  BY <1>1
<1>4. a < k * b <=> a * d < (k * d) * b
  BY <1>1, <1>2, <1>3
<1>5. n < k * d <=> n * b < (k * d) * b
  BY <1>1, <1>2, <1>3
<1>6. k * b < a <=> (k * d) * b < a * d
  BY <1>1, <1>2, <1>3
<1>7. k * d < n <=> (k * d) * b < n * b
  BY <1>1, <1>2, <1>3
<1>8. a < k * b <=> n < k * d
  BY <1>1, <1>4, <1>5
<1>9. a > k * b <=> n > k * d
  BY <1>1, <1>3, <1>6, <1>7
<1> QED BY <1>8, <1>9 DEF a, b

LEMMA ComparedSmall ==
  ASSUME NEW f, NEW n \in Int, NEW d \in Nat \ {0}, Amounts(f, n, d)
  PROVE  /\ f[1] \in Int /\ f[2] \in Nat \ {0}
         /\ f[1] > -2 * f[2] <=> n > -2 * d
         /\ f[1] > -f[2] <=> n > -d
         /\ f[1] < 0 <=> n < 0
         /\ f[1] > 0 <=> n > 0
         /\ f[1] < f[2] <=> n < d
         /\ f[1] < 2 * f[2] <=> n < 2 * d
<1> DEFINE a == f[1]  b == f[2]
<1>1. a \in Int /\ b \in Nat \ {0}
  BY DEF Amounts, Fractions
<1>2. \A k \in Int : (a < k * b <=> n < k * d) /\ (a > k * b <=> n > k * d)
  BY Compared
<1> HIDE DEF a, b
<1>3. 0 \in Int /\ 1 \in Int /\ 2 \in Int
  OBVIOUS
<1> DEFINE once == -1  twice == -2
<1>4. /\ once \in Int /\ once * b = -b /\ once * d = -d
      /\ twice \in Int /\ twice * b = -2 * b /\ twice * d = -2 * d
  BY <1>1
<1> HIDE DEF once, twice
<1>5. a > -2 * b <=> n > -2 * d
  BY <1>2, <1>4
<1>6. (a < 0 * b <=> n < 0 * d) /\ (a > 0 * b <=> n > 0 * d)
  BY <1>2, <1>3
<1>7. a < 1 * b <=> n < 1 * d
  BY <1>2, <1>3
<1>8. a < 2 * b <=> n < 2 * d
  BY <1>2, <1>3
<1>9. a > -b <=> n > -d
  BY <1>2, <1>4
<1>10. (a < 0 <=> n < 0) /\ (a > 0 <=> n > 0)
  BY <1>1, <1>6
<1>11. a < b <=> n < d
  BY <1>1, <1>7
<1> QED BY <1>1, <1>5, <1>8, <1>9, <1>10, <1>11 DEF a, b

LEMMA CutNegated ==
  ASSUME NEW q \in Int, NEW n \in Int, NEW d \in Nat \ {0}, Cut(q, n, d)
  PROVE  Cut(-q, -n, d)
<1>1. (-q) * d = -(q * d) /\ q * d \in Int
  OBVIOUS
<1> QED BY <1>1 DEF Cut

(* What is kept and what is lost where a of d parts were left over and b    *)
(* move; t, q and s are the whole steps of both, and of b with t added.     *)
AgainstBy(a, b, d) == (b > 0 /\ a <= -d) \/ (b < 0 /\ a >= d)

StepKeeps(a, b, d, t, q, s) ==
  LET lost == t + q - s
      left == (a - t * d) + (b - q * d)
  IN  /\ lost \in {-1, 0, 1} /\ (~AgainstBy(a, b, d) => lost = 0)
      /\ -2 * d < left /\ left < 2 * d /\ ~AgainstBy(left, b, d)

LEMMA StepAhead ==
  ASSUME NEW a \in Int, NEW b \in Int, NEW d \in Nat \ {0}, NEW t \in Int, NEW q \in Int,
         NEW s \in Int, Cut(t, a, d), Cut(q, b, d), Cut(s, b + t * d, d),
         b > 0, -2 * d < a, a < 2 * d
  PROVE  StepKeeps(a, b, d, t, q, s)
<1> DEFINE u == t * d  w == q * d
<1>1. u \in Int /\ w \in Int
  OBVIOUS
<1>2. q >= 0 /\ w <= b /\ b < w + d
  BY DEF Cut
<1>3. -d < a - u /\ a - u < d
  BY <1>1 DEF Cut
<1>4. t <= -1 => u <= -d
  <2>1. t <= -1 => (-1 - t) * d >= 0
    OBVIOUS
  <2>2. (-1 - t) * d = -d - u
    OBVIOUS
  <2> QED BY <1>1, <2>1, <2>2
<1>5. CASE a > -d
  <2>1. t >= 0 /\ u >= 0
    <3>1. t >= 0
      BY <1>1, <1>4, <1>5 DEF Cut
    <3>2. t >= 0 => u >= 0
      OBVIOUS
    <3> QED BY <3>1, <3>2
  <2>2. (q + t) * d = w + u
    OBVIOUS
  <2> HIDE DEF u, w
  <2>3. Cut(q + t, b + u, d)
    BY <1>1, <1>2, <2>1, <2>2 DEF Cut
  <2>4. s = q + t
    BY <1>1, <2>3, CutOnce DEF u
  <2> QED BY <1>1, <1>2, <1>3, <2>4 DEF StepKeeps, AgainstBy, u, w
<1>6. CASE a <= -d
  <2>1. t = -1 /\ u = -d
    <3>1. t <= -2 => u <= -2 * d
      <4>1. t <= -2 => (-2 - t) * d >= 0
        OBVIOUS
      <4>2. (-2 - t) * d = -2 * d - u
        OBVIOUS
      <4> QED BY <1>1, <4>1, <4>2
    <3>2. t >= 0 => u >= 0
      OBVIOUS
    <3>3. a <= u /\ u - d < a
      BY <1>6 DEF Cut
    <3>4. t > -2 /\ t < 0
      BY <1>1, <1>6, <3>1, <3>2, <3>3
    <3>5. t = -1
      BY <3>4
    <3> QED BY <3>5
  <2> HIDE DEF u, w
  <2>2. CASE b >= d
    <3>1. q >= 1 /\ (q - 1) * d = w - d
      <4>1. q = 0 => w = 0
        BY DEF w
      <4>2. (q - 1) * d = w - d
        BY DEF w
      <4> QED BY <1>1, <1>2, <2>2, <4>1, <4>2
    <3>2. Cut(q - 1, b + u, d)
      BY <1>1, <1>2, <2>1, <2>2, <3>1 DEF Cut
    <3>3. s = q - 1
      BY <1>1, <3>2, CutOnce DEF u
    <3> QED BY <1>1, <1>2, <1>3, <1>6, <2>1, <3>3 DEF StepKeeps, AgainstBy, u, w
  <2>3. CASE b < d
    <3>1. q = 0 /\ 0 * d = 0 /\ w = 0
      <4>1. q >= 1 => (q - 1) * d >= 0
        OBVIOUS
      <4>2. (q - 1) * d = w - d
        BY DEF w
      <4>3. q = 0
        BY <1>1, <1>2, <2>3, <4>1, <4>2
      <4> QED BY <4>3 DEF w
    <3>2. Cut(0, b + u, d)
      BY <1>1, <2>1, <2>3, <3>1 DEF Cut
    <3>3. s = 0
      BY <1>1, <3>2, CutOnce DEF u
    <3> QED BY <1>1, <1>2, <1>3, <1>6, <2>1, <3>1, <3>3 DEF StepKeeps, AgainstBy, u, w
  <2> QED BY <2>2, <2>3
<1> QED BY <1>5, <1>6

LEMMA StepOfLoop ==
  ASSUME NEW a \in Int, NEW b \in Int, NEW d \in Nat \ {0}, NEW t \in Int, NEW q \in Int,
         NEW s \in Int, Cut(t, a, d), Cut(q, b, d), Cut(s, b + t * d, d),
         b # 0, -2 * d < a, a < 2 * d
  PROVE  StepKeeps(a, b, d, t, q, s)
<1>1. CASE b > 0
  BY <1>1, StepAhead
<1>2. CASE b < 0
  <2>1. (-t) * d = -(t * d) /\ (-q) * d = -(q * d) /\ t * d \in Int /\ q * d \in Int
    OBVIOUS
  <2>2. Cut(-t, -a, d) /\ Cut(-q, -b, d) /\ Cut(-s, -(b + t * d), d)
    BY <2>1, CutNegated
  <2>3. -(b + t * d) = -b + (-t) * d
    BY <2>1
  <2>4. Cut(-s, -b + (-t) * d, d)
    BY <2>2, <2>3
  <2>5. -a \in Int /\ -b \in Int /\ -t \in Int /\ -q \in Int /\ -s \in Int
        /\ -b > 0 /\ -2 * d < -a /\ -a < 2 * d
    BY <1>2
  <2>6. StepKeeps(-a, -b, d, -t, -q, -s)
    BY <2>2, <2>4, <2>5, StepAhead
  <2> DEFINE lost == t + q - s  back == (-t) + (-q) - (-s)
             left == (a - t * d) + (b - q * d)
             right == (-a - (-t) * d) + (-b - (-q) * d)
  <2>7. back = -lost /\ right = -left /\ lost \in Int /\ left \in Int
    BY <2>1
  <2>8. /\ back \in {-1, 0, 1} /\ (~AgainstBy(-a, -b, d) => back = 0)
        /\ -2 * d < right /\ right < 2 * d /\ ~AgainstBy(right, -b, d)
    BY <2>6 DEF StepKeeps
  <2> HIDE DEF lost, left, back, right
  <2>9. (AgainstBy(-a, -b, d) <=> AgainstBy(a, b, d))
        /\ (AgainstBy(right, -b, d) <=> AgainstBy(left, b, d))
    BY <2>7 DEF AgainstBy
  <2>10. /\ lost \in {-1, 0, 1} /\ (~AgainstBy(a, b, d) => lost = 0)
         /\ -2 * d < left /\ left < 2 * d /\ ~AgainstBy(left, b, d)
    BY <2>7, <2>8, <2>9
  <2> QED BY <2>10 DEF StepKeeps, lost, left
<1> QED BY <1>1, <1>2

-----------------------------------------------------------------------------
(* A motion that is repeated. What is kept is less than two steps, and it   *)
(* stands a step or more against the motion only after a turn of which no   *)
(* step was lost yet.                                                       *)
MotionFields == {"device", "value", "rest", "time", "interval", "lost", "turns"}
Against(f, g) == (g[1] > 0 /\ f[1] <= -f[2]) \/ (g[1] < 0 /\ f[1] >= f[2])

Paid(r) ==
  \E n \in Int : /\ Amounts(r.lost, n, 1)
                 /\ Magnitude(n) <= r.turns
                 /\ Against(r.rest, r.value) => Magnitude(n) + 1 <= r.turns

Paced(r) ==
  /\ DOMAIN r = MotionFields
  /\ r.value \in Fractions /\ r.value[1] # 0
  /\ r.rest \in Fractions /\ r.lost \in Fractions
  /\ -2 * r.rest[2] < r.rest[1] /\ r.rest[1] < 2 * r.rest[2]
  /\ r.interval \in Nat \ {0} /\ r.time \in Int /\ r.turns \in Nat
  /\ Paid(r)

(* One turn of the loop keeps the pace. *)
LEMMA OncePaced ==
  ASSUME NEW r, Paced(r)
  PROVE  LET s == RepeatOnce(r)
         IN  /\ Paced(s) /\ s.time = r.time - r.interval
             /\ s.interval = r.interval
<1> DEFINE f == r.rest  g == r.value
           a == f[1] * g[2]  b == g[1] * f[2]  d == f[2] * g[2]
           t == Truncated(f)  q == Truncated(g)
           ahead == Plus(g, Whole(f))  s == Truncated(ahead)
           owed == Minus(Plus(f, g), Whole(ahead))
           left == (a - t * d) + (b - q * d)
           lost == Plus(r.lost, Minus(owed, RestAfter(r)))
           m == t + q - s
<1>1. /\ f[1] \in Int /\ g[1] \in Int /\ f[2] \in Nat \ {0} /\ g[2] \in Nat \ {0}
      /\ f \in Fractions /\ g \in Fractions /\ g[1] # 0
      /\ -2 * f[2] < f[1] /\ f[1] < 2 * f[2]
  BY DEF Paced, Fractions
<1>2. a \in Int /\ b \in Int /\ d \in Nat \ {0} /\ b # 0
  BY <1>1
<1>3. Amounts(f, a, d) /\ Amounts(g, b, d)
  BY <1>1 DEF Amounts
<1>4. RepeatOnce(r) = [r EXCEPT !.rest = RestAfter(r), !.time = r.time - r.interval,
                                !.lost = lost]
  BY DEF RepeatOnce, Paced, MotionFields
<1> HIDE DEF a, b, d, lost
<1>5. ASSUME NEW k \in Int
      PROVE  <<k, 1>> \in Fractions /\ Amounts(<<k, 1>>, k * d, d)
  BY <1>2 DEF Amounts, Fractions
<1>6. t \in Int /\ Cut(t, a, d) /\ q \in Int /\ Cut(q, b, d)
  BY <1>2, <1>3, TruncatedAmounts
<1> HIDE DEF t, q
<1>7. Whole(f) = <<t, 1>> /\ Whole(g) = <<q, 1>>
  BY DEF Whole, t, q
<1>8. t * d \in Int /\ q * d \in Int /\ Amounts(Whole(f), t * d, d) /\ Amounts(Whole(g), q * d, d)
  BY <1>2, <1>5, <1>6, <1>7
<1>9. Amounts(ahead, b + t * d, d)
  BY <1>2, <1>3, <1>8, PlusAmounts
<1> HIDE DEF ahead
<1>10. s \in Int /\ Cut(s, b + t * d, d)
  BY <1>2, <1>8, <1>9, TruncatedAmounts
<1>11. Whole(ahead) = <<s, 1>>
  BY DEF Whole
<1> HIDE DEF s
<1>12. s * d \in Int /\ Amounts(Whole(ahead), s * d, d)
  BY <1>2, <1>5, <1>10, <1>11
<1>13. Amounts(Plus(f, g), a + b, d)
  BY <1>2, <1>3, PlusAmounts
<1>14. Amounts(owed, a + b - s * d, d)
  BY <1>2, <1>12, <1>13, MinusAmounts
<1>15. Amounts(Minus(f, Whole(f)), a - t * d, d) /\ Amounts(Minus(g, Whole(g)), b - q * d, d)
  BY <1>2, <1>3, <1>8, MinusAmounts
<1>16. left \in Int /\ Amounts(RestAfter(r), left, d)
  <2> DEFINE x == a - t * d  y == b - q * d
             first == Minus(f, Whole(f))  second == Minus(g, Whole(g))
  <2>1. x \in Int /\ y \in Int /\ x + y = left
    BY <1>2, <1>8
  <2>2. Amounts(first, x, d) /\ Amounts(second, y, d)
    BY <1>15
  <2>3. RestAfter(r) = Plus(first, second)
    BY DEF RestAfter
  <2> HIDE DEF x, y, first, second
  <2>4. Amounts(Plus(first, second), x + y, d)
    BY <1>2, <2>1, <2>2, PlusAmounts
  <2> QED BY <2>1, <2>3, <2>4
<1> HIDE DEF owed
<1>17. StepKeeps(a, b, d, t, q, s)
  <2>1. -2 * d < a /\ a < 2 * d
    <3>1. (f[1] > -2 * f[2] <=> a > -2 * d) /\ (f[1] < 2 * f[2] <=> a < 2 * d)
      BY <1>2, <1>3, ComparedSmall
    <3> QED BY <1>1, <1>2, <3>1
  <2> QED BY <1>2, <1>6, <1>10, <2>1, StepOfLoop
<1>18. /\ m \in {-1, 0, 1} /\ (~AgainstBy(a, b, d) => m = 0)
       /\ -2 * d < left /\ left < 2 * d /\ ~AgainstBy(left, b, d)
  BY <1>17 DEF StepKeeps
<1>19. m * d = (a + b - s * d) - left /\ m \in Int
  <2>1. m * d = t * d + q * d - s * d
    BY <1>2, <1>6, <1>10
  <2> QED BY <1>2, <1>6, <1>8, <1>10, <1>12, <2>1
<1> HIDE DEF left
<1>20. Amounts(Minus(owed, RestAfter(r)), m * d, d)
  <2> DEFINE x == a + b - s * d  kept == RestAfter(r)
  <2>1. x \in Int /\ left \in Int /\ m * d = x - left
    BY <1>2, <1>12, <1>16, <1>19
  <2>2. Amounts(owed, x, d) /\ Amounts(kept, left, d)
    BY <1>14, <1>16
  <2> HIDE DEF x, kept
  <2>3. Amounts(Minus(owed, kept), x - left, d)
    BY <1>2, <2>1, <2>2, MinusAmounts
  <2> QED BY <2>1, <2>3 DEF kept
<1> HIDE DEF m
<1> DEFINE before == r.lost  turns == r.turns
<1>21. PICK n \in Int : Amounts(before, n, 1) /\ Magnitude(n) <= turns
                       /\ (Against(f, g) => Magnitude(n) + 1 <= turns)
  BY DEF Paced, Paid
<1> HIDE DEF before, turns
<1>22. Amounts(before, n * d, d)
  <2>1. before \in Fractions /\ before[1] = n * before[2] /\ before[2] \in Int
    <3>1. before \in Fractions /\ before[1] * 1 = n * before[2]
      BY <1>21 DEF Amounts
    <3>2. before[1] \in Int /\ before[2] \in Int
      BY <3>1 DEF Fractions
    <3> QED BY <3>1, <3>2
  <2>2. (n * before[2]) * d = (n * d) * before[2]
    BY <1>2, <2>1
  <2> QED BY <2>1, <2>2 DEF Amounts
<1>23. Amounts(lost, n * d + m * d, d)
  <2>1. n * d \in Int /\ m * d \in Int
    BY <1>2, <1>19
  <2> QED BY <1>2, <1>20, <1>22, <2>1, PlusAmounts DEF lost, before
<1>24. lost \in Fractions /\ Amounts(lost, n + m, 1)
  <2> DEFINE x == lost[1]  y == lost[2]
  <2>1. lost \in Fractions /\ x * d = (n * d + m * d) * y /\ x \in Int /\ y \in Int
    BY <1>23 DEF Amounts, Fractions
  <2> HIDE DEF x, y
  <2>2. (n * d + m * d) * y = ((n + m) * y) * d
    BY <1>2, <1>19, <2>1
  <2>3. (n + m) * y \in Int
    BY <1>19, <2>1
  <2>4. x = (n + m) * y
    BY <1>2, <2>1, <2>2, <2>3, Cancel
  <2> QED BY <2>1, <2>4 DEF Amounts, x, y
<1>25. Against(f, g) <=> AgainstBy(a, b, d)
  <2>1. (f[1] > -f[2] <=> a > -d) /\ (f[1] < f[2] <=> a < d)
    BY <1>2, <1>3, ComparedSmall
  <2>2. (g[1] < 0 <=> b < 0) /\ (g[1] > 0 <=> b > 0)
    BY <1>2, <1>3, ComparedSmall
  <2> QED BY <1>1, <1>2, <2>1, <2>2 DEF Against, AgainstBy
<1> DEFINE h == RestAfter(r)
<1>26. h \in Fractions /\ h[1] \in Int /\ h[2] \in Nat \ {0}
       /\ -2 * h[2] < h[1] /\ h[1] < 2 * h[2] /\ ~Against(h, g)
  <2>1. h \in Fractions /\ h[1] \in Int /\ h[2] \in Nat \ {0}
    BY <1>16 DEF Amounts, Fractions
  <2> HIDE DEF h
  <2>2. /\ (h[1] > -h[2] <=> left > -d) /\ (h[1] < h[2] <=> left < d)
        /\ (h[1] > -2 * h[2] <=> left > -2 * d) /\ (h[1] < 2 * h[2] <=> left < 2 * d)
    BY <1>2, <1>16, ComparedSmall DEF h
  <2>3. (g[1] < 0 <=> b < 0) /\ (g[1] > 0 <=> b > 0)
    BY <1>2, <1>3, ComparedSmall
  <2> QED BY <1>1, <1>2, <1>16, <1>18, <2>1, <2>2, <2>3 DEF Against, AgainstBy
<1> HIDE DEF f, g, h
<1>27. n + m \in Int /\ Magnitude(n + m) <= turns
  <2>1. turns \in Nat
    BY DEF Paced, turns
  <2>2. m = 0 \/ m = 1 \/ m = -1
    BY <1>18
  <2>3. m # 0 => Against(f, g)
    BY <1>18, <1>25
  <2>4. n + m \in Int
    BY <1>19
  <2>5. /\ Magnitude(n + 1) <= Magnitude(n) + 1 /\ Magnitude(n) \in Nat
        /\ Magnitude(n + (-1)) <= Magnitude(n) + 1 /\ Magnitude(n + 0) = Magnitude(n)
        /\ Magnitude(n + 1) \in Nat /\ Magnitude(n + (-1)) \in Nat
    BY DEF Magnitude
  <2>6. Magnitude(n) <= turns /\ (m # 0 => Magnitude(n) + 1 <= turns)
    BY <1>21, <2>3, Zenon
  <2>7. CASE m = 0
    BY <2>1, <2>4, <2>5, <2>6, <2>7
  <2>8. CASE m = 1
    BY <2>1, <2>4, <2>5, <2>6, <2>8
  <2>9. CASE m = -1
    BY <2>1, <2>4, <2>5, <2>6, <2>9
  <2> QED BY <2>2, <2>7, <2>8, <2>9
<1> DEFINE z == RepeatOnce(r)
<1>28. /\ DOMAIN z = MotionFields /\ z.rest = h /\ z.time = r.time - r.interval /\ z.lost = lost
       /\ z.value = g /\ z.interval = r.interval /\ z.turns = turns
  BY <1>4 DEF Paced, MotionFields, g, h, turns
<1> HIDE DEF z
<1>29. Paid(z)
  BY <1>24, <1>26, <1>27, <1>28 DEF Paid
<1>30. r.time - r.interval \in Int
  BY DEF Paced
<1>31. Paced(z)
  BY <1>1, <1>24, <1>26, <1>28, <1>29, <1>30 DEF Paced, g, turns
<1> QED BY <1>28, <1>31 DEF z

OnTime(r) == Paced(r) /\ r.time >= 0

(* The loop of UInput::update ends with less than an interval left.         *)
LEMMA RepeatedOnTime ==
  ASSUME NEW r, OnTime(r), NEW d \in Nat
  PROVE  OnTime(Repeated(r, d))
<1> DEFINE due == (r.time + d) \div r.interval
           start == [r EXCEPT !.time = r.time + d]
<1>1. r.time \in Nat /\ r.interval \in Nat \ {0} /\ DOMAIN r = MotionFields
  BY DEF OnTime, Paced
<1>2. due \in Nat /\ due * r.interval <= r.time + d
  <2> DEFINE n == r.time + d  k == r.interval
  <2>1. n \in Nat /\ k \in Nat \ {0}
    BY <1>1
  <2> HIDE DEF n, k
  <2>2. n \div k \in Nat /\ (n \div k) * k <= n
    BY <2>1
  <2> QED BY <2>2 DEF n, k
<1>3. Repeated(r, d) = (CHOOSE f : Runs(f, "repeat", due, start, d))[due]
  BY <1>1 DEF Repeated, Runs, LoopOf, MotionFields
<1> HIDE DEF due
<1>4. PICK f : Runs(f, "repeat", due, start, d) /\ Repeated(r, d) = f[due]
  <2>1. \E f : Runs(f, "repeat", due, start, d)
    <3> HIDE DEF start
    <3> QED BY <1>2, LoopExists
  <2> HIDE DEF start
  <2> QED BY <1>3, <2>1
<1>5. Paced(start) /\ start.time = r.time + d /\ start.interval = r.interval
  <2>1. /\ DOMAIN start = MotionFields /\ start.time = r.time + d /\ start.interval = r.interval
        /\ start.value = r.value /\ start.rest = r.rest /\ start.lost = r.lost
        /\ start.turns = r.turns
    BY <1>1 DEF MotionFields
  <2> HIDE DEF start
  <2> QED BY <1>1, <2>1 DEF OnTime, Paced, Paid
<1> HIDE DEF start
<1> DEFINE G == {i \in 0..due : /\ Paced(f[i]) /\ f[i].interval = r.interval
                               /\ f[i].time = (r.time + d) - i * r.interval}
<1>6. 0 \in G
  <2>1. f[0] = start /\ 0 * r.interval = 0
    BY <1>1, <1>2, <1>4 DEF Runs
  <2> QED BY <1>1, <1>2, <1>5, <2>1
<1>7. ASSUME NEW i \in 1..due, i - 1 \in G PROVE i \in G
  <2> DEFINE now == f[i - 1]  k == r.interval
  <2>1. Paced(now) /\ now.interval = k /\ now.time = (r.time + d) - (i - 1) * k
    BY <1>7
  <2>2. f[i] = RepeatOnce(now)
    <3>1. i \in 0..due /\ i # 0
      BY <1>7
    <3> QED BY <1>2, <1>4, <3>1 DEF Runs, LoopOf
  <2> HIDE DEF now
  <2>3. Paced(f[i]) /\ f[i].time = now.time - now.interval /\ f[i].interval = now.interval
    BY <2>1, <2>2, OncePaced
  <2>4. k \in Int /\ i \in Int /\ r.time + d \in Int /\ i \in 0..due
    BY <1>1, <1>7
  <2> HIDE DEF k
  <2>5. (i - 1) * k = i * k - k /\ i * k \in Int
    BY <2>4
  <2>6. f[i].time = (r.time + d) - i * k
    BY <2>1, <2>3, <2>4, <2>5
  <2> QED BY <2>1, <2>3, <2>4, <2>6 DEF k
<1>8. 0..due \subseteq G
  <2> HIDE DEF G
  <2> QED BY <1>2, <1>6, <1>7, UpTo
<1>9. Paced(f[due]) /\ f[due].time = (r.time + d) - due * r.interval
  <2>1. due \in G
    BY <1>2, <1>8
  <2> QED BY <2>1
<1>10. (r.time + d) - due * r.interval >= 0
  <2>1. due * r.interval \in Int
    BY <1>1, <1>2
  <2> QED BY <1>1, <1>2, <2>1
<1> QED BY <1>4, <1>9, <1>10 DEF OnTime

(* A motion that is sent starts with nothing owed, goes on, turns, or ends. *)
LEMMA SendOnTime ==
  ASSUME NEW repeats, \A key \in DOMAIN repeats : OnTime(repeats[key]),
         NEW ev, NEW value \in Fractions, NEW interval \in Int,
         interval = -1 \/ (interval \in Nat \ {0} /\ value[1] # 0)
  PROVE  LET after == SendRelRepetitive(repeats, ev, value, interval)
         IN  \A key \in DOMAIN after : OnTime(after[key])
<1> DEFINE key == RepeatKey(ev)
           new == [device |-> DeviceId(ev), value |-> value, rest |-> Zero, time |-> 0,
                   interval |-> interval, lost |-> Zero, turns |-> 0]
           old == repeats[key]
           turns == IF Turns(old.value, value) THEN old.turns + 1 ELSE old.turns
           next == [old EXCEPT !.device = DeviceId(ev), !.value = value,
                               !.interval = interval, !.turns = turns]
           after == SendRelRepetitive(repeats, ev, value, interval)
<1>1. CASE interval = -1
  <2>1. after = Removed(repeats, key)
    BY <1>1 DEF SendRelRepetitive
  <2> HIDE DEF after, key
  <2>2. ASSUME NEW x \in DOMAIN after PROVE x \in DOMAIN repeats /\ after[x] = repeats[x]
    BY <2>1 DEF Removed
  <2> QED BY <2>2 DEF after
<1>2. CASE interval # -1 /\ key \notin DOMAIN repeats
  <2>1. after = [k \in DOMAIN repeats \cup {key} |-> IF k = key THEN new ELSE repeats[k]]
    BY <1>2 DEF SendRelRepetitive
  <2>2. OnTime(new)
    <3>1. /\ DOMAIN new = MotionFields /\ new.value = value /\ new.rest = Zero /\ new.time = 0
          /\ new.interval = interval /\ new.lost = Zero /\ new.turns = 0
      BY DEF MotionFields
    <3> HIDE DEF new
    <3>2. Zero \in Fractions /\ Zero[1] = 0 /\ Zero[2] = 1
      BY DEF Fractions, Zero
    <3>3. Amounts(Zero, 0, 1) /\ Magnitude(0) = 0
      BY <3>2 DEF Amounts, Magnitude
    <3>4. ~Against(Zero, value)
      BY <3>2 DEF Against
    <3>5. Paid(new)
      BY <3>1, <3>3, <3>4 DEF Paid
    <3> QED BY <1>2, <3>1, <3>2, <3>5 DEF OnTime, Paced
  <2> HIDE DEF after, new, key
  <2>3. ASSUME NEW x \in DOMAIN after
        PROVE  \/ after[x] = new
               \/ x \in DOMAIN repeats /\ after[x] = repeats[x]
    BY <2>1
  <2> QED BY <2>2, <2>3 DEF after
<1>3. CASE interval # -1 /\ key \in DOMAIN repeats
  <2>1. OnTime(old)
    BY <1>3
  <2>2. after = [repeats EXCEPT ![key] = next]
    BY <1>3, <2>1 DEF SendRelRepetitive, OnTime, Paced, MotionFields
  <2>3. OnTime(next)
    <3>1. /\ DOMAIN next = MotionFields /\ next.value = value /\ next.rest = old.rest
          /\ next.time = old.time /\ next.interval = interval /\ next.lost = old.lost
          /\ next.turns = turns
      BY <2>1 DEF OnTime, Paced, MotionFields
    <3> HIDE DEF next, key
    <3>2. old.turns \in Nat /\ old.value \in Fractions /\ old.value[1] # 0
          /\ old.rest \in Fractions
      BY <2>1 DEF OnTime, Paced
    <3>3. PICK n \in Int : Amounts(old.lost, n, 1) /\ Magnitude(n) <= old.turns
                           /\ (Against(old.rest, old.value) => Magnitude(n) + 1 <= old.turns)
      BY <2>1 DEF OnTime, Paced, Paid
    <3>4. Magnitude(n) \in Nat
      BY DEF Magnitude
    <3>5. turns \in Nat /\ Magnitude(n) <= turns
          /\ (Against(old.rest, value) => Magnitude(n) + 1 <= turns)
      <4>1. CASE Turns(old.value, value)
        BY <3>2, <3>3, <3>4, <4>1
      <4>2. CASE ~Turns(old.value, value)
        <5>1. old.value[1] \in Int /\ value[1] \in Int /\ value[1] # 0
          BY <1>3, <3>2 DEF Fractions
        <5>2. Against(old.rest, value) => Against(old.rest, old.value)
          BY <3>2, <4>2, <5>1 DEF Turns, Against
        <5> QED BY <3>2, <3>3, <3>4, <4>2, <5>2
      <4> QED BY <4>1, <4>2
    <3> HIDE DEF turns
    <3>6. Paid(next)
      BY <3>1, <3>3, <3>5 DEF Paid
    <3> QED BY <1>3, <2>1, <3>1, <3>5, <3>6 DEF OnTime, Paced
  <2> HIDE DEF after, next, key
  <2>4. ASSUME NEW x \in DOMAIN after
        PROVE  x \in DOMAIN repeats /\ after[x] = IF x = key THEN next ELSE repeats[x]
    BY <2>2
  <2> QED BY <2>3, <2>4 DEF after
<1> QED BY <1>1, <1>2, <1>3

-----------------------------------------------------------------------------
(* The values of an axis are numbers, whatever its filters.                 *)
FilterStates == [value : Fractions, speed : Fractions, state : Fractions]

LEMMA AxisTypes ==
  ASSUME NEW s \in Setups, NEW i \in DOMAIN s.axes
  PROVE  LET a == s.axes[i]
         IN  /\ a.min \in Int /\ a.max \in Int
             /\ a.min <= 0 /\ a.max > 0 /\ a.max - a.min > 1
             /\ a.kind = "rel" => /\ a.min < 0 /\ a.value \in Fractions
                                  /\ a.repeat = -1 \/ a.repeat \in Nat \ {0}
             /\ Len(a.filters) \in Nat /\ DOMAIN a.filters = 1..Len(a.filters)
             /\ \A k \in DOMAIN a.filters : FilterDefined(a.filters[k], a.min, a.max)
<1> DEFINE a == s.axes[i]  F == a.filters
<1>1. /\ {a.min, a.max} \subseteq Int /\ a.min <= 0 /\ a.max > 0 /\ a.max - a.min > 1
      /\ a.kind = "rel" => /\ a.value \in Int \X (Nat \ {0})
                           /\ a.repeat = -1 \/ a.repeat \in Nat \ {0}
      /\ a.kind \in {"rel", "rel-repeat"} => a.min < 0
      /\ F \in Seq(Range(F)) /\ \A k \in DOMAIN F : FilterDefined(F[k], a.min, a.max)
  BY DevicesAssumption
<1>2. Len(F) \in Nat /\ DOMAIN F = 1..Len(F)
  <2> DEFINE R == Range(F)
  <2>1. F \in Seq(R)
    BY <1>1
  <2> HIDE DEF F, R
  <2> QED BY <2>1
<1> QED BY <1>1, <1>2 DEF Fractions

LEMMA QuotientInt ==
  ASSUME NEW n \in Int, NEW d \in Int, d # 0
  PROVE  Quotient(n, d) \in Int
<1>1. Magnitude(n) \in Nat /\ Magnitude(d) \in Nat \ {0}
  BY DEF Magnitude
<1> DEFINE m == Magnitude(n)  k == Magnitude(d)
<1> HIDE DEF m, k
<1>2. m \div k \in Int
  BY <1>1 DEF m, k
<1>3. Quotient(n, d) = IF n < 0 <=> d < 0 THEN m \div k ELSE -(m \div k)
  BY DEF Quotient, m, k
<1> QED BY <1>2, <1>3

LEMMA CenterInside ==
  ASSUME NEW min \in Int, NEW max \in Int, min <= 0, max > 0, max - min > 1
  PROVE  Center(min, max) \in Int /\ min < Center(min, max) /\ Center(min, max) < max
<1> DEFINE n == max + min + 1  q == Quotient(n, 2)
<1>1. n \in Int
  OBVIOUS
<1> HIDE DEF n
<1>2. q \in Int /\ Cut(q, n, 2)
  BY <1>1, QuotientCuts
<1> HIDE DEF q
<1>3. min < q /\ q < max
  BY <1>2 DEF Cut, n
<1> QED BY <1>2, <1>3 DEF Center, n, q

LEMMA FloatFraction ==
  ASSUME NEW n \in Int, NEW d \in Nat \ {0}
  PROVE  Float(n, d) \in Fractions
BY FloatAmounts DEF Amounts

LEMMA PlusFraction ==
  ASSUME NEW f \in Fractions, NEW g \in Fractions
  PROVE  Plus(f, g) \in Fractions
<1>1. f[1] \in Int /\ g[1] \in Int /\ f[2] \in Nat \ {0} /\ g[2] \in Nat \ {0}
  BY DEF Fractions
<1> DEFINE a == f[1]  b == f[2]  p == g[1]  q == g[2]
<1> HIDE DEF a, b, p, q
<1>2. a * q + p * b \in Int /\ b * q \in Nat \ {0}
  BY <1>1 DEF a, b, p, q
<1> QED BY <1>2, FloatFraction DEF Plus, a, b, p, q

LEMMA UnitFraction ==
  ASSUME NEW f \in Fractions
  PROVE  Unit(f) \in Fractions
BY DEF Unit, Fractions

LEMMA ToFloatFraction ==
  ASSUME NEW min \in Int, NEW max \in Int, min <= 0, max > 0, max - min > 1, NEW v \in Int
  PROVE  ToFloatUnchecked(v, min, max) \in Fractions /\ ToFloat(v, min, max) \in Fractions
<1> DEFINE c == Center(min, max)
<1>1. c \in Int /\ min < c /\ c < max
  BY CenterInside
<1>2. ToFloatUnchecked(v, min, max) = Float(v - c, IF v < c THEN c - min ELSE max - c)
  BY DEF ToFloatUnchecked
<1> HIDE DEF c
<1>3. v - c \in Int /\ (IF v < c THEN c - min ELSE max - c) \in Nat \ {0}
  BY <1>1
<1>4. ToFloatUnchecked(v, min, max) \in Fractions
  BY <1>2, <1>3, FloatFraction
<1> QED BY <1>4, UnitFraction DEF ToFloat

LEMMA FromFloatInt ==
  ASSUME NEW f \in Fractions, NEW min \in Int, NEW max \in Int
  PROVE  FromFloat(f, min, max) \in Int
<1>1. f[1] \in Int /\ f[2] \in Nat \ {0}
  BY DEF Fractions
<1>2. (f[1] + f[2]) * (max - min) \in Int /\ 2 * f[2] * min \in Int
  <2>1. f[1] + f[2] \in Int /\ max - min \in Int /\ 2 * f[2] \in Int
    BY <1>1
  <2> QED BY <2>1
<1>3. (f[1] + f[2]) * (max - min) + 2 * f[2] * min \in Int /\ 2 * f[2] \in Int /\ 2 * f[2] # 0
  BY <1>1, <1>2
<1> QED BY <1>3, QuotientInt DEF FromFloat

LEMMA InvertedInt ==
  ASSUME NEW min \in Int, NEW max \in Int, min <= 0, max > 0, max - min > 1, NEW v \in Int
  PROVE  Inverted(v, min, max) \in Int
<1> DEFINE c == Center(min, max)
<1>1. c \in Int /\ min < c /\ c < max
  BY CenterInside
<1> HIDE DEF c
<1>2. (max - c) * (v - c) \in Int /\ (min - c) * (v - c) \in Int
  <2>1. max - c \in Int /\ min - c \in Int /\ v - c \in Int
    BY <1>1
  <2> QED BY <2>1
<1>3. min - c \in Int /\ min - c # 0 /\ max - c \in Int /\ max - c # 0
  BY <1>1
<1>4. Quotient((max - c) * (v - c), min - c) \in Int
      /\ Quotient((min - c) * (v - c), max - c) \in Int
  BY <1>2, <1>3, QuotientInt
<1> DEFINE below == Quotient((max - c) * (v - c), min - c)
           above == Quotient((min - c) * (v - c), max - c)
<1>5. Inverted(v, min, max) = CASE v < c -> below + c [] v > c -> above + c [] v = c -> v
  BY DEF Inverted, c
<1>6. below \in Int /\ above \in Int
  BY <1>4
<1> HIDE DEF below, above
<1> QED BY <1>1, <1>5, <1>6

LEMMA DeadzoneInt ==
  ASSUME NEW min \in Int, NEW max \in Int, NEW v \in Int,
         NEW f, f.kind = "deadzone", FilterDefined(f, min, max)
  PROVE  Deadzone(f, v, min, max) \in Int
<1> DEFINE x == f.from  y == f.to
<1>1. x \in Int /\ y \in Int /\ f.smooth \in BOOLEAN /\ (f.smooth => x # min /\ y # max)
  BY DEF FilterDefined
<1>2. min * (v - x) \in Int /\ max * (v - y) \in Int /\ min - x \in Int /\ max - y \in Int
  BY <1>1
<1> HIDE DEF x, y
<1>3. f.smooth => min - x # 0 /\ max - y # 0
  BY <1>1
<1>4. f.smooth => /\ Quotient(min * (v - x), min - x) \in Int
                  /\ Quotient(max * (v - y), max - y) \in Int
  BY <1>2, <1>3, QuotientInt
<1>5. CASE f.smooth
  BY <1>1, <1>4, <1>5 DEF Deadzone, x, y
<1>6. CASE ~f.smooth
  BY <1>1, <1>6 DEF Deadzone, x, y
<1> QED BY <1>5, <1>6

LEMMA CalibratedInt ==
  ASSUME NEW min \in Int, NEW max \in Int, NEW v \in Int,
         NEW f, f.kind = "calibration", FilterDefined(f, min, max)
  PROVE  Calibrated(f, v, min, max) \in Int
<1> DEFINE x == f.from  c == f.center  y == f.to
           value == CASE v < c -> Quotient(-min * (v - c), c - x)
                      [] v > c -> Quotient(max * (v - c), y - c)
                      [] v = c -> 0
<1>1. x \in Int /\ c \in Int /\ y \in Int /\ c # x /\ c # y
  BY DEF FilterDefined
<1> HIDE DEF x, c, y
<1>2. -min * (v - c) \in Int /\ max * (v - c) \in Int
      /\ c - x \in Int /\ c - x # 0 /\ y - c \in Int /\ y - c # 0
  BY <1>1
<1>3. Quotient(-min * (v - c), c - x) \in Int /\ Quotient(max * (v - c), y - c) \in Int
  BY <1>2, QuotientInt
<1>4. value \in Int
  BY <1>1, <1>3
<1>5. Calibrated(f, v, min, max) = Clamp(value, min, max)
  BY DEF Calibrated, x, c, y
<1> HIDE DEF value
<1> QED BY <1>4, <1>5 DEF Clamp

LEMMA OnCurveInt ==
  ASSUME NEW min \in Int, NEW max \in Int, min <= 0, max > 0, max - min > 1,
         NEW samples \in Seq(Int), NEW v \in Int
  PROVE  OnCurve(samples, v, min, max) \in Int
<1> DEFINE buckets == Len(samples) - 1
           width == max - min
           ahead == Clamp(v, min, max) - min
           scaled == ahead * buckets
           at == scaled \div width
           bucket == Min({at, buckets - 1})
           t == scaled - bucket * width
<1>1. width \in Nat \ {0} /\ buckets \in Int
  OBVIOUS
<1>2. ahead \in Nat
  BY DEF Clamp
<1>3. CASE samples = <<>>
  BY <1>3 DEF OnCurve
<1>4. CASE samples # <<>> /\ buckets = 0
  BY <1>4 DEF OnCurve
<1>5. CASE samples # <<>> /\ buckets # 0
  <2>1. buckets \in Nat \ {0}
    BY <1>5
  <2> HIDE DEF ahead
  <2>2. scaled \in Nat
    BY <1>2, <2>1
  <2> HIDE DEF scaled, width
  <2>3. at \in Nat
    BY <1>1, <2>2
  <2> HIDE DEF at
  <2>4. bucket \in {at, buckets - 1} /\ bucket <= buckets - 1
    <3> DEFINE T == {at, buckets - 1}
    <3> HIDE DEF buckets
    <3>0. buckets - 1 \in Nat
      BY <2>1
    <3>1. T \subseteq Nat /\ T # {} /\ buckets - 1 \in T
      BY <2>3, <3>0
    <3> HIDE DEF T
    <3>2. Min(T) \in T /\ \A y \in T : Min(T) <= y
      BY <3>1, MinFacts
    <3>3. Min(T) <= buckets - 1
      BY <3>1, <3>2
    <3> QED BY <3>2, <3>3 DEF T
  <2> HIDE DEF bucket
  <2>5. bucket + 1 \in 1..Len(samples) /\ bucket + 2 \in 1..Len(samples) /\ bucket \in Int
    <3>1. Len(samples) = buckets + 1 /\ Len(samples) \in Nat
      OBVIOUS
    <3> HIDE DEF buckets
    <3>2. bucket \in Nat /\ bucket <= buckets - 1
      BY <2>1, <2>3, <2>4
    <3> QED BY <2>1, <3>1, <3>2
  <2> DEFINE low == samples[bucket + 1]  high == samples[bucket + 2]
  <2>6. low \in Int /\ high \in Int
    BY <2>5
  <2>7. t \in Int
    BY <1>1, <2>2, <2>5
  <2> HIDE DEF low, high, t
  <2>8. (width - t) * low \in Int /\ t * high \in Int
    BY <1>1, <2>6, <2>7
  <2>9. Quotient((width - t) * low + t * high, width) \in Int
    BY <1>1, <2>8, QuotientInt
  <2>10. OnCurve(samples, v, min, max) = Quotient((width - t) * low + t * high, width)
    BY <1>1, <1>5, <2>1 DEF OnCurve, width, t, low, high, bucket, at, scaled, ahead
  <2> QED BY <2>9, <2>10
<1> QED BY <1>3, <1>4, <1>5

LEMMA FilteredInt ==
  ASSUME NEW min \in Int, NEW max \in Int, min <= 0, max > 0, max - min > 1,
         NEW f, FilterDefined(f, min, max), NEW s \in FilterStates, NEW v \in Int
  PROVE  /\ AxisFiltered(f, s, v, min, max) \in Int
         /\ AxisFilterAfter(f, s, v, min, max) \in FilterStates
<1>1. f.kind \in {"invert", "deadzone", "calibration", "const", "curve", "relative"}
      /\ (f.kind = "const" => f.value \in Int) /\ (f.kind = "curve" => f.samples \in Seq(Int))
      /\ (f.kind = "relative" => f.speed \in Int)
  BY DEF FilterDefined
<1>2. CASE f.kind = "relative"
  <2>1. FromFloat(s.state, min, max) \in Int
    BY FromFloatInt DEF FilterStates
  <2>2. ToFloat(v, min, max) \in Fractions /\ ToFloatUnchecked(f.speed, min, max) \in Fractions
    BY <1>1, <1>2, ToFloatFraction
  <2>3. AxisFilterAfter(f, s, v, min, max) =
          [s EXCEPT !.value = ToFloat(v, min, max), !.speed = ToFloatUnchecked(f.speed, min, max)]
    BY <1>2 DEF AxisFilterAfter
  <2>4. AxisFilterAfter(f, s, v, min, max) \in FilterStates
    BY <2>2, <2>3 DEF FilterStates
  <2> QED BY <1>2, <2>1, <2>4 DEF AxisFiltered
<1>3. CASE f.kind # "relative"
  <2>1. AxisFilterAfter(f, s, v, min, max) = s
    BY <1>3 DEF AxisFilterAfter
  <2>2. CASE f.kind = "invert"
    BY <2>1, <2>2, InvertedInt DEF AxisFiltered
  <2>3. CASE f.kind = "deadzone"
    BY <2>1, <2>3, DeadzoneInt DEF AxisFiltered
  <2>4. CASE f.kind = "calibration"
    BY <2>1, <2>4, CalibratedInt DEF AxisFiltered
  <2>5. CASE f.kind = "const"
    BY <1>1, <2>1, <2>5 DEF AxisFiltered
  <2>6. CASE f.kind = "curve"
    BY <1>1, <2>1, <2>6, OnCurveInt DEF AxisFiltered
  <2> QED BY <1>1, <1>3, <2>2, <2>3, <2>4, <2>5, <2>6
<1> QED BY <1>2, <1>3

LEMMA PassedState ==
  ASSUME NEW f, NEW s \in FilterStates, NEW d \in Nat
  PROVE  AxisPassed(f, s, d) \in FilterStates
<1> DEFINE moved == Times(Times(s.speed, s.value), Float(d, Second))
<1>1. s.speed \in Fractions /\ s.value \in Fractions /\ s.state \in Fractions
  BY DEF FilterStates
<1>2. Float(d, Second) \in Fractions
  BY SecondAssumption, FloatFraction
<1>3. Times(s.speed, s.value) \in Fractions
  BY <1>1, TimesAmounts
<1>4. moved \in Fractions
  BY <1>2, <1>3, TimesAmounts
<1> HIDE DEF moved
<1>5. Unit(Plus(s.state, moved)) \in Fractions
  BY <1>1, <1>4, PlusFraction, UnitFraction
<1>6. MovedBy(s, d) \in Fractions
  BY <1>5 DEF MovedBy, moved
<1> QED BY <1>6 DEF AxisPassed, FilterStates

LEMMA ValuesInt ==
  ASSUME NEW s \in Setups, NEW i \in DOMAIN s.axes, NEW v \in Int,
         NEW S \in [DOMAIN s.axes[i].filters -> FilterStates]
  PROVE  LET a == s.axes[i]
         IN  /\ AxisValues(a.filters, S, v, a.min, a.max)[Len(a.filters)] \in Int
             /\ AxisFiltersAfter(a.filters, S, v, a.min, a.max)
                  \in [DOMAIN a.filters -> FilterStates]
<1> DEFINE a == s.axes[i]  F == a.filters  n == Len(F)  min == a.min  max == a.max
<1>1. /\ min \in Int /\ max \in Int /\ min <= 0 /\ max > 0 /\ max - min > 1
      /\ n \in Nat /\ DOMAIN F = 1..n /\ \A k \in 1..n : FilterDefined(F[k], min, max)
      /\ S \in [1..n -> FilterStates]
  BY AxisTypes
<1> DEFINE Solves(g) == g = [k \in 0..n |->
                           IF k = 0 THEN v ELSE AxisFiltered(F[k], S[k], g[k - 1], min, max)]
           values == AxisValues(F, S, v, min, max)
           after == AxisFiltersAfter(F, S, v, min, max)
<1>2. values = CHOOSE g : Solves(g)
  BY DEF AxisValues
<1>3. after = [k \in 1..n |-> AxisFilterAfter(F[k], S[k], values[k - 1], min, max)]
  BY <1>1 DEF AxisFiltersAfter
<1> HIDE DEF n, F, min, max, values, after
<1>4. ASSUME NEW k \in 1..n, NEW w \in Int
      PROVE  /\ AxisFiltered(F[k], S[k], w, min, max) \in Int
             /\ AxisFilterAfter(F[k], S[k], w, min, max) \in FilterStates
  <2>1. S[k] \in FilterStates /\ FilterDefined(F[k], min, max)
    BY <1>1
  <2> QED BY <1>1, <2>1, FilteredInt
<1>5. \E g : Solves(g)
  <2> DEFINE step == [p \in (1..n) \X Int |-> AxisFiltered(F[p[1]], S[p[1]], p[2], min, max)]
  <2>1. step \in [(1..n) \X Int -> Int]
    <3>1. ASSUME NEW p \in (1..n) \X Int
          PROVE  AxisFiltered(F[p[1]], S[p[1]], p[2], min, max) \in Int
      <4>1. p[1] \in 1..n /\ p[2] \in Int
        OBVIOUS
      <4> QED BY <1>4, <4>1
    <3> QED BY <3>1
  <2>2. PICK g : Recursion(g, n, Int, v, step)
    <3> HIDE DEF step
    <3> QED BY <1>1, <2>1, RecursionExists
  <2>3. ASSUME NEW k \in 0..n
        PROVE  g[k] = IF k = 0 THEN v ELSE AxisFiltered(F[k], S[k], g[k - 1], min, max)
    <3>1. g[k] = IF k = 0 THEN v ELSE step[<<k, g[k - 1]>>]
      BY <2>2 DEF Recursion
    <3>2. k # 0 => k \in 1..n /\ g[k - 1] \in Int
      BY <1>1, <2>2 DEF Recursion
    <3>3. k # 0 => step[<<k, g[k - 1]>>] = AxisFiltered(F[k], S[k], g[k - 1], min, max)
      BY <3>2
    <3> HIDE DEF step
    <3> QED BY <3>1, <3>3
  <2>4. g = [k \in 0..n |-> g[k]]
    BY <2>2 DEF Recursion
  <2> HIDE DEF step
  <2>5. Solves(g)
    BY <2>3, <2>4
  <2> HIDE DEF Solves
  <2> QED BY <2>5
<1>6. Solves(values)
  <2> HIDE DEF Solves
  <2> QED BY <1>2, <1>5
<1>7. \A k \in 0..n : values[k] \in Int
  <2>1. values[0] \in Int
    BY <1>1, <1>6
  <2>2. ASSUME NEW k \in 1..n, values[k - 1] \in Int PROVE values[k] \in Int
    <3>1. values[k] = AxisFiltered(F[k], S[k], values[k - 1], min, max)
      BY <1>6, k \in 0..n, k # 0
    <3> QED BY <1>4, <2>2, <3>1
  <2> QED BY <1>1, <2>1, <2>2, RecursionType
<1>8. after \in [1..n -> FilterStates]
  <2>1. ASSUME NEW k \in 1..n
        PROVE  AxisFilterAfter(F[k], S[k], values[k - 1], min, max) \in FilterStates
    <3>1. k - 1 \in 0..n
      BY <1>1
    <3> QED BY <1>4, <1>7, <3>1
  <2> QED BY <1>3, <2>1
<1>9. values[n] \in Int
  BY <1>1, <1>7
<1> QED BY <1>1, <1>8, <1>9 DEF values, after, n, F, min, max

-----------------------------------------------------------------------------
(* The axes at work. *)
OutFields == {"repeats", "on", "abs"}

MotionsOnTime(o) ==
  DOMAIN o = OutFields /\ \A key \in DOMAIN o.repeats : OnTime(o.repeats[key])

AxisTyped(a, s) ==
  /\ DOMAIN s = AxisFields /\ s.raw \in Int
  /\ s.filters \in [DOMAIN a.filters -> FilterStates]

AxesTyped(A, S) == DOMAIN S = DOMAIN A /\ \A i \in DOMAIN A : AxisTyped(A[i], S[i])

(* Only a relative axis repeats motions: at the speed its stick asks for.   *)
LEMMA SpeedMoves ==
  ASSUME NEW s \in Setups, NEW i \in DOMAIN s.axes, s.axes[i].kind = "rel", NEW v \in Int
  PROVE  LET a == s.axes[i]  speed == Times(a.value, Stick(a, v))
         IN  speed \in Fractions /\ (speed # Zero => speed[1] # 0)
<1> DEFINE a == s.axes[i]  stick == Stick(a, v)  speed == Times(a.value, stick)
<1>1. a.min \in Int /\ a.min < 0 /\ a.max \in Int /\ a.max > 0 /\ a.value \in Fractions
  <2>1. a.min \in Int /\ a.max \in Int /\ a.max > 0
    BY AxisTypes
  <2>2. a.kind = "rel" => /\ a.min < 0 /\ a.value \in Fractions
                          /\ a.repeat = -1 \/ a.repeat \in Nat \ {0}
    BY AxisTypes, Zenon
  <2> QED BY <2>1, <2>2
<1>2. stick \in Fractions
  <2>1. CASE v < 0
    <3>1. -a.min \in Nat \ {0}
      BY <1>1
    <3> QED BY <2>1, <3>1, FloatFraction DEF Stick
  <2>2. CASE ~ (v < 0)
    <3>1. a.max \in Nat \ {0}
      BY <1>1
    <3> QED BY <2>2, <3>1, FloatFraction DEF Stick
  <2> QED BY <2>1, <2>2
<1> DEFINE n == a.value[1] * stick[1]  d == a.value[2] * stick[2]
<1>3. n \in Int /\ d \in Nat \ {0}
  <2> DEFINE p == a.value
  <2>1. p[1] \in Int /\ p[2] \in Nat \ {0} /\ stick[1] \in Int /\ stick[2] \in Nat \ {0}
    BY <1>1, <1>2 DEF Fractions
  <2> HIDE DEF p, stick
  <2> QED BY <2>1 DEF p
<1>4. speed = Float(n, d)
  BY DEF Times
<1> HIDE DEF n, d, speed
<1>5. Amounts(speed, n, d)
  BY <1>3, <1>4, FloatAmounts
<1>6. speed \in Fractions /\ speed[1] * d = n * speed[2] /\ speed[1] \in Int /\ speed[2] \in Nat \ {0}
  BY <1>5 DEF Amounts, Fractions
<1>7. n = 0 => speed = Zero
  BY <1>3, <1>4, FloatOfZero
<1>8. speed[1] = 0 => n = 0
  <2> DEFINE x == speed[1]  y == speed[2]
  <2>1. x * d = n * y /\ y \in Nat \ {0}
    BY <1>6
  <2> HIDE DEF x, y
  <2>2. x = 0 => n * y = 0 * y
    BY <1>3, <2>1
  <2>3. x = 0 => n = 0
    BY <1>3, <2>1, <2>2, Cancel
  <2> QED BY <2>3 DEF x
<1> QED BY <1>6, <1>7, <1>8 DEF speed

LEMMA RelSentOnTime ==
  ASSUME NEW s \in Setups, NEW i \in DOMAIN s.axes, s.axes[i].kind = "rel", NEW v \in Int,
         NEW o, MotionsOnTime(o), NEW extra
  PROVE  MotionsOnTime(RelSent(s.axes[i], v, o, extra))
<1> DEFINE a == s.axes[i]  speed == Times(a.value, Stick(a, v))
           interval == IF speed = Zero THEN -1 ELSE a.repeat
           repeats == SendRelRepetitive(o.repeats, Target(a, extra), speed, interval)
<1>1. a.repeat = -1 \/ a.repeat \in Nat \ {0}
  BY AxisTypes
<1>2. speed \in Fractions /\ (speed # Zero => speed[1] # 0)
  BY SpeedMoves
<1>3. CASE a.repeat = -1
  BY <1>3 DEF RelSent
<1>4. CASE a.repeat # -1
  <2>1. RelSent(a, v, o, extra) = [o EXCEPT !.repeats = repeats]
    BY <1>4 DEF RelSent, MotionsOnTime, OutFields
  <2> HIDE DEF speed
  <2>2. interval \in Int /\ (interval = -1 \/ (interval \in Nat \ {0} /\ speed[1] # 0))
    BY <1>1, <1>2, <1>4
  <2> HIDE DEF interval
  <2>3. \A key \in DOMAIN repeats : OnTime(repeats[key])
    BY <1>2, <2>2, SendOnTime DEF MotionsOnTime
  <2> HIDE DEF repeats
  <2> QED BY <2>1, <2>3 DEF MotionsOnTime, OutFields
<1> QED BY <1>3, <1>4

LEMMA HandledOnTime ==
  ASSUME NEW s \in Setups, NEW i \in DOMAIN s.axes, NEW t, AxisTyped(s.axes[i], t),
         NEW v \in Int, NEW o, MotionsOnTime(o), NEW extra
  PROVE  LET r == Handled(i, s.axes[i], t, v, o, extra)
         IN  AxisTyped(s.axes[i], r.axis) /\ MotionsOnTime(r.out)
<1> DEFINE a == s.axes[i]  r == Handled(i, a, t, v, o, extra)
<1>1. a.kind \in {"abs", "key", "rel", "rel-repeat"}
  BY AxisFacts
<1>2. CASE a.kind = "abs"
  <2> DEFINE abs == [k \in DOMAIN o.abs \cup {i} |-> IF k = i THEN v ELSE o.abs[k]]
  <2>1. r.axis = t /\ r.out = [o EXCEPT !.abs = abs]
    BY <1>2 DEF Handled, MotionsOnTime, OutFields
  <2> HIDE DEF abs, r
  <2> QED BY <2>1 DEF MotionsOnTime, OutFields, r
<1>3. CASE a.kind = "key"
  <2> DEFINE on == KeysMoved(i, Zone(a, t.old), Zone(a, v), o.on)
  <2>1. r.axis = [t EXCEPT !.old = v] /\ r.out = [o EXCEPT !.on = on]
    BY <1>3 DEF Handled, MotionsOnTime, OutFields
  <2> HIDE DEF on, r
  <2> QED BY <2>1 DEF MotionsOnTime, OutFields, AxisTyped, AxisFields, r
<1>4. CASE a.kind = "rel"
  <2>1. r.axis = [t EXCEPT !.stick = Stick(a, v)] /\ r.out = RelSent(a, v, o, extra)
    BY <1>4 DEF Handled
  <2>2. MotionsOnTime(RelSent(a, v, o, extra))
    BY <1>4, RelSentOnTime
  <2> HIDE DEF r
  <2> QED BY <2>1, <2>2 DEF AxisTyped, AxisFields, r
<1>5. CASE a.kind = "rel-repeat"
  <2> DEFINE timer == IF v = 0 THEN Zero ELSE t.timer
  <2>1. r.axis = [t EXCEPT !.stick = Stick(a, v), !.timer = timer] /\ r.out = o
    BY <1>5 DEF Handled, AxisTyped, AxisFields
  <2> HIDE DEF timer, r
  <2> QED BY <2>1 DEF AxisTyped, AxisFields, r
<1> QED BY <1>1, <1>2, <1>3, <1>4, <1>5

LEMMA SentOnTime ==
  ASSUME NEW s \in Setups, NEW i \in DOMAIN s.axes, NEW t, AxisTyped(s.axes[i], t),
         NEW v \in Int, NEW o, MotionsOnTime(o), NEW extra
  PROVE  LET r == AxisSent(i, s.axes[i], t, v, o, extra)
         IN  AxisTyped(s.axes[i], r.axis) /\ MotionsOnTime(r.out)
<1> DEFINE a == s.axes[i]
           value == AxisValues(a.filters, t.filters, v, a.min, a.max)[Len(a.filters)]
           after == AxisFiltersAfter(a.filters, t.filters, v, a.min, a.max)
           next == [t EXCEPT !.raw = v, !.sent = value, !.filters = after]
           r == AxisSent(i, a, t, v, o, extra)
<1>1. r = IF value = t.sent THEN [axis |-> next, out |-> o]
          ELSE Handled(i, a, next, value, o, extra)
  BY DEF AxisSent, AxisTyped, AxisFields
<1>2. value \in Int /\ after \in [DOMAIN a.filters -> FilterStates]
  BY ValuesInt DEF AxisTyped
<1> HIDE DEF value, after
<1>3. AxisTyped(a, next)
  <2>1. DOMAIN next = AxisFields /\ next.raw = v /\ next.filters = after
    BY DEF AxisTyped, AxisFields
  <2> HIDE DEF next
  <2> QED BY <1>2, <2>1 DEF AxisTyped
<1> HIDE DEF next, r
<1>4. CASE value = t.sent
  BY <1>1, <1>3, <1>4 DEF r
<1>5. CASE value # t.sent
  BY <1>1, <1>2, <1>3, <1>5, HandledOnTime DEF r
<1> QED BY <1>4, <1>5

LEMMA UpdatedOnTime ==
  ASSUME NEW s \in Setups, NEW i \in DOMAIN s.axes, NEW t, AxisTyped(s.axes[i], t),
         NEW d \in Nat, NEW o, MotionsOnTime(o), NEW extra
  PROVE  LET r == AxisUpdated(i, s.axes[i], t, d, o, extra)
         IN  AxisTyped(s.axes[i], r.axis) /\ MotionsOnTime(r.out)
<1> DEFINE a == s.axes[i]
           filters == UpdatedAxisFilters(a.filters, t.filters, d)
           passed == [t EXCEPT !.filters = filters]
           ticked == AxisTicked(a, passed, d)
<1>1. filters \in [DOMAIN a.filters -> FilterStates]
  BY PassedState DEF UpdatedAxisFilters, AxisTyped
<1>2. AxisUpdated(i, a, t, d, o, extra) = AxisSent(i, a, ticked, t.raw, o, extra)
  BY DEF AxisUpdated, AxisTyped, AxisFields
<1> HIDE DEF filters
<1>3. AxisTyped(a, passed)
  <2>1. DOMAIN passed = AxisFields /\ passed.raw = t.raw /\ passed.filters = filters
    BY DEF AxisTyped, AxisFields
  <2> HIDE DEF passed
  <2> QED BY <1>1, <2>1 DEF AxisTyped
<1> HIDE DEF passed
<1>4. \/ ticked = passed
      \/ \E x : ticked = [passed EXCEPT !.rest = x]
      \/ \E x : ticked = [passed EXCEPT !.timer = x]
  BY DEF AxisTicked, RelMoved, Ticked
<1> HIDE DEF ticked
<1>5. AxisTyped(a, ticked)
  BY <1>3, <1>4 DEF AxisTyped, AxisFields
<1>6. t.raw \in Int
  BY DEF AxisTyped
<1> QED BY <1>2, <1>5, <1>6, SentOnTime

-----------------------------------------------------------------------------
PaceInv ==
  /\ setup \in Setups /\ AxesTyped(setup.axes, axes) /\ MotionsOnTime(out)
  /\ DOMAIN position = DOMAIN setup.axes /\ \A i \in DOMAIN position : position[i] \in Int

(* The loops over the axes keep the pace of what they repeat.               *)
LEMMA LoopOnTime ==
  ASSUME NEW loop \in {"update", "send"}, NEW start, NEW x, NEW f, setup \in Setups,
         loop = "update" => x \in Nat,
         loop = "send" => \A i \in DOMAIN setup.axes : x[i] \in Int,
         AxesTyped(setup.axes, start.axes), MotionsOnTime(start.out),
         Runs(f, loop, Len(setup.axes), start, x)
  PROVE  LET r == f[Len(setup.axes)]
         IN  AxesTyped(setup.axes, r.axes) /\ MotionsOnTime(r.out)
<1> DEFINE n == Len(setup.axes)
           A == setup.axes
           extra == setup.extra_devices
           G == {i \in 0..n : AxesTyped(A, f[i].axes) /\ MotionsOnTime(f[i].out)}
<1>1. n \in Nat /\ DOMAIN A = 1..n
  <2>1. A \in Seq(Range(A))
    BY DevicesAssumption
  <2> DEFINE R == Range(A)
  <2> HIDE DEF R
  <2> QED BY <2>1 DEF R
<1> HIDE DEF n
<1>2. 0 \in G
  <2>1. f[0] = start
    BY <1>1 DEF n, Runs
  <2> QED BY <1>1, <2>1
<1>3. ASSUME NEW i \in 1..n, i - 1 \in G PROVE i \in G
  <2> DEFINE now == f[i - 1]
  <2>1. /\ AxesTyped(A, now.axes) /\ MotionsOnTime(now.out) /\ i \in DOMAIN A /\ i \in 0..n
        /\ AxisTyped(A[i], now.axes[i])
    BY <1>1, <1>3 DEF AxesTyped
  <2>2. f[i] = LoopOf(loop, i, now, x)
    BY <1>1, <1>3 DEF n, Runs
  <2> HIDE DEF now
  <2>3. ASSUME NEW r, AxisTyped(A[i], r.axis), MotionsOnTime(r.out),
               f[i] = [axes |-> [now.axes EXCEPT ![i] = r.axis], out |-> r.out]
        PROVE  i \in G
    <3> DEFINE T == [now.axes EXCEPT ![i] = r.axis]
    <3>1. DOMAIN T = DOMAIN A /\ \A k \in DOMAIN A : T[k] = IF k = i THEN r.axis ELSE now.axes[k]
      BY <2>1 DEF AxesTyped
    <3>2. f[i].axes = T /\ f[i].out = r.out
      BY <2>3
    <3> HIDE DEF T
    <3>3. AxesTyped(A, T)
      BY <2>1, <2>3, <3>1 DEF AxesTyped
    <3> QED BY <2>1, <2>3, <3>2, <3>3
  <2>4. CASE loop = "update"
    <3> DEFINE r == AxisUpdated(i, A[i], now.axes[i], x, now.out, extra)
    <3>1. f[i] = [axes |-> [now.axes EXCEPT ![i] = r.axis], out |-> r.out]
      BY <2>2, <2>4 DEF LoopOf, UpdateOf
    <3>2. AxisTyped(A[i], r.axis) /\ MotionsOnTime(r.out)
      BY <2>1, <2>4, UpdatedOnTime
    <3> HIDE DEF r, G
    <3> QED BY <2>3, <3>1, <3>2
  <2>5. CASE loop = "send" /\ x[i] = position[i]
    <3>1. f[i] = now
      BY <2>2, <2>5 DEF LoopOf, SendOf
    <3> QED BY <2>1, <3>1
  <2>6. CASE loop = "send" /\ x[i] # position[i]
    <3> DEFINE r == AxisSent(i, A[i], now.axes[i], x[i], now.out, extra)
    <3>1. f[i] = [axes |-> [now.axes EXCEPT ![i] = r.axis], out |-> r.out]
      BY <2>2, <2>6 DEF LoopOf, SendOf
    <3>2. AxisTyped(A[i], r.axis) /\ MotionsOnTime(r.out)
      BY <2>1, <2>6, SentOnTime
    <3> HIDE DEF r, G
    <3> QED BY <2>3, <3>1, <3>2
  <2> QED BY <2>4, <2>5, <2>6
<1>4. 0..n \subseteq G
  <2> HIDE DEF G
  <2> QED BY <1>1, <1>2, <1>3, UpTo
<1>5. n \in G
  <2> HIDE DEF G
  <2> QED BY <1>1, <1>4
<1> QED BY <1>5 DEF n

LEMMA MessageOnTime ==
  ASSUME PaceInv, NEW new \in Moved, NEW d \in Deltas, Message(new, d)
  PROVE  PaceInv'
<1> DEFINE n == Len(setup.axes)
           start == [axes |-> axes, out |-> out]
           between == AxesUpdated(d)
           result == AxesSent(between, new)
<1>1. /\ setup \in Setups /\ AxesTyped(setup.axes, start.axes) /\ MotionsOnTime(start.out)
      /\ d \in Nat
  BY DevicesAssumption DEF PaceInv
<1>2. n \in Nat
  <2>1. setup.axes \in Seq(Range(setup.axes))
    BY <1>1, DevicesAssumption
  <2> DEFINE R == Range(setup.axes)
  <2> HIDE DEF R
  <2> QED BY <2>1 DEF R
<1>3. DOMAIN new = DOMAIN setup.axes /\ \A i \in DOMAIN new : new[i] \in Int
  <2>1. PICK i \in Axes : \E v \in Positions[i] : new = [position EXCEPT ![i] = v]
    BY DEF Moved
  <2>2. PICK v \in Positions[i] : new = [position EXCEPT ![i] = v]
    BY <2>1
  <2>3. v \in Int
    <3>1. Positions[i] = setup.axes[i].min..setup.axes[i].max
      BY <2>1 DEF Positions
    <3>2. setup.axes[i].min \in Int /\ setup.axes[i].max \in Int
      BY <1>1, AxisTypes DEF Axes
    <3> QED BY <2>2, <3>1, <3>2
  <2> QED BY <2>2, <2>3 DEF PaceInv
<1>4. AxesTyped(setup.axes, between.axes) /\ MotionsOnTime(between.out)
  <2>1. between = (CHOOSE f : Runs(f, "update", n, start, d))[n]
    BY DEF AxesUpdated, LoopOf, UpdateOf, Runs
  <2>2. \E f : Runs(f, "update", n, start, d)
    <3> HIDE DEF n, start
    <3> QED BY <1>2, LoopExists
  <2>3. PICK f : Runs(f, "update", n, start, d) /\ between = f[n]
    <3> HIDE DEF between
    <3> QED BY <2>1, <2>2
  <2> HIDE DEF start, between
  <2> QED BY <1>1, <2>3, LoopOnTime
<1> HIDE DEF between
<1>5. AxesTyped(setup.axes, result.axes) /\ MotionsOnTime(result.out)
  <2>1. result = (CHOOSE f : Runs(f, "send", n, between, new))[n]
    BY DEF AxesSent, LoopOf, SendOf, Runs
  <2>2. \E f : Runs(f, "send", n, between, new)
    <3> HIDE DEF n
    <3> QED BY <1>2, LoopExists
  <2>3. PICK f : Runs(f, "send", n, between, new) /\ result = f[n]
    <3> HIDE DEF result
    <3> QED BY <2>1, <2>2
  <2> HIDE DEF result
  <2> QED BY <1>1, <1>3, <1>4, <2>3, LoopOnTime
<1>6. axes' = result.axes /\ out' = result.out /\ position' = new /\ setup' = setup
  BY DEF Message, between
<1> HIDE DEF result
<1> QED BY <1>1, <1>3, <1>5, <1>6 DEF PaceInv

LEMMA TimeoutOnTime ==
  ASSUME PaceInv, NEW d \in Ticks, Timeout(d)
  PROVE  PaceInv'
<1> DEFINE moved == [key \in DOMAIN out.repeats |-> Repeated(out.repeats[key], d)]
<1>1. d \in Nat
  BY DevicesAssumption
<1>2. /\ MotionsOnTime(out) /\ out' = [out EXCEPT !.repeats = moved]
      /\ axes' = axes /\ setup' = setup /\ position' = position
  BY DEF Timeout, PaceInv, MotionsOnTime, OutFields
<1>3. \A key \in DOMAIN moved : OnTime(moved[key])
  BY <1>1, <1>2, RepeatedOnTime DEF MotionsOnTime
<1> HIDE DEF moved
<1>4. MotionsOnTime(out')
  BY <1>2, <1>3 DEF MotionsOnTime, OutFields
<1> QED BY <1>2, <1>4 DEF PaceInv

LEMMA PaceInit == Init => PaceInv
<1> SUFFICES ASSUME Init PROVE PaceInv
  OBVIOUS
<1> DEFINE A == setup.axes
<1>1. /\ setup \in Setups /\ axes = [i \in DOMAIN A |-> NewAxis(A[i])] /\ out = NewOutput
      /\ position = [i \in DOMAIN A |-> 0]
  BY DEF Init, Axes
<1>2. NewAxisFilter \in FilterStates
  <2>1. Zero \in Fractions
    BY DEF Zero, Fractions
  <2> QED BY <2>1 DEF NewAxisFilter, FilterStates
<1>3. ASSUME NEW i \in DOMAIN A PROVE AxisTyped(A[i], axes[i])
  <2>1. axes[i] = NewAxis(A[i])
    BY <1>1
  <2> QED BY <1>2, <2>1 DEF AxisTyped, NewAxis, AxisFields
<1>4. MotionsOnTime(out)
  BY <1>1 DEF NewOutput, MotionsOnTime, OutFields
<1> QED BY <1>1, <1>3, <1>4 DEF PaceInv, AxesTyped

LEMMA PaceStep == PaceInv /\ [Next]_vars => PaceInv'
<1> SUFFICES ASSUME PaceInv, [Next]_vars PROVE PaceInv'
  OBVIOUS
<1>1. CASE \E new \in Moved, d \in Deltas : Message(new, d)
  BY <1>1, MessageOnTime
<1>2. CASE \E d \in Ticks : Timeout(d)
  BY <1>2, TimeoutOnTime
<1>3. ASSUME UNCHANGED <<setup, motion>> PROVE PaceInv'
  BY <1>3 DEF PaceInv, motion
<1>4. CASE Applications
  BY <1>3, <1>4 DEF Applications, Uploads, Erases, Plays, Stops, SetsGain, GivesUp
<1>5. CASE OnReadData
  BY <1>3, <1>5 DEF OnReadData, ReadPlay, ReadGain, ReadUpload, ReadErase
<1>6. CASE UNCHANGED vars
  BY <1>3, <1>6 DEF vars
<1> QED BY <1>1, <1>2, <1>4, <1>5, <1>6 DEF Next

(* Repeated motion keeps the pace of its axis: however often it is repeated *)
(* and its speed changes, the steps that are sent and the rest that is kept *)
(* make up the motion that was asked for but for less than a step for each  *)
(* change of direction (UInput::send_rel_repetitive, UInput::update).       *)
THEOREM MotionKeepsPace == Spec => []RepeatKeepsPace
<1>1. PaceInv => RepeatKeepsPace
  <2> SUFFICES ASSUME PaceInv, NEW key \in DOMAIN out.repeats
               PROVE  Magnitude(out.repeats[key].lost[1])
                        <= out.repeats[key].turns * out.repeats[key].lost[2]
    BY DEF RepeatKeepsPace
  <2> DEFINE r == out.repeats[key]  x == r.lost[1]  y == r.lost[2]  turns == r.turns
  <2>1. Paced(r)
    BY DEF PaceInv, MotionsOnTime, OnTime
  <2>2. PICK n \in Int : Amounts(r.lost, n, 1) /\ Magnitude(n) <= turns
    BY <2>1 DEF Paced, Paid
  <2>3. x * 1 = n * y /\ x \in Int /\ y \in Nat \ {0} /\ turns \in Nat
    BY <2>1, <2>2 DEF Paced, Amounts, Fractions
  <2> HIDE DEF x, y, turns
  <2>4. x = n * y
    BY <2>3
  <2>5. Magnitude(x) = Magnitude(n) * y
    <3>1. n >= 0 => n * y >= 0
      BY <2>3
    <3>2. n < 0 => n * y < 0 /\ (-n) * y = -(n * y)
      BY <2>3
    <3> QED BY <2>3, <2>4, <3>1, <3>2 DEF Magnitude
  <2>6. Magnitude(n) \in Nat
    BY DEF Magnitude
  <2>7. (turns - Magnitude(n)) * y >= 0
    <3> DEFINE m == Magnitude(n)
    <3> HIDE DEF m
    <3>1. m \in Nat /\ m <= turns
      BY <2>2, <2>6 DEF m
    <3>2. turns - m \in Nat
      BY <2>3, <3>1
    <3>3. (turns - m) * y >= 0
      BY <2>3, <3>2
    <3> QED BY <3>3 DEF m
  <2>8. (turns - Magnitude(n)) * y = turns * y - Magnitude(n) * y
    BY <2>3, <2>6
  <2>9. turns * y \in Int /\ Magnitude(n) * y \in Int
    BY <2>3, <2>6
  <2>10. Magnitude(x) <= turns * y
    BY <2>5, <2>7, <2>8, <2>9
  <2> QED BY <2>10 DEF x, y, turns
<1> QED BY <1>1, PaceInit, PaceStep, PTL DEF Spec
=============================================================================
