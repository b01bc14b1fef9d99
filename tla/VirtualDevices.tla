--------------------------- MODULE VirtualDevices ---------------------------
(***************************************************************************)
(* A process' UInput at work: the axis events of its configurations move    *)
(* virtual axes, keys and pointers, the kernel hands it the force feedback  *)
(* of applications, and its 10 ms timer repeats motions and drives rumble.  *)
(*                                                                         *)
(* The kernel is external: an application's upload or erase is a request    *)
(* that waits for the driver (one at a time), and everything it does puts   *)
(* an event in the queue of the uinput device. A request that waits too     *)
(* long is given up while its event stays in the queue. The driver empties  *)
(* the queue in one callback; a step here is one event of it, since events  *)
(* can be added as fast as they are read.                                   *)
(***************************************************************************)
EXTENDS AxisEvents, ForceFeedback

CONSTANTS
  Setups,       \* what is bound, the devices' names, and the pad's features
  Effects,      \* effects applications upload
  Gains,        \* gains they set
  Deltas,       \* milliseconds between two messages
  Ticks,        \* milliseconds between two timer callbacks
  MaxEvents,    \* bound: events in the queue of the uinput device
  MaxPlays,     \* bound: times the applications play or upload an effect
  MaxFaults,    \* bound: requests given up by the kernel and uploads the pad refuses
  MaxTurns      \* bound: times an axis crosses its centre in one step

(* The filter f divides by no number that is 0.                             *)
FilterDefined(f, min, max) ==
  /\ f.kind \in {"invert", "deadzone", "calibration", "const", "curve", "relative"}
  /\ f.kind = "deadzone" => /\ {f.from, f.to} \subseteq Int /\ f.smooth \in BOOLEAN
                            /\ f.smooth => f.from # min /\ f.to # max
  /\ f.kind = "calibration" => {f.from, f.center, f.to} \subseteq Int /\ f.center \notin {f.from, f.to}
  /\ f.kind = "const" => f.value \in Int
  /\ f.kind = "curve" => f.samples \in Seq(Int)
  /\ f.kind = "relative" => f.speed \in Int

ASSUME DevicesAssumption ==
  /\ Deltas \subseteq Nat /\ Ticks \subseteq Nat \ {0} /\ Gains \subseteq 0..FullGain
  /\ \A e \in Effects : e.delay \in Nat /\ e.length \in Nat
  /\ \A s \in Setups : ZeroEffect.type \notin s.features
  /\ \A s \in Setups : s.axes \in Seq(Range(s.axes))
  /\ \A s \in Setups : \A i \in DOMAIN s.axes :
       LET a == s.axes[i]
       IN  /\ a.kind \in {"abs", "key", "rel", "rel-repeat"}
           /\ {a.min, a.max} \subseteq Int /\ a.min <= 0 /\ a.max > 0 /\ a.max - a.min > 1
           /\ a.kind = "key" => a.threshold \in Nat \ {0}
           /\ a.kind = "rel" => a.value \in Int \X (Nat \ {0})
                               /\ (a.repeat = -1 \/ a.repeat \in Nat \ {0})
           /\ a.kind = "rel-repeat" => a.repeat \in Nat \ {0}
           /\ a.kind \in {"rel", "rel-repeat"} => a.min < 0
           /\ a.filters \in Seq(Range(a.filters))
           /\ \A k \in DOMAIN a.filters : FilterDefined(a.filters[k], a.min, a.max)

VARIABLES
  setup,        \* the options
  devices,      \* m_uinput_devs, by device id
  axes,         \* the state of each axis event
  out,          \* what the handlers have left in UInput
  position,     \* the last message: where each axis is
  ff,           \* the force feedback handler and the motors it drives
  pad,          \* force feedback of a pad that has its own
  kernel,       \* the kernel's side of the virtual device
  faults        \* history: requests and uploads that failed

motion == <<axes, out, position>>
rumble == <<ff, pad, kernel, faults>>
vars == <<setup, devices, motion, rumble>>

Axes == DOMAIN setup.axes
Native == setup.ff = "native"
NoRequest == [kind |-> "none"]

Init ==
  /\ setup \in Setups
  /\ devices = Created(UNION {UIEvents(setup.axes[i], setup.extra_devices) : i \in Axes},
                       setup.names, setup.usbids, setup.extra_events)
  /\ axes = [i \in Axes |-> NewAxis(setup.axes[i])]
  /\ out = NewOutput
  /\ position = [i \in Axes |-> 0]
  /\ ff = [effects |-> <<>>, gain |-> setup.gain, motors |-> Silent]
  /\ pad = [effects |-> <<>>, ids |-> {}, playing |-> {}, gain |-> setup.gain]
  /\ kernel = [owned |-> {}, effects |-> <<>>, playing |-> {}, gain |-> setup.gain,
               request |-> NoRequest, events |-> <<>>, plays |-> 0]
  /\ faults = 0

-----------------------------------------------------------------------------
(* The axes. A message is sent to the events of the axes it moves, after    *)
(* every event was told the time that passed.                               *)
AxesUpdated(d) ==
  LET after[i \in 0..Len(setup.axes)] ==
        IF i = 0 THEN [axes |-> axes, out |-> out]
        ELSE LET r == AxisUpdated(i, setup.axes[i], after[i - 1].axes[i], d,
                                  after[i - 1].out, setup.extra_devices)
             IN  [axes |-> [after[i - 1].axes EXCEPT ![i] = r.axis], out |-> r.out]
  IN  after[Len(setup.axes)]

AxesSent(now, new) ==
  LET after[i \in 0..Len(setup.axes)] ==
        IF i = 0 THEN now
        ELSE IF new[i] = position[i] THEN after[i - 1]
        ELSE LET r == AxisSent(i, setup.axes[i], after[i - 1].axes[i], new[i],
                               after[i - 1].out, setup.extra_devices)
             IN  [axes |-> [after[i - 1].axes EXCEPT ![i] = r.axis], out |-> r.out]
  IN  after[Len(setup.axes)]

(* UInputMessageProcessor::send of a message, or of the last one again.     *)
Message(new, d) ==
  LET result == AxesSent(AxesUpdated(d), new)
  IN  /\ setup.axes # <<>>
      /\ \A key \in DOMAIN result.out.repeats : result.out.repeats[key].turns <= MaxTurns
      /\ axes' = result.axes /\ out' = result.out /\ position' = new
      /\ UNCHANGED <<setup, devices, rumble>>

(* UInput::on_timeout: repeated motions, then the devices. A pad with force *)
(* feedback of its own is left to itself.                                   *)
Timeout(d) ==
  /\ out' = [out EXCEPT !.repeats = [key \in DOMAIN @ |-> Repeated(@[key], d)]]
  /\ ff' = IF setup.ff = "emulated" THEN HandlerUpdated(ff, d) ELSE ff
  /\ UNCHANGED <<setup, devices, axes, position, pad, kernel, faults>>

-----------------------------------------------------------------------------
(* Applications, through the kernel. *)
Queue(events) == kernel.events \o events
Room(n) == setup.ff # "off" /\ Len(kernel.events) + n <= MaxEvents

(* A new effect takes the lowest free id; its owner may upload it again.    *)
Uploads(id, e) ==
  /\ Room(1) /\ kernel.request = NoRequest /\ kernel.plays < MaxPlays
  /\ e.type \in Announced(setup.features)
  /\ id \in kernel.owned \/ (Free(kernel.owned) # {} /\ id = Min(Free(kernel.owned)))
  /\ kernel' = [kernel EXCEPT !.request = [kind |-> "upload", id |-> id, effect |-> e],
                              !.events = Queue(<<[op |-> "upload"]>>), !.plays = @ + 1]
  /\ UNCHANGED <<setup, devices, motion, ff, pad, faults>>

(* An effect is stopped before it is erased, and plays no more. *)
Erases(id) ==
  /\ Room(2) /\ kernel.request = NoRequest /\ id \in kernel.owned
  /\ kernel' = [kernel EXCEPT !.request = [kind |-> "erase", id |-> id],
                              !.owned = @ \ {id}, !.playing = @ \ {id},
                              !.events = Queue(<<[op |-> "stop", id |-> id], [op |-> "erase"]>>)]
  /\ UNCHANGED <<setup, devices, motion, ff, pad, faults>>

Plays(id) ==
  /\ Room(1) /\ id \in kernel.owned /\ kernel.plays < MaxPlays
  /\ kernel' = [kernel EXCEPT !.events = Queue(<<[op |-> "play", id |-> id]>>),
                              !.playing = @ \cup {id}, !.plays = @ + 1]
  /\ UNCHANGED <<setup, devices, motion, ff, pad, faults>>

Stops(id) ==
  /\ Room(1) /\ id \in kernel.owned
  /\ kernel' = [kernel EXCEPT !.events = Queue(<<[op |-> "stop", id |-> id]>>),
                              !.playing = @ \ {id}]
  /\ UNCHANGED <<setup, devices, motion, ff, pad, faults>>

SetsGain(gain) ==
  /\ Room(1) /\ "gain" \in Announced(setup.features)
  /\ kernel' = [kernel EXCEPT !.events = Queue(<<[op |-> "gain", gain |-> gain]>>),
                              !.gain = gain]
  /\ UNCHANGED <<setup, devices, motion, ff, pad, faults>>

(* The kernel has waited 30 seconds for the answer. The effect of a failed  *)
(* upload is not there, that of a failed erase is.                          *)
GivesUp ==
  /\ kernel.request # NoRequest /\ faults < MaxFaults
  /\ kernel' = [kernel EXCEPT !.request = NoRequest,
                  !.owned = IF kernel.request.kind = "erase"
                            THEN @ \cup {kernel.request.id} ELSE @]
  /\ faults' = faults + 1
  /\ UNCHANGED <<setup, devices, motion, ff, pad>>

-----------------------------------------------------------------------------
(* LinuxUinput::on_read_data, one event of it. *)
First == Head(kernel.events)
Read == [kernel EXCEPT !.events = Tail(@)]

ReadPlay ==
  /\ kernel.events # <<>> /\ First.op \in {"play", "stop"}
  /\ kernel' = Read
  /\ IF Native
     THEN pad' = PadTurned(pad, First.id, First.op = "play") /\ UNCHANGED ff
     ELSE ff' = [ff EXCEPT !.effects = Turned(@, First.id, First.op = "play")] /\ UNCHANGED pad
  /\ UNCHANGED <<setup, devices, motion, faults>>

ReadGain ==
  /\ kernel.events # <<>> /\ First.op = "gain"
  /\ kernel' = Read
  /\ IF Native
     THEN pad' = PadGain(pad, First.gain, setup.features) /\ UNCHANGED ff
     ELSE ff' = [ff EXCEPT !.gain = First.gain] /\ UNCHANGED pad
  /\ UNCHANGED <<setup, devices, motion, faults>>

(* BEGIN fails if the kernel does not wait for such a request any more; the *)
(* driver does not look, and goes on with an effect of zeros and the id 0.  *)
Waits(kind) == kernel.request.kind = kind

(* A pad may refuse the effect; the application is told that it succeeded.  *)
ReadUpload(refused) ==
  LET id == IF Waits("upload") THEN kernel.request.id ELSE 0
      e  == IF Waits("upload") THEN kernel.request.effect ELSE ZeroEffect
  IN  /\ kernel.events # <<>> /\ First.op = "upload"
      /\ refused => Native /\ faults < MaxFaults
      /\ faults' = IF refused THEN faults + 1 ELSE faults
      /\ kernel' = IF Waits("upload")
                   THEN [Read EXCEPT !.request = NoRequest, !.owned = @ \cup {id},
                           !.effects = [i \in DOMAIN @ \cup {id} |-> IF i = id THEN e ELSE @[i]]]
                   ELSE Read
      /\ IF Native
         THEN pad' = (IF refused THEN pad ELSE PadUploaded(pad, id, e)) /\ UNCHANGED ff
         ELSE ff' = [ff EXCEPT !.effects = Uploaded(@, id, e)] /\ UNCHANGED pad
      /\ UNCHANGED <<setup, devices, motion>>

ReadErase ==
  LET id == IF Waits("erase") THEN kernel.request.id ELSE 0
  IN  /\ kernel.events # <<>> /\ First.op = "erase"
      /\ kernel' = IF Waits("erase")
                   THEN [Read EXCEPT !.request = NoRequest, !.effects = Without(@, id)]
                   ELSE Read
      /\ IF Native
         THEN pad' = PadErased(pad, id) /\ UNCHANGED ff
         ELSE ff' = [ff EXCEPT !.effects = Without(@, id)] /\ UNCHANGED pad
      /\ UNCHANGED <<setup, devices, motion, faults>>

OnReadData == ReadPlay \/ ReadGain \/ (\E r \in BOOLEAN : ReadUpload(r)) \/ ReadErase

Applications ==
  \/ \E id \in Ids, e \in Effects : Uploads(id, e)
  \/ \E id \in Ids : Erases(id) \/ Plays(id) \/ Stops(id)
  \/ \E gain \in Gains : SetsGain(gain)
  \/ GivesUp

Positions == [i \in Axes |-> setup.axes[i].min..setup.axes[i].max]
Moved == UNION {{[position EXCEPT ![i] = v] : v \in Positions[i]} : i \in Axes}

Next ==
  \/ \E new \in Moved, d \in Deltas : Message(new, d)
  \/ \E d \in Ticks : Timeout(d)
  \/ Applications
  \/ OnReadData

(* The timer fires and the uinput device is read when there is something to *)
(* read: both are sources of the main loop. Only rumble depends on it.      *)
RumbleTimeout == setup.ff = "emulated" /\ \E d \in Ticks : Timeout(d)

Fairness == WF_vars(RumbleTimeout) /\ WF_vars(OnReadData)

Spec == Init /\ [][Next]_vars /\ Fairness

-----------------------------------------------------------------------------
(* Once the driver has read all that the kernel had for it, and no request  *)
(* has failed, the driver or the pad has the effects the applications have: *)
(* with the same ids although a pad hands out its own, as they were         *)
(* uploaded last, and with the same gain; a pad plays what was played last. *)
EffectsFollowKernel ==
  (setup.ff # "off" /\ kernel.events = <<>> /\ faults = 0) =>
    IF Native
    THEN /\ pad.effects = kernel.effects /\ pad.ids = DOMAIN kernel.effects
         /\ pad.playing = kernel.playing
         /\ "gain" \in setup.features => pad.gain = kernel.gain
    ELSE /\ ff.gain = kernel.gain
         /\ DOMAIN ff.effects = DOMAIN kernel.effects
         /\ \A id \in DOMAIN ff.effects :
              LET new == NewEffect(kernel.effects[id])
              IN  \A field \in {"delay", "length", "start", "end"} :
                    ff.effects[id][field] = new[field]

(* When the applications have had enough the motors come to rest, unless an *)
(* effect without end plays: whatever was erased, given up or uploaded      *)
(* again while it played, no pad is left rumbling.                          *)
Endless(f) == f.playing /\ f.length = 0
RumbleEnds ==
  (ff.motors # Silent)
    ~> (ff.motors = Silent \/ \E id \in DOMAIN ff.effects : Endless(ff.effects[id]))

(* Axes that are all back in the middle have let go of everything: no key   *)
(* is down and no motion goes on repeating, also where two of them share a  *)
(* motion or an axis went from one end to the other at once.                *)
RestIsStill ==
  (\A i \in Axes : axes[i].sent = 0) => out.on = {} /\ DOMAIN out.repeats = {}

(* Repeated motion keeps the pace of its axis although only whole steps are *)
(* sent: what is lost is less than a step for each change of direction.     *)
RepeatKeepsPace ==
  \A key \in DOMAIN out.repeats :
    LET r == out.repeats[key]
    IN  Magnitude(r.lost[1]) <= r.turns * r.lost[2]
=============================================================================
