---------------------------- MODULE ForceFeedback ----------------------------
(***************************************************************************)
(* The emulation of force feedback effects on a pad that only has two       *)
(* rumble motors (force_feedback_handler.cpp), and the effects of a pad     *)
(* that has force feedback of its own (evdev_controller.cpp).               *)
(*                                                                         *)
(* An effect as the kernel describes it is [type, delay, length, start,     *)
(* end, envelope]; start and end are its strong and weak magnitudes, which  *)
(* only a rumble has apart and only a ramp has different.                   *)
(***************************************************************************)
EXTENDS AxisFilters, Functions

CONSTANTS
  Loudest,      \* 0x7fff
  FullGain,     \* 0xffff
  MotorStep     \* 128, between a magnitude and the byte of a motor

ASSUME RumbleAssumption == {Loudest, FullGain, MotorStep} \subseteq Nat \ {0}

Sides == {"strong", "weak"}
Silent == [s \in Sides |-> 0]
Emulated == {"constant", "periodic", "ramp", "rumble"}
NoEnvelope == [attack |-> 0, attack_level |-> 0, fade |-> 0, fade_level |-> 0]

(* What BEGIN leaves of a request the kernel has given up: zeros. *)
ZeroEffect == [type |-> "none", delay |-> 0, length |-> 0, start |-> Silent,
               end |-> Silent, envelope |-> NoEnvelope]

-----------------------------------------------------------------------------
(* ForceFeedbackEffect(const ff_effect&); a rumble's envelope is not read.  *)
Loudness(v) == Clamp(Magnitude(v), 0, Loudest)

NewEffect(e) ==
  LET levels(at) == [s \in Sides |-> IF e.type \in Emulated THEN Loudness(at[s]) ELSE 0]
  IN  [delay |-> e.delay, length |-> e.length,
       start |-> levels(e.start), end |-> levels(e.end),
       envelope |-> IF e.type \in Emulated \ {"rumble"} THEN e.envelope ELSE NoEnvelope,
       playing |-> FALSE, count |-> 0, now |-> Silent]

(* get_pos: t of length milliseconds on the way from start to end. *)
Between(start, end, t, length) == start + Quotient((end - start) * t, length)

(* The envelope moves away from the magnitude when the effect begins, where *)
(* that of the kernel would move towards it.                                *)
Enveloped(f, v, t) ==
  LET env == f.envelope
      dt  == t - (f.length - env.fade)
  IN  CASE t < env.attack ->
             Quotient(env.attack_level * t + v * (env.attack - t), env.attack)
        [] t >= env.attack /\ t >= f.length - env.fade ->
             Quotient(env.fade_level * dt + v * (env.fade - dt), env.fade)
        [] OTHER -> v

(* ForceFeedbackEffect::play and stop. *)
Playing(f) == [f EXCEPT !.playing = TRUE]
Stopped(f) == [f EXCEPT !.playing = FALSE, !.count = 0, !.now = Silent]

(* ForceFeedbackEffect::update. An effect without length does not end, and  *)
(* its delay is ignored. Until the delay is over its magnitudes stay.       *)
EffectUpdated(f, d) ==
  LET count == f.count + d
      t     == count - f.delay
      at(s) == Between(f.start[s], f.end[s], t, f.length)
  IN  CASE ~f.playing -> Stopped(f)
        [] f.playing /\ f.length = 0 ->
             [f EXCEPT !.now = [s \in Sides |-> IF f.start[s] # 0 THEN f.start[s] ELSE f.end[s]]]
        [] f.playing /\ f.length > 0 /\ t <= 0 -> [f EXCEPT !.count = count]
        [] f.playing /\ f.length > 0 /\ t > 0 ->
             IF t >= f.length /\ t >= f.envelope.attack THEN Stopped(f)
             ELSE [f EXCEPT !.count = count,
                            !.now = [s \in Sides |-> Enveloped(f, at(s), t)]]

-----------------------------------------------------------------------------
(* ForceFeedbackHandler: effects is a function on the ids in use. *)
Without(effects, id) == [i \in DOMAIN effects \ {id} |-> effects[i]]

(* An effect that is uploaded again goes on playing where it was. *)
Uploaded(effects, id, e) ==
  LET new == NewEffect(e)
      old == effects[id]
  IN  [i \in DOMAIN effects \cup {id} |->
         IF i # id THEN effects[i]
         ELSE IF id \notin DOMAIN effects THEN new
         ELSE [new EXCEPT !.playing = old.playing, !.count = old.count, !.now = old.now]]

(* play() for another value than 0 and stop() for 0, of an id it knows. *)
Turned(effects, id, on) ==
  IF id \in DOMAIN effects
  THEN [effects EXCEPT ![id] = IF on THEN Playing(@) ELSE Stopped(@)]
  ELSE effects

EffectsUpdated(effects, d) == [id \in DOMAIN effects |-> EffectUpdated(effects[id], d)]

(* Not the code: without an effect the motors keep what they were told. *)
KeepingMotors(ff, d) ==
  LET effects == EffectsUpdated(ff.effects, d)
      sum(s) == FoldFunction(LAMBDA f, rest : f.now[s] + rest, 0, effects)
      loud(s) == Quotient(Min({sum(s), Loudest}) * ff.gain, FullGain)
  IN  IF effects = <<>> THEN ff
      ELSE [ff EXCEPT !.effects = effects,
                      !.motors = [s \in Sides |-> Quotient(loud(s), MotorStep)]]

(* ForceFeedbackHandler::update and, with no effect either, set_rumble. *)
HandlerUpdated(ff, d) ==
  LET effects == EffectsUpdated(ff.effects, d)
      sum(s) == FoldFunction(LAMBDA f, rest : f.now[s] + rest, 0, effects)
      loud(s) == Quotient(Min({sum(s), Loudest}) * ff.gain, FullGain)
  IN  [ff EXCEPT !.effects = effects,
                 !.motors = [s \in Sides |-> Quotient(loud(s), MotorStep)]]

-----------------------------------------------------------------------------
(* EvdevController: pad.ids is m_effect_ids. The effects, whether they play *)
(* and the gain are kept by the kernel for the pad, which takes the lowest  *)
(* free of its ids for a new effect.                                        *)
CONSTANT Ids    \* ids of effects, those of a virtual device as of a pad

ASSUME IdsAssumption == IsFiniteSet(Ids) /\ Ids \subseteq Nat /\ 0 \in Ids

Free(used) == Ids \ used

(* EVIOCSFF: refused for an id or a type the pad does not know. *)
PadAccepts(pad, id, e) ==
  /\ e.type # "none"
  /\ IF id \in pad.ids THEN id \in DOMAIN pad.effects ELSE Free(DOMAIN pad.effects) # {}

(* EvdevController::upload. *)
PadUploaded(pad, id, e) ==
  LET new == IF id \in pad.ids THEN id ELSE Min(Free(DOMAIN pad.effects))
  IN  IF ~PadAccepts(pad, id, e) THEN pad
      ELSE [pad EXCEPT !.effects = [i \in DOMAIN @ \cup {new} |-> IF i = new THEN e ELSE @[i]],
                       !.ids = @ \cup {new}]

(* Not the code: an erased id stays known. *)
PadKeepsId(pad, id) ==
  [pad EXCEPT !.effects = Without(@, id), !.playing = @ \ {id}]

(* EvdevController::erase. *)
PadErased(pad, id) ==
  IF id \notin DOMAIN pad.effects THEN pad
  ELSE [pad EXCEPT !.effects = Without(@, id), !.playing = @ \ {id}, !.ids = @ \ {id}]

(* EvdevController::play and stop; the kernel ignores an id it has not. *)
PadTurned(pad, id, on) ==
  IF id \notin DOMAIN pad.effects THEN pad
  ELSE [pad EXCEPT !.playing = IF on THEN @ \cup {id} ELSE @ \ {id}]

(* EvdevController::set_gain. *)
PadGain(pad, gain, features) ==
  IF "gain" \in features THEN [pad EXCEPT !.gain = gain] ELSE pad
=============================================================================
