----------------------------- MODULE AxisFilters -----------------------------
(***************************************************************************)
(* Axis values: the conversions between an axis' integers and floats        *)
(* (helper.cpp) and the filters of axisfilter/. Integer division truncates   *)
(* as in C++. A float is an exact fraction <<n, d>> with d > 0 in lowest     *)
(* terms: single precision can lose one step of an axis more than this.     *)
(* The log filter (a copy) and the sensitivity filter (real powers) are      *)
(* left out.                                                                *)
(***************************************************************************)
EXTENDS Integers, Sequences, FiniteSetsExt

CONSTANT Second    \* the milliseconds of a second

ASSUME SecondAssumption == Second \in Nat \ {0}

Magnitude(n) == IF n < 0 THEN -n ELSE n
Clamp(v, min, max) == IF v < min THEN min ELSE IF max < v THEN max ELSE v

Quotient(n, d) ==
  LET q == Magnitude(n) \div Magnitude(d)
  IN  IF n < 0 <=> d < 0 THEN q ELSE -q

-----------------------------------------------------------------------------
(* Floats. *)
Float(n, d) ==
  LET m == Magnitude(n)
      g == IF n = 0 THEN Magnitude(d)
           ELSE Max({k \in 1..Magnitude(d) : m % k = 0 /\ d % k = 0})
      s == IF d < 0 THEN -1 ELSE 1
  IN  <<s * Quotient(n, g), s * Quotient(d, g)>>

Zero == <<0, 1>>
Plus(f, g) == Float(f[1] * g[2] + g[1] * f[2], f[2] * g[2])
Times(f, g) == Float(f[1] * g[1], f[2] * g[2])
Unit(f) == IF f[1] > f[2] THEN <<1, 1>> ELSE IF f[1] < -f[2] THEN <<-1, 1>> ELSE f
Truncated(f) == Quotient(f[1], f[2])

Center(min, max) == Quotient(max + min + 1, 2)

(* to_float_no_range_check: both halves of the axis are stretched to 1. *)
ToFloatUnchecked(v, min, max) ==
  LET c == Center(min, max)
  IN  Float(v - c, IF v < c THEN c - min ELSE max - c)

ToFloat(v, min, max) == Unit(ToFloatUnchecked(v, min, max))

FromFloat(f, min, max) ==
  Quotient((f[1] + f[2]) * (max - min) + 2 * f[2] * min, 2 * f[2])

-----------------------------------------------------------------------------
(* Not the code: turned around the middle of the range. *)
InvertedAround(v, min, max) == max + min - v

(* InvertAxisFilter::filter. *)
Inverted(v, min, max) ==
  LET c == Center(min, max)
  IN  CASE v < c -> Quotient((max - c) * (v - c), min - c) + c
        [] v > c -> Quotient((min - c) * (v - c), max - c) + c
        [] v = c -> v

(* Not the code: the smooth deadzone cuts its width off the ends. *)
DeadzoneCut(f, v, min, max) ==
  IF v < f.from THEN v - f.from ELSE IF v > f.to THEN v - f.to ELSE 0

(* DeadzoneAxisFilter::filter; f.from and f.to are its bounds. *)
Deadzone(f, v, min, max) ==
  CASE v >= f.from /\ v <= f.to -> 0
    [] ~f.smooth /\ (v < f.from \/ f.to < v) -> v
    [] f.smooth /\ v < f.from -> Quotient(min * (v - f.from), min - f.from)
    [] f.smooth /\ v > f.to   -> Quotient(max * (v - f.to), max - f.to)

(* CalibrationAxisFilter::filter. *)
Calibrated(f, v, min, max) ==
  LET value == CASE v < f.center -> Quotient(-min * (v - f.center), f.center - f.from)
                 [] v > f.center -> Quotient(max * (v - f.center), f.to - f.center)
                 [] v = f.center -> 0
  IN  Clamp(value, min, max)

(* ResponseCurveAxisFilter::filter: a line between neighbouring samples. *)
OnCurve(samples, v, min, max) ==
  LET buckets == Len(samples) - 1
      width   == max - min
      scaled  == (Clamp(v, min, max) - min) * buckets
      bucket  == Min({scaled \div width, buckets - 1})
      t       == scaled - bucket * width
  IN  IF samples = <<>> THEN v
      ELSE IF buckets = 0 \/ width <= 0 THEN samples[1]
      ELSE Quotient((width - t) * samples[bucket + 1] + t * samples[bucket + 2], width)

(* RelativeAxisFilter: m_value, m_float_speed and m_state. *)
NewAxisFilter == [value |-> Zero, speed |-> Zero, state |-> Zero]

(* Not the code: the position is not kept within the axis. *)
MovedBeyond(s, d) == Plus(s.state, Times(Times(s.speed, s.value), Float(d, Second)))

(* RelativeAxisFilter::update. *)
MovedBy(s, d) == Unit(Plus(s.state, Times(Times(s.speed, s.value), Float(d, Second))))

(* AxisFilter::update. *)
AxisPassed(f, s, d) ==
  IF f.kind = "relative" THEN [s EXCEPT !.state = MovedBy(s, d)] ELSE s

(* AxisFilter::filter, and the state the filter is in then. *)
AxisFiltered(f, s, v, min, max) ==
  CASE f.kind = "invert"      -> Inverted(v, min, max)
    [] f.kind = "deadzone"    -> Deadzone(f, v, min, max)
    [] f.kind = "calibration" -> Calibrated(f, v, min, max)
    [] f.kind = "const"       -> f.value
    [] f.kind = "curve"       -> OnCurve(f.samples, v, min, max)
    [] f.kind = "relative"    -> FromFloat(s.state, min, max)

AxisFilterAfter(f, s, v, min, max) ==
  IF f.kind = "relative"
  THEN [s EXCEPT !.value = ToFloat(v, min, max),
                 !.speed = ToFloatUnchecked(f.speed, min, max)]
  ELSE s

(* The value v after the first i filters of F in states S. *)
AxisValues(F, S, v, min, max) ==
  LET value[i \in 0..Len(F)] ==
        IF i = 0 THEN v ELSE AxisFiltered(F[i], S[i], value[i - 1], min, max)
  IN  value

UpdatedAxisFilters(F, S, d) == [i \in DOMAIN F |-> AxisPassed(F[i], S[i], d)]

AxisFiltersAfter(F, S, v, min, max) ==
  [i \in DOMAIN F |->
     AxisFilterAfter(F[i], S[i], AxisValues(F, S, v, min, max)[i - 1], min, max)]
=============================================================================
