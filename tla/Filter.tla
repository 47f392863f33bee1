-------------------------------- MODULE Filter --------------------------------
(***************************************************************************)
(* The signal filters (ron_filter.c): first-order low-pass, moving         *)
(* average, cascade of biquad sections and rate limiter, as operators on   *)
(* one instance.  The four kinds share one life cycle and differ in their  *)
(* configuration f.cfg, their memory f.mem and the output they compute.    *)
(* Coefficients are in units of 1 / One.                                   *)
(***************************************************************************)
EXTENDS FloatOps, Sequences, SequencesExt

CONSTANTS
  One,           (* the grid value of the coefficient 1                    *)
  MaxWindow,     (* RON_MA_MAX_WINDOW                                      *)
  MaxSections,   (* RON_BIQUAD_MAX_SECTIONS                                *)
  Cycle,         (* the grid value of one cycle per sample                 *)
  SinCos         (* the sine and cosine series, as the table of the values *)
                 (* they return on the grid: [sin, cos] of a phase         *)

ASSUME FilterAssumption ==
  /\ One \in Nat \ {0} /\ Cycle \in Nat \ {0}
  /\ MaxWindow \in 1..255 /\ MaxSections \in 1..255

Kind == {"LP1", "MA", "BIQUAD", "RATELIM"}

FilterFault == {"NONE", "INPUT_NAN", "OUTPUT_NAN", "CONFIG_INVALID"}

FilterPositive(x) == IsFinite(x) /\ x > 0
-----------------------------------------------------------------------------
(* The section passes no signal, or its poles are not inside the unit      *)
(* circle: refused.                                                        *)
ValidSection(s) ==
  /\ \A c \in {s.b0, s.b1, s.b2, s.a1, s.a2} : IsFinite(c)
  /\ s.b0 # 0 \/ s.b1 # 0 \/ s.b2 # 0
  /\ One + s.a1 + s.a2 > 0 /\ One - s.a1 + s.a2 > 0 /\ One - s.a2 > 0

ValidFilterConfig(kind, c) ==
  CASE kind = "LP1"     -> FilterPositive(c.alpha) /\ c.alpha <= One
    [] kind = "MA"      -> c.M \in 1..MaxWindow
    [] kind = "BIQUAD"  -> /\ Len(c.sections) \in 1..MaxSections
                           /\ \A k \in DOMAIN c.sections : ValidSection(c.sections[k])
    [] kind = "RATELIM" -> FilterPositive(c.rate_rise) /\ FilterPositive(c.rate_fall)

(* A design is accepted for positive arguments below the Nyquist rate.     *)
ValidDesign(frequency, Q, dt) ==
  /\ FilterPositive(frequency) /\ FilterPositive(Q) /\ FilterPositive(dt)
  /\ 2 * frequency * dt < Cycle

(* filter_coeff_common, on the grid; Q is in units of 1 / One.             *)
Design(kind, frequency, Q, dt) ==
  LET c     == SinCos[frequency * dt].cos
      alpha == Fin(Quot(SinCos[frequency * dt].sin * One, 2 * Q))
      norm  == IF IsFinite(alpha) THEN Quot(One * One, One + alpha) ELSE 0
      n(x)  == Scaled(x, norm, One)
      b(x0, x1, x2) == [b0 |-> n(x0), b1 |-> n(x1), b2 |-> n(x2),
                        a1 |-> n(-2 * c), a2 |-> n(Minus(One, alpha))]
  IN  CASE kind = "LP"    -> b(Quot(One - c, 2), One - c, Quot(One - c, 2))
        [] kind = "HP"    -> b(Quot(One + c, 2), -(One + c), Quot(One + c, 2))
        [] kind = "BP"    -> b(alpha, 0, Minus(0, alpha))
        [] kind = "NOTCH" -> b(One, -2 * c, One)

(* ron_lp1_init_fc: the smoothing factor of a cutoff frequency.            *)
CutoffAlpha(fc, dt) ==
  LET omega == Fin(Quot(628 * fc * dt * One, 100 * Cycle))
  IN  IF IsFinite(omega) THEN Quot(omega * One, One + omega) ELSE NaN
-----------------------------------------------------------------------------
NoConfig == "zeroed"

Memory(kind) ==
  CASE kind = "MA"     -> [buf: [0..MaxWindow - 1 -> Float], sum: Float,
                           idx: 0..MaxWindow - 1, count: 0..MaxWindow]
    [] kind = "BIQUAD" -> [w1: [1..MaxSections -> Float], w2: [1..MaxSections -> Float]]
    [] OTHER           -> {<<>>}

EmptyMemory(kind) ==
  CASE kind = "MA"     -> [buf |-> [k \in 0..MaxWindow - 1 |-> 0], sum |-> 0,
                           idx |-> 0, count |-> 0]
    [] kind = "BIQUAD" -> [w1 |-> [k \in 1..MaxSections |-> 0],
                           w2 |-> [k \in 1..MaxSections |-> 0]]
    [] OTHER           -> <<>>

(* The state init and reset leave. *)
Seeded(kind, cfg, is_initialised) ==
  [cfg |-> cfg, mem |-> EmptyMemory(kind), y_prev |-> 0,
   fault_code |-> "NONE", status |-> "OK", is_initialised |-> is_initialised]
-----------------------------------------------------------------------------
(* What each kind makes of a sample: its output, and the memory it will    *)
(* have if the output is accepted.                                         *)
Lp1Apply(f, x) ==
  [y |-> Fin(Quot(f.cfg.alpha * x + (One - f.cfg.alpha) * f.y_prev, One)), mem |-> f.mem]

(* Mutant: the ring is as long as the buffer. *)
MaCommitWholeBuffer(f, x, sum_next) ==
  [buf |-> [f.mem.buf EXCEPT ![f.mem.idx] = x], sum |-> sum_next,
   idx |-> IF f.mem.idx + 1 >= MaxWindow THEN 0 ELSE f.mem.idx + 1,
   count |-> IF f.mem.count < f.cfg.M THEN f.mem.count + 1 ELSE f.mem.count]

MaCommit(f, x, sum_next) ==
  [buf |-> [f.mem.buf EXCEPT ![f.mem.idx] = x], sum |-> sum_next,
   idx |-> IF f.mem.idx + 1 >= f.cfg.M THEN 0 ELSE f.mem.idx + 1,
   count |-> IF f.mem.count < f.cfg.M THEN f.mem.count + 1 ELSE f.mem.count]

MaApply(f, x) ==
  LET sum_next == Minus(Plus(f.mem.sum, x), f.mem.buf[f.mem.idx])
  IN  [y |-> Scaled(sum_next, 1, f.cfg.M), mem |-> MaCommit(f, x, sum_next)]

(* Mutant: a tap with a zero coefficient is skipped. *)
SectionStepSparse(s, w1, w2, input) ==
  LET g(c, w) == IF c = 0 THEN 0 ELSE Scaled(c, w, One)
      w0 == Minus(Minus(input, g(s.a1, w1)), g(s.a2, w2))
  IN  [w0 |-> w0, output |-> Plus(Plus(g(s.b0, w0), g(s.b1, w1)), g(s.b2, w2))]

SectionStep(s, w1, w2, input) ==
  LET g(c, w) == Scaled(c, w, One)
      w0 == Minus(Minus(input, g(s.a1, w1)), g(s.a2, w2))
  IN  [w0 |-> w0, output |-> Plus(Plus(g(s.b0, w0), g(s.b1, w1)), g(s.b2, w2))]

BiquadApply(f, x) ==
  LET n == Len(f.cfg.sections)
      through(acc, k) ==
        LET r == SectionStep(f.cfg.sections[k], f.mem.w1[k], f.mem.w2[k], acc.y)
        IN  [y |-> r.output, w0 |-> Append(acc.w0, r.w0)]
      run == FoldLeft(through, [y |-> x, w0 |-> <<>>], [k \in 1..n |-> k])
      shifted(new, w) == [k \in 1..MaxSections |-> IF k <= n THEN new[k] ELSE w[k]]
  IN  [y |-> run.y, mem |-> [w1 |-> shifted(run.w0, f.mem.w1),
                             w2 |-> shifted(f.mem.w1, f.mem.w2)]]
-----------------------------------------------------------------------------
(* The result of a call: the instance, the caller's y and the fault.       *)
Refused(f, out) == [f |-> f, out |-> out, ret |-> "CONFIG_INVALID"]

(* A latched fault holds the last accepted output. *)
HoldOutput(f, code) ==
  [f |-> [f EXCEPT !.fault_code = code, !.status = "FAULT"], out |-> f.y_prev, ret |-> code]

Accept(f, y, mem, status) ==
  [f |-> [f EXCEPT !.y_prev = y, !.mem = mem, !.status = status], out |-> y, ret |-> "NONE"]

(* Mutant: a good sample recovers from a latched fault. *)
FilterStepRecovering(kind, f, out, x) ==
  IF ~f.is_initialised THEN Refused(f, out)
  ELSE IF ~IsFinite(x) THEN HoldOutput(f, "INPUT_NAN")
  ELSE LET a == CASE kind = "LP1"    -> Lp1Apply(f, x)
                  [] kind = "MA"     -> MaApply(f, x)
                  [] kind = "BIQUAD" -> BiquadApply(f, x)
       IN  IF IsFinite(a.y) THEN Accept([f EXCEPT !.fault_code = "NONE"], a.y, a.mem, "OK")
           ELSE HoldOutput(f, "OUTPUT_NAN")

(* ron_lp1_step, ron_ma_step, ron_biquad_step. *)
FilterStep(kind, f, out, x) ==
  IF ~f.is_initialised THEN Refused(f, out)
  ELSE IF f.fault_code # "NONE" THEN HoldOutput(f, f.fault_code)
  ELSE IF ~IsFinite(x) THEN HoldOutput(f, "INPUT_NAN")
  ELSE LET a == CASE kind = "LP1"    -> Lp1Apply(f, x)
                  [] kind = "MA"     -> MaApply(f, x)
                  [] kind = "BIQUAD" -> BiquadApply(f, x)
       IN  IF IsFinite(a.y) THEN Accept(f, a.y, a.mem, "OK")
           ELSE HoldOutput(f, "OUTPUT_NAN")

RatelimStep(f, out, x, dt) ==
  IF ~f.is_initialised THEN Refused(f, out)
  ELSE IF f.fault_code # "NONE" THEN HoldOutput(f, f.fault_code)
  ELSE IF ~IsFinite(x) \/ ~IsFinite(dt) THEN HoldOutput(f, "INPUT_NAN")
  ELSE IF dt <= 0 THEN HoldOutput(f, "CONFIG_INVALID")
  ELSE LET y == Clamp(x, f.y_prev - f.cfg.rate_fall * dt, f.y_prev + f.cfg.rate_rise * dt)
       IN  Accept(f, y, f.mem, IF y = x THEN "OK" ELSE "RATE_LIMITED")

(* ron_biquad_update_notch: the delay lines stay. *)
UpdateNotch(f, out, section, frequency, Q, dt) ==
  IF ~f.is_initialised THEN Refused(f, out)
  ELSE IF f.fault_code # "NONE"
       THEN [f |-> [f EXCEPT !.status = "FAULT"], out |-> out, ret |-> f.fault_code]
  ELSE IF section > Len(f.cfg.sections) \/ ~ValidDesign(frequency, Q, dt) THEN Refused(f, out)
  ELSE [f |-> [f EXCEPT !.cfg.sections[section] = Design("NOTCH", frequency, Q, dt)],
        out |-> out, ret |-> "NONE"]
=============================================================================
