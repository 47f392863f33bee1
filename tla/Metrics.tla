------------------------------- MODULE Metrics -------------------------------
(***************************************************************************)
(* The loop metrics (ron_metrics.c): error integrals over all samples or   *)
(* over a window, and the transient response to the last setpoint step.    *)
(* The operators say what the functions do to one instance m.              *)
(***************************************************************************)
EXTENDS RonUtil

MetricsMode == {"CUMULATIVE", "WINDOWED"}

(* What the sentinel of a time not yet observed is, as in the code. *)
UNSET == -1

(* band_pct is a percentage here, a fraction in the code. *)
MetricsConfig ==
  [mode: MetricsMode \union {"ILLEGAL"}, window_steps: Nat, band_pct: Float,
   settle_confirm: Float, step_thresh: Float]

MetricsInstance ==
  [cfg: MetricsConfig, iae: Nat, ise: Nat, itae: Nat,
   peak_overshoot: Nat, rise_time: Nat \union {UNSET}, settling_time: Nat \union {UNSET},
   step_ref: Int, step_target: Int, step_size: Int,
   t_elapsed: Nat, t_rise_start: Nat, in_band_time: Nat, r_prev: Int,
   window_counter: Nat, rise_10pct_crossed: BOOLEAN, prev_valid: BOOLEAN,
   enabled: BOOLEAN, is_initialised: BOOLEAN]

MetricsSeeded(cfg, enabled, is_initialised) ==
  [cfg |-> cfg, iae |-> 0, ise |-> 0, itae |-> 0,
   peak_overshoot |-> 0, rise_time |-> UNSET, settling_time |-> UNSET,
   step_ref |-> 0, step_target |-> 0, step_size |-> 0,
   t_elapsed |-> 0, t_rise_start |-> 0, in_band_time |-> 0, r_prev |-> 0,
   window_counter |-> 0, rise_10pct_crossed |-> FALSE, prev_valid |-> FALSE,
   enabled |-> enabled, is_initialised |-> is_initialised]

ZeroMetrics ==
  MetricsSeeded([mode |-> "CUMULATIVE", window_steps |-> 0, band_pct |-> 0,
                 settle_confirm |-> 0, step_thresh |-> 0], FALSE, FALSE)
-----------------------------------------------------------------------------
ValidMetricsConfig(c) ==
  /\ c.mode \in MetricsMode
  /\ c.mode = "WINDOWED" => c.window_steps > 0
  /\ IsFinite(c.band_pct) /\ c.band_pct > 0
  /\ IsFinite(c.settle_confirm) /\ c.settle_confirm >= 0
  /\ IsFinite(c.step_thresh) /\ c.step_thresh > 0

ClearTransient(m) ==
  [m EXCEPT !.peak_overshoot = 0, !.rise_time = UNSET, !.settling_time = UNSET,
            !.t_elapsed = 0, !.t_rise_start = 0, !.in_band_time = 0,
            !.rise_10pct_crossed = FALSE]

WindowRestart(m) ==
  IF m.cfg.mode = "WINDOWED" /\ m.window_counter >= m.cfg.window_steps
  THEN [ClearTransient(m) EXCEPT !.iae = 0, !.ise = 0, !.itae = 0, !.window_counter = 0]
  ELSE m

(* The first sample and every setpoint step set the reference. *)
TransientRestart(m, r, y) ==
  IF ~m.prev_valid \/ Abs(r - m.r_prev) >= m.cfg.step_thresh
  THEN [ClearTransient(m) EXCEPT !.step_target = r, !.step_ref = y, !.step_size = r - y,
                                 !.prev_valid = TRUE]
  ELSE m

Accumulate(m, e, dt) ==
  [m EXCEPT !.iae = @ + Abs(e) * dt, !.ise = @ + e * e * dt,
            !.itae = @ + m.t_elapsed * Abs(e) * dt]

(* (y - from) / step_size >= num / den, for a positive den. *)
FractionReached(m, y, from, num, den) ==
  den * (y - from) * Sign(m.step_size) >= num * Abs(m.step_size)

UpdateRise(m, y) ==
  LET crossed == m.rise_10pct_crossed \/ FractionReached(m, y, m.step_ref, 1, 10)
      start   == IF crossed /\ ~m.rise_10pct_crossed THEN m.t_elapsed ELSE m.t_rise_start
  IN  [m EXCEPT !.rise_10pct_crossed = crossed, !.t_rise_start = start,
                !.rise_time = IF /\ crossed /\ @ = UNSET
                                 /\ FractionReached(m, y, m.step_ref, 9, 10)
                              THEN m.t_elapsed - start ELSE @]

UpdateOvershoot(m, y) ==
  LET pct == Quot(100 * (y - m.step_target) * Sign(m.step_size), Abs(m.step_size))
  IN  [m EXCEPT !.peak_overshoot = IF pct > @ THEN pct ELSE @]

UpdateSettling(m, e, dt) ==
  IF 100 * Abs(e) <= Abs(m.step_size) * m.cfg.band_pct
  THEN LET dwell == m.in_band_time + dt
       IN  [m EXCEPT !.in_band_time = dwell,
                     !.settling_time = IF /\ @ = UNSET
                                          /\ 2 * dwell + dt >= 2 * m.cfg.settle_confirm
                                       THEN m.t_elapsed ELSE @]
  ELSE [m EXCEPT !.in_band_time = 0]

(* Mutant: the window is rolled over after the sample that fills it. *)
MetricsStepEager(m, r, y, dt) ==
  LET q == [TransientRestart(m, r, y) EXCEPT
              !.r_prev = r, !.t_elapsed = @ + dt, !.window_counter = @ + 1]
      a == Accumulate(q, r - y, dt)
  IN  WindowRestart(IF a.step_size = 0 THEN a
                    ELSE UpdateSettling(UpdateOvershoot(UpdateRise(a, y), y), r - y, dt))

(* An accepted step of an enabled instance. *)
MetricsStep(m, r, y, dt) ==
  LET q == [TransientRestart(WindowRestart(m), r, y) EXCEPT
              !.r_prev = r, !.t_elapsed = @ + dt, !.window_counter = @ + 1]
      a == Accumulate(q, r - y, dt)
  IN  IF a.step_size = 0 THEN a
      ELSE UpdateSettling(UpdateOvershoot(UpdateRise(a, y), y), r - y, dt)
=============================================================================
