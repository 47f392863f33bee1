-------------------------------- MODULE Health --------------------------------
(***************************************************************************)
(* The loop-health monitor (ron_health.c): what its functions do to one    *)
(* instance, as operators.  An instance h holds its configuration h.cfg    *)
(* and the fields of ron_health_state_t; the status word is a set of bits. *)
(***************************************************************************)
EXTENDS RonUtil, Sequences, FiniteSets

CONSTANT OscWindow   (* RON_HEALTH_OSC_WINDOW *)

ASSUME HealthAssumption == OscWindow \in 4..255

Condition == {"OUTPUT_STUCK", "DIVERGING", "OSCILLATING", "SENSOR_DROPOUT", "SP_UNREACHABLE"}

HealthConfig ==
  [t_sat_max: Float, err_diverge_thresh: Float, osc_count_thresh: 0..255,
   dead_band: Float, dropout_time: Float, ss_err_thresh: Float,
   settling_time: Float, cb: BOOLEAN]

HealthInstance ==
  [cfg: HealthConfig, status: SUBSET Condition,
   t_saturated: Nat, t_dropout: Nat, t_since_step: Nat,
   osc_window: [0..OscWindow - 1 -> {-1, 0, 1}], osc_idx: 0..OscWindow - 1,
   e_prev: Int, y_prev: Int, u_prev: Int, prev_valid: BOOLEAN,
   is_initialised: BOOLEAN]

ZeroHealthConfig ==
  [t_sat_max |-> 0, err_diverge_thresh |-> 0, osc_count_thresh |-> 0,
   dead_band |-> 0, dropout_time |-> 0, ss_err_thresh |-> 0,
   settling_time |-> 0, cb |-> FALSE]

(* Everything but the configuration and the guard, zeroed. *)
HealthSeeded(cfg, is_initialised) ==
  [cfg |-> cfg, status |-> {}, t_saturated |-> 0, t_dropout |-> 0,
   t_since_step |-> 0, osc_window |-> [k \in 0..OscWindow - 1 |-> 0], osc_idx |-> 0,
   e_prev |-> 0, y_prev |-> 0, u_prev |-> 0, prev_valid |-> FALSE,
   is_initialised |-> is_initialised]

ZeroHealth == HealthSeeded(ZeroHealthConfig, FALSE)
-----------------------------------------------------------------------------
ValidHealthConfig(c) ==
  /\ \A x \in {c.t_sat_max, c.dropout_time, c.settling_time} : IsFinite(x) /\ x > 0
  /\ \A x \in {c.err_diverge_thresh, c.dead_band, c.ss_err_thresh} : IsFinite(x) /\ x >= 0
  /\ c.osc_count_thresh < OscWindow

(* The accumulated time, rounded to the nearest sample, is at the limit. *)
DurationReached(accum, dt, thresh) == 2 * accum + dt >= 2 * thresh

(* Mutant: the walk starts at the newest slot. *)
SignChangesShifted(h) ==
  LET slot(k) == h.osc_window[(h.osc_idx + k + OscWindow - 1) % OscWindow]
  IN  Cardinality({k \in 0..OscWindow - 2 : slot(k) # 0 /\ slot(k) # slot(k + 1)})

(* The sign changes met on the walk from the oldest slot to the newest.    *)
SignChanges(h) ==
  LET slot(k) == h.osc_window[(h.osc_idx + k) % OscWindow]
  IN  Cardinality({k \in 0..OscWindow - 2 : slot(k) # 0 /\ slot(k) # slot(k + 1)})

PushSign(h, e) ==
  [h EXCEPT !.osc_window[h.osc_idx] = IF e >= 0 THEN 1 ELSE -1,
            !.osc_idx = (@ + 1) % OscWindow]

(* The five conditions of one sample, and the instance that has seen it.   *)
Observed(h, r, y, u, dt) ==
  LET e       == r - y
      de      == e - h.e_prev
      moved   == h.prev_valid /\ u # h.u_prev
      alive   == h.prev_valid /\ Abs(y - h.y_prev) >= h.cfg.dead_band
      stepped == h.prev_valid /\ r # h.e_prev + h.y_prev
      b == [PushSign(h, e) EXCEPT
              !.t_saturated  = IF moved THEN 0 ELSE @ + dt,
              !.t_dropout    = IF alive THEN 0 ELSE @ + dt,
              !.t_since_step = IF stepped THEN 0 ELSE @ + dt,
              !.e_prev = e, !.y_prev = y, !.u_prev = u, !.prev_valid = TRUE]
      holds(bit) ==
        CASE bit = "OUTPUT_STUCK"   -> DurationReached(b.t_saturated, dt, h.cfg.t_sat_max)
          [] bit = "DIVERGING"      -> Abs(e) > h.cfg.err_diverge_thresh /\ e * de > 0
          [] bit = "OSCILLATING"    -> SignChanges(b) > h.cfg.osc_count_thresh
          [] bit = "SENSOR_DROPOUT" -> DurationReached(b.t_dropout, dt, h.cfg.dropout_time)
          [] bit = "SP_UNREACHABLE" -> /\ Abs(e) > h.cfg.ss_err_thresh
                                       /\ DurationReached(b.t_since_step, dt, h.cfg.settling_time)
  IN  [health |-> b, active |-> {bit \in Condition : holds(bit)}]

(* Mutant: the callback hears of every active condition. *)
HealthStepRepeating(h, r, y, u, dt) ==
  LET o == Observed(h, r, y, u, dt)
  IN  [health |-> [o.health EXCEPT !.status = @ \union o.active],
       fired  |-> IF h.cfg.cb THEN o.active ELSE {}]

(* Conditions latch, and the callback hears of each when it does.          *)
HealthStep(h, r, y, u, dt) ==
  LET o == Observed(h, r, y, u, dt)
  IN  [health |-> [o.health EXCEPT !.status = @ \union o.active],
       fired  |-> IF h.cfg.cb THEN o.active \ h.status ELSE {}]

HealthClear(h) == HealthSeeded(h.cfg, TRUE)
=============================================================================
