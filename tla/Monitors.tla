------------------------------- MODULE Monitors -------------------------------
(***************************************************************************)
(* The two monitors of a control loop, fed with the samples of its         *)
(* periodic task: the health monitor and the metrics.  Either is optional. *)
(* The application initialises, clears, resets, enables and disables them  *)
(* between samples, in any order.                                          *)
(***************************************************************************)
EXTENDS Health, Metrics, FiniteSetsExt

CONSTANTS
  Attachments,       (* the sets of monitors a loop may have               *)
  HealthConfigs, MetricsConfigs,
  Samples,           (* what the task passes: [r, y, u, dt]                *)
  MaxSamples         (* bound on the samples between two restarts          *)

ASSUME MonitorsAssumption ==
  /\ Attachments \subseteq SUBSET {"health", "metrics"}
  /\ HealthConfigs \subseteq HealthConfig /\ MetricsConfigs \subseteq MetricsConfig
  /\ Samples \subseteq [r: Float, y: Float, u: Float, dt: Float]
  /\ MaxSamples \in Nat

VARIABLES
  attached,   (* the monitors this loop has                                *)
  h, m,       (* the two instances                                         *)
  hs, ms,     (* the samples each took since it was last zeroed, histories *)
  fired       (* the conditions the callback heard of during the last call *)

monitorsVars == <<attached, h, m, hs, ms, fired>>

healthVars == <<h, hs>>
metricsVars == <<m, ms>>
-----------------------------------------------------------------------------
MonitorsInit ==
  /\ attached \in Attachments
  /\ h = ZeroHealth /\ m = ZeroMetrics
  /\ hs = <<>> /\ ms = <<>>
  /\ fired = {}

HealthCall(h_new) ==
  /\ "health" \in attached
  /\ h' = h_new /\ hs' = <<>> /\ fired' = {}
  /\ UNCHANGED <<attached, metricsVars>>

(* ron_health_init and ron_health_clear; a refused call changes nothing.   *)
InitHealth == \E c \in HealthConfigs : ValidHealthConfig(c) /\ HealthCall(HealthSeeded(c, TRUE))

ClearHealth == h.is_initialised /\ HealthCall(HealthClear(h))

MetricsCall(m_new, ms_new) ==
  /\ "metrics" \in attached
  /\ m' = m_new /\ ms' = ms_new /\ fired' = {}
  /\ UNCHANGED <<attached, healthVars>>

InitMetrics ==
  \E c \in MetricsConfigs :
    ValidMetricsConfig(c) /\ MetricsCall(MetricsSeeded(c, FALSE, TRUE), <<>>)

ResetMetrics ==
  m.is_initialised /\ MetricsCall(MetricsSeeded(m.cfg, m.enabled, TRUE), <<>>)

EnableMetrics ==
  \E enable \in BOOLEAN :
    m.is_initialised /\ MetricsCall([m EXCEPT !.enabled = enable], ms)

GoodSample(s) == GoodDt(s.dt) /\ IsFinite(s.r) /\ IsFinite(s.y)

SampleHealth(s) ==
  IF h.is_initialised /\ GoodSample(s) /\ IsFinite(s.u)
  THEN LET res == HealthStep(h, s.r, s.y, s.u, s.dt)
       IN  h' = res.health /\ fired' = res.fired /\ hs' = Append(hs, s)
  ELSE fired' = {} /\ UNCHANGED healthVars

SampleMetrics(s) ==
  IF m.is_initialised /\ m.enabled /\ GoodSample(s)
  THEN m' = MetricsStep(m, s.r, s.y, s.dt) /\ ms' = Append(ms, s)
  ELSE UNCHANGED metricsVars

(* One sample, passed to every monitor the loop has. *)
Sample ==
  \E s \in Samples :
    /\ Len(hs) < MaxSamples /\ Len(ms) < MaxSamples
    /\ IF "health" \in attached THEN SampleHealth(s) ELSE fired' = {} /\ UNCHANGED healthVars
    /\ IF "metrics" \in attached THEN SampleMetrics(s) ELSE UNCHANGED metricsVars
    /\ UNCHANGED attached

MonitorsNext ==
  \/ InitHealth \/ ClearHealth
  \/ InitMetrics \/ ResetMetrics \/ EnableMetrics
  \/ Sample

MonitorsSpec == MonitorsInit /\ [][MonitorsNext]_monitorsVars
-----------------------------------------------------------------------------
(* The time covered by samples a to b. *)
Span(seq, a, b) == MapThenSumSet(LAMBDA k : seq[k].dt, a..b)

(* The last k of S, or default if there is none. *)
LastOf(S, default) == IF S = {} THEN default ELSE Max(S)

Err(seq, k) == seq[k].r - seq[k].y

(* What each condition means for the samples up to the n-th, as the header *)
(* and the code have it: an output that has not moved, at a limit or not;  *)
(* a setpoint that has not moved, whether it ever did or not; for the      *)
(* duration asked for, to the nearest sample.  (RON-FR-901 and the SADS    *)
(* ask for a saturated output, a preceding setpoint step and more than the *)
(* duration.)  The value before the first sample counts as 0 for the       *)
(* growth of the error.                                                    *)
ConditionMet(bit, c, n) ==
  LET for(Changed(_), limit) ==
        LET since == LastOf({k \in 2..n : Changed(k)}, 0)
        IN  2 * Span(hs, since + 1, n) + hs[n].dt >= 2 * limit
      e     == Err(hs, n)
      before == IF n = 1 THEN 0 ELSE Err(hs, n - 1)
      recent == (IF n > OscWindow THEN n - OscWindow + 1 ELSE 1)..n - 1
      positive(k) == Err(hs, k) >= 0
  IN  CASE bit = "OUTPUT_STUCK" -> for(LAMBDA k : hs[k].u # hs[k - 1].u, c.t_sat_max)
        [] bit = "SENSOR_DROPOUT" ->
             for(LAMBDA k : Abs(hs[k].y - hs[k - 1].y) >= c.dead_band, c.dropout_time)
        [] bit = "SP_UNREACHABLE" ->
             /\ Abs(e) > c.ss_err_thresh
             /\ for(LAMBDA k : hs[k].r # hs[k - 1].r, c.settling_time)
        [] bit = "DIVERGING" ->
             /\ Abs(e) > c.err_diverge_thresh
             /\ IF e > 0 THEN before < e ELSE e < before
        [] bit = "OSCILLATING" ->
             Cardinality({k \in recent : positive(k) # positive(k + 1)}) > c.osc_count_thresh

(***************************************************************************)
(* RON-FR-905, and RON-FR-901 as ConditionMet reads it: the status word    *)
(* has a condition's bit exactly if the condition was met at some sample   *)
(* since the monitor was last zeroed: the timers, the ring of error signs  *)
(* and the previous values together remember enough, across wrap-around    *)
(* and unequal periods, and each stays within its type.                    *)
(***************************************************************************)
StatusIsHistory ==
  /\ h \in HealthInstance
  /\ h.is_initialised =>
       h.status = {bit \in Condition : \E n \in 1..Len(hs) : ConditionMet(bit, h.cfg, n)}

(***************************************************************************)
(* RON-FR-904, RON-FR-905: a condition latches until the monitor is        *)
(* cleared, and the callback hears of it once, when it latches.            *)
(***************************************************************************)
ConditionsLatch ==
  [][/\ fired' = IF h.cfg.cb THEN h'.status \ h.status ELSE {}
     /\ h.status \subseteq h'.status \/ h' = HealthSeeded(h'.cfg, TRUE)]_monitorsVars

(* Where the metrics start again: at a setpoint step, and at a window.     *)
StepAt(k) == k = 1 \/ Abs(ms[k].r - ms[k - 1].r) >= m.cfg.step_thresh

WindowAt(k) == IF m.cfg.mode = "WINDOWED" THEN (k - 1) % m.cfg.window_steps = 0 ELSE k = 1

LastStep(n) == LastOf({k \in 1..n : StepAt(k)}, 0)
LastWindow(n) == LastOf({k \in 1..n : WindowAt(k)}, 0)
LastRestart(n) == LastOf({k \in 1..n : StepAt(k) \/ WindowAt(k)}, 0)

(* The first k of S, as a time since the first sample of the response.     *)
TimeOfFirst(S, from) == IF S = {} THEN UNSET ELSE Span(ms, from, Min(S))

(***************************************************************************)
(* RON-FR-951, RON-FR-952, RON-FR-954: the results are those of the        *)
(* samples: error integrals over the current window (one of consecutive    *)
(* windows, which RON-FR-952 calls rolling), with the time since the last  *)
(* setpoint step or window boundary as the weight of ITAE, and rise,       *)
(* overshoot and settling of the response since then, relative to the last *)
(* setpoint step even across a window boundary.                            *)
(***************************************************************************)
MetricsAreHistory ==
  LET n     == Len(ms)
      from  == LastRestart(n)
      ref   == ms[LastStep(n)]
      size  == ref.r - ref.y
      now   == from..n
      level(k, num) == 10 * (ms[k].y - ref.y) * Sign(size) >= num * Abs(size)
      low   == {k \in now : level(k, 1)}
      high  == {k \in now : level(k, 9) /\ \E j \in low : j <= k}
      over  == {Quot(100 * (ms[k].y - ref.r) * Sign(size), Abs(size)) : k \in now}
      out   == {k \in now : 100 * Abs(Err(ms, k)) > Abs(size) * m.cfg.band_pct}
      settled ==
        {k \in now \ out :
           2 * Span(ms, LastOf({j \in out : j < k}, from - 1) + 1, k) + ms[k].dt
             >= 2 * m.cfg.settle_confirm}
      total(f(_)) == MapThenSumSet(LAMBDA k : f(k) * ms[k].dt, LastWindow(n)..n)
  IN  /\ m \in MetricsInstance
      /\ n > 0 =>
        /\ m.iae = total(LAMBDA k : Abs(Err(ms, k)))
        /\ m.ise = total(LAMBDA k : Err(ms, k) * Err(ms, k))
        /\ m.itae = total(LAMBDA k : Abs(Err(ms, k)) * Span(ms, LastRestart(k), k))
        /\ size # 0 =>
             /\ m.rise_time = IF high = {} THEN UNSET ELSE Span(ms, Min(low) + 1, Min(high))
             /\ m.peak_overshoot = Max(over \union {0})
             /\ m.settling_time = TimeOfFirst(settled, from)
        /\ size = 0 => m.rise_time = UNSET /\ m.settling_time = UNSET /\ m.peak_overshoot = 0
=============================================================================
