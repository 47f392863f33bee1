# Verification of regulon

TLA+ specifications, TLC model checking and TLAPS proofs for
[regulon](../src/README.md), a C99 control library (PID, feed-forward,
cascade, gain scheduling, autotuning, estimators, state feedback) for
embedded targets without dynamic memory. The reference is the C
implementation under `src/regulon-c`; every definition cites the code it
translates in `PROJECT.json` (`map`).

## The system and its parts

All state lives in instance structures the application owns. A control task
calls a `*_step` function once per period; an operator, supervisor or
commissioning tool calls the other functions at any time in between. The
library has no threads: calls on one instance must not overlap
(IS_ControlLib leaves synchronisation to the caller), so the concurrency is
the arbitrary *order* of whole calls. What is hard is therefore stale
state: every function leaves memory (last output, last error, filter
states, latched faults, status word) that the next one, under another
configuration or mode, takes at face value; and an operation that fails half
way leaves some of it new and some of it old.

| Part (sources) | State | Operations | What makes it correct | Modelled in |
|---|---|---|---|---|
| PID controller (`ron_pid_core.c`, `ron_pid_api.c`) | configuration, integral, last output, raw output, error, measurement, filter states, mode, status | init, reset, step, set_config/gains/limits/filter/antiwindup/mode/integral | output within range, limiter and limits agree, bumpless transfer, atomic setters, status tells the truth | `PidOps`, `Pid` |
| Fault register (`ron_pid_fault.c`) | latched bits | latch and notify, safe output, clear | first fault latches alone, callback once, no silent recovery | `PidOps`, `FaultLatch` |
| Configuration (`ron_pid_config.c`) | - | validate, from ISA form | the whole is valid whatever part was replaced | `PidConfig` (not the ISA conversion) |
| Feed-forward (`ron_feedforward.c`) | setpoint, velocity, acceleration, last contribution | set_feedforward, step_feedforward | mode and step function agree | `PidConfig`, `PidOps`, `Pid` |
| Scalars (`ron_util.c`, `ron_platform.h`) | - | clamp, rate limit, safe output, roots | results within bounds | `RonUtil`, `FloatOps` |
| Cascade (`ron_cascade.c`) | two PID instances, last inner status | init, step, set_mode, fault_clear, reset | outer output is a valid inner setpoint; cross anti-windup bounded, silent in manual mode; transfer of both loops bumpless | `Cascade`, `CascadeClaims` |
| Gain scheduling (`ron_gain_sched.c`) | the PID it reconfigures | update | the configuration in force is that of the operating point; updates do not disturb the integral | `GainSched` |
| Autotune (`ron_autotune.c`) | phase, timers, crossings, peaks, snapshot of the PID's gains and mode | init, start, step, apply, abort | the borrowed PID is given back; the run ends; the actuator sees only the relay | `Autotune` |
| Health (`ron_health.c`) | timers, ring of error signs, previous sample, latched conditions | init, step, clear | the status is a function of the samples; callback once | `Health`, `Monitors` |
| Metrics (`ron_metrics.c`) | accumulators, window counter, response to the last setpoint step | init, reset, enable, step | results are a function of the samples, across windows and steps | `Metrics`, `Monitors` |
| Filters (`ron_filter.c`) | ring and running sum, biquad delay lines, last output, fault | init, init by cutoff, reset, step, notch retuning, coefficient designs | the output is the filter's function of its samples; faults hold it | `Filter`, `Filters` |
| Trajectories (`ron_trajectory_trap.c`, `ron_trajectory_scurve.c`) | position, velocity, acceleration, phase or segment and clock, target, hold | init, set_target, step, hold, reset | limits respected, continuous, target reached | `Trap`, `Scurve`, `Trajectory` |
| Estimators (`ron_observer.c`, `ron_kalman.c`, `ron_estimator.c`) | state estimate, covariance, faults, selected source | init, predict, update, reset | commit all or nothing, covariance not negative, source matches design | `Estimation` |
| State feedback (`ron_statespace.c`, `ron_lqr.c`, `ron_lqg.c`) | gain, Riccati solution, integral, last output, faults, estimator | init (with DARE), step, set_gains, reset, clear | fault latch, limits, no jump across faults, half-failed init | `Riccati`, `StateFeedback` |
| Matrices (`ron_matrix.c`) | - | linear algebra | failed operations are noticed | one by one only, in `Estimation` |
| Rust port, Zephyr glue, umbrella header | as above | as above | as above | no, see below |

## Modules

    RonUtil <- PidConfig <- PidOps <- Pid        <- MCPid
                                      Pid        -INSTANCE-> FaultLatch
                            PidOps <- Cascade    <- CascadeClaims <- MCCascade
                                      Cascade    -INSTANCE (twice)-> FaultLatch
                            PidOps <- GainSched  <- MCGainSched
                            PidOps <- Autotune   <- MCAutotune
    RonUtil <- FloatOps <- Filter <- Filters     <- MCFilters       -INSTANCE-> FaultLatch
               FloatOps <- Trap, Scurve <- Trajectory <- TrajectoryClaims <- MCTrajectory
               FloatOps <- Estimation <- Riccati <- StateFeedback <- MCStateFeedback
                                                 -INSTANCE-> FaultLatch
    RonUtil <- Health, Metrics <- Monitors       <- MCMonitors

    PidOps, FloatOps <- RonLemmas <- PidProofs, CascadeProofs, AutotuneProofs,
                                     FiltersProofs, TrajectoryProofs, StateFeedbackProofs
    GainSched, Monitors, RonLemmas <- SupervisionProofs

- **RonUtil**, **FloatOps**: floats, finiteness, clamp, rate limit, safe
  output; arithmetic whose overflow is not finite.
- **PidConfig**: the configuration record and `ron_pid_config_validate`.
- **PidOps**: each PID function as an operator from an instance and the
  caller's output variables to `[pid, out, ret, notified]`: the instance
  afterwards, `*u_out` and `*status`, the returned fault, the bits the fault
  callback heard. Composites call these operators on the instances they own
  or borrow, as the C code does.
- **Pid**: one controller and its application. One action per API function;
  `out` keeps what the actuator received last, `stepped` tells a step (its
  sample period) from another call (0); `followed` is a history variable: the
  actuator holds the control law's last output, or HOLD_LAST's copy of it.
- **FaultLatch**: what a controller promises about faults, whatever its law.
  Implemented by `Pid` (`latched <- pid.fault_code`), by each loop of a
  cascade (the outer one with `u <- link`), by every filter
  (`latched <- {f.fault_code} \ {"NONE"}`) and by the three state-feedback
  controllers (`latched <- c.faults`), each shown by an instance with a
  refinement mapping.
- **Cascade**: two PID instances and the application. `LoopsStep` is
  `ron_cascade_step`: the outer loop's output (`link`, kept to state what the
  inner loop was given) is the inner setpoint, and `CrossAw` corrects the outer
  integral afterwards. A loop whose own step is refused leaves the local
  variables `u_outer`/`u_inner` and their status words unwritten: they start
  with any value of the constant `Stack`. The application may call
  `ron_pid_set_limits` on either loop, which is what makes limits and last
  outputs disagree; the packed status word is a pair. **CascadeClaims** holds
  the documented claim that run `cascade_setpoint` refutes.
- **GainSched**: `ron_gs_update` on a PID that the application also steps,
  initialises and re-gains. `ValidTable`, `LowerIndex` (the bisection as a
  recursive function), `Candidate` and `Apply` follow the C functions;
  `scheduled` is a history variable: the table and operating point whose
  configuration is in force. `IsBracket` and `OnSegment` define interpolation
  independently.
- **Autotune**: the tuner and the PID it borrows. `Driven` is one step of a
  run (peaks, crossing, settling or relay counting, estimation, timeout);
  `Started`/`HandBack`/`Abort` are what happens to the controller's mode and
  gains. `origin` is a history variable: gains and mode before the last start.
- **Health**, **Metrics**, **Monitors**: the two monitors' functions as
  operators, and a loop that feeds one of them. `hs`, `ms` are history variables,
  the samples since the last zeroing, from which `ConditionMet` and
  `MetricsAreHistory` define the results without timers, rings or counters.
- **Filter**, **Filters**: one filter of any kind. `hist` is the history of
  accepted samples. Biquad coefficients are in units of 1/`One`; sine and
  cosine are the constant table `SinCos`.
- **Trap**, **Scurve**, **Trajectory**: the two generators' functions, and the
  caller of one of them. `from_rest` is a history variable: the current move
  was planned at rest. `plans` bounds the retargets of one move.
  **TrajectoryClaims** holds the documented claim that run
  `trajectory_overshoot` refutes.
- **Estimation**: observer, Kalman filter and the estimator interface, as
  operators. **Riccati**: the DARE iteration as a recursive function.
  **StateFeedback**: one controller of any of the three kinds, its estimator
  and its application. `mixed` records that a re-initialisation failed over a
  running controller, `resumed` that a step has succeeded since the last init or
  reset, so that the rate limiter has a history.
- **MC...**: instances for TLC. **...Proofs**: TLAPS proofs, a module for each
  component, **SupervisionProofs** for the monitors and gain scheduling.
  **RonLemmas** holds the lemmas that several of them cite.

### Abstractions

- A `ron_float_t` is an integer or `NaN`. `NaN` is any non-finite argument:
  the code only asks whether a value is finite. Rounding is to the grid
  (`\div`), where the code divides. Weights `b`, `c` in [0, 1] are 0 or 1.
  Comparisons within `RON_FLOAT_EPSILON` are exact comparisons. Roots are
  exact roots rounded to the grid. A Kalman or LQR gain is rounded to the
  nearest, as in the code, because whether `K H` can exceed 1 depends on it.
- Overflow: the PID's arithmetic is exact, and every intermediate result C
  computes on the way to `u_raw` is tested (`finite` in `LimitAndStore`, with
  `DerivativeSteps`, `FeedforwardSteps`, `DenormaliseSteps`): one beyond
  `FloatMax` is an infinity or a NaN in C, which reaches `u_raw` whatever the
  exact result is, and makes the step fail (`OUTPUT_NAN`). The integral's clamp
  absorbs an infinite increment, as in the code, and not one that is NaN
  (opposite infinities, 0 times an infinity). Where a weight of 0 keeps a
  setpoint out of the output, an overflowed error is remembered and used by a
  later step (`e_prev`, `e_D_prev`); the model keeps its exact value. Two cases
  are left approximate: an infinite offset over an infinite span of the
  normalisation is NaN in C and an infinity here (both fail the step; the
  setpoint reset alone could tell them apart), and `1 + N dt` is not tested
  beside `N dt`. In the other parts every operation of `FloatOps` overflows
  where it is computed, so that partial commits show.
- The state-space parts have one state, one input and one measurement
  (dimension 2 in a configuration stands for any dimension other than the
  estimator's): matrices are scalars, a Cholesky factorisation is the test for
  a positive pivot. Life cycle, order of commits and every error path are the
  code's.
- Enumerations carry their values and one illegal value; `set_mode` is
  called with the two modes. Null pointers are refused before any effect and
  left out, as are the functions that only read.
- Fault registers and status words are sets of bits.
- Status and wording are kept; layout, logging and MISRA idioms are not.

## Runs

| Run | Question and properties | Bounds and why they suffice |
|---|---|---|
| `limits` | Tightened limits, switched configurations (one whose range leaves out 0), setter calls that are accepted and refused, every kind of fault, HOLD_LAST and CONSTANT: does the output stay in range, recover into the new limits, and move no faster than the rate limit across faults, safe outputs and their clearing, is the configuration in force valid as a whole, does a refused call leave no trace, do faults latch as promised? (`TypeOK`, `OutputInActuatorRange`, `ConfigInForceValid`, `CallbackOncePerLatch`, `LimitRecovery`, `ImplementsFaultLatch`, `RejectionIsAtomic`, `NoActuatorJump`) | `FloatMax` = 3 so that overflow happens within two steps; inputs 0, 2, NaN; rate limit 1 so that crossing the range takes several steps; the configuration as a whole and the limits really change, the other setters, each `ron_pid_set_config` of a changed copy, are accepted with the value in force and refused with another (NaN, or back-calculation without a time constant) |
| `control` | Every term of the law (both integration methods, both derivative modes, filter, normalisation, the five feed-forward modes), periods 1, 2 and the refused 0, mode changes anywhere. (`BumplessTransfer`, `StatusExplainsOutput`) | `FloatMax` = 100: no overflow; inputs -1, 0, 2 drive the output past both limits |
| `cascade_faults` | Faults in either loop, overflow, half-failed (re-)initialisation, tightened and moved limits of either loop, mode changes, in any order; from every manual state, the coordinated transfer. (`TypeOK`, `OuterIntegralBounded`, `CascadeBumpless`, `ManualFreezesBothLoops`, `LoopsImplementLatch`) | `FloatMax` = 3: both loops overflow; the inner range is narrower than the outer one, so that the inner loop saturates and the correction is active; `Stack` holds a value no loop may output, so that reading it would show; one setpoint and one handoff value, which the two loops' limits turn into several |
| `cascade_setpoint` | Violated: with external feed-forward in the outer loop the inner setpoint is uninitialised. (`SetpointIsClamped`) | the smallest configuration that shows it |
| `gainsched_schedule` | Two table modes, four accepted tables of one to four breakpoints, eight refused ones, gains set in between: is the configuration in force the one the table defines, and does an update leave the rest of the controller alone, its integral too unless a resetting hard switch brings in another configuration? (`InForceIsScheduled`, `IntegralKeptInSegment`) | operating points below, at, between and above the breakpoints and NaN; four breakpoints give the bisection every path; one table's configurations leave 0 out of the integral's range |
| `autotune_run` | Runs started, restarted, timed out, completed, applied and aborted in any order on a controller the application keeps changing. (`TypeOK`, `TimeIsPartitioned`, `DriveWithinRelay`, `AbortRestoresOrigin`, `GainsAreStaged`, `RunEnds`) | a timeout of 4 samples is just enough for the shortest complete run and short enough to race it; periods 1 and 2; `FloatMax` = 10 lets one rule's results overflow and not the other's; the relay drives past the controller's own limits, which the code does not apply |
| `monitors_history` | Are the health status and the metrics what a definition over the whole sample history gives (the conditions in the reading of the header and the code), and does the callback hear of a condition once? (`StatusIsHistory`, `MetricsAreHistory`, `ConditionsLatch`) | 5 samples between restarts: the ring of 4 signs wraps, a window of 3 ends and the next begins, every threshold is reached with periods 1 and 2 |
| `filters_signal` | Is each filter's output the promised function of its samples, is nothing non-finite stored, does a fault hold the output? (`TypeOK`, `OutputIsHistory`, `ImplementsFaultLatch`) | 4 samples: a window of up to 3 wraps, a cascade of two sections fills its delays; `FloatMax` makes a growing section overflow in a delay before it does in the output |
| `trajectory_moves` | Targets, holds and resets at any time: limits, continuity, clock, arrival. (`TypeOK`, `WithinLimits`, `ClockMatchesSegments`, `Continuous`, `MovesEnd`) | period 1: a sample crosses empty segments but never spans two of positive duration, which is left to the theorems; two retargets or releases per move; short moves (no cruise), long ones (all seven segments) and empty segments; trapezoids whose ramps fill whole samples and ones whose ramps do not; distances the S-curve's grid covers exactly |
| `trajectory_overshoot` | Violated: a trapezoidal move from rest steps over its target, cruises away from it and never finishes. (`TargetEndsMove`) | one configuration and one distance: `v_max` = 4, `a_max` = 3, target 9 |
| `statefeedback_control` | Half-failed initialisations, retuned gains, overflowing estimates and covariances, faults at any step, for the three controllers. (`TypeOK`, `EstimateMatchesDesign`, `CovarianceNonNegative`, `LimitsRecovered`, `NoJumpAcrossFaults`, `ImplementsFaultLatch`) | `FloatMax` = 6: predictions and covariances overflow within a few steps; configurations that fail at each stage of an init, after each commit; a DARE that converges in 2 iterations and one that is allowed 1; a measurement noise that outweighs the rounding of the gain |
| `statefeedback_dare` | Violated: an iteration that overflows is taken as converged. (`SolvedGainIsFinite`) | the default 200 iterations, an unstable plant the input does not reach, `FloatMax` = 10: its cost overflows after a few |

Deadlock is checked in every run: some call is always possible.

### Fairness

The library has no scheduling of its own. Two liveness properties assume of
the application what its periodic task does: it keeps stepping.

- `Autotune`: `WF_vars(RunStep)`. The header asks for `ron_autotune_step` at
  every sample while a run is under way; the step may be one that is refused only
  if the task passes bad arguments, which `RunStep` does not. `RunEnds`
  allows for an application that keeps restarting the run.
- `Trajectory`: `WF_vars(Step)`. Nothing is assumed of targets, holds and
  resets; `MovesEnd` lets them interrupt a move.

## Proofs

Every theorem holds for all values of the constants that the named `ASSUME`s
of its module admit: the arguments have the types of the C parameters, NaN is
not a number, a range contains the rest position 0 and the limits the
application asks for. Each `...Proofs` module defines an inductive invariant
(`Inv`), checked with TLC on the instance of a run before it was proved, one
lemma per operation or helper, and reads its theorems off `Inv` and off what
the lemmas say of a step.

| Module | Proved | Where it is narrower than the run |
|---|---|---|
| `PidProofs` | `TypeOK`, `ConfigInForceValid`, `OutputInActuatorRange`, `RejectionIsAtomic`, `CallbackOncePerLatch`, `ImplementsFaultLatch`, `NoActuatorJump`, `LimitRecovery`, `StatusExplainsOutput`, `BumplessTransfer`: all that the runs of `Pid` check | - |
| `CascadeProofs` | `TypeOK`, `OuterIntegralBounded`, `CascadeBumpless`, `LoopsImplementLatch`, `ManualFreezesBothLoops` | the last two assume `NoExternalFeedforward` |
| `AutotuneProofs` | `TypeOK`, `TimeIsPartitioned`, `DriveWithinRelay`, `AbortRestoresOrigin`, `GainsAreStaged` | - |
| `StateFeedbackProofs` | `TypeOK`, `EstimateMatchesDesign`, `CovarianceNonNegative`, `LimitsRecovered`, `NoJumpAcrossFaults`, `ImplementsFaultLatch` | `TypeOK` assumes `SolutionsAreFinite` |
| `FiltersProofs` | `TypeOK`, `ImplementsFaultLatch`, `OutputIsHistory` | `OutputIsHistory` of every kind but the biquad |
| `TrajectoryProofs` | `TypeOK`, `WithinLimits`, `ClockMatchesSegments`, `Continuous` of both profiles | the trapezoidal profile without a hypothesis, the S-curve under `GridResolves`, its `WithinLimits` and `Continuous` under `GridExact` too |
| `SupervisionProofs` | `StatusIsHistory`, `ConditionsLatch`, `MetricsAreHistory`, `InForceIsScheduled`, `IntegralKeptInSegment`: all that the runs of `Monitors` and `GainSched` check | `InForceIsScheduled` assumes `SpansAreFinite` of the valid tables |

Three hypotheses say what the integer grid, or the range of floats, can hold.
The instances of the runs satisfy them. `GridResolves`: the jerk limit of a
valid S-curve is at most its acceleration and its speed limit, in grid units.
A ramp then lasts at least one unit of time; in the code every ramp takes a
positive time, in the model a shorter one would be rounded to none and the
cruise would divide by it. `GridExact`: the jerk limit is a multiple of 6, so
that `j * t^3 / 6` is a position of the grid; the unit of length can be chosen
so. `SpansAreFinite`: the distance between two neighbours of a gain table is
finite, which `ron_gain_sched` does not check and needs to interpolate.

Two hypotheses are refuted by runs of their own, which is why they are there.
`NoExternalFeedforward`: no loop of the cascade asks for feed-forward from the
caller, which `ron_cascade_step` cannot supply; with it the inner loop runs on
whatever was on the stack (`cascade_setpoint`), and neither loop's output is
related to the other's limits. `SolutionsAreFinite`: a solution that the
Riccati iteration reports is finite; one plant for which it is not is
`statefeedback_dare`.

### The invariants

- **PID.** `OutputInActuatorRange` is not inductive, because manual steps,
  HOLD_LAST and the rate limiter give an *earlier* output back to the
  actuator. `Sound` (in `RonLemmas`, with the range as a parameter) adds that
  the remembered output is in range, that the latched bits are detectable ones
  (so that a returned register is never mistaken for a refusal) and that an
  initialised configuration is valid with limits inside the range. Every
  operation takes a sound instance to a `Good` result, every step that is not
  refused to an `Accepted` one; the theorems follow from one or the other.
  `NoActuatorJump` needs one conjunct more: while `followed` holds, the
  actuator's value *is* the remembered output.
- **Cascade.** Both loops are `Sound`, each in its own range, and `Settled`: the
  integral is 0 or within its limits, whatever `CrossAw` adds. `InRanges`
  (what the loops hand on lies in the two ranges) is a second invariant, on top of
  the first, under `NoExternalFeedforward`.
- **Autotune.** Time is partitioned only because the phase, the crossings and
  the half-period in progress agree, every completed half-period takes
  time, the peaks are ordered while the relay runs and a configuration in use
  is valid (`Sane`). Handing the controller
  back needs `Restorable`: what was saved would be accepted now, whatever the
  application reconfigured meanwhile.
- **State feedback.** `SoundEstimator` has the covariance: non-negative in
  Joseph form, a sum of two terms that are not negative whatever the gain, and in
  the simple form with the filter's own gain where the measurement noise
  outweighs the half unit by which that gain may be rounded up
  (`NoiseOutweighsRounding`), so that `K H` does not exceed 1. `Held` relates the actuator to the
  remembered output under HOLD_LAST, across failed and repeated inits.
- **Filters.** `SoundHistory` relates the last output to the accepted samples,
  also through the refused steps, the faults and the resets between them. For
  the moving average it is `RunningMean`: the ring holds the last M samples,
  oldest first from the write index on (`Ring`), and the running sum is theirs;
  the sample that a step overwrites is then the one it subtracts, also while
  the ring still fills. A biquad's `DelayLines` are finite because a section
  gives a finite output only for finite values, so that an accepted output
  vouches for every section before it (`ThroughOne`).
- **Trajectories.** A generator may step over its target. `SteppedOver` says
  what is then true of one that has not finished: it is faster than it can brake
  in one sample, and either it is past its target by at most one sample at full
  speed or it is beyond its braking distance (`BrakesInTime`), which only grows,
  so that it never jumps back. Without it `Continuous` fails at the
  sample that puts the generator on its target. The S-curve needs two more:
  `OnTime` (the elapsed time is that of the segments done plus the time in
  this one, which is never past its end), kept through `RunSegment` by a sample
  that crosses several segments, and `OnPath` (position, velocity and
  acceleration are those of the plan's cubic at the clock), so that the limits
  are facts about seven polynomials and the last sample lands on the target.
- **Health.** `Remembers`: each timer is the time since the last change of its
  kind, each slot of the ring the sign of one of the last errors, wherever the
  write index is. With it one sample extends the status by exactly the
  conditions that hold at it.
- **Metrics.** `SoundMetrics`: the integrals are sums from the last window
  boundary on (`Integrals`), the response fields are what the samples since the
  last restart show (`Response`: first crossings, greatest overshoot, first
  sample of a long enough dwell), and the window's counter is in step with the
  length of the history (`WindowTurn`). A sample first restarts what it must
  (`Restarted`) and then adds one sample to both.
- **Gain schedule.** `ScheduleSound` (the configuration in force is the one
  looked up at the last accepted operating point, the controller is `Sound`)
  needs `LookupBrackets`: the bisection ends at the breakpoint below the operating
  point.

Recursion and sums over a history are proved without induction over data. The
least number of a set of counterexamples (`LeastNumber`) serves for the
bisection, for the sums and for the cascade of sections; the time of a range of
samples is `Total`, the cardinality of a set of units, a sum of signed values is
`Net`, the difference of two totals, and the folds of the models are shown to
equal them (`FoldIsTotal`, `FoldIsNet`).

### What the proofs corrected

Attempts that failed found these in the model or in the properties:

- `OuterIntegralBounded` was stated for an integral range that contains 0,
  which validation does not ask for.
- `CascadeBumpless` promised that the first automatic step reports no fault; an
  integral past `I_overflow_thresh` trips on that very step, so the property
  speaks of steps that report none.
- The autotuner computed gains from an ultimate gain that had already
  overflowed as if it were exact (`ResultOf` passes the overflow on), and
  took an infinite integral time for an overflow of `Ki`, which it makes zero.
- `CholeskySolve` rounded gains of the two signs differently, and the direct
  division of one measurement (`DirectSolve`) refused the infinite innovation
  covariance of a finite numerator, which gives a gain of 0.
- `NoJumpAcrossFaults` is false while the rate limiter still holds the output
  outside the limits; the premise names that case, and it is listed below.
- `MovesEnd` is false for trapezoids whose ramps are not whole samples; the
  generator itself does so (`trajectory_overshoot`).

### Only model-checked

- Liveness: `RunEnds`, `MovesEnd`.
- `OutputIsHistory` of the biquad: the difference equation it is compared with
  holds where the divisions by `One` are exact, as they are for the samples and
  sections of the run and not for all.
- The S-curve's `WithinLimits` and `Continuous` where the position is rounded
  (`GridExact` does not hold), and what the three `violation` runs show.

## Known divergences

What documents, comments or tests say and the code does not do, met while
modelling. The three that a run refutes are `findings` in `PROJECT.json`; the
properties of the passing runs are stated so that they hold in spite of the
others, and say so where it matters. Paths are below `src/regulon-c` (`SRS`,
`SADS` under `src/docs/specs`).

*Refuted by a run*

- `cascade_setpoint`: `ron_cascade_step` feeds the inner loop an uninitialised
  setpoint when the outer loop uses external feed-forward (`ron_cascade.c:118`).
- `statefeedback_dare`: a Riccati iteration that overflows is reported as
  converged (`ron_lqr.c:66`).
- `trajectory_overshoot`: a trapezoidal move from rest can step over its target
  and never finish (`ron_trajectory_trap.c:182`). With `v_max` = 4, `a_max` = 3, a
  period of 1 and a target of 9 the positions are 3, 7, 8, 12, 16 and so on. The
  move brakes from speed 4 to 1 at 8; the remaining distance of 1 is again more
  than that speed needs to brake, so it accelerates, and one sample at speed 4
  takes it to 12. The finish test asks for DECEL or a speed that one sample can
  brake (3), and finds ACCEL and 4. From there on the distance, which is
  unsigned, stays beyond the braking distance, and the generator cruises away
  at its peak speed.

*PID*

- The rate limit (SRS:460, RON-FR-025; SRS:885, "all deltas") is kept between
  outputs of the control law, not between values of the actuator: after a fault
  under ZERO or CONSTANT, after `init`, `reset` or `set_mode`, or from a history
  outside the limits (which a safe output clamps), the next output is limited
  from `u_sat_prev`, which the actuator does not hold (`ron_pid_core.c:244`).
  `NoActuatorJump` states what holds.
- After `set_limits` a fault-free step can output a value outside the limits
  (manual steps return the last output, the rate limiter starts from it:
  `ron_pid_core.c:190`, `:244`), against the postcondition at
  `ron_pid.h:131`. `LimitRecovery` states what holds.
- `ron_pid_set_mode` while a fault is latched removes FAULT from the status word
  (`ron_pid_api.c:240`) and moves the HOLD_LAST output (`:232`; SRS:679
  calls it frozen).
- The transfer to automatic ignores normalisation and stale derivative,
  trapezoidal and feed-forward history (`ron_pid_api.c:230`; SRS:515).
  `BumplessTransfer` is stated for zero error and a plain PI law.
- Conditional integration also suppresses integration that would leave the
  limit (`ron_pid_core.c:161`; SRS:492).

*Cascade*

- The correction reads SATURATED from a status word that a latched inner fault
  keeps from an earlier step (`ron_cascade.c:60`).
- The correction can raise the outer integral, which SADS:1597 says it
  reduces (`ron_cascade.c:68`). `OuterIntegralBounded` states what bounds it.
- A refused `ron_cascade_init` leaves the outer loop initialised.

*Gain scheduling, autotune*

- The relay drives past the output limits of the PID, which RON-FR-806 (SRS:1492)
  says still apply during tuning: `at_relay_output` (`ron_autotune.c:66`) gives
  bias plus or minus amplitude, and `ron_autotune_init` compares neither with the
  PID's limits. `DriveWithinRelay` states the other half of the requirement, and
  its run does drive outside the limits.
- Breakpoints further apart than the float range interpolate to a gain that
  is not finite; `ron_pid_set_config` refuses it, and the update reports
  success (`ron_gain_sched.c:251`).
- Starting a run during a run saves MANUAL, the first run's mode, as the mode
  to restore; a timeout leaves the controller in MANUAL until `abort`; a
  re-initialisation during a run drops the snapshot (`ron_autotune.c:289`).

*Monitors*

- OUTPUT_STUCK is raised by an output that has not moved, at a limit or not
  (`ron_health.c:104`, `ron_health.h:16`); RON-FR-901 (SRS:1514) asks for a
  *saturated* one and SADS:2113 for one at `u_min` or `u_max`.
- The durations of OUTPUT_STUCK, SENSOR_DROPOUT and SP_UNREACHABLE are reached
  at the sample nearest to the threshold, half a period early at most
  (`ron_health.c:79`), where SRS:1514 says "beyond" and SADS:2115 ">".
- SP_UNREACHABLE needs no setpoint step: before the first one its timer runs
  from the first sample (`ron_health.c:178`), where SADS:2127 asks for the time
  "after a setpoint step is detected".
- DIVERGING is raised by one sample that has grown (`ron_health.c:118`; so does
  SADS:2117), where SRS:1515 says "growing continuously".
- The "rolling" windows of RON-FR-952 (SRS:1560, `ron_metrics.h:21`) are
  consecutive: the results restart every `window_steps` samples
  (`ron_metrics.c:174`). `ConditionMet` and `MetricsAreHistory` state the code's
  rules.

*Filters, trajectories*

- `ron_biquad_update_notch` installs a section that `ron_biquad_init` would
  refuse (`ron_filter.c:704`).
- A trapezoidal move retargeted to the position it is passing finishes with
  its velocity kept (`ron_trajectory_trap.c:37`).
- An S-curve retargeted in motion is planned as if from rest, where
  `ron_trajectory.h:251` says that it decelerates and reverses.
- A held generator keeps reporting a velocity that is not zero
  (`ron_trajectory.h:135`).

*State feedback and helpers*

- A failed re-initialisation of a running LQR or LQG leaves it running with a
  configuration of one design and a gain or estimator of another
  (`ron_lqr.c:587`); the state-space controller does not.
- With HOLD_LAST a fault moves the actuator while the rate limiter still holds
  the output outside limits that were narrowed: the safe output is clamped, the
  remembered one is not, and the next step starts from the latter
  (`ron_lqr.c:438`).
- The simple covariance update with a fixed gain that is not the optimal one
  gives a negative covariance (`ron_kalman.c:259`). So can the filter's own gain,
  rounded to the nearest (`ron_kalman.c:194`), where the measurement noise is 0
  or much smaller than `H P H^T`, both of which `ron_kf_init` accepts.
- `P_solved` stays that of the earlier gain after `ron_lqr_set_gains`
  (`ron_lqr.c:637`); `ron_lqg.h:269` mentions an integral term LQG has not.
- `ron_util.c:14` says that 30 Newton steps converge for every finite input;
  for large ones they do not. The cube root of an S-curve (18 steps,
  `ron_trajectory_scurve.c:21`) is too large from ratios of distance to jerk of
  some ten thousand on; a short move can then be planned as one with a cruise, of
  negative duration (`:144`). The model takes exact roots.

## Not modelled

- **Rust port** (`regulon-rs`): a second implementation of the same
  requirements, to be compared with the C code rather than modelled twice.
- **Zephyr glue, umbrella header**: build integration and includes, no state.
- **`ron_pid_config_from_isa`**, larger matrix shapes and their index
  arithmetic, the series and iterations behind sine, cosine and roots:
  numerics without control state.
- Rounding: absorption of small addends in long single-precision sums (the
  autotuner's elapsed time, the moving average's running sum, the setpoint
  recovered as `e_prev + y_prev`) cannot happen on the integer grid.
- Overlapping calls on one instance, which IS_ControlLib excludes.

## Plan

The model covers the C library and most of what can be proved of it is. What
is left:

1. The S-curve off the exact grid: a bound on the rounding of `WithinLimits`.
2. The difference equation of the biquad, with a bound on the rounding of each
   section in place of exact divisions.
